------------------------------ MODULE NIOAgent ------------------------------
(***************************************************************************)
(* The transfers of an agent of the NIO adaptor (NIOAgent.java).           *)
(*                                                                         *)
(* All requests for a datum share one transfer: the first creates the list *)
(* of the datum and is queued as pending, the others join the list.  A     *)
(* pending request takes a receive slot and a connection to the node that  *)
(* has the datum.  Whether the datum, or an error, comes through it is up  *)
(* to the other node and the network; the connection may also be refused   *)
(* when it is started, and then nothing ever comes.                        *)
(*                                                                         *)
(* A request has the datum, the target (the file it is to be stored in)    *)
(* and who asked: the job and which of its parameters.  The lists are kept *)
(* as the set of all requests, each in the list of its datum, since their  *)
(* order decides nothing.  The methods below belong to one thread of the   *)
(* agent, that of its communications: an action of the agent is one event. *)
(***************************************************************************)
EXTENDS Integers, FiniteSets, Sequences, SequencesExt

CONSTANTS
    MaxReceive,    \* MAX_RECEIVE_TRANSFERS
    MaxSend,       \* MAX_SEND_TRANSFERS
    MaxRefused,    \* bound on connections that are refused
    MaxDemands     \* bound on the data other nodes demand

ASSUME AgentAssumption ==
    /\ MaxReceive \in Nat \ {0} /\ MaxSend \in Nat \ {0}
    /\ MaxRefused \in Nat /\ MaxDemands \in Nat

VARIABLES
    dataToRequests,    \* the requests in the lists of the data
    pendingRequests,   \* the requests whose transfer has not begun
    ongoingTransfers,  \* the requests whose transfer is under way
    receiveTransfers,  \* receive slots taken
    refused,           \* the requests whose connection was refused
    sendTransfers,     \* send slots taken
    sending,           \* sends under way that have a slot
    extraSends,        \* sends under way without one
    demands,           \* number of demands so far
    finish             \* whether the shutdown has been received

receiveVars == <<dataToRequests, pendingRequests, ongoingTransfers, receiveTransfers, refused>>
sendVars == <<sendTransfers, sending, extraSends, demands>>
agentVars == <<receiveVars, sendVars, finish>>

AgentInit ==
    /\ dataToRequests = {}
    /\ pendingRequests = <<>>
    /\ ongoingTransfers = {}
    /\ receiveTransfers = 0
    /\ refused = {}
    /\ sendTransfers = 0
    /\ sending = 0
    /\ extraSends = 0
    /\ demands = 0
    /\ finish = FALSE

\* requestTransfers: while there is a request and a slot, the slot is taken
\* and the connection started.  When this throws, the slot stays taken and
\* the requests for the datum in their list.
RequestTransfers(pending, ongoing, taken) ==
    LET started == IF Len(pending) < MaxReceive - taken THEN Len(pending) ELSE MaxReceive - taken
        requests == {pending[i] : i \in 1 .. started}
    IN  \E fail \in SUBSET requests :
            /\ Cardinality(refused \cup fail) =< MaxRefused
            /\ refused' = refused \cup fail
            /\ ongoingTransfers' = ongoing \cup (requests \ fail)
            /\ receiveTransfers' = taken + started
            /\ pendingRequests' = SubSeq(pending, started + 1, Len(pending))

\* addTransferRequest for the requests of a job, in the order of its parameters, and then
\* requestTransfers: a request joins the list of its datum, and a transfer is asked for with
\* the first of a datum that has no list.
FirstRequests(asked) ==
    {r \in asked : /\ \A q \in dataToRequests : q.data # r.data
                   /\ \A q \in asked : q.data = r.data => r.param <= q.param}
InOrder(requests) ==
    {s \in SetToSeqs(requests) : \A m, n \in DOMAIN s : m < n => s[m].param < s[n].param}
AddRequestsFault(asked) ==
    /\ dataToRequests' = dataToRequests \cup asked
    /\ \E new \in InOrder(asked) :
          RequestTransfers(pendingRequests \o new, ongoingTransfers, receiveTransfers)
AddRequests(asked) ==
    /\ dataToRequests' = dataToRequests \cup asked
    /\ \E new \in InOrder(FirstRequests(asked)) :
          RequestTransfers(pendingRequests \o new, ongoingTransfers, receiveTransfers)

\* A transfer ends, well or badly: its slot is free, the requests of its
\* datum are taken from their list, and other transfers may begin.
RemoveRequests(data) == {q \in dataToRequests : q.data # data}
TransferEndsFault(r) ==
    /\ r \in ongoingTransfers
    /\ dataToRequests' = RemoveRequests(r.data)
    /\ RequestTransfers(pendingRequests, ongoingTransfers \ {r}, receiveTransfers)
TransferEndsQuietFault(r) ==
    /\ r \in ongoingTransfers
    /\ dataToRequests' = RemoveRequests(r.data)
    /\ ongoingTransfers' = ongoingTransfers \ {r}
    /\ receiveTransfers' = receiveTransfers - 1
    /\ UNCHANGED <<pendingRequests, refused>>
TransferEnds(r) ==
    /\ r \in ongoingTransfers
    /\ dataToRequests' = RemoveRequests(r.data)
    /\ RequestTransfers(pendingRequests, ongoingTransfers \ {r}, receiveTransfers - 1)

\* CommandDataDemand: the datum is sent, with or without a slot; a slot for a
\* datum that is not there is never released.
SendDataFault(exists) ==
    /\ demands < MaxDemands
    /\ demands' = demands + 1
    /\ sendTransfers' = sendTransfers + 1
    /\ sending' = IF exists THEN sending + 1 ELSE sending
    /\ UNCHANGED extraSends
SendData(exists) ==
    /\ demands < MaxDemands
    /\ demands' = demands + 1
    /\ LET slot == sendTransfers < MaxSend IN
       /\ sendTransfers' = IF slot THEN sendTransfers + 1 ELSE sendTransfers
       /\ sending' = IF slot /\ exists THEN sending + 1 ELSE sending
       /\ extraSends' = IF ~slot /\ exists THEN extraSends + 1 ELSE extraSends

\* writeFinished, through a connection that has a slot, or one that has none.
ReleaseSendSlot ==
    /\ sending > 0
    /\ sending' = sending - 1
    /\ sendTransfers' = sendTransfers - 1
    /\ UNCHANGED <<extraSends, demands>>

ExtraSendEnds ==
    /\ extraSends > 0
    /\ extraSends' = extraSends - 1
    /\ UNCHANGED <<sending, sendTransfers, demands>>

\* hasPendingTransfers, after the step.
NoPendingTransfers == pendingRequests' = <<>> /\ sendTransfers' = 0 /\ receiveTransfers' = 0

\* Slots that nothing will release.
SlotsLost == refused # {} \/ sendTransfers > sending
=============================================================================
