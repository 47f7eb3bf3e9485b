----------------------------- MODULE TaskGraph -----------------------------
(***************************************************************************)
(* What the runtime promises the programs, without queues, threads, data   *)
(* or versions: programs generate tasks, each needing the results of tasks *)
(* generated before; a task runs once, when the tasks it needs have        *)
(* finished; a program that synchronises goes on when the tasks it awaits  *)
(* have finished.  AccessProcessor implements this specification for the   *)
(* tasks of which every read comes from one earlier task.                  *)
(***************************************************************************)
EXTENDS Naturals, Sequences

CONSTANT Programs

VARIABLES
    owner,      \* the program that generated each task, in generation order
    needs,      \* the tasks whose results each task reads
    phase,      \* how far each task is
    awaits      \* the tasks each program has stopped for

graphVars == <<owner, needs, phase, awaits>>

GraphInit ==
    /\ owner = << >>
    /\ needs = << >>
    /\ phase = << >>
    /\ awaits = [p \in Programs |-> {}]

Generate(p) ==
    /\ awaits[p] = {}
    /\ owner' = Append(owner, p)
    /\ \E results \in SUBSET (DOMAIN owner) : needs' = Append(needs, results)
    /\ phase' = Append(phase, "generated")
    /\ UNCHANGED awaits

Start(t) ==
    /\ phase[t] = "generated"
    /\ \A n \in needs[t] : phase[n] = "finished"
    /\ phase' = [phase EXCEPT ![t] = "running"]
    /\ UNCHANGED <<owner, needs, awaits>>

Finish(t) ==
    /\ phase[t] = "running"
    /\ phase' = [phase EXCEPT ![t] = "finished"]
    /\ UNCHANGED <<owner, needs, awaits>>

Synchronise(p) ==
    /\ awaits[p] = {}
    /\ \E awaited \in SUBSET (DOMAIN owner) : awaits' = [awaits EXCEPT ![p] = awaited]
    /\ UNCHANGED <<owner, needs, phase>>

GoOn(p) ==
    /\ \A t \in awaits[p] : phase[t] = "finished"
    /\ awaits' = [awaits EXCEPT ![p] = {}]
    /\ UNCHANGED <<owner, needs, phase>>

GraphNext ==
    \/ \E p \in Programs : Generate(p) \/ Synchronise(p) \/ GoOn(p)
    \/ \E t \in DOMAIN owner : Start(t) \/ Finish(t)

GraphSpec == GraphInit /\ [][GraphNext]_graphVars
=============================================================================
