----------------------------- MODULE MCNIOWorker -----------------------------
(***************************************************************************)
(* Instances of NIOWorker: a job that reads a file and changes another,    *)
(* one that changes a file and reads what the first one wrote, and one     *)
(* that reads a file twice, with another one between.                      *)
(***************************************************************************)
EXTENDS NIOWorker

CONSTANTS a, b, c, d, e, x, y

P(datum, target) == [data |-> datum, target |-> target]

ThreeJobs == {a, b, c}
SomeNames == {d, e, x, y}
SomeParams == a :> <<P(d, d), P(e, y)>> @@ b :> <<P(d, x), P(y, y)>> @@ c :> <<P(d, d), P(e, e), P(d, d)>>
=============================================================================
