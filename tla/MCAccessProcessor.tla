------------------------- MODULE MCAccessProcessor -------------------------
(***************************************************************************)
(* Instances of AccessProcessor: the sets of signatures and accesses the   *)
(* configurations choose from.                                             *)
(***************************************************************************)
EXTENDS AccessProcessor

CONSTANTS f, o    \* a file and an object

P(d, m) == [datum |-> d, mode |-> m]

\* At most one parameter is read.
OneRead == {<<P(f, "R"), P(o, "W")>>, <<P(f, "RW")>>, <<P(f, "W")>>}
OneReadOneDatum == {<<P(f, "R")>>, <<P(f, "RW")>>, <<P(f, "W")>>}
\* Two data read from two tasks, or twice from the same one.
TwoReads == OneRead \cup
    {<<P(o, "RW")>>, <<P(f, "R"), P(o, "RW")>>, <<P(f, "R"), P(f, "RW")>>}
Writes == {<<P(f, "W")>>, <<P(o, "RW")>>}

File(m) == [datum |-> f, mode |-> m, kind |-> "file"]
Object == [datum |-> o, mode |-> "RW", kind |-> "object"]
FileReads == {File("R")}
Objects == {Object}
SomeAccesses == {File("RW"), File("W"), Object}
NoAccesses == {}

SymmetricApps == Permutations(Apps)
=============================================================================
