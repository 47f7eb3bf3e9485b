------------------------ MODULE MCDataInfoProvider ------------------------
(* Model-checking instance of DataInfoProvider: identities of accesses and *)
(* applications are interchangeable, data are visited in order.            *)
EXTENDS DataInfoProvider, TLC

Identities == Permutations(Accesses) \cup Permutations(Apps)
=============================================================================
