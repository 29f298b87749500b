---------------------------- MODULE MCCosiAccess ----------------------------
(* CosiAccess for two accesses of one bucket, one through a legacy handle. *)
EXTENDS CosiAccess, TLC

MCRootOf == [a \in Accesses |-> IF a = "old" THEN 0 ELSE 1]

\* The class of "new" may change between two grants.
MCModesOf == [a \in Accesses |-> IF a = "new" THEN {"ro", "rw"} ELSE {"rw"}]

TwoProcesses == [w \in Workers |-> w]

Symmetry == Permutations(Workers)

OneProcess == [w \in Workers |-> "driver-0"]

=============================================================================
