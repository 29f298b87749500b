---------------------------- MODULE MCCosiBucket ----------------------------
(* CosiBucket for one name, a class with every property, one with other    *)
(* values, and the import of an existing bucket.                           *)
EXTENDS CosiBucket, TLC

Rich == [versioning |-> "Enabled", lock |-> TRUE, quota |-> 1, import |-> FALSE]

MCClasses == {Rich,
              [versioning |-> "Unversioned", lock |-> FALSE, quota |-> 2, import |-> FALSE],
              [Rich EXCEPT !.import = TRUE]}

Symmetry == Permutations(Workers)

=============================================================================
