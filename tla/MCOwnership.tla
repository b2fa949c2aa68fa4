---------------------------- MODULE MCOwnership ----------------------------
\* Small instances of Ownership: row ids are numbers, in the order of created_at.
EXTENDS Ownership, TLC

OneProof  == {1}
TwoProofs == {1, 2}

\* Requests in flight are interchangeable, and so are workers.
WorkerSymmetry == Permutations(Checks) \union Permutations(Schedulers)
=============================================================================
