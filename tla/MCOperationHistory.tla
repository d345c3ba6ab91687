----------------------- MODULE MCOperationHistory -----------------------
(* Small instances of OperationHistory for TLC. *)
EXTENDS OperationHistory, TLC

CONSTANTS v1, v2, o1, o2, b1, b2, k1

\* Process crashes and failing writes; or power losses, which never meet a rename
\* that an earlier process left unsynced.
Apart == {{"crash", "write", "fsync", "ledger"}, {"power_loss"}}

Symmetry == Permutations(Ops) \cup Permutations(Bases) \cup Permutations(Vaults)

=============================================================================
