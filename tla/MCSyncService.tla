---------------------------- MODULE MCSyncService ----------------------------
(* Small instances of SyncService for TLC. *)
EXTENDS SyncService, TLC

\* Identifiers of commits, conflict records and operation rows of the instances.
Commits5 == 0 .. 5
Commits6 == 0 .. 6
Commits7 == 0 .. 7
TwoSlots == 1 .. 2
ThreeSlots == 1 .. 3

Symmetry == Permutations(Devices)
=============================================================================
