---------------------------- MODULE CanonicalVault ----------------------------
(***************************************************************************)
(* What the server promises about one vault, with Git, the metadata file,  *)
(* operation rows, crashes and restarts hidden: a canonical history that   *)
(* only grows, one event for each growth, and proposals held for review    *)
(* that are let go only by the growth that takes them in.                  *)
(* Contract: src/architecture/contracts/safety.md; implemented by          *)
(* SyncService.                                                            *)
(***************************************************************************)
EXTENDS Naturals, Sequences

CONSTANTS
  Histories,  \* histories of commits, ordered by inclusion
  First,      \* the history of the root commit
  Slots       \* identities of review records

VARIABLES
  main,  \* the canonical history
  log,   \* the events clients follow, each with the history it announces
  held   \* what each review record holds, {} when it is not open

vars == <<main, log, held>>

Init ==
  /\ main = First
  /\ log = <<>>
  /\ held = [s \in Slots |-> {}]

\* Canonical history takes in something and says so, once.
Grow ==
  /\ main' \in Histories
  /\ main \subseteq main'
  /\ log' = Append(log, main')

Advance == Grow /\ UNCHANGED held

\* A proposal that cannot be taken in is held under a record of its own.
Hold(s) ==
  /\ held[s] = {} /\ held'[s] \in Histories \ {{}}
  /\ held' = [held EXCEPT ![s] = held'[s]]
  /\ UNCHANGED <<main, log>>

\* A review ends with canonical history taking in what was held.
Settle(s) ==
  /\ held[s] # {}
  /\ Grow /\ held[s] \subseteq main'
  /\ held' = [held EXCEPT ![s] = {}]

Next == Advance \/ \E s \in Slots : Hold(s) \/ Settle(s)

Spec == Init /\ [][Next]_vars
=============================================================================
