------------------------- MODULE SyncRecoveryProofs -------------------------
(***************************************************************************)
(* Startup recovers exactly: proofs about SyncService where the process or *)
(* the machine may stop at any step, for any number of devices, commits,   *)
(* rows, conflicts and interruptions.                                      *)
(***************************************************************************)
EXTENDS SyncServiceProofs

\* What may happen: crashes or power losses, not both; devices extend their own
\* history.  Probes, revocations and onboarding run beside the lock holder and undo
\* what the recovery relies on; see OrderlyRuns in the README.
OrderlyRuns ==
  /\ Faults \subseteq {"crash"} \/ Faults \subseteq {"power_loss"}
  /\ Requests \cap {"readiness", "revoke", "complete_onboarding"} = {}
  /\ Proposals \subseteq {"retry", "covered"}

-----------------------------------------------------------------------------
(* The inductive invariant.                                                *)

Active(o) == ops[o].status \in {"started", "prepared"}
Prepared(o) == ops[o].status = "prepared"
Open(c) == conflicts[c].status = "open"
NoReview(d) == \A c \in Conflicts : Open(c) => conflicts[c].dev # d

\* Steps of a handler at which it has a row that is not finished.
AtWork == {"validate", "import", "target", "cas", "fsync", "commit"}

\* The process stopped, and nobody has looked at the rows yet.
Interrupted == mode = "down" \/ pc = "reconcile"

\* A row's ref may have moved already.
Moving == Interrupted \/ pc \in {"fsync", "commit"}

\* The ref r may be ahead of metadata.
Lag(r) == Moving /\ \E o \in Ops : Prepared(o) /\ ops[o].ref = r

Healthy ==
  /\ gitUp /\ vault = "active" /\ pc \notin {"catch", "fail"}
  /\ pc \in StartupSteps => mode = "startup"
  /\ \A d \in Devices : status[d] # "revoked"

\* One unfinished row at a time: the handler's, or the one it left behind.
OneActive ==
  /\ \A o, p \in Ops : Active(o) /\ Active(p) => o = p
  /\ pc \in AtWork => job.op \in Ops /\ row.status = IF pc = "validate" THEN "started" ELSE "prepared"
  /\ \A o \in Ops : Active(o) => (pc \in AtWork /\ o = job.op) \/ Interrupted
  /\ pc = "reconcile" => todo = {o \in Ops : Active(o)}

\* The ref of a prepared row is where the row found it or where it moves it.
RowsAt ==
  \A o \in Ops : Prepared(o) =>
    \/ refs[ops[o].ref] = ops[o].exp
    \/ Moving /\ ops[o].tgt # None /\ refs[ops[o].ref] = ops[o].tgt

RefsRecorded ==
  /\ Lag(MainRef) \/ main = curMain
  /\ \A d \in Devices : Lag(DeviceRef(d)) \/ refs[DeviceRef(d)] = head[d]

\* The row r expects what metadata records.
Expects(r) ==
  /\ MovesMain(r) => r.exp = curMain
  /\ r.type = "device_push" =>
       /\ r.dev \in Devices /\ r.ref = DeviceRef(r.dev)
       /\ r.exp = head[r.dev] /\ NoReview(r.dev)
  /\ r.type = "conflict_refresh" =>
       /\ r.conf \in Conflicts /\ Open(r.conf) /\ r.tgt # None
       /\ r.ref = PinRef(r.conf, "current") /\ r.exp = conflicts[r.conf].main
  /\ r.type \in {"server_merge", "conflict_resolve"} =>
       r.dev \in Devices /\ r.expDev = head[r.dev] /\ r.commit = head[r.dev]
  /\ r.type = "server_merge" => NoReview(r.dev)
  /\ r.type = "conflict_resolve" =>
       r.conf \in Conflicts /\ Open(r.conf) /\ conflicts[r.conf].dev = r.dev
  /\ r.type \in {"none", "note_restore", "vault_settings", "name_repair"} => r.dev = NoDevice

RowsExpect == \A o \in Ops : Prepared(o) => Expects(ops[o])

\* The protection refs of c may still be missing.
Unprotected(c) == (pc = "pin" /\ job.conf = c) \/ Interrupted \/ (pc = "protect" /\ c \in todo)

PinsRecorded ==
  /\ pc = "protect" => \A c \in todo : c \in Conflicts /\ Open(c)
  /\ \A c \in Conflicts : \A k \in PinKinds :
       /\ conflicts[c].status = "none" => refs[PinRef(c, k)] = None
       /\ Open(c) => /\ PinValue(c, k) # None
                     /\ \/ refs[PinRef(c, k)] = PinValue(c, k)
                        \/ Unprotected(c) /\ refs[PinRef(c, k)] = None
                        \/ Lag(PinRef(c, k))

\* Every history has the root commit.
Rooted ==
  /\ 0 \in curMain /\ 0 \in main
  /\ \A d \in Devices : /\ head[d] # None => 0 \in head[d]
                        /\ refs[DeviceRef(d)] # None => 0 \in refs[DeviceRef(d)]
                        /\ waiting[d] # None => 0 \in waiting[d]
                        /\ \A t \in sent[d] : 0 \in t
  /\ \A i \in DOMAIN announced : 0 \in announced[i].main
  /\ \A o \in Ops : ops[o].type = "device_push" /\ Active(o) => 0 \in ops[o].tgt

\* A power loss can take back the ref being moved, and nothing else.
DiskExact ==
  "power_loss" \in Faults =>
    \/ disk = refs
    \/ pc = "fsync" /\ disk = [refs EXCEPT ![row.ref] = row.exp]

\* A device under review has published what is reviewed and nothing since.
ReviewHolds ==
  /\ \A c \in Conflicts : Open(c) =>
       /\ conflicts[c].dev \in Devices /\ status[conflicts[c].dev] = "review_needed"
       /\ head[conflicts[c].dev] = conflicts[c].commit
  /\ \A c, e \in Conflicts : Open(c) /\ Open(e) /\ conflicts[c].dev = conflicts[e].dev => c = e

\* The handler's variables agree with its row and with metadata.
HandlerFits ==
  /\ pc \in {"merge", "conflict"} =>
       job.dev \in Devices /\ job.commit = head[job.dev] /\ NoReview(job.dev)
  /\ pc = "conflict" => job.base # None
  /\ pc \in {"validate", "import"} => mode = "serving" /\ Relation(job.commit, deviceTip) # "divergent"
  /\ pc \in AtWork => job.dev = row.dev
  /\ pc \in AtWork /\ row.type = "device_push" =>
       job.push = job.op /\ job.commit = row.tgt /\ row.dev \in Devices /\ row.ref = DeviceRef(row.dev)
  /\ pc = "target" => row.type \notin {"device_push", "conflict_refresh"}
  /\ pc \in {"cas", "fsync", "commit"} => row.tgt # None

\* A waiting push extends what its device has published and is publishing.
WaitingFits ==
  \A d \in Devices : waiting[d] # None =>
    /\ mode = "serving" /\ Relation(waiting[d], refs[DeviceRef(d)]) # "divergent"
    /\ job.push # 0 /\ job.dev = d => job.commit \subseteq waiting[d]

Settled(d) == head[d] \subseteq curMain \/ HasOpenConflict(d, head[d])

OwedRow(d) ==
  /\ status[d] # "review_needed"
  /\ \E o \in Ops : /\ ops[o].type = "device_push" /\ ops[o].status = "committed"
                    /\ ops[o].dev = d /\ ops[o].tgt = head[d]

\* The merge of a published commit that is neither integrated nor reviewed is on record;
\* a serving process is at work on it.
MergesOwed ==
  \A d \in Devices : Settled(d) \/
    /\ OwedRow(d)
    /\ mode = "serving" =>
         /\ d = job.dev
         /\ pc \in {"merge", "conflict"} \/ (pc \in AtWork /\ row.type = "server_merge")

\* What startup and the handlers rely on.
InOrder ==
  /\ Healthy /\ OneActive /\ RowsAt /\ RefsRecorded /\ RowsExpect /\ PinsRecorded /\ Rooted
  /\ DiskExact /\ AnnouncedChain /\ ReviewHolds /\ HandlerFits /\ WaitingFits /\ MergesOwed

RecoveryInv == StoryInv /\ InOrder

-----------------------------------------------------------------------------
(* Facts about refs and rows.                                              *)

LEMMA OrderlyApart == OrderlyRuns => DurabilityFaultsApart
BY DEF OrderlyRuns, DurabilityFaultsApart

LEMMA RefsApart ==
  /\ \A d, e \in Devices : DeviceRef(d) = DeviceRef(e) => d = e
  /\ \A d \in Devices : DeviceRef(d) # MainRef
  /\ \A c \in Conflicts, k \in PinKinds : PinRef(c, k) # MainRef
  /\ \A c \in Conflicts, k \in PinKinds, d \in Devices : PinRef(c, k) # DeviceRef(d)
  /\ \A c, e \in Conflicts, k, l \in PinKinds : PinRef(c, k) = PinRef(e, l) => c = e /\ k = l
BY DEF DeviceRef, MainRef, PinRef, PinKinds

LEMMA Types ==
  ASSUME RecoveryInv
  PROVE  /\ refs \in [Refs -> Commit] /\ disk \in [Refs -> Commit] /\ curMain \in Commit
         /\ head \in [Devices -> Commit] /\ status \in [Devices -> DeviceStatus]
         /\ ops \in [Ops -> OpRow] /\ conflicts \in [Conflicts -> ConflictRecord]
         /\ job \in Job /\ waiting \in [Devices -> Commit] /\ sent \in [Devices -> SUBSET Commit]
         /\ mode \in {"down", "startup", "serving"}
         /\ announced \in Seq([prev : Commit, main : Commit])
BY DEF RecoveryInv, InOrder, StoryInv, BehindInv, Shape, TypeOK

\* The row o is finished and no other row is touched.
Finishes(o, s) ==
  /\ \A p \in Ops \ {o} : ops'[p] = ops[p]
  /\ ops'[o].status = s /\ ops'[o].type = ops[o].type /\ ops'[o].dev = ops[o].dev /\ ops'[o].tgt = ops[o].tgt

LEMMA SetOpEffect ==
  ASSUME RecoveryInv, NEW o \in Ops, NEW s, ops' = SetOp(o, s) PROVE Finishes(o, s)
BY Types DEF SetOp, Finishes, OpRow

LEMMA AbortedEffect ==
  ASSUME RecoveryInv, NEW o \in Ops, ops[o].status # "committed", ops' = Aborted(o) PROVE Finishes(o, "aborted")
BY Types DEF Aborted, Finishes, OpRow

LEMMA SetStatusEffect ==
  ASSUME RecoveryInv, NEW d, NEW s, status' = SetStatus(d, s)
  PROVE  /\ \A e \in Devices \ {d} : status'[e] = status[e]
         /\ d \in Devices => status'[d] = s
BY Types DEF SetStatus, RecoveryInv, InOrder, Healthy

NoneLeft == \A o \in Ops : ~ Active(o)

LEMMA FinishesLeavesNone ==
  ASSUME RecoveryInv, NEW o \in Ops, Active(o), NEW s \in {"committed", "aborted"}, Finishes(o, s) PROVE NoneLeft'
BY DEF RecoveryInv, InOrder, OneActive, Finishes, NoneLeft, Active

\* Where no row is left there is nothing to say about rows.
LEMMA NoneLeftSays ==
  ASSUME NoneLeft', pc' \notin AtWork, pc' = "reconcile" => todo' = {}
  PROVE  /\ OneActive' /\ RowsAt' /\ RowsExpect' /\ \A r : ~ Lag(r)'
BY DEF NoneLeft, OneActive, RowsAt, RowsExpect, Expects, Lag, Active, Prepared

\* Away from the handler's steps and the wreck of one, no row is active.
LEMMA NothingActive ==
  ASSUME RecoveryInv, pc \notin AtWork, ~ Interrupted PROVE NoneLeft
BY DEF RecoveryInv, InOrder, OneActive, NoneLeft

\* A ref that no row can have moved is where metadata says.
LEMMA AllRecorded ==
  ASSUME RecoveryInv, \A r : ~ Lag(r)
  PROVE  main = curMain /\ \A d \in Devices : refs[DeviceRef(d)] = head[d]
BY DEF RecoveryInv, InOrder, RefsRecorded

LEMMA NoLag == ASSUME ~ Moving \/ NoneLeft PROVE \A r : ~ Lag(r)
BY DEF Lag, NoneLeft, Active, Prepared

-----------------------------------------------------------------------------
(* What a step that leaves some of the state alone keeps.                  *)

\* Main and the device refs are where metadata says.
Recorded == main = curMain /\ \A d \in Devices : refs[DeviceRef(d)] = head[d]

\* Every open conflict has its three protection refs.
PinsExact == \A c \in Conflicts : \A k \in PinKinds : Open(c) => refs[PinRef(c, k)] = PinValue(c, k)

\* No ref is ahead when no handler is past its compare and swap.
LEMMA Still ==
  ASSUME RecoveryInv, ~ Moving \/ NoneLeft PROVE Recorded /\ \A r : ~ Lag(r)
BY NoLag, AllRecorded DEF Recorded

LEMMA PinsStill ==
  ASSUME RecoveryInv, ~ Moving \/ NoneLeft, ~ Interrupted, pc \notin {"pin", "protect"} PROVE PinsExact
BY Still DEF RecoveryInv, InOrder, PinsRecorded, PinsExact, Unprotected

\* A handler at its own steps is not interrupted.
LEMMA Running ==
  ASSUME RecoveryInv, pc \notin {"idle", "reconcile"} \/ mode = "serving" PROVE ~ Interrupted
BY DEF RecoveryInv, InOrder, Healthy, StoryInv, BehindInv, DownIdle, Interrupted, StartupSteps

LEMMA AwayFromWork ==
  ASSUME RecoveryInv, pc \notin AtWork, pc \notin {"idle", "reconcile"} \/ mode = "serving"
  PROVE  /\ ~ Interrupted /\ NoneLeft /\ Recorded /\ \A r : ~ Lag(r)
         /\ pc \notin {"pin", "protect"} => PinsExact
<1>1. ~ Interrupted BY Running
<1>2. NoneLeft BY <1>1, NothingActive
<1> QED BY <1>1, <1>2, Still, PinsStill

\* Before its compare and swap a handler finds everything as recorded.
LEMMA BeforeMove ==
  ASSUME RecoveryInv, pc \in {"validate", "import", "target", "cas"}
  PROVE  /\ ~ Interrupted /\ ~ Moving /\ Recorded /\ PinsExact /\ \A r : ~ Lag(r)
         /\ job.op \in Ops /\ Active(job.op)
         /\ pc # "validate" => Prepared(job.op) /\ refs[row.ref] = row.exp
<1>1. ~ Interrupted /\ ~ Moving BY Running DEF Moving
<1>2. job.op \in Ops /\ Active(job.op) /\ (pc # "validate" => Prepared(job.op))
  BY DEF RecoveryInv, InOrder, OneActive, AtWork, row, Active, Prepared
<1>3. pc # "validate" => refs[row.ref] = row.exp
  BY <1>1, <1>2 DEF RecoveryInv, InOrder, RowsAt, row
<1> QED BY <1>1, <1>2, <1>3, Still, PinsStill

\* The row a handler has moved the ref of.
LEMMA AfterMove ==
  ASSUME RecoveryInv, pc \in {"fsync", "commit"}
  PROVE  /\ ~ Interrupted /\ Moving /\ job.op \in Ops /\ Prepared(job.op)
         /\ refs[row.ref] = row.tgt /\ row.tgt # None
<1>1. ~ Interrupted BY Running
<1>2. job.op \in Ops /\ Prepared(job.op)
  BY DEF RecoveryInv, InOrder, OneActive, AtWork, row, Prepared
<1> QED BY <1>1, <1>2 DEF RecoveryInv, InOrder, HandlerFits, StoryInv, BehindInv, Moved, Moving

\* The only prepared row can be ahead.
LEMMA OneLags ==
  ASSUME RecoveryInv, NEW o \in Ops, Prepared(o)
  PROVE  /\ \A p \in Ops : Active(p) => p = o
         /\ \A r : Lag(r) => r = ops[o].ref
BY DEF RecoveryInv, InOrder, OneActive, Active, Prepared, Lag

LEMMA ChainKept == ASSUME AnnouncedChain, UNCHANGED <<curMain, announced>> PROVE AnnouncedChain'
BY DEF AnnouncedChain

LEMMA RefsKept == ASSUME Recorded, UNCHANGED <<refs, curMain, head>> PROVE RefsRecorded'
BY DEF Recorded, RefsRecorded, main

LEMMA PinsKept ==
  ASSUME RecoveryInv, PinsExact, UNCHANGED <<refs, conflicts>>, pc' = "protect" => todo' \subseteq {c \in Conflicts : Open(c)}
  PROVE  PinsRecorded'
<1>1. ASSUME NEW c \in Conflicts, NEW k \in PinKinds
      PROVE  /\ (conflicts[c].status = "none" => refs[PinRef(c, k)] = None)'
             /\ Open(c)' => (PinValue(c, k) # None /\ refs[PinRef(c, k)] = PinValue(c, k))'
  <2>1. Open(c)' = Open(c) /\ PinValue(c, k)' = PinValue(c, k) BY DEF Open, PinValue
  <2> QED BY <2>1 DEF RecoveryInv, InOrder, PinsRecorded, PinsExact
<1>2. pc' = "protect" => \A c \in todo' : c \in Conflicts /\ Open(c)' BY DEF Open
<1> QED BY <1>1, <1>2 DEF PinsRecorded

LEMMA RootedKept ==
  ASSUME Rooted, UNCHANGED <<refs, curMain, head, announced, sent>>,
         \A d \in Devices : waiting'[d] \in {waiting[d], None},
         \A o \in Ops : ops'[o].type = "device_push" /\ Active(o)' => 0 \in ops'[o].tgt
  PROVE  Rooted'
BY DEF Rooted, main

LEMMA ReviewKept ==
  ASSUME ReviewHolds, UNCHANGED <<conflicts, head>>,
         \A d \in Devices : status[d] = "review_needed" => status'[d] = "review_needed"
  PROVE  ReviewHolds'
BY DEF ReviewHolds, Open

LEMMA DiskKept == ASSUME DiskExact, UNCHANGED <<refs, disk>>, pc # "fsync" PROVE DiskExact'
BY DEF DiskExact

LEMMA WaitingKept ==
  ASSUME WaitingFits, UNCHANGED <<waiting, mode>>, \A d \in Devices : refs'[DeviceRef(d)] = refs[DeviceRef(d)],
         job'.push = job.push \/ job'.push = 0, job'.dev = job.dev \/ job'.push = 0,
         job'.commit = job.commit \/ job'.push = 0
  PROVE  WaitingFits'
BY DEF WaitingFits

LEMMA HandlerDone == ASSUME pc' \notin AtWork \cup {"merge", "conflict"} PROVE HandlerFits'
BY DEF HandlerFits, AtWork

\* A device has no open review unless its status says so.
LEMMA NotUnderReview ==
  ASSUME RecoveryInv, NEW d \in Devices, status[d] # "review_needed" PROVE NoReview(d)
BY DEF RecoveryInv, InOrder, ReviewHolds, NoReview, Open

\* A serving process owes no merge but the one it is at.
LEMMA NothingOwed ==
  ASSUME RecoveryInv, mode = "serving", pc \notin {"merge", "conflict"}, ~ (pc \in AtWork /\ row.type = "server_merge")
  PROVE  \A d \in Devices : Settled(d)
BY DEF RecoveryInv, InOrder, MergesOwed

LEMMA SettledKept ==
  ASSUME \A d \in Devices : Settled(d), UNCHANGED <<head, curMain, conflicts>> PROVE MergesOwed'
BY DEF MergesOwed, Settled, HasOpenConflict

\* Rows of published commits stay while their merge is owed.
LEMMA OwedFinishes ==
  ASSUME RecoveryInv, NEW o \in Ops, Active(o), NEW s, Finishes(o, s), NEW d \in Devices, OwedRow(d),
         head'[d] = head[d], status'[d] # "review_needed"
  PROVE  OwedRow(d)'
<1>1. PICK p \in Ops : /\ ops[p].type = "device_push" /\ ops[p].status = "committed"
                       /\ ops[p].dev = d /\ ops[p].tgt = head[d]
  BY DEF OwedRow
<1>2. p # o BY <1>1 DEF Active
<1>3. ops'[p] = ops[p] BY <1>2 DEF Finishes
<1> QED BY <1>1, <1>3 DEF OwedRow

LEMMA OwedArchived ==
  ASSUME RecoveryInv, ops' = Archived, UNCHANGED <<head, status>>, NEW d \in Devices, OwedRow(d), ~ Settled(d)
  PROVE  OwedRow(d)'
<1>1. PICK p \in Ops : /\ ops[p].type = "device_push" /\ ops[p].status = "committed"
                       /\ ops[p].dev = d /\ ops[p].tgt = head[d]
  BY DEF OwedRow
<1>2. status[d] \notin {"revoked", "review_needed"} BY DEF OwedRow, RecoveryInv, InOrder, Healthy
<1>3. PendingMergeRow(ops[p])
  BY <1>1, <1>2 DEF PendingMergeRow, PublishedRow, IsAncestor, Settled
<1>4. ops'[p] = ops[p] BY <1>3 DEF Archived
<1> QED BY <1>1, <1>4, <1>2 DEF OwedRow

LEMMA ArchivedLeavesNone == ASSUME NoneLeft, ops' = Archived PROVE NoneLeft'
BY DEF NoneLeft, Active, Archived, NoRow

\* A merge owed at startup stays on record.
LEMMA OwedKept ==
  ASSUME MergesOwed, mode' # "serving", UNCHANGED <<head, curMain, conflicts>>,
         \A d \in Devices : OwedRow(d) /\ ~ Settled(d) => OwedRow(d)'
  PROVE  MergesOwed'
BY DEF MergesOwed, Settled, HasOpenConflict

\* A step that leaves no row and both stores as they are.
LEMMA QuietStep ==
  ASSUME RecoveryInv, NoneLeft', Recorded, PinsExact, UNCHANGED <<refs, disk, curMain, head, conflicts, announced, waiting, sent>>,
         pc # "fsync", pc' \notin AtWork \cup {"protect"}, pc' = "reconcile" => todo' = {}
  PROVE  OneActive' /\ RowsAt' /\ RefsRecorded' /\ RowsExpect' /\ PinsRecorded' /\ Rooted' /\ DiskExact' /\ AnnouncedChain'
<1>1. OneActive' /\ RowsAt' /\ RowsExpect' BY NoneLeftSays
<1>2. RefsRecorded' BY RefsKept
<1>3. PinsRecorded' BY PinsKept
<1>4. Rooted' BY RootedKept DEF RecoveryInv, InOrder, NoneLeft
<1>5. DiskExact' BY DiskKept DEF RecoveryInv, InOrder
<1>6. AnnouncedChain' BY ChainKept DEF RecoveryInv, InOrder
<1> QED BY <1>1, <1>2, <1>3, <1>4, <1>5, <1>6

-----------------------------------------------------------------------------
(* The push handler.                                                       *)

\* At the first steps of a push everything is settled.
LEMMA PushStarts ==
  ASSUME RecoveryInv, pc \in {"validate", "import"}
  PROVE  /\ job.push = job.op /\ job.dev \in Devices /\ row.dev = job.dev /\ row.type = "device_push"
         /\ row.ref = DeviceRef(job.dev) /\ row.tgt = job.commit /\ job.commit # None
         /\ mode = "serving" /\ Relation(job.commit, deviceTip) # "divergent" /\ deviceTip = head[job.dev]
         /\ \A d \in Devices : Settled(d)
<1>1. /\ job.push = job.op /\ job.dev \in Devices /\ row.dev = job.dev /\ row.type = "device_push"
      /\ row.ref = DeviceRef(job.dev) /\ row.tgt = job.commit
      /\ mode = "serving" /\ Relation(job.commit, deviceTip) # "divergent"
  BY DEF RecoveryInv, InOrder, HandlerFits, AtWork, StoryInv, BehindInv, Shape, JobShape
<1>2. job.commit # None
  BY <1>1, BeforeMove, ConstantsAssumption DEF RecoveryInv, StoryInv, JobHolds
<1>3. deviceTip = head[job.dev] BY <1>1, BeforeMove DEF Recorded, deviceTip
<1>4. \A d \in Devices : Settled(d) BY <1>1, NothingOwed
<1> QED BY <1>1, <1>2, <1>3, <1>4

\* A refused push leaves nothing behind.
LEMMA RejectPushInOrder == ASSUME RecoveryInv, RejectPush PROVE InOrder'
<1> USE DEF gitVars, deviceVars, dbVars, clientVars
<1>a. /\ pc = "validate" /\ ops' = Aborted(job.push) /\ pc' = "end"
      /\ UNCHANGED <<refs, disk, gitUp, curMain, vault, head, status, conflicts, announced, mode, job, waiting, sent>>
  BY DEF RejectPush
<1>1. Finishes(job.op, "aborted")
  BY <1>a, BeforeMove, PushStarts, AbortedEffect DEF Active
<1>2. NoneLeft' BY <1>1, <1>a, BeforeMove, FinishesLeavesNone
<1>3. OneActive' /\ RowsAt' /\ RefsRecorded' /\ RowsExpect' /\ PinsRecorded' /\ Rooted' /\ DiskExact' /\ AnnouncedChain'
  BY <1>a, <1>2, BeforeMove, QuietStep DEF AtWork
<1>4. Healthy' BY <1>a DEF RecoveryInv, InOrder, Healthy, StartupSteps
<1>5. ReviewHolds' BY <1>a, ReviewKept DEF RecoveryInv, InOrder
<1>6. HandlerFits' BY <1>a, HandlerDone DEF AtWork
<1>7. WaitingFits' BY <1>a, WaitingKept DEF RecoveryInv, InOrder
<1>8. MergesOwed' BY <1>a, PushStarts, SettledKept
<1> QED BY <1>3, <1>4, <1>5, <1>6, <1>7, <1>8 DEF InOrder

\* A repeated push finds its commit integrated or under review: no merge is left over
\* from a process that is not running.
LEMMA FinishExistingEnds ==
  ASSUME RecoveryInv, FinishExisting
  PROVE  pc' = "end" /\ job' = [job EXCEPT !.ok = TRUE]
<1>p. pc = "validate" BY DEF FinishExisting
<1>f. /\ job.dev \in Devices /\ job.commit # None /\ deviceTip = head[job.dev] /\ Settled(job.dev)
  BY <1>p, PushStarts
<1>m. main = curMain BY <1>p, BeforeMove DEF Recorded
<1>1. HasOpenConflict(job.dev, job.commit) \/ IsAncestor(job.commit, main)
  <2>1. CASE head[job.dev] \subseteq curMain
    <3>1. job.commit \subseteq deviceTip BY DEF FinishExisting, Relation, IsAncestor
    <3> QED BY <2>1, <3>1, <1>f, <1>m DEF IsAncestor
  <2>2. CASE HasOpenConflict(job.dev, head[job.dev])
    <3>1. status[job.dev] = "review_needed"
      BY <2>2 DEF HasOpenConflict, RecoveryInv, InOrder, ReviewHolds, Open
    <3>2. deviceTip = job.commit BY <3>1 DEF FinishExisting, MayPublish
    <3> QED BY <3>2, <2>2, <1>f
  <2> QED BY <2>1, <2>2, <1>f DEF Settled
<1> QED BY <1>1 DEF FinishExisting

LEMMA FinishExistingInOrder == ASSUME RecoveryInv, FinishExisting PROVE InOrder'
<1> USE DEF gitVars, deviceVars, dbVars, clientVars
<1>a. /\ pc = "validate" /\ ops' = SetOp(job.push, "committed")
      /\ UNCHANGED <<refs, disk, gitUp, curMain, vault, head, status, conflicts, announced, mode, waiting, sent>>
  BY DEF FinishExisting
<1>b. pc' = "end" /\ job' = [job EXCEPT !.ok = TRUE] BY FinishExistingEnds
<1>1. Finishes(job.op, "committed") BY <1>a, BeforeMove, PushStarts, SetOpEffect
<1>2. NoneLeft' BY <1>1, <1>a, BeforeMove, FinishesLeavesNone
<1>3. OneActive' /\ RowsAt' /\ RefsRecorded' /\ RowsExpect' /\ PinsRecorded' /\ Rooted' /\ DiskExact' /\ AnnouncedChain'
  BY <1>a, <1>b, <1>2, BeforeMove, QuietStep DEF AtWork
<1>4. Healthy' BY <1>a, <1>b DEF RecoveryInv, InOrder, Healthy, StartupSteps
<1>5. ReviewHolds' BY <1>a, ReviewKept DEF RecoveryInv, InOrder
<1>6. HandlerFits' BY <1>b, HandlerDone DEF AtWork
<1>7. WaitingFits'
  <2>1. job'.push = job.push /\ job'.dev = job.dev /\ job'.commit = job.commit BY <1>b, Types DEF Job
  <2> QED BY <1>a, <2>1, WaitingKept DEF RecoveryInv, InOrder
<1>8. MergesOwed' BY <1>a, PushStarts, SettledKept
<1> QED BY <1>3, <1>4, <1>5, <1>6, <1>7, <1>8 DEF InOrder

\* The prepared row expects the published history of its device, which is not under review.
LEMMA PreparePushInOrder == ASSUME RecoveryInv, PreparePush PROVE InOrder'
<1> USE DEF gitVars, deviceVars, dbVars, clientVars
<1>a. /\ pc = "validate" /\ pc' = "import" /\ MayPublish(job.dev)
      /\ ops' = [ops EXCEPT ![job.push].status = "prepared", ![job.push].exp = deviceTip]
      /\ UNCHANGED <<refs, disk, gitUp, curMain, vault, head, status, conflicts, announced, mode, job, todo, waiting, sent>>
  BY DEF PreparePush
<1>f. /\ ~ Interrupted /\ Recorded /\ PinsExact /\ job.op \in Ops /\ Active(job.op)
  BY <1>a, BeforeMove
<1>g. /\ job.push = job.op /\ job.dev \in Devices /\ row.dev = job.dev /\ row.type = "device_push"
      /\ row.ref = DeviceRef(job.dev) /\ row.tgt = job.commit /\ job.commit # None
      /\ mode = "serving" /\ Relation(job.commit, deviceTip) # "divergent" /\ deviceTip = head[job.dev]
      /\ \A d \in Devices : Settled(d)
  BY <1>a, PushStarts
<1>r. PICK o \in Ops : o = job.op BY <1>f
<1>1. /\ \A p \in Ops \ {o} : ops'[p] = ops[p]
      /\ ops'[o].status = "prepared" /\ ops'[o].exp = head[job.dev] /\ ops'[o].type = "device_push" /\ ops'[o].dev = job.dev
      /\ ops'[o].ref = DeviceRef(job.dev) /\ ops'[o].tgt = job.commit
  BY <1>a, <1>g, <1>r, Types DEF OpRow, row
<1>2. \A p \in Ops : Active(p)' => p = o
  BY <1>1, <1>f, <1>r DEF RecoveryInv, InOrder, OneActive, Active
<1>3. NoReview(job.dev) BY <1>a, <1>g, NotUnderReview DEF MayPublish
<1>4. OneActive' BY <1>1, <1>2, <1>a, <1>r DEF OneActive, AtWork, row, Active, Interrupted
<1>5. RowsAt'
  <2> SUFFICES ASSUME NEW p \in Ops, Prepared(p)' PROVE (refs[ops[p].ref] = ops[p].exp)' BY DEF RowsAt
  <2>1. p = o BY <1>2 DEF Prepared, Active
  <2> QED BY <2>1, <1>1, <1>a, <1>f, <1>g DEF Recorded
<1>6. RefsRecorded' BY <1>a, <1>f, RefsKept
<1>7. RowsExpect'
  <2> SUFFICES ASSUME NEW p \in Ops, Prepared(p)'
      PROVE  /\ MovesMain(ops[p])' => (ops[p].exp = curMain)'
             /\ p = o /\ NoReview(job.dev)'
    BY <1>1, <1>a, <1>g DEF RowsExpect, Expects, MovesMain
  <2> QED BY <1>1, <1>2, <1>3, <1>a DEF NoReview, Open, MovesMain, Prepared, Active
<1>8. PinsRecorded' BY <1>a, <1>f, PinsKept
<1>9. Rooted'
  <2>1. \A p \in Ops : ops'[p].type = "device_push" /\ Active(p)' => 0 \in ops'[p].tgt
    BY <1>1, <1>2, <1>f, <1>r, <1>g DEF RecoveryInv, InOrder, Rooted, row
  <2> QED BY <2>1, <1>a, RootedKept DEF RecoveryInv, InOrder
<1>10. DiskExact' /\ AnnouncedChain' BY <1>a, DiskKept, ChainKept DEF RecoveryInv, InOrder
<1>11. Healthy' BY <1>a DEF RecoveryInv, InOrder, Healthy, StartupSteps
<1>12. ReviewHolds' BY <1>a, ReviewKept DEF RecoveryInv, InOrder
<1>13. HandlerFits' BY <1>a, <1>1, <1>g, <1>r DEF HandlerFits, row, deviceTip, AtWork
<1>14. WaitingFits' BY <1>a, WaitingKept DEF RecoveryInv, InOrder
<1>15. MergesOwed' BY <1>a, <1>g, SettledKept
<1> QED BY <1>4, <1>5, <1>6, <1>7, <1>8, <1>9, <1>10, <1>11, <1>12, <1>13, <1>14, <1>15 DEF InOrder

\* A device that follows its own history is not sent to review by the import.
LEMMA ImportPackInOrder == ASSUME RecoveryInv, ImportPack PROVE InOrder'
<1> USE DEF gitVars, deviceVars, dbVars, clientVars
<1>p. pc = "import" BY DEF ImportPack
<1>f. /\ ~ Interrupted /\ ~ Moving /\ Recorded /\ PinsExact /\ job.op \in Ops /\ Active(job.op)
  BY <1>p, BeforeMove
<1>g. /\ job.push = job.op /\ job.dev \in Devices /\ row.dev = job.dev /\ row.type = "device_push"
      /\ row.ref = DeviceRef(job.dev) /\ row.tgt = job.commit /\ job.commit # None
      /\ mode = "serving" /\ Relation(job.commit, deviceTip) # "divergent"
      /\ \A d \in Devices : Settled(d)
  BY <1>p, PushStarts
<1>a. /\ pc' = "cas" /\ disk' = refs
      /\ UNCHANGED <<refs, gitUp, curMain, vault, head, status, ops, conflicts, announced, mode, job, todo, waiting, sent>>
  BY <1>g DEF ImportPack
<1>4. OneActive' BY <1>a, <1>p DEF RecoveryInv, InOrder, OneActive, AtWork, row, Active, Interrupted
<1>5. RowsAt' BY <1>a, <1>f DEF RecoveryInv, InOrder, RowsAt, Prepared
<1>6. RefsRecorded' BY <1>a, <1>f, RefsKept
<1>7. RowsExpect' BY <1>a DEF RecoveryInv, InOrder, RowsExpect, Expects, Prepared, MovesMain, NoReview, Open
<1>8. PinsRecorded' BY <1>a, <1>f, PinsKept
<1>9. Rooted' BY <1>a, RootedKept DEF RecoveryInv, InOrder, Rooted, Active
<1>10. DiskExact' /\ AnnouncedChain' BY <1>a, ChainKept DEF RecoveryInv, InOrder, DiskExact
<1>11. Healthy' BY <1>a DEF RecoveryInv, InOrder, Healthy, StartupSteps
<1>12. ReviewHolds' BY <1>a, ReviewKept DEF RecoveryInv, InOrder
<1>13. HandlerFits' BY <1>a, <1>g DEF HandlerFits, row, AtWork
<1>14. WaitingFits' BY <1>a, WaitingKept DEF RecoveryInv, InOrder
<1>15. MergesOwed' BY <1>a, <1>g, SettledKept
<1> QED BY <1>4, <1>5, <1>6, <1>7, <1>8, <1>9, <1>10, <1>11, <1>12, <1>13, <1>14, <1>15 DEF InOrder

-----------------------------------------------------------------------------
(* The merge and the conflict.                                             *)

\* What the handler has in hand when it merges.
LEMMA Merging ==
  ASSUME RecoveryInv, pc \in {"merge", "conflict"}
  PROVE  /\ ~ Interrupted /\ NoneLeft /\ Recorded /\ PinsExact
         /\ job.dev \in Devices /\ job.commit = head[job.dev] /\ job.commit # None /\ NoReview(job.dev)
         /\ 0 \in job.commit /\ 0 \in main
         /\ mode = "serving" => \A d \in Devices \ {job.dev} : Settled(d)
<1>1. ~ Interrupted /\ NoneLeft /\ Recorded /\ PinsExact BY AwayFromWork DEF AtWork
<1>2. job.dev \in Devices /\ job.commit = head[job.dev] /\ NoReview(job.dev)
  BY DEF RecoveryInv, InOrder, HandlerFits
<1>3. job.commit # None BY DEF RecoveryInv, StoryInv, JobHolds
<1>4. 0 \in job.commit /\ 0 \in main BY <1>2, <1>3 DEF RecoveryInv, InOrder, Rooted
<1>5. mode = "serving" => \A d \in Devices \ {job.dev} : Settled(d)
  BY DEF RecoveryInv, InOrder, MergesOwed
<1> QED BY <1>1, <1>2, <1>3, <1>4, <1>5

\* Nothing to merge: the commit is in main.
LEMMA MergeNoopInOrder == ASSUME RecoveryInv, MergeNoop PROVE InOrder'
<1> USE DEF gitVars, deviceVars, dbVars, clientVars
<1>p. pc = "merge" BY DEF MergeNoop
<1>f. /\ ~ Interrupted /\ NoneLeft /\ Recorded /\ PinsExact
      /\ job.dev \in Devices /\ job.commit = head[job.dev] /\ NoReview(job.dev)
      /\ mode = "serving" => \A d \in Devices \ {job.dev} : Settled(d)
  BY <1>p, Merging
<1>m. IsAncestor(job.commit, main) BY <1>f DEF MergeNoop, NeedsMerge, HasOpenConflict, NoReview, Open
<1>a. /\ pc' = "end" /\ job' = [job EXCEPT !.ok = TRUE] /\ status' = SetStatus(job.dev, "synced")
      /\ UNCHANGED <<refs, disk, gitUp, curMain, vault, head, ops, conflicts, announced, mode, todo, waiting, sent>>
  BY <1>m DEF MergeNoop
<1>s. status'[job.dev] = "synced" /\ \A e \in Devices \ {job.dev} : status'[e] = status[e]
  BY <1>a, <1>f, SetStatusEffect
<1>3. OneActive' /\ RowsAt' /\ RefsRecorded' /\ RowsExpect' /\ PinsRecorded' /\ Rooted' /\ DiskExact' /\ AnnouncedChain'
  <2>1. NoneLeft' BY <1>f, <1>a DEF NoneLeft, Active
  <2> QED BY <1>a, <1>f, <1>p, <2>1, QuietStep DEF AtWork
<1>4. Healthy' BY <1>a, <1>s DEF RecoveryInv, InOrder, Healthy, StartupSteps
<1>5. ReviewHolds'
  BY <1>a, <1>s, <1>f DEF RecoveryInv, InOrder, ReviewHolds, NoReview, Open
<1>6. HandlerFits' BY <1>a, HandlerDone DEF AtWork
<1>7. WaitingFits'
  <2>1. job'.push = job.push /\ job'.dev = job.dev /\ job'.commit = job.commit BY <1>a, Types DEF Job
  <2> QED BY <1>a, <2>1, WaitingKept DEF RecoveryInv, InOrder
<1>8. MergesOwed'
  <2>1. Settled(job.dev) BY <1>f, <1>m DEF Settled, IsAncestor, Recorded
  <2>2. CASE mode = "serving" BY <2>1, <2>2, <1>f, <1>a, SettledKept
  <2>3. CASE mode # "serving"
    <3>1. \A d \in Devices : OwedRow(d) /\ ~ Settled(d) => OwedRow(d)'
      BY <2>1, <1>s, <1>a DEF OwedRow
    <3> QED BY <3>1, <2>3, <1>a, OwedKept DEF RecoveryInv, InOrder
  <2> QED BY <2>2, <2>3
<1> QED BY <1>3, <1>4, <1>5, <1>6, <1>7, <1>8 DEF InOrder

\* A conflicting merge goes on to a review that has a base.
LEMMA MergeConflictsInOrder == ASSUME RecoveryInv, MergeConflicts PROVE InOrder'
<1> USE DEF gitVars, deviceVars, dbVars, clientVars
<1>a. /\ pc = "merge" /\ pc' = "conflict" /\ job' = [job EXCEPT !.base = job.commit \cap main]
      /\ UNCHANGED <<refs, disk, gitUp, curMain, vault, head, status, ops, conflicts, announced, mode, todo, waiting, sent>>
  BY DEF MergeConflicts, MustClassify
<1>f. /\ ~ Interrupted /\ NoneLeft /\ Recorded /\ PinsExact
      /\ job.dev \in Devices /\ job.commit = head[job.dev] /\ NoReview(job.dev) /\ 0 \in job.commit /\ 0 \in main
  BY <1>a, Merging
<1>j. job'.push = job.push /\ job'.dev = job.dev /\ job'.commit = job.commit /\ job'.base = job.commit \cap main
  BY <1>a, Types DEF Job
<1>3. OneActive' /\ RowsAt' /\ RefsRecorded' /\ RowsExpect' /\ PinsRecorded' /\ Rooted' /\ DiskExact' /\ AnnouncedChain'
  <2>1. NoneLeft' BY <1>f, <1>a DEF NoneLeft, Active
  <2> QED BY <1>a, <1>f, <2>1, QuietStep DEF AtWork
<1>4. Healthy' BY <1>a DEF RecoveryInv, InOrder, Healthy, StartupSteps
<1>5. ReviewHolds' BY <1>a, ReviewKept DEF RecoveryInv, InOrder
<1>6. HandlerFits'
  <2>1. job'.base # None BY <1>j, <1>f DEF None
  <2>2. NoReview(job.dev)' BY <1>j, <1>f, <1>a DEF NoReview, Open
  <2> QED BY <1>a, <1>j, <1>f, <2>1, <2>2 DEF HandlerFits, AtWork
<1>7. WaitingFits' BY <1>a, <1>j, WaitingKept DEF RecoveryInv, InOrder
<1>8. MergesOwed'
  BY <1>a, <1>j DEF RecoveryInv, InOrder, MergesOwed, Settled, OwedRow, HasOpenConflict
<1> QED BY <1>3, <1>4, <1>5, <1>6, <1>7, <1>8 DEF InOrder

\* The tree of the merge is refused: the row is aborted before main moved.
LEMMA MergePolicyViolationInOrder == ASSUME RecoveryInv, MergePolicyViolation PROVE InOrder'
<1> USE DEF gitVars, deviceVars, dbVars, clientVars
<1>a. /\ pc = "target" /\ pc' = "conflict" /\ job' = [job EXCEPT !.base = job.commit \cap main]
      /\ row.type = "server_merge" /\ ops' = Aborted(job.op)
      /\ UNCHANGED <<refs, disk, gitUp, curMain, vault, head, status, conflicts, announced, mode, todo, waiting, sent>>
  BY DEF MergePolicyViolation, row
<1>f. /\ ~ Interrupted /\ Recorded /\ PinsExact /\ job.op \in Ops /\ Active(job.op) /\ Prepared(job.op)
  BY <1>a, BeforeMove
<1>j. job'.push = job.push /\ job'.dev = job.dev /\ job'.commit = job.commit /\ job'.base = job.commit \cap main
  BY <1>a, Types DEF Job
<1>g. /\ job.dev \in Devices /\ job.commit = head[job.dev] /\ job.commit # None /\ NoReview(job.dev)
  <2>1. row.dev = job.dev BY <1>a DEF RecoveryInv, InOrder, HandlerFits, AtWork
  <2>2. row.commit = job.commit /\ job.commit # None
    BY <1>a DEF RecoveryInv, StoryInv, JobHolds, HoldsRow
  <2>3. row.dev \in Devices /\ row.commit = head[row.dev] /\ NoReview(row.dev)
    BY <1>a, <1>f DEF RecoveryInv, InOrder, RowsExpect, Expects, row
  <2> QED BY <2>1, <2>2, <2>3
<1>h. 0 \in job.commit /\ 0 \in main BY <1>g DEF RecoveryInv, InOrder, Rooted
<1>1. Finishes(job.op, "aborted") BY <1>a, <1>f, AbortedEffect DEF Active
<1>3. OneActive' /\ RowsAt' /\ RefsRecorded' /\ RowsExpect' /\ PinsRecorded' /\ Rooted' /\ DiskExact' /\ AnnouncedChain'
  <2>1. NoneLeft' BY <1>1, <1>f, FinishesLeavesNone
  <2> QED BY <1>a, <1>f, <2>1, QuietStep DEF AtWork
<1>4. Healthy' BY <1>a DEF RecoveryInv, InOrder, Healthy, StartupSteps
<1>5. ReviewHolds' BY <1>a, ReviewKept DEF RecoveryInv, InOrder
<1>6. HandlerFits'
  <2>1. job'.base # None BY <1>j, <1>h DEF None
  <2>2. NoReview(job.dev)' BY <1>j, <1>g, <1>a DEF NoReview, Open
  <2> QED BY <1>a, <1>j, <1>g, <2>1, <2>2 DEF HandlerFits, AtWork
<1>7. WaitingFits' BY <1>a, <1>j, WaitingKept DEF RecoveryInv, InOrder
<1>8. MergesOwed'
  <2>1. \A d \in Devices : OwedRow(d) => OwedRow(d)'
    BY <1>1, <1>a, <1>f, OwedFinishes DEF OwedRow
  <2> QED BY <2>1, <1>a, <1>j DEF RecoveryInv, InOrder, MergesOwed, Settled, HasOpenConflict
<1> QED BY <1>3, <1>4, <1>5, <1>6, <1>7, <1>8 DEF InOrder

\* A new row is the only one that is not finished.
LEMMA NewRow ==
  ASSUME NoneLeft, NEW o \in Ops, \A p \in Ops \ {o} : ops'[p] = ops[p], job'.op = o, pc' \in AtWork,
         ops'[o].status = IF pc' = "validate" THEN "started" ELSE "prepared"
  PROVE  OneActive' /\ \A p \in Ops : Active(p)' => p = o
<1>1. \A p \in Ops : Active(p)' => p = o BY DEF NoneLeft, Active
<1> QED BY <1>1 DEF OneActive, AtWork, row

\* A row that is prepared where everything is recorded.
LEMMA NewRowAt ==
  ASSUME RecoveryInv, Recorded, PinsExact, NEW o \in Ops, \A p \in Ops : Active(p)' => p = o,
         UNCHANGED <<refs, disk, curMain, head, conflicts, announced, sent>>,
         \A d \in Devices : waiting'[d] \in {waiting[d], None}, pc # "fsync", pc' # "protect",
         ops'[o].status = "prepared" => refs[ops'[o].ref] = ops'[o].exp,
         ops'[o].type = "device_push" => 0 \in ops'[o].tgt
  PROVE  RowsAt' /\ RefsRecorded' /\ PinsRecorded' /\ Rooted' /\ DiskExact' /\ AnnouncedChain'
<1>1. RowsAt' BY DEF RowsAt, Prepared, Active
<1>2. RefsRecorded' BY RefsKept
<1>3. PinsRecorded' BY PinsKept
<1>4. Rooted' BY RootedKept DEF RecoveryInv, InOrder
<1>5. DiskExact' BY DiskKept DEF RecoveryInv, InOrder
<1>6. AnnouncedChain' BY ChainKept DEF RecoveryInv, InOrder
<1> QED BY <1>1, <1>2, <1>3, <1>4, <1>5, <1>6

\* A clean merge gets a row that expects main and the published commit.
LEMMA PrepareMergeInOrder == ASSUME RecoveryInv, PrepareMerge PROVE InOrder'
<1> USE DEF gitVars, deviceVars, dbVars, clientVars
<1>a. /\ pc = "merge" /\ pc' = "target"
      /\ UNCHANGED <<refs, disk, gitUp, curMain, vault, head, status, conflicts, announced, mode, todo, waiting, sent>>
  BY DEF PrepareMerge, MustClassify
<1>f. /\ ~ Interrupted /\ NoneLeft /\ Recorded /\ PinsExact
      /\ job.dev \in Devices /\ job.commit = head[job.dev] /\ NoReview(job.dev)
  BY <1>a, Merging
<1>o. PICK o \in Ops :
        /\ FreeOp(o)
        /\ ops' = [ops EXCEPT ![o] = [NoRow EXCEPT !.type = "server_merge", !.dev = job.dev,
                    !.status = "prepared", !.exp = main, !.expDev = job.commit, !.commit = job.commit]]
        /\ job' = [job EXCEPT !.op = o]
  BY DEF PrepareMerge
<1>j. job'.op = o /\ job'.push = job.push /\ job'.dev = job.dev /\ job'.commit = job.commit BY <1>o, Types DEF Job
<1>r. PICK r : r = [NoRow EXCEPT !.type = "server_merge", !.dev = job.dev,
                      !.status = "prepared", !.exp = main, !.expDev = job.commit, !.commit = job.commit]
  OBVIOUS
<1>s. /\ r.type = "server_merge" /\ r.dev = job.dev /\ r.status = "prepared" /\ r.exp = main
      /\ r.expDev = job.commit /\ r.commit = job.commit /\ r.ref = MainRef
  BY <1>r DEF NoRow
<1>e. ops' = [ops EXCEPT ![o] = r] BY <1>o, <1>r
<1>t. ops'[o] = r /\ row' = r /\ \A p \in Ops \ {o} : ops'[p] = ops[p] BY <1>e, <1>j, Types DEF row
<1>1. OneActive' /\ \A p \in Ops : Active(p)' => p = o
  BY <1>t, <1>s, <1>f, <1>j, <1>a, NewRow DEF AtWork
<1>2. RowsAt' /\ RefsRecorded' /\ PinsRecorded' /\ Rooted' /\ DiskExact' /\ AnnouncedChain'
  BY <1>1, <1>t, <1>s, <1>a, <1>f, NewRowAt DEF main
<1>3. RowsExpect'
  <2> SUFFICES ASSUME NEW p \in Ops, Prepared(p)' PROVE p = o /\ (ops[p].exp = curMain /\ NoReview(job.dev))'
    BY <1>1, <1>t, <1>s, <1>j, <1>f, <1>a DEF RowsExpect, Expects
  <2>1. p = o BY <1>1 DEF Prepared, Active
  <2> QED BY <2>1, <1>1, <1>t, <1>s, <1>a, <1>f, <1>j DEF NoReview, Open, Recorded
<1>4. Healthy' BY <1>a DEF RecoveryInv, InOrder, Healthy, StartupSteps
<1>5. ReviewHolds' BY <1>a, ReviewKept DEF RecoveryInv, InOrder
<1>6. HandlerFits' BY <1>a, <1>1, <1>t, <1>s, <1>j DEF HandlerFits, AtWork
<1>7. WaitingFits' BY <1>a, <1>j, WaitingKept DEF RecoveryInv, InOrder
<1>8. MergesOwed'
  <2>1. ASSUME NEW d \in Devices, OwedRow(d) PROVE OwedRow(d)'
    <3>1. PICK p \in Ops : /\ ops[p].type = "device_push" /\ ops[p].status = "committed"
                           /\ ops[p].dev = d /\ ops[p].tgt = head[d]
      BY <2>1 DEF OwedRow
    <3>2. p # o BY <3>1, <1>o DEF FreeOp
    <3> QED BY <3>1, <3>2, <1>1, <1>t, <1>a, <2>1 DEF OwedRow
  <2> QED BY <2>1, <1>a, <1>j, <1>1, <1>t, <1>s DEF RecoveryInv, InOrder, MergesOwed, Settled, HasOpenConflict, AtWork
<1> QED BY <1>1, <1>t, <1>2, <1>3, <1>4, <1>5, <1>6, <1>7, <1>8 DEF InOrder

\* The conflict that is recorded holds what its device has published.
LEMMA CreateConflictInOrder == ASSUME RecoveryInv, CreateConflict PROVE InOrder'
<1> USE DEF gitVars, deviceVars, dbVars, clientVars
<1>a. /\ pc = "conflict" /\ pc' = "pin" /\ status' = SetStatus(job.dev, "review_needed")
      /\ UNCHANGED <<refs, disk, gitUp, curMain, vault, head, ops, announced, mode, todo, waiting, sent>>
  BY DEF CreateConflict
<1>f. /\ ~ Interrupted /\ NoneLeft /\ Recorded /\ PinsExact
      /\ job.dev \in Devices /\ job.commit = head[job.dev] /\ job.commit # None /\ NoReview(job.dev) /\ 0 \in main
      /\ mode = "serving" => \A d \in Devices \ {job.dev} : Settled(d)
  BY <1>a, Merging
<1>b. job.base # None /\ main # None BY <1>a, <1>f DEF RecoveryInv, InOrder, HandlerFits, None
<1>c. PICK c \in Conflicts :
        /\ FreeConflict(c)
        /\ conflicts' = [conflicts EXCEPT ![c] =
             [status |-> "open", dev |-> job.dev, base |-> job.base, main |-> main, commit |-> job.commit]]
        /\ job' = [job EXCEPT !.conf = c]
  BY DEF CreateConflict
<1>j. job'.conf = c /\ job'.push = job.push /\ job'.dev = job.dev /\ job'.commit = job.commit BY <1>c, Types DEF Job
<1>d. /\ conflicts'[c] = [status |-> "open", dev |-> job.dev, base |-> job.base, main |-> main, commit |-> job.commit]
      /\ \A e \in Conflicts \ {c} : conflicts'[e] = conflicts[e]
      /\ conflicts[c].status = "none"
  BY <1>c, Types DEF FreeConflict
<1>s. status'[job.dev] = "review_needed" /\ \A e \in Devices \ {job.dev} : status'[e] = status[e]
  BY <1>a, <1>f, SetStatusEffect
<1>n. NoneLeft' BY <1>f, <1>a DEF NoneLeft, Active
<1>1. OneActive' /\ RowsAt' /\ RowsExpect' BY <1>n, <1>a, NoneLeftSays DEF AtWork
<1>2. RefsRecorded' BY <1>a, <1>f, RefsKept
<1>3. PinsRecorded'
  <2>1. \A k \in PinKinds : refs'[PinRef(c, k)] = None /\ PinValue(c, k)' # None
    BY <1>a, <1>b, <1>d, <1>f DEF RecoveryInv, InOrder, PinsRecorded, PinValue, PinKinds
  <2>2. Unprotected(c)' BY <1>a, <1>j DEF Unprotected
  <2>3. ASSUME NEW e \in Conflicts \ {c}, NEW k \in PinKinds
        PROVE  /\ (conflicts[e].status = "none" => refs[PinRef(e, k)] = None)'
               /\ Open(e)' => (PinValue(e, k) # None /\ refs[PinRef(e, k)] = PinValue(e, k))'
    <3>1. refs' = refs /\ conflicts'[e] = conflicts[e] BY <1>a, <1>d
    <3>2. Open(e)' = Open(e) /\ PinValue(e, k)' = PinValue(e, k) BY <3>1 DEF Open, PinValue
    <3>3. /\ conflicts[e].status = "none" => refs[PinRef(e, k)] = None
          /\ Open(e) => PinValue(e, k) # None /\ refs[PinRef(e, k)] = PinValue(e, k)
      BY <1>f DEF RecoveryInv, InOrder, PinsRecorded, PinsExact
    <3> QED BY <3>1, <3>2, <3>3
  <2> QED BY <2>1, <2>2, <2>3, <1>a, <1>d DEF PinsRecorded
<1>4. Rooted'
  BY <1>a, <1>n, RootedKept DEF RecoveryInv, InOrder, NoneLeft
<1>5. DiskExact' /\ AnnouncedChain' BY <1>a, DiskKept, ChainKept DEF RecoveryInv, InOrder
<1>6. Healthy' BY <1>a, <1>s DEF RecoveryInv, InOrder, Healthy, StartupSteps
<1>7. ReviewHolds'
  <2>1. ASSUME NEW e \in Conflicts, Open(e)'
        PROVE  /\ conflicts'[e].dev \in Devices /\ status'[conflicts'[e].dev] = "review_needed"
               /\ head'[conflicts'[e].dev] = conflicts'[e].commit
               /\ e # c => Open(e) /\ conflicts[e].dev # job.dev /\ conflicts'[e] = conflicts[e]
    BY <2>1, <1>a, <1>d, <1>s, <1>f DEF RecoveryInv, InOrder, ReviewHolds, NoReview, Open
  <2>2. ASSUME NEW e \in Conflicts, NEW g \in Conflicts, Open(e)', Open(g)', conflicts'[e].dev = conflicts'[g].dev PROVE e = g
    BY <2>1, <2>2, <1>d DEF RecoveryInv, InOrder, ReviewHolds
  <2> QED BY <2>1, <2>2 DEF ReviewHolds
<1>8. HandlerFits' BY <1>a, HandlerDone DEF AtWork
<1>9. WaitingFits' BY <1>a, <1>j, WaitingKept DEF RecoveryInv, InOrder
<1>10. MergesOwed'
  <2>1. Settled(job.dev)' BY <1>d, <1>a, <1>f, <1>j DEF Settled, HasOpenConflict
  <2>2. \A d \in Devices : Settled(d) => Settled(d)'
    BY <1>d, <1>a DEF Settled, HasOpenConflict
  <2>3. \A d \in Devices \ {job.dev} : OwedRow(d) => OwedRow(d)' BY <1>a, <1>s DEF OwedRow
  <2> QED BY <2>1, <2>2, <2>3, <1>a, <1>f, <1>j DEF RecoveryInv, InOrder, MergesOwed
<1> QED BY <1>1, <1>2, <1>3, <1>4, <1>5, <1>6, <1>7, <1>8, <1>9, <1>10 DEF InOrder

\* A protection ref is created; no other ref changes.
LEMMA PinConflictInOrder == ASSUME RecoveryInv, PinConflict PROVE InOrder'
<1> USE DEF gitVars, deviceVars, dbVars, clientVars
<1>a. /\ pc = "pin" /\ disk' = refs'
      /\ UNCHANGED <<gitUp, curMain, vault, head, status, ops, conflicts, announced, mode, pc, job, todo, waiting, sent>>
  BY DEF PinConflict
<1>c. job.conf \in Conflicts /\ Open(job.conf)
  BY <1>a DEF RecoveryInv, StoryInv, BehindInv, Shape, JobShape, JobHolds, Open
<1>k. PICK k \in PinKinds : refs' = [refs EXCEPT ![PinRef(job.conf, k)] = PinValue(job.conf, k)]
  <2>1. NextPin(job.conf) \in PinKinds BY DEF NextPin, PinKinds
  <2> QED BY <2>1 DEF PinConflict
<1>f. /\ ~ Interrupted /\ NoneLeft /\ Recorded /\ \A r : ~ Lag(r) BY <1>a, AwayFromWork DEF AtWork
<1>r. /\ main' = main /\ \A d \in Devices : refs'[DeviceRef(d)] = refs[DeviceRef(d)]
      /\ refs'[PinRef(job.conf, k)] = PinValue(job.conf, k)
      /\ \A c \in Conflicts, l \in PinKinds : c # job.conf \/ l # k => refs'[PinRef(c, l)] = refs[PinRef(c, l)]
  BY <1>c, <1>k, Types, RefFacts, RefsApart DEF main
<1>n. NoneLeft' BY <1>f, <1>a DEF NoneLeft, Active
<1>1. OneActive' /\ RowsAt' /\ RowsExpect' BY <1>n, <1>a, NoneLeftSays DEF AtWork
<1>2. RefsRecorded' BY <1>a, <1>f, <1>r DEF Recorded, RefsRecorded
<1>3. PinsRecorded'
  <2> SUFFICES ASSUME NEW c \in Conflicts, NEW l \in PinKinds
      PROVE  /\ (conflicts[c].status = "none" => refs[PinRef(c, l)] = None)'
             /\ Open(c)' => (PinValue(c, l) # None /\ (refs[PinRef(c, l)] = PinValue(c, l)
                                                       \/ (Unprotected(c) /\ refs[PinRef(c, l)] = None)))'
    BY <1>a DEF PinsRecorded
  <2>1. /\ conflicts[c].status = "none" => refs[PinRef(c, l)] = None
        /\ Open(c) => PinValue(c, l) # None /\ (refs[PinRef(c, l)] = PinValue(c, l)
                                                \/ (Unprotected(c) /\ refs[PinRef(c, l)] = None))
    BY <1>f DEF RecoveryInv, InOrder, PinsRecorded
  <2>2. /\ Open(c)' = Open(c) /\ PinValue(c, l)' = PinValue(c, l) /\ Unprotected(c)' = Unprotected(c)
        /\ conflicts'[c] = conflicts[c]
    BY <1>a DEF Open, PinValue, Unprotected, Interrupted
  <2>3. CASE c = job.conf /\ l = k BY <2>1, <2>2, <2>3, <1>r, <1>c DEF Open
  <2>4. CASE ~ (c = job.conf /\ l = k) BY <2>1, <2>2, <2>4, <1>r
  <2> QED BY <2>3, <2>4
<1>4. Rooted' BY <1>a, <1>r DEF RecoveryInv, InOrder, Rooted, Active
<1>5. DiskExact' /\ AnnouncedChain' BY <1>a, ChainKept DEF RecoveryInv, InOrder, DiskExact
<1>6. Healthy' BY <1>a DEF RecoveryInv, InOrder, Healthy
<1>7. ReviewHolds' BY <1>a, ReviewKept DEF RecoveryInv, InOrder
<1>8. HandlerFits' BY <1>a, HandlerDone DEF AtWork
<1>9. WaitingFits' BY <1>a, <1>r, WaitingKept DEF RecoveryInv, InOrder
<1>10. MergesOwed' BY <1>a DEF RecoveryInv, InOrder, MergesOwed, Settled, OwedRow, HasOpenConflict, AtWork
<1> QED BY <1>1, <1>2, <1>3, <1>4, <1>5, <1>6, <1>7, <1>8, <1>9, <1>10 DEF InOrder

\* All protection refs are there.
LEMMA ConflictDoneInOrder == ASSUME RecoveryInv, ConflictDone PROVE InOrder'
<1> USE DEF gitVars, deviceVars, dbVars, clientVars
<1>a. /\ pc = "pin" /\ pc' = "end" /\ job' = [job EXCEPT !.ok = TRUE] /\ Unpinned(job.conf) = {}
      /\ ops' = IF job.push # 0 THEN SetOp(job.push, "committed") ELSE ops
      /\ UNCHANGED <<refs, disk, gitUp, curMain, vault, head, status, conflicts, announced, mode, todo, waiting, sent>>
  BY DEF ConflictDone
<1>f. /\ ~ Interrupted /\ NoneLeft /\ Recorded /\ \A r : ~ Lag(r) BY <1>a, AwayFromWork DEF AtWork
<1>j. job'.push = job.push /\ job'.dev = job.dev /\ job'.commit = job.commit BY <1>a, Types DEF Job
<1>o. \A o \in Ops : ops'[o] = ops[o] \/ (Finishes(o, "committed") /\ ~ Active(o))
  <2>1. CASE job.push = 0 BY <2>1, <1>a
  <2>2. CASE job.push # 0
    <3>1. job.push \in Ops BY <2>2, Types DEF Job
    <3>2. Finishes(job.push, "committed") BY <2>2, <3>1, <1>a, SetOpEffect
    <3> QED BY <3>1, <3>2, <1>f DEF Finishes, NoneLeft
  <2> QED BY <2>1, <2>2
<1>n. NoneLeft' BY <1>o, <1>f DEF NoneLeft, Active, Finishes
<1>p. PinsExact
  <2>1. \A c \in Conflicts, k \in PinKinds : Open(c) /\ c # job.conf => refs[PinRef(c, k)] = PinValue(c, k)
    BY <1>a, <1>f DEF RecoveryInv, InOrder, PinsRecorded, Unprotected
  <2>2. \A k \in PinKinds : refs[PinRef(job.conf, k)] = PinValue(job.conf, k) BY <1>a DEF Unpinned
  <2> QED BY <2>1, <2>2 DEF PinsExact
<1>3. OneActive' /\ RowsAt' /\ RefsRecorded' /\ RowsExpect' /\ PinsRecorded' /\ Rooted' /\ DiskExact' /\ AnnouncedChain'
  BY <1>a, <1>f, <1>n, <1>p, QuietStep DEF AtWork
<1>4. Healthy' BY <1>a DEF RecoveryInv, InOrder, Healthy, StartupSteps
<1>5. ReviewHolds' BY <1>a, ReviewKept DEF RecoveryInv, InOrder
<1>6. HandlerFits' BY <1>a, HandlerDone DEF AtWork
<1>7. WaitingFits' BY <1>a, <1>j, WaitingKept DEF RecoveryInv, InOrder
<1>8. MergesOwed'
  <2>1. \A d \in Devices : OwedRow(d) => OwedRow(d)' BY <1>o, <1>a DEF OwedRow, Finishes
  <2> QED BY <2>1, <1>a DEF RecoveryInv, InOrder, MergesOwed, Settled, HasOpenConflict, AtWork
<1> QED BY <1>3, <1>4, <1>5, <1>6, <1>7, <1>8 DEF InOrder

-----------------------------------------------------------------------------
(* Requests.                                                               *)

\* A serving process that nobody has asked anything has nothing in progress.
LEMMA Idle ==
  ASSUME RecoveryInv, mode = "serving", pc = "idle"
  PROVE  ~ Interrupted /\ NoneLeft /\ Recorded /\ PinsExact /\ \A d \in Devices : Settled(d)
BY AwayFromWork, NothingOwed DEF AtWork

\* The owner's requests start with a row that expects what metadata records.
LEMMA OwnerStarts ==
  ASSUME RecoveryInv, mode = "serving", pc = "idle", NEW o \in Ops,
         \A p \in Ops \ {o} : ops'[p] = ops[p], ops'[o].status = "prepared",
         ops'[o].type \notin {"device_push", "server_merge"}, Expects(ops[o])',
         refs[ops'[o].ref] = ops'[o].exp,
         job'.op = o, job'.push = 0, job'.dev = ops'[o].dev,
         \/ pc' = "target" /\ ops'[o].type # "conflict_refresh"
         \/ pc' = "cas" /\ ops'[o].tgt # None,
         UNCHANGED <<refs, disk, gitUp, curMain, vault, head, status, conflicts, announced, mode, waiting, sent>>
  PROVE  InOrder'
<1>f. ~ Interrupted /\ NoneLeft /\ Recorded /\ PinsExact /\ \A d \in Devices : Settled(d) BY Idle
<1>1. OneActive' /\ \A p \in Ops : Active(p)' => p = o BY <1>f, NewRow DEF AtWork
<1>2. RowsAt' /\ RefsRecorded' /\ PinsRecorded' /\ Rooted' /\ DiskExact' /\ AnnouncedChain'
  BY <1>1, <1>f, NewRowAt
<1>3. RowsExpect' BY <1>1 DEF RowsExpect, Prepared, Active
<1>4. Healthy' BY DEF RecoveryInv, InOrder, Healthy, StartupSteps
<1>5. ReviewHolds' BY ReviewKept DEF RecoveryInv, InOrder
<1>6. HandlerFits' BY DEF HandlerFits, AtWork, row
<1>7. WaitingFits' BY WaitingKept DEF RecoveryInv, InOrder
<1>8. MergesOwed' BY <1>f, SettledKept
<1> QED BY <1>1, <1>2, <1>3, <1>4, <1>5, <1>6, <1>7, <1>8 DEF InOrder

\* A resolution stands for the commit under review.
LEMMA StartResolveInOrder == ASSUME RecoveryInv, NEW c \in Conflicts, StartResolve(c) PROVE InOrder'
<1> USE DEF gitVars, deviceVars, dbVars, clientVars
<1>a. /\ mode = "serving" /\ pc = "idle" /\ pc' = "target" /\ Open(c)
      /\ UNCHANGED <<refs, disk, gitUp, curMain, vault, head, status, conflicts, announced, mode, waiting, sent>>
  BY DEF StartResolve, MayRequest, Open
<1>o. PICK o \in Ops :
       /\ FreeOp(o)
       /\ ops' = [ops EXCEPT ![o] = [NoRow EXCEPT !.type = "conflict_resolve",
                    !.dev = conflicts[c].dev, !.status = "prepared", !.exp = curMain,
                    !.expDev = conflicts[c].commit, !.commit = conflicts[c].commit,
                    !.conf = c]]
       /\ job' = [NoJob EXCEPT !.dev = conflicts[c].dev, !.op = o, !.conf = c]
  BY DEF StartResolve
<1>j. job'.op = o /\ job'.push = 0 /\ job'.dev = conflicts[c].dev BY <1>o DEF NoJob
<1>r. PICK r : r = [NoRow EXCEPT !.type = "conflict_resolve",
                    !.dev = conflicts[c].dev, !.status = "prepared", !.exp = curMain,
                    !.expDev = conflicts[c].commit, !.commit = conflicts[c].commit,
                    !.conf = c]
  OBVIOUS
<1>s. /\ r.type = "conflict_resolve" /\ r.dev = conflicts[c].dev /\ r.status = "prepared" /\ r.exp = curMain
      /\ r.expDev = conflicts[c].commit /\ r.commit = conflicts[c].commit /\ r.conf = c /\ r.ref = MainRef
  BY <1>r DEF NoRow
<1>e. ops' = [ops EXCEPT ![o] = r] BY <1>o, <1>r
<1>t. ops'[o] = r /\ \A p \in Ops \ {o} : ops'[p] = ops[p] BY <1>e, Types
<1>1. Expects(ops[o])'
  BY <1>t, <1>s, <1>a DEF Expects, MovesMain, RecoveryInv, InOrder, ReviewHolds, Open
<1>2. refs[ops'[o].ref] = ops'[o].exp BY <1>t, <1>s, <1>a, Idle DEF Recorded, main
<1> QED BY <1>a, <1>j, <1>s, <1>t, <1>1, <1>2, OwnerStarts

LEMMA StartRestoreInOrder == ASSUME RecoveryInv, StartRestore PROVE InOrder'
<1> USE DEF gitVars, deviceVars, dbVars, clientVars
<1>a. /\ mode = "serving" /\ pc = "idle" /\ pc' = "target"
      /\ UNCHANGED <<refs, disk, gitUp, curMain, vault, head, status, conflicts, announced, mode, waiting, sent>>
  BY DEF StartRestore, MayRequest
<1>o. PICK o \in Ops :
       /\ FreeOp(o)
       /\ ops' = [ops EXCEPT ![o] = [NoRow EXCEPT !.type = "note_restore", !.status = "prepared", !.exp = curMain]]
       /\ job' = [NoJob EXCEPT !.op = o]
  BY DEF StartRestore
<1>j. job'.op = o /\ job'.push = 0 /\ job'.dev = NoDevice BY <1>o DEF NoJob
<1>r. PICK r : r = [NoRow EXCEPT !.type = "note_restore", !.status = "prepared", !.exp = curMain] OBVIOUS
<1>s. r.type = "note_restore" /\ r.dev = NoDevice /\ r.status = "prepared" /\ r.exp = curMain /\ r.ref = MainRef
  BY <1>r DEF NoRow
<1>e. ops' = [ops EXCEPT ![o] = r] BY <1>o, <1>r
<1>t. ops'[o] = r /\ \A p \in Ops \ {o} : ops'[p] = ops[p] BY <1>e, Types
<1>1. Expects(ops[o])' BY <1>t, <1>s, <1>a DEF Expects
<1>2. refs[ops'[o].ref] = ops'[o].exp BY <1>t, <1>s, <1>a, Idle DEF Recorded, main
<1> QED BY <1>a, <1>j, <1>s, <1>t, <1>1, <1>2, OwnerStarts

LEMMA StartMainEditInOrder ==
  ASSUME RecoveryInv, NEW type \in {"vault_settings", "name_repair"}, mode = "serving", pc = "idle", StartMainEdit(type)
  PROVE  InOrder'
<1> USE DEF gitVars, deviceVars, dbVars, clientVars
<1>a. /\ pc' = "cas"
      /\ UNCHANGED <<refs, disk, gitUp, curMain, vault, head, status, conflicts, announced, mode, waiting, sent>>
  BY DEF StartMainEdit
<1>o. PICK o \in Ops, i \in Ids :
       /\ FreeOp(o) /\ FreshId(i)
       /\ ops' = [ops EXCEPT ![o] = [NoRow EXCEPT !.type = type, !.status = "prepared",
                    !.exp = curMain, !.tgt = curMain \cup {i}]]
       /\ job' = [NoJob EXCEPT !.op = o]
  BY Zenon DEF StartMainEdit
<1>j. job'.op = o /\ job'.push = 0 /\ job'.dev = NoDevice BY <1>o DEF NoJob
<1>r. PICK r : r = [NoRow EXCEPT !.type = type, !.status = "prepared", !.exp = curMain, !.tgt = curMain \cup {i}] OBVIOUS
<1>s. r.type = type /\ r.dev = NoDevice /\ r.status = "prepared" /\ r.exp = curMain /\ r.ref = MainRef /\ r.tgt = curMain \cup {i}
  BY <1>r DEF NoRow
<1>e. ops' = [ops EXCEPT ![o] = r] BY <1>o, <1>r
<1>t. ops'[o] = r /\ \A p \in Ops \ {o} : ops'[p] = ops[p] BY <1>e, Types
<1>1. Expects(ops[o])' BY <1>t, <1>s, <1>a DEF Expects
<1>2. refs[ops'[o].ref] = ops'[o].exp BY <1>t, <1>s, <1>a, Idle DEF Recorded, main
<1>3. ops'[o].tgt # None BY <1>t, <1>s DEF None
<1> QED BY <1>a, <1>j, <1>s, <1>t, <1>1, <1>2, <1>3, OwnerStarts

\* A refresh finds the protection ref where the record says.
LEMMA StartRefreshInOrder == ASSUME RecoveryInv, NEW c \in Conflicts, StartRefresh(c) PROVE InOrder'
<1> USE DEF gitVars, deviceVars, dbVars, clientVars
<1>p. mode = "serving" /\ pc = "idle" /\ Open(c) BY DEF StartRefresh, MayRequest, Open
<1>q. refs[PinRef(c, "current")] = conflicts[c].main
  BY <1>p, Idle DEF PinsExact, PinValue, PinKinds
<1>a. /\ pc' = "cas"
      /\ UNCHANGED <<refs, disk, gitUp, curMain, vault, head, status, conflicts, announced, mode, waiting, sent>>
  BY <1>q DEF StartRefresh
<1>o. PICK o \in Ops :
       /\ FreeOp(o)
       /\ ops' = [ops EXCEPT ![o] = [NoRow EXCEPT !.type = "conflict_refresh",
                    !.dev = conflicts[c].dev, !.status = "prepared",
                    !.ref = PinRef(c, "current"), !.exp = conflicts[c].main,
                    !.tgt = curMain, !.conf = c]]
       /\ job' = [NoJob EXCEPT !.dev = conflicts[c].dev, !.op = o, !.conf = c]
  BY <1>q DEF StartRefresh
<1>j. job'.op = o /\ job'.push = 0 /\ job'.dev = conflicts[c].dev BY <1>o DEF NoJob
<1>r. PICK r : r = [NoRow EXCEPT !.type = "conflict_refresh",
                    !.dev = conflicts[c].dev, !.status = "prepared",
                    !.ref = PinRef(c, "current"), !.exp = conflicts[c].main,
                    !.tgt = curMain, !.conf = c]
  OBVIOUS
<1>s. /\ r.type = "conflict_refresh" /\ r.dev = conflicts[c].dev /\ r.status = "prepared"
      /\ r.exp = conflicts[c].main /\ r.ref = PinRef(c, "current") /\ r.tgt = curMain /\ r.conf = c
  BY <1>r DEF NoRow
<1>e. ops' = [ops EXCEPT ![o] = r] BY <1>o, <1>r
<1>t. ops'[o] = r /\ \A p \in Ops \ {o} : ops'[p] = ops[p] BY <1>e, Types
<1>3. ops'[o].tgt # None BY <1>t, <1>s DEF None, RecoveryInv, InOrder, Rooted
<1>1. Expects(ops[o])' BY <1>t, <1>s, <1>a, <1>p, <1>3 DEF Expects, MovesMain, Open
<1>2. refs[ops'[o].ref] = ops'[o].exp BY <1>t, <1>s, <1>q
<1> QED BY <1>a, <1>p, <1>j, <1>s, <1>t, <1>1, <1>2, <1>3, OwnerStarts

\* An acknowledgement writes the status of a device that is not under review.
LEMMA AcknowledgeAppliedInOrder == ASSUME RecoveryInv, NEW d \in Devices, AcknowledgeApplied(d) PROVE InOrder'
<1> USE DEF gitVars, deviceVars, dbVars, clientVars
<1>a. /\ mode = "serving" /\ pc = "idle" /\ status[d] # "review_needed"
      /\ UNCHANGED <<refs, disk, gitUp, curMain, vault, head, ops, conflicts, announced, mode, pc, job, todo, waiting, sent>>
  BY DEF AcknowledgeApplied, MayRequest
<1>s. PICK s \in {"synced", "paired"} : status' = SetStatus(d, s) BY DEF AcknowledgeApplied
<1>t. status'[d] \in {"synced", "paired"} /\ \A e \in Devices \ {d} : status'[e] = status[e] BY <1>s, SetStatusEffect
<1>f. ~ Interrupted /\ NoneLeft /\ Recorded /\ PinsExact /\ \A e \in Devices : Settled(e) BY <1>a, Idle
<1>3. OneActive' /\ RowsAt' /\ RefsRecorded' /\ RowsExpect' /\ PinsRecorded' /\ Rooted' /\ DiskExact' /\ AnnouncedChain'
  <2>1. NoneLeft' BY <1>f, <1>a DEF NoneLeft, Active
  <2> QED BY <1>a, <1>f, <2>1, QuietStep DEF AtWork
<1>4. Healthy' BY <1>a, <1>t DEF RecoveryInv, InOrder, Healthy, StartupSteps
<1>5. ReviewHolds' BY <1>a, <1>t, ReviewKept DEF RecoveryInv, InOrder
<1>6. HandlerFits' BY <1>a, HandlerDone DEF AtWork
<1>7. WaitingFits' BY <1>a, WaitingKept DEF RecoveryInv, InOrder
<1>8. MergesOwed' BY <1>a, <1>f, SettledKept
<1> QED BY <1>3, <1>4, <1>5, <1>6, <1>7, <1>8 DEF InOrder

\* A push that gets the lock extends what its device has published.
LEMMA StartPushInOrder == ASSUME RecoveryInv, NEW d \in Devices, StartPush(d) PROVE InOrder'
<1> USE DEF gitVars, deviceVars, dbVars, clientVars
<1>a. /\ mode = "serving" /\ pc = "idle" /\ pc' = "validate" /\ waiting[d] # None
      /\ waiting' = [waiting EXCEPT ![d] = None]
      /\ UNCHANGED <<refs, disk, gitUp, curMain, vault, head, status, conflicts, announced, mode, sent>>
  BY DEF StartPush
<1>o. PICK o \in Ops :
       /\ FreeOp(o)
       /\ ops' = [ops EXCEPT ![o] = [NoRow EXCEPT !.type = "device_push", !.dev = d,
                    !.status = "started", !.ref = DeviceRef(d), !.exp = head[d],
                    !.tgt = waiting[d], !.commit = waiting[d]]]
       /\ job' = [NoJob EXCEPT !.dev = d, !.commit = waiting[d], !.op = o, !.push = o]
  BY DEF StartPush
<1>j. job'.op = o /\ job'.push = o /\ job'.dev = d /\ job'.commit = waiting[d] BY <1>o DEF NoJob
<1>r. PICK r : r = [NoRow EXCEPT !.type = "device_push", !.dev = d,
                    !.status = "started", !.ref = DeviceRef(d), !.exp = head[d],
                    !.tgt = waiting[d], !.commit = waiting[d]]
  OBVIOUS
<1>s. /\ r.type = "device_push" /\ r.dev = d /\ r.status = "started" /\ r.ref = DeviceRef(d) /\ r.tgt = waiting[d]
  BY <1>r DEF NoRow
<1>e. ops' = [ops EXCEPT ![o] = r] BY <1>o, <1>r
<1>t. ops'[o] = r /\ row' = r /\ \A p \in Ops \ {o} : ops'[p] = ops[p] BY <1>e, <1>j, Types DEF row
<1>w. waiting'[d] = None /\ \A e \in Devices \ {d} : waiting'[e] = waiting[e] BY <1>a, Types
<1>f. ~ Interrupted /\ NoneLeft /\ Recorded /\ PinsExact /\ \A e \in Devices : Settled(e) BY <1>a, Idle
<1>1. OneActive' /\ \A p \in Ops : Active(p)' => p = o BY <1>t, <1>s, <1>f, <1>j, <1>a, NewRow DEF AtWork
<1>2. RowsAt' /\ RefsRecorded' /\ PinsRecorded' /\ Rooted' /\ DiskExact' /\ AnnouncedChain'
  <2>1. 0 \in ops'[o].tgt BY <1>t, <1>s, <1>a DEF RecoveryInv, InOrder, Rooted
  <2>2. ops'[o].status # "prepared" BY <1>t, <1>s
  <2>3. \A e \in Devices : waiting'[e] \in {waiting[e], None} BY <1>w
  <2> QED BY <2>1, <2>2, <2>3, <1>1, <1>a, <1>f, NewRowAt
<1>3. RowsExpect' BY <1>1, <1>t, <1>s DEF RowsExpect, Prepared, Active
<1>4. Healthy' BY <1>a DEF RecoveryInv, InOrder, Healthy, StartupSteps
<1>5. ReviewHolds' BY <1>a, ReviewKept DEF RecoveryInv, InOrder
<1>6. HandlerFits'
  <2>1. Relation(waiting[d], refs[DeviceRef(d)]) # "divergent" BY <1>a DEF RecoveryInv, InOrder, WaitingFits
  <2>2. (Relation(job.commit, deviceTip) # "divergent")' BY <2>1, <1>a, <1>j DEF deviceTip
  <2> QED BY <2>2, <1>a, <1>t, <1>s, <1>j DEF HandlerFits, AtWork
<1>7. WaitingFits'
  <2> SUFFICES ASSUME NEW e \in Devices, waiting'[e] # None
      PROVE  /\ (mode = "serving" /\ Relation(waiting[e], refs[DeviceRef(e)]) # "divergent")' /\ job'.dev # e
    BY DEF WaitingFits
  <2>1. e # d /\ waiting'[e] = waiting[e] BY <1>w
  <2> QED BY <2>1, <1>a, <1>j DEF RecoveryInv, InOrder, WaitingFits
<1>8. MergesOwed' BY <1>a, <1>f, SettledKept
<1> QED BY <1>1, <1>2, <1>3, <1>4, <1>5, <1>6, <1>7, <1>8 DEF InOrder

\* A proposal is built on what its device has published or been told.
LEMMA AuthenticatePushInOrder ==
  ASSUME RecoveryInv, OrderlyRuns, NEW d \in Devices, AuthenticatePush(d) PROVE InOrder'
<1> USE DEF gitVars, deviceVars, dbVars, clientVars
<1>a. /\ mode = "serving"
      /\ UNCHANGED <<refs, disk, gitUp, curMain, vault, head, status, applied, ops, conflicts, announced, mode, pc, job, todo>>
  BY DEF AuthenticatePush
<1>k. \A m \in KnownMains : 0 \in m BY DEF KnownMains, Root, RecoveryInv, InOrder, Rooted
<1>b. \A b \in ProposalBases(d) : 0 \in b
  BY <1>k DEF ProposalBases, RecoveryInv, InOrder, Rooted, OrderlyRuns
<1>p. \A t \in Proposable(d) : 0 \in t BY <1>k, <1>b DEF Proposable
<1>t. PICK t : /\ FollowsOwnHistory(d, t) /\ waiting' = [waiting EXCEPT ![d] = t] /\ 0 \in t
               /\ \A e \in Devices : sent'[e] \subseteq sent[e] \cup {t}
  <2>1. CASE \E t \in Proposable(d) : /\ FollowsOwnHistory(d, t) /\ waiting' = [waiting EXCEPT ![d] = t]
                                      /\ sent' = [sent EXCEPT ![d] = @ \cup {t}]
    <3>1. PICK t \in Proposable(d) : /\ FollowsOwnHistory(d, t) /\ waiting' = [waiting EXCEPT ![d] = t]
                                     /\ sent' = [sent EXCEPT ![d] = @ \cup {t}]
      BY <2>1
    <3>2. \A e \in Devices : sent'[e] \subseteq sent[e] \cup {t} BY <3>1, Types
    <3>3. 0 \in t BY <3>1, <1>p
    <3> QED BY <3>1, <3>2, <3>3
  <2>2. CASE (\E t \in sent[d] : FollowsOwnHistory(d, t) /\ waiting' = [waiting EXCEPT ![d] = t]) /\ sent' = sent
    BY <2>2 DEF RecoveryInv, InOrder, Rooted
  <2> QED BY <2>1, <2>2 DEF AuthenticatePush
<1>w. waiting'[d] = t /\ \A e \in Devices \ {d} : waiting'[e] = waiting[e] BY <1>t, Types
<1>1. Rooted' BY <1>a, <1>w, <1>t DEF RecoveryInv, InOrder, Rooted, Active, main
<1>2. WaitingFits'
  <2>1. /\ Relation(t, refs[DeviceRef(d)]) # "divergent"
        /\ job.push # 0 /\ job.dev = d => job.commit \subseteq t
    BY <1>t DEF FollowsOwnHistory, OrderlyRuns
  <2> SUFFICES ASSUME NEW e \in Devices, waiting'[e] # None
      PROVE  /\ Relation(waiting'[e], refs[DeviceRef(e)]) # "divergent"
             /\ job.push # 0 /\ job.dev = e => job.commit \subseteq waiting'[e]
    BY <1>a DEF WaitingFits
  <2>2. CASE e = d BY <2>1, <2>2, <1>w
  <2>3. CASE e # d BY <2>3, <1>w DEF RecoveryInv, InOrder, WaitingFits
  <2> QED BY <2>2, <2>3
<1>3. Healthy' /\ OneActive' /\ ReviewHolds' /\ AnnouncedChain'
  BY <1>a DEF RecoveryInv, InOrder, Healthy, OneActive, ReviewHolds, AnnouncedChain, Active, Open, Interrupted, row
<1>4. RowsAt' /\ RefsRecorded' /\ RowsExpect'
  BY <1>a DEF RecoveryInv, InOrder, RowsAt, RefsRecorded, RowsExpect, Expects, Prepared, Moving, Interrupted, Lag, main,
     MovesMain, NoReview, Open
<1>5. PinsRecorded'
  <2>1. \A c \in Conflicts : (Open(c)' = Open(c)) /\ (Unprotected(c)' = Unprotected(c)) /\ (\A k : PinValue(c, k)' = PinValue(c, k))
    BY <1>a DEF Open, Unprotected, PinValue, Interrupted
  <2>2. \A r : Lag(r)' = Lag(r) BY <1>a DEF Lag, Moving, Interrupted, Prepared
  <2> QED BY <2>1, <2>2, <1>a DEF RecoveryInv, InOrder, PinsRecorded
<1>6. DiskExact' /\ HandlerFits'
  BY <1>a DEF RecoveryInv, InOrder, DiskExact, HandlerFits, row, deviceTip, NoReview, Open
<1>7. MergesOwed'
  BY <1>a DEF RecoveryInv, InOrder, MergesOwed, Settled, OwedRow, HasOpenConflict, row
<1> QED BY <1>1, <1>2, <1>3, <1>4, <1>5, <1>6, <1>7 DEF InOrder

-----------------------------------------------------------------------------
(* Moving a ref.                                                           *)

\* The commit object becomes the target of the row.
LEMMA PrepareTargetInOrder == ASSUME RecoveryInv, PrepareTarget PROVE InOrder'
<1> USE DEF gitVars, deviceVars, dbVars, clientVars
<1>a. /\ pc = "target" /\ pc' = "cas"
      /\ UNCHANGED <<refs, disk, gitUp, curMain, vault, head, status, conflicts, announced, mode, job, todo, waiting, sent>>
  BY DEF PrepareTarget
<1>f. /\ ~ Interrupted /\ ~ Moving /\ Recorded /\ PinsExact /\ job.op \in Ops /\ Prepared(job.op) /\ refs[row.ref] = row.exp
  BY <1>a, BeforeMove
<1>r. row.type \notin {"device_push", "conflict_refresh"} BY <1>a DEF RecoveryInv, InOrder, HandlerFits
<1>t. PICK t : ops' = [ops EXCEPT ![job.op].tgt = t] /\ t # None
  <2>1. CASE \E i \in Ids : FreshId(i) /\ ops' = [ops EXCEPT ![job.op].tgt = row.exp \cup row.commit \cup {i}]
    <3>1. PICK i \in Ids : ops' = [ops EXCEPT ![job.op].tgt = row.exp \cup row.commit \cup {i}] BY <2>1
    <3>2. row.exp \cup row.commit \cup {i} # None BY DEF None
    <3> QED BY <3>1, <3>2
  <2>2. CASE CanReuseDeviceCommit(row.exp, row.commit) /\ ops' = [ops EXCEPT ![job.op].tgt = row.commit]
    <3>1. row.commit # None BY <2>2 DEF CanReuseDeviceCommit, None
    <3> QED BY <3>1, <2>2
  <2> QED BY <2>1, <2>2 DEF PrepareTarget
<1>o. PICK o \in Ops : o = job.op BY <1>f
<1>1. /\ \A p \in Ops \ {o} : ops'[p] = ops[p]
      /\ ops'[o].tgt = t /\ ops'[o].status = ops[o].status /\ ops'[o].type = ops[o].type /\ ops'[o].dev = ops[o].dev
      /\ ops'[o].ref = ops[o].ref /\ ops'[o].exp = ops[o].exp /\ ops'[o].expDev = ops[o].expDev
      /\ ops'[o].commit = ops[o].commit /\ ops'[o].conf = ops[o].conf
  BY <1>t, <1>o, Types DEF OpRow
<1>2. (\A p \in Ops : Active(p)' = Active(p)) /\ (\A p \in Ops : Active(p)' => p = o)
  BY <1>1, <1>f, <1>o DEF RecoveryInv, InOrder, OneActive, Active, Prepared
<1>3. OneActive' BY <1>1, <1>2, <1>a, <1>o, <1>f DEF RecoveryInv, InOrder, OneActive, AtWork, row, Interrupted
<1>4. RowsAt' /\ RefsRecorded' /\ PinsRecorded' /\ Rooted' /\ DiskExact' /\ AnnouncedChain'
  <2>1. ops'[o].type # "device_push" /\ refs[ops'[o].ref] = ops'[o].exp BY <1>1, <1>r, <1>f, <1>o DEF row
  <2> QED BY <2>1, <1>2, <1>a, <1>f, NewRowAt
<1>5. RowsExpect'
  <2>1. Expects(ops[o]) BY <1>f, <1>o DEF RecoveryInv, InOrder, RowsExpect
  <2>2. Expects(ops[o])' BY <2>1, <1>1, <1>a, <1>r, <1>o DEF Expects, MovesMain, NoReview, Open, row
  <2> QED BY <2>2, <1>2 DEF RowsExpect, Prepared, Active
<1>6. Healthy' BY <1>a DEF RecoveryInv, InOrder, Healthy, StartupSteps
<1>7. ReviewHolds' BY <1>a, ReviewKept DEF RecoveryInv, InOrder
<1>8. HandlerFits' BY <1>a, <1>1, <1>o, <1>t, <1>r DEF RecoveryInv, InOrder, HandlerFits, row, AtWork
<1>9. WaitingFits' BY <1>a, WaitingKept DEF RecoveryInv, InOrder
<1>10. MergesOwed'
  <2>1. row'.type = row.type BY <1>1, <1>o, <1>a DEF row
  <2>2. \A d \in Devices : OwedRow(d) => OwedRow(d)' BY <1>1, <1>a, <1>f, <1>o DEF OwedRow, Prepared
  <2> QED BY <2>1, <2>2, <1>a DEF RecoveryInv, InOrder, MergesOwed, Settled, HasOpenConflict, AtWork
<1> QED BY <1>3, <1>4, <1>5, <1>6, <1>7, <1>8, <1>9, <1>10 DEF InOrder

\* Which ref a prepared row moves.
LEMMA RowRef ==
  ASSUME RecoveryInv, NEW o \in Ops, Prepared(o)
  PROVE  /\ MovesMain(ops[o]) => ops[o].ref = MainRef
         /\ ops[o].type = "device_push" => ops[o].dev \in Devices /\ ops[o].ref = DeviceRef(ops[o].dev)
         /\ ops[o].type = "conflict_refresh" =>
              ops[o].conf \in Conflicts /\ Open(ops[o].conf) /\ ops[o].ref = PinRef(ops[o].conf, "current")
         /\ ops[o].ref \in Refs
BY Types DEF RecoveryInv, InOrder, RowsExpect, Expects, StoryInv, BehindInv, Shape, RowShape, OpRow

\* The compare and swap finds what the row expects and only this ref moves.
LEMMA UpdateRefInOrder == ASSUME RecoveryInv, UpdateRef PROVE InOrder'
<1> USE DEF gitVars, deviceVars, dbVars, clientVars
<1>p. pc = "cas" BY DEF UpdateRef
<1>f. /\ ~ Interrupted /\ ~ Moving /\ Recorded /\ PinsExact /\ job.op \in Ops /\ Prepared(job.op) /\ refs[row.ref] = row.exp
  BY <1>p, BeforeMove
<1>a. /\ pc' = "fsync" /\ refs' = [refs EXCEPT ![row.ref] = row.tgt]
      /\ UNCHANGED <<disk, gitUp, curMain, vault, head, status, ops, conflicts, announced, mode, job, todo, waiting, sent>>
  BY <1>f DEF UpdateRef
<1>o. PICK o \in Ops : o = job.op /\ Prepared(o) BY <1>f
<1>r. row = ops[o] /\ row' = ops[o] /\ ops'[o] = ops[o] /\ Prepared(o)' /\ Moving' BY <1>o, <1>a DEF row, Prepared, Moving
<1>t. ops[o].tgt # None BY <1>p, <1>r DEF RecoveryInv, InOrder, HandlerFits
<1>e. Expects(ops[o]) BY <1>o DEF RecoveryInv, InOrder, RowsExpect
<1>1. refs'[ops[o].ref] = ops[o].tgt /\ \A r \in Refs : r # ops[o].ref => refs'[r] = refs[r]
  BY <1>a, <1>r, <1>o, RowRef, Types
<1>2. OneActive' BY <1>a, <1>p DEF RecoveryInv, InOrder, OneActive, AtWork, row, Active, Interrupted
<1>3. RowsAt'
  <2>1. \A p \in Ops : Prepared(p)' => p = o BY <1>a, <1>o, OneLags DEF Prepared, Active
  <2> QED BY <2>1, <1>r, <1>t, <1>1 DEF RowsAt
<1>l. Lag(ops[o].ref)' BY <1>r DEF Lag
<1>4. RefsRecorded' BY <1>l, <1>1, <1>f, <1>a, RefFacts DEF RefsRecorded, Recorded, main
<1>5. RowsExpect' BY <1>a DEF RecoveryInv, InOrder, RowsExpect, Expects, Prepared, MovesMain, NoReview, Open
<1>6. PinsRecorded'
  <2> SUFFICES ASSUME NEW c \in Conflicts, NEW k \in PinKinds
      PROVE  /\ (conflicts[c].status = "none" => refs[PinRef(c, k)] = None)'
             /\ Open(c)' => (PinValue(c, k) # None /\ (refs[PinRef(c, k)] = PinValue(c, k) \/ Lag(PinRef(c, k))))'
    BY <1>a DEF PinsRecorded
  <2>1. /\ conflicts[c].status = "none" => refs[PinRef(c, k)] = None
        /\ Open(c) => PinValue(c, k) # None /\ refs[PinRef(c, k)] = PinValue(c, k)
    BY <1>f DEF RecoveryInv, InOrder, PinsRecorded, PinsExact
  <2>2. /\ Open(c)' = Open(c) /\ PinValue(c, k)' = PinValue(c, k) /\ conflicts'[c] = conflicts[c]
    BY <1>a DEF Open, PinValue
  <2>3. CASE PinRef(c, k) # ops[o].ref BY <2>1, <2>2, <2>3, <1>1, RefFacts
  <2>4. CASE PinRef(c, k) = ops[o].ref
    <3>1. Open(c) BY <2>4, <1>o, RowRef, RefsApart DEF MovesMain, PinKinds
    <3>2. Lag(PinRef(c, k))' BY <2>4, <1>r DEF Lag
    <3> QED BY <3>1, <3>2, <2>1, <2>2 DEF Open
  <2> QED BY <2>3, <2>4
<1>7. Rooted'
  <2>1. 0 \in main'
    <3>1. CASE MovesMain(ops[o])
      <4>1. ops[o].exp \subseteq ops[o].tgt /\ ops[o].exp = curMain
        BY <3>1, <1>t, <1>e DEF Expects, RecoveryInv, StoryInv, BehindInv, Shape, RowShape
      <4> QED BY <4>1, <3>1, <1>1, <1>o, RowRef DEF main, RecoveryInv, InOrder, Rooted
    <3>2. CASE ~ MovesMain(ops[o])
      <4>1. ops[o].ref # MainRef BY <3>2 DEF RecoveryInv, StoryInv, BehindInv, Shape, RowShape
      <4> QED BY <4>1, <1>1, RefFacts DEF main, RecoveryInv, InOrder, Rooted
    <3> QED BY <3>1, <3>2
  <2>2. ASSUME NEW d \in Devices, refs'[DeviceRef(d)] # None PROVE 0 \in refs'[DeviceRef(d)]
    <3>1. CASE DeviceRef(d) # ops[o].ref BY <3>1, <2>2, <1>1, RefFacts DEF RecoveryInv, InOrder, Rooted
    <3>2. CASE DeviceRef(d) = ops[o].ref
      <4>1. ops[o].type = "device_push" BY <3>2, <1>o, RowRef, RefsApart DEF MovesMain, PinKinds
      <4>2. 0 \in ops[o].tgt BY <4>1, <1>o DEF RecoveryInv, InOrder, Rooted, Active, Prepared
      <4> QED BY <4>2, <3>2, <1>1
    <3> QED BY <3>1, <3>2
  <2> QED BY <2>1, <2>2, <1>a DEF RecoveryInv, InOrder, Rooted, Active
<1>8. DiskExact'
  <2> SUFFICES ASSUME "power_loss" \in Faults PROVE disk' = [refs' EXCEPT ![row'.ref] = row'.exp]
    BY <1>a DEF DiskExact
  <2>1. disk = refs BY <1>p DEF RecoveryInv, InOrder, DiskExact
  <2>2. refs = [refs' EXCEPT ![ops[o].ref] = ops[o].exp]
    <3>1. refs' \in [Refs -> Commit] BY <1>a, <1>r, <1>o, Types, RowRef DEF OpRow
    <3> QED BY <3>1, <1>1, <1>f, <1>r, <1>o, Types, RowRef
  <2> QED BY <2>1, <2>2, <1>a, <1>r
<1>9. AnnouncedChain' /\ ReviewHolds' BY <1>a, ChainKept, ReviewKept DEF RecoveryInv, InOrder
<1>10. Healthy' BY <1>a DEF RecoveryInv, InOrder, Healthy, StartupSteps
<1>11. HandlerFits' BY <1>a, <1>p DEF RecoveryInv, InOrder, HandlerFits, row, AtWork
<1>12. WaitingFits'
  <2> SUFFICES ASSUME NEW d \in Devices, waiting[d] # None
      PROVE  Relation(waiting[d], refs'[DeviceRef(d)]) # "divergent"
    BY <1>a DEF RecoveryInv, InOrder, WaitingFits
  <2>1. CASE DeviceRef(d) # ops[o].ref BY <2>1, <1>1, RefFacts DEF RecoveryInv, InOrder, WaitingFits
  <2>2. CASE DeviceRef(d) = ops[o].ref
    <3>1. ops[o].type = "device_push" /\ ops[o].dev = d
      BY <2>2, <1>o, RowRef, RefsApart DEF MovesMain, PinKinds
    <3>2. job.push # 0 /\ job.dev = d /\ job.commit = ops[o].tgt
      BY <3>1, <1>p, <1>r, <1>o, ConstantsAssumption DEF RecoveryInv, InOrder, HandlerFits, AtWork
    <3>3. ops[o].tgt \subseteq waiting[d] BY <3>2 DEF RecoveryInv, InOrder, WaitingFits
    <3> QED BY <3>3, <2>2, <1>1, <1>t DEF Relation, IsAncestor
  <2> QED BY <2>1, <2>2
<1>13. MergesOwed'
  BY <1>a, <1>p, <1>r DEF RecoveryInv, InOrder, MergesOwed, Settled, OwedRow, HasOpenConflict, AtWork
<1> QED BY <1>2, <1>3, <1>4, <1>5, <1>6, <1>7, <1>8, <1>9, <1>10, <1>11, <1>12, <1>13 DEF InOrder

\* The moved ref is durable before metadata follows.
LEMMA FsyncRepositoryInOrder == ASSUME RecoveryInv, FsyncRepository PROVE InOrder'
<1> USE DEF gitVars, deviceVars, dbVars, clientVars
<1>a. /\ pc = "fsync" /\ pc' = "commit" /\ disk' = refs
      /\ UNCHANGED <<refs, gitUp, curMain, vault, head, status, ops, conflicts, announced, mode, job, todo, waiting, sent>>
  BY DEF FsyncRepository
<1>m. Moving /\ Moving' /\ (Interrupted' = Interrupted) BY <1>a DEF Moving, Interrupted
<1>l. \A r : Lag(r)' = Lag(r) BY <1>a, <1>m DEF Lag, Prepared
<1>1. OneActive' BY <1>a DEF RecoveryInv, InOrder, OneActive, AtWork, row, Active, Interrupted
<1>2. RowsAt' BY <1>a, <1>m DEF RecoveryInv, InOrder, RowsAt, Prepared
<1>3. RefsRecorded' BY <1>a, <1>l DEF RecoveryInv, InOrder, RefsRecorded, main
<1>4. RowsExpect' BY <1>a DEF RecoveryInv, InOrder, RowsExpect, Expects, Prepared, MovesMain, NoReview, Open
<1>5. PinsRecorded'
  <2>1. \A c \in Conflicts : (Open(c)' = Open(c)) /\ (Unprotected(c)' = Unprotected(c)) /\ (\A k : PinValue(c, k)' = PinValue(c, k))
    BY <1>a, <1>m DEF Open, Unprotected, PinValue
  <2> QED BY <2>1, <1>l, <1>a DEF RecoveryInv, InOrder, PinsRecorded
<1>6. Rooted' BY <1>a DEF RecoveryInv, InOrder, Rooted, Active, main
<1>7. DiskExact' /\ AnnouncedChain' /\ ReviewHolds' BY <1>a, ChainKept, ReviewKept DEF RecoveryInv, InOrder, DiskExact
<1>8. Healthy' BY <1>a DEF RecoveryInv, InOrder, Healthy, StartupSteps
<1>9. HandlerFits' BY <1>a DEF RecoveryInv, InOrder, HandlerFits, row, AtWork
<1>10. WaitingFits' BY <1>a, WaitingKept DEF RecoveryInv, InOrder
<1>11. MergesOwed'
  BY <1>a DEF RecoveryInv, InOrder, MergesOwed, Settled, OwedRow, HasOpenConflict, AtWork, row
<1> QED BY <1>1, <1>2, <1>3, <1>4, <1>5, <1>6, <1>7, <1>8, <1>9, <1>10, <1>11 DEF InOrder

\* The handler returns: rows whose merge is owed stay in the table.
LEMMA FinishInOrder == ASSUME RecoveryInv, Finish PROVE InOrder'
<1> USE DEF gitVars, deviceVars, dbVars, clientVars
<1>a. /\ pc = "end" /\ ops' = Archived /\ job' = NoJob
      /\ UNCHANGED <<refs, disk, gitUp, curMain, vault, head, status, conflicts, announced, todo, waiting, sent>>
  BY DEF Finish
<1>b. \/ mode = "serving" /\ pc' = "idle" /\ mode' = mode
      \/ mode = "startup" /\ pc' = "resume" /\ mode' = mode
      \/ mode = "startup" /\ pc' = "idle" /\ mode' = "down"
  BY DEF Finish
<1>f. ~ Interrupted /\ NoneLeft /\ Recorded /\ PinsExact BY <1>a, AwayFromWork DEF AtWork
<1>n. NoneLeft' BY <1>a, <1>f, ArchivedLeavesNone
<1>3. OneActive' /\ RowsAt' /\ RefsRecorded' /\ RowsExpect' /\ PinsRecorded' /\ Rooted' /\ DiskExact' /\ AnnouncedChain'
  BY <1>a, <1>b, <1>f, <1>n, QuietStep DEF AtWork
<1>4. Healthy' BY <1>a, <1>b DEF RecoveryInv, InOrder, Healthy, StartupSteps
<1>5. ReviewHolds' BY <1>a, ReviewKept DEF RecoveryInv, InOrder
<1>6. HandlerFits' BY <1>b, HandlerDone DEF AtWork
<1>7. WaitingFits' BY <1>a, <1>b DEF RecoveryInv, InOrder, WaitingFits, NoJob
<1>8. MergesOwed'
  <2>1. CASE mode = "serving" BY <2>1, <1>a, NothingOwed, SettledKept DEF AtWork
  <2>2. CASE mode # "serving"
    <3>1. mode' # "serving" BY <2>2, <1>b
    <3>2. \A d \in Devices : OwedRow(d) /\ ~ Settled(d) => OwedRow(d)' BY <1>a, OwedArchived
    <3> QED BY <3>1, <3>2, <1>a, OwedKept DEF RecoveryInv, InOrder
  <2> QED BY <2>1, <2>2
<1> QED BY <1>3, <1>4, <1>5, <1>6, <1>7, <1>8 DEF InOrder

-----------------------------------------------------------------------------
(* Metadata follows a moved ref, by its handler or by startup.             *)

\* A row whose ref has moved.
HasMoved(o) == Prepared(o) /\ Moving /\ ops[o].tgt # None /\ refs[ops[o].ref] = ops[o].tgt

\* Nothing else changes but where the process stands.
MetadataFollows(o) ==
  /\ ops' = SetOp(o, "committed") /\ pc' \notin AtWork \cup {"protect", "fsync"} /\ pc # "fsync"
  /\ pc' = "reconcile" => pc = "reconcile" /\ todo' = todo \ {o}
  /\ Interrupted => Interrupted'
  /\ mode' = mode /\ UNCHANGED <<refs, disk, waiting, sent>>

LEMMA FollowsLeavesNone ==
  ASSUME RecoveryInv, NEW o \in Ops, HasMoved(o), MetadataFollows(o)
  PROVE  /\ Finishes(o, "committed") /\ NoneLeft' /\ OneActive' /\ RowsAt' /\ RowsExpect'
         /\ DiskExact'
<1>1. Finishes(o, "committed") BY SetOpEffect DEF MetadataFollows
<1>2. NoneLeft' BY <1>1, FinishesLeavesNone DEF HasMoved, Active, Prepared
<1>3. pc' = "reconcile" => todo' = {}
  BY OneLags DEF RecoveryInv, InOrder, OneActive, HasMoved, MetadataFollows
<1>4. OneActive' /\ RowsAt' /\ RowsExpect' BY <1>2, <1>3, NoneLeftSays DEF MetadataFollows
<1>5. DiskExact' BY DiskKept DEF MetadataFollows, RecoveryInv, InOrder
<1> QED BY <1>1, <1>2, <1>4, <1>5

\* All refs but the moved one are recorded.
LEMMA OthersRecorded ==
  ASSUME RecoveryInv, NEW o \in Ops, HasMoved(o)
  PROVE  /\ ops[o].ref # MainRef => main = curMain
         /\ \A d \in Devices : ops[o].ref # DeviceRef(d) => refs[DeviceRef(d)] = head[d]
         /\ \A c \in Conflicts, k \in PinKinds : Open(c) /\ ops[o].ref # PinRef(c, k) =>
              refs[PinRef(c, k)] = PinValue(c, k) \/ (Unprotected(c) /\ refs[PinRef(c, k)] = None)
BY OneLags DEF HasMoved, RecoveryInv, InOrder, RefsRecorded, PinsRecorded

\* Away from a handler that is pinning, protection refs are missing only after an interruption.
LEMMA MissingPins ==
  ASSUME RecoveryInv, NEW o \in Ops, HasMoved(o), MetadataFollows(o), NEW c \in Conflicts, Unprotected(c)
  PROVE  Unprotected(c)'
<1>1. Active(o) BY DEF HasMoved, Active, Prepared
<1>2. pc \in AtWork \/ Interrupted BY <1>1 DEF RecoveryInv, InOrder, OneActive
<1>3. Interrupted BY <1>2, Running DEF Unprotected, AtWork
<1> QED BY <1>3 DEF MetadataFollows, Unprotected

\* The head of a device follows its ref.
LEMMA PushRecorded ==
  ASSUME RecoveryInv, NEW o \in Ops, HasMoved(o), MetadataFollows(o), ops[o].type = "device_push",
         head' = [head EXCEPT ![ops[o].dev] = ops[o].tgt], status' = SetStatus(ops[o].dev, "ahead"),
         UNCHANGED <<curMain, conflicts, announced>>
  PROVE  /\ OneActive' /\ RowsAt' /\ RefsRecorded' /\ RowsExpect' /\ PinsRecorded' /\ Rooted' /\ DiskExact'
         /\ AnnouncedChain' /\ ReviewHolds'
         /\ ops[o].dev \in Devices /\ head'[ops[o].dev] = ops[o].tgt
         /\ (\A d \in Devices : status'[d] # "revoked") /\ (NoReview(ops[o].dev) /\ OwedRow(ops[o].dev)')
         /\ \A d \in Devices \ {ops[o].dev} : Settled(d)' = Settled(d) /\ (OwedRow(d) => OwedRow(d)')
<1>e. Expects(ops[o]) BY DEF HasMoved, RecoveryInv, InOrder, RowsExpect
<1>d. PICK d \in Devices : d = ops[o].dev /\ ops[o].ref = DeviceRef(d) /\ NoReview(d) BY <1>e DEF Expects
<1>k. Finishes(o, "committed") /\ NoneLeft' /\ OneActive' /\ RowsAt' /\ RowsExpect' /\ DiskExact' BY FollowsLeavesNone
<1>h. head'[d] = ops[o].tgt /\ \A e \in Devices \ {d} : head'[e] = head[e] BY <1>d, Types
<1>s. status'[d] = "ahead" /\ \A e \in Devices \ {d} : status'[e] = status[e] BY <1>d, SetStatusEffect
<1>1. RefsRecorded'
  <2>1. main = curMain BY <1>d, OthersRecorded, RefFacts
  <2>2. \A e \in Devices \ {d} : refs[DeviceRef(e)] = head[e] BY <1>d, OthersRecorded, RefsApart
  <2> QED BY <2>1, <2>2, <1>h, <1>d DEF RefsRecorded, HasMoved, MetadataFollows, main
<1>2. PinsRecorded'
  <2>1. ASSUME NEW c \in Conflicts, NEW k \in PinKinds
        PROVE  /\ (conflicts[c].status = "none" => refs[PinRef(c, k)] = None)'
               /\ Open(c)' => (PinValue(c, k) # None /\ (refs[PinRef(c, k)] = PinValue(c, k)
                                                         \/ (Unprotected(c) /\ refs[PinRef(c, k)] = None)))'
    <3>1. Open(c)' = Open(c) /\ PinValue(c, k)' = PinValue(c, k) BY DEF Open, PinValue
    <3>2. Open(c) => refs[PinRef(c, k)] = PinValue(c, k) \/ (Unprotected(c) /\ refs[PinRef(c, k)] = None)
      BY <1>d, OthersRecorded, RefsApart
    <3> QED BY <3>1, <3>2, MissingPins DEF RecoveryInv, InOrder, PinsRecorded, MetadataFollows
  <2> QED BY <2>1 DEF PinsRecorded, MetadataFollows
<1>3. Rooted'
  <2>1. 0 \in ops[o].tgt BY DEF RecoveryInv, InOrder, Rooted, HasMoved, Active, Prepared
  <2> QED BY <2>1, <1>h, <1>k DEF RecoveryInv, InOrder, Rooted, NoneLeft, MetadataFollows, main
<1>4. AnnouncedChain' BY ChainKept DEF RecoveryInv, InOrder
<1>5. ReviewHolds'
  BY <1>h, <1>s, <1>d DEF RecoveryInv, InOrder, ReviewHolds, NoReview, Open
<1>6. \A e \in Devices : status'[e] # "revoked" BY <1>s DEF RecoveryInv, InOrder, Healthy
<1>7. OwedRow(d)' BY <1>s, <1>h, <1>k, <1>d DEF OwedRow, Finishes
<1>8. \A e \in Devices \ {d} : Settled(e)' = Settled(e) BY <1>h DEF Settled, HasOpenConflict
<1>9. ASSUME NEW e \in Devices \ {d}, OwedRow(e) PROVE OwedRow(e)'
  <2>1. status'[e] # "review_needed" BY <1>9, <1>s DEF OwedRow
  <2>2. Active(o) BY DEF HasMoved, Active, Prepared
  <2> QED BY <2>1, <2>2, <1>9, <1>h, <1>k, OwedFinishes
<1>10. OwedRow(ops[o].dev)'
  <2>1. ops'[o].dev = d BY <1>k, <1>d DEF Finishes
  <2> QED BY <2>1, <1>7
<1> QED BY <1>k, <1>1, <1>2, <1>3, <1>4, <1>5, <1>6, <1>10, <1>8, <1>9, <1>d, <1>h

\* An advance from current_main prolongs the chain of events.
LEMMA ChainGrows ==
  ASSUME RecoveryInv, NEW m \in Commit, IsAncestor(curMain, m), curMain' = m, announced' = Announce(curMain, m)
  PROVE  AnnouncedChain' /\ \A i \in DOMAIN announced' : announced'[i].main = m \/ (i \in DOMAIN announced /\ announced'[i] = announced[i])
<1>1. PICK n \in Nat : n = Len(announced) BY Types
<1>2. DOMAIN announced = 1..n BY <1>1, Types, LenProperties
<1>3. PICK e : e = [prev |-> curMain, main |-> m] OBVIOUS
<1>4. e \in [prev : Commit, main : Commit] BY <1>3, Types
<1>5. announced' = Append(announced, e) BY <1>3 DEF Announce
<1>6. /\ announced' \in Seq([prev : Commit, main : Commit]) /\ Len(announced') = n + 1
      /\ \A i \in 1..n : announced'[i] = announced[i]
      /\ announced'[n + 1] = e
  BY <1>1, <1>4, <1>5, Types, AppendProperties
<1>7. DOMAIN announced' = 1..n + 1 BY <1>6
<1>8. e.prev = curMain /\ e.main = m BY <1>3
<1>c. /\ \A i \in 1..n : /\ announced[i].prev = IF i = 1 THEN Root ELSE announced[i - 1].main
                         /\ IsAncestor(announced[i].prev, announced[i].main)
      /\ curMain = IF n = 0 THEN Root ELSE announced[n].main
  <2>1. (announced = <<>>) = (n = 0) BY <1>1, <1>2, Types, EmptySeq
  <2> QED BY <2>1, <1>1, <1>2 DEF RecoveryInv, InOrder, AnnouncedChain
<1>9. ASSUME NEW i \in 1..n + 1
      PROVE  /\ announced'[i].prev = IF i = 1 THEN Root ELSE announced'[i - 1].main
             /\ IsAncestor(announced'[i].prev, announced'[i].main)
  <2>1. CASE i = n + 1
    <3>1. announced'[i] = e BY <2>1, <1>6
    <3>2. n # 0 => announced'[i - 1] = announced[n] BY <2>1, <1>6
    <3> QED BY <2>1, <3>1, <3>2, <1>8, <1>c
  <2>2. CASE i # n + 1
    <3>1. i \in 1..n /\ announced'[i] = announced[i] BY <2>2, <1>6
    <3>2. i # 1 => announced'[i - 1] = announced[i - 1] BY <3>1, <1>6
    <3> QED BY <3>1, <3>2, <1>c
  <2> QED BY <2>1, <2>2
<1>10. announced' # <<>> /\ announced'[Len(announced')].main = m BY <1>6, <1>8
<1> QED BY <1>6, <1>7, <1>8, <1>9, <1>10, <1>2 DEF AnnouncedChain

\* current_main follows main; a resolution closes its conflict.
LEMMA MainRecorded ==
  ASSUME RecoveryInv, NEW o \in Ops, HasMoved(o), MetadataFollows(o), MovesMain(ops[o]), head' = head,
         curMain' = ops[o].tgt, announced' = Announce(curMain, ops[o].tgt),
         status' = IF ops[o].dev = NoDevice THEN status ELSE SetStatus(ops[o].dev, "synced"),
         conflicts' = IF ops[o].type = "conflict_resolve"
                      THEN [conflicts EXCEPT ![ops[o].conf].status = "resolved"] ELSE conflicts
  PROVE  /\ OneActive' /\ RowsAt' /\ RefsRecorded' /\ RowsExpect' /\ PinsRecorded' /\ Rooted' /\ DiskExact'
         /\ AnnouncedChain' /\ ReviewHolds'
         /\ \A d \in Devices : status'[d] # "revoked"
         /\ \A d \in Devices : Settled(d) \/ d = ops[o].dev => Settled(d)'
         /\ \A d \in Devices : d # ops[o].dev /\ OwedRow(d) => OwedRow(d)'
<1>e. Expects(ops[o]) BY DEF HasMoved, RecoveryInv, InOrder, RowsExpect
<1>r. ops[o].ref = MainRef BY RowRef DEF HasMoved
<1>k. Finishes(o, "committed") /\ NoneLeft' /\ OneActive' /\ RowsAt' /\ RowsExpect' /\ DiskExact' BY FollowsLeavesNone
<1>m. /\ ops[o].exp = curMain /\ curMain \subseteq ops[o].tgt /\ ops[o].commit \subseteq ops[o].tgt
      /\ IsAncestor(curMain, ops[o].tgt) /\ ops[o].tgt \in Commit
  <2>1. ops[o].exp = curMain BY <1>e DEF Expects
  <2>2. ops[o].exp \cup ops[o].commit \subseteq ops[o].tgt
    BY DEF HasMoved, RecoveryInv, StoryInv, BehindInv, Shape, RowShape
  <2>3. curMain # None BY DEF RecoveryInv, InOrder, Rooted, None
  <2> QED BY <2>1, <2>2, <2>3, Types DEF IsAncestor, OpRow
<1>s. /\ \A d \in Devices : d # ops[o].dev => status'[d] = status[d]
      /\ \A d \in Devices : d = ops[o].dev => status'[d] = "synced"
  <2>1. CASE ops[o].dev = NoDevice BY <2>1, ConstantsAssumption
  <2>2. CASE ops[o].dev # NoDevice BY <2>2, SetStatusEffect
  <2> QED BY <2>1, <2>2
<1>c. /\ \A c \in Conflicts : conflicts'[c].dev = conflicts[c].dev /\ conflicts'[c].commit = conflicts[c].commit
                              /\ (\A k \in PinKinds : PinValue(c, k)' = PinValue(c, k))
      /\ \A c \in Conflicts : Open(c)' => Open(c) /\ ~ (ops[o].type = "conflict_resolve" /\ c = ops[o].conf)
      /\ \A c \in Conflicts : Open(c) /\ ~ (ops[o].type = "conflict_resolve" /\ c = ops[o].conf) => Open(c)'
      /\ \A c \in Conflicts : conflicts'[c].status = "none" => conflicts[c].status = "none"
  BY Types DEF Open, PinValue, PinKinds, ConflictRecord
<1>d. \A c \in Conflicts : Open(c)' => conflicts[c].dev # ops[o].dev
  <2> SUFFICES ASSUME NEW c \in Conflicts, Open(c), ~ (ops[o].type = "conflict_resolve" /\ c = ops[o].conf),
                      conflicts[c].dev = ops[o].dev PROVE FALSE
    BY <1>c
  <2>1. ops[o].dev \in Devices BY DEF RecoveryInv, InOrder, ReviewHolds
  <2>2. ops[o].type \in {"server_merge", "conflict_resolve"}
    BY <2>1, <1>e, Types, ConstantsAssumption DEF Expects, MovesMain, OpRow, OpTypes
  <2>3. CASE ops[o].type = "server_merge" BY <2>3, <1>e DEF Expects, NoReview
  <2>4. CASE ops[o].type = "conflict_resolve" BY <2>4, <1>e DEF Expects, RecoveryInv, InOrder, ReviewHolds
  <2> QED BY <2>2, <2>3, <2>4
<1>1. RefsRecorded'
  BY <1>r, OthersRecorded, RefFacts DEF RefsRecorded, HasMoved, MetadataFollows, main
<1>2. PinsRecorded'
  <2>1. ASSUME NEW c \in Conflicts, NEW k \in PinKinds
        PROVE  /\ (conflicts[c].status = "none" => refs[PinRef(c, k)] = None)'
               /\ Open(c)' => (PinValue(c, k) # None /\ (refs[PinRef(c, k)] = PinValue(c, k)
                                                         \/ (Unprotected(c) /\ refs[PinRef(c, k)] = None)))'
    <3>1. Open(c) => refs[PinRef(c, k)] = PinValue(c, k) \/ (Unprotected(c) /\ refs[PinRef(c, k)] = None)
      BY <1>r, OthersRecorded, RefFacts
    <3> QED BY <3>1, <1>c, MissingPins DEF RecoveryInv, InOrder, PinsRecorded, MetadataFollows
  <2> QED BY <2>1 DEF PinsRecorded, MetadataFollows
<1>3. AnnouncedChain' /\ \A i \in DOMAIN announced' : announced'[i].main = ops[o].tgt \/ (i \in DOMAIN announced /\ announced'[i] = announced[i])
  BY <1>m, ChainGrows
<1>4. Rooted'
  <2>1. 0 \in curMain' BY <1>m DEF RecoveryInv, InOrder, Rooted
  <2>2. \A i \in DOMAIN announced' : 0 \in announced'[i].main BY <2>1, <1>3 DEF RecoveryInv, InOrder, Rooted
  <2> QED BY <2>1, <2>2, <1>k DEF RecoveryInv, InOrder, Rooted, NoneLeft, MetadataFollows, main
<1>5. ReviewHolds'
  <2>1. ASSUME NEW c \in Conflicts, Open(c)'
        PROVE  /\ Open(c) /\ (conflicts[c].dev \in Devices)' /\ (status[conflicts[c].dev] = "review_needed")'
               /\ (head[conflicts[c].dev] = conflicts[c].commit)'
    BY <2>1, <1>c, <1>d, <1>s DEF RecoveryInv, InOrder, ReviewHolds
  <2>2. ASSUME NEW c \in Conflicts, NEW e \in Conflicts, Open(c)', Open(e)', (conflicts[c].dev = conflicts[e].dev)' PROVE c = e
    BY <2>2, <1>c DEF RecoveryInv, InOrder, ReviewHolds
  <2> QED BY <2>1, <2>2 DEF ReviewHolds
<1>6. \A d \in Devices : status'[d] # "revoked" BY <1>s DEF RecoveryInv, InOrder, Healthy
<1>7. ASSUME NEW d \in Devices, Settled(d) \/ d = ops[o].dev PROVE Settled(d)'
  <2>1. CASE d = ops[o].dev
    <3>1. ops[o].type \in {"server_merge", "conflict_resolve"}
      BY <2>1, <1>e, Types, ConstantsAssumption DEF Expects, MovesMain, OpRow, OpTypes
    <3>2. ops[o].commit = head[d] BY <3>1, <2>1, <1>e DEF Expects
    <3> QED BY <3>2, <1>m DEF Settled
  <2>2. CASE d # ops[o].dev /\ head[d] \subseteq curMain BY <2>2, <1>m DEF Settled
  <2>3. CASE d # ops[o].dev /\ HasOpenConflict(d, head[d])
    <3>1. PICK c \in Conflicts : Open(c) /\ conflicts[c].dev = d /\ conflicts[c].commit = head[d]
      BY <2>3 DEF HasOpenConflict, Open
    <3>2. ~ (ops[o].type = "conflict_resolve" /\ c = ops[o].conf) BY <3>1, <2>3, <1>e DEF Expects
    <3> QED BY <3>1, <3>2, <1>c DEF Settled, HasOpenConflict, Open
  <2> QED BY <1>7, <2>1, <2>2, <2>3 DEF Settled
<1>8. ASSUME NEW d \in Devices, d # ops[o].dev, OwedRow(d) PROVE OwedRow(d)'
  <2>1. status'[d] # "review_needed" BY <1>8, <1>s DEF OwedRow
  <2>2. Active(o) BY DEF HasMoved, Active, Prepared
  <2> QED BY <2>1, <2>2, <1>8, <1>k, OwedFinishes
<1> QED BY <1>k, <1>1, <1>2, <1>3, <1>4, <1>5, <1>6, <1>7, <1>8

\* The record under review follows its protection ref.
LEMMA RefreshRecorded ==
  ASSUME RecoveryInv, NEW o \in Ops, HasMoved(o), MetadataFollows(o), ops[o].type = "conflict_refresh",
         conflicts' = [conflicts EXCEPT ![ops[o].conf].main = ops[o].tgt],
         UNCHANGED <<curMain, head, status, announced>>
  PROVE  /\ OneActive' /\ RowsAt' /\ RefsRecorded' /\ RowsExpect' /\ PinsRecorded' /\ Rooted' /\ DiskExact'
         /\ AnnouncedChain' /\ ReviewHolds'
         /\ \A d \in Devices : (Settled(d) => Settled(d)') /\ (OwedRow(d) => OwedRow(d)')
<1>e. Expects(ops[o]) BY DEF HasMoved, RecoveryInv, InOrder, RowsExpect
<1>f. PICK f \in Conflicts : f = ops[o].conf /\ Open(f) /\ ops[o].ref = PinRef(f, "current") BY <1>e DEF Expects
<1>k. Finishes(o, "committed") /\ NoneLeft' /\ OneActive' /\ RowsAt' /\ RowsExpect' /\ DiskExact' BY FollowsLeavesNone
<1>c. /\ \A c \in Conflicts : conflicts'[c].dev = conflicts[c].dev /\ conflicts'[c].commit = conflicts[c].commit
                              /\ conflicts'[c].status = conflicts[c].status /\ conflicts'[c].base = conflicts[c].base
                              /\ (Open(c)' = Open(c))
      /\ \A c \in Conflicts \ {f} : conflicts'[c] = conflicts[c]
      /\ conflicts'[f].main = ops[o].tgt
  BY <1>f, Types DEF Open, ConflictRecord
<1>1. RefsRecorded'
  BY <1>f, OthersRecorded, RefFacts, RefsApart DEF RefsRecorded, MetadataFollows, main, PinKinds
<1>2. PinsRecorded'
  <2>1. ASSUME NEW c \in Conflicts, NEW k \in PinKinds
        PROVE  /\ (conflicts[c].status = "none" => refs[PinRef(c, k)] = None)'
               /\ Open(c)' => (PinValue(c, k) # None /\ (refs[PinRef(c, k)] = PinValue(c, k)
                                                         \/ (Unprotected(c) /\ refs[PinRef(c, k)] = None)))'
    <3>1. CASE c = f /\ k = "current"
      <4>1. PinValue(c, k)' = ops[o].tgt BY <3>1, <1>c DEF PinValue
      <4>2. refs'[PinRef(c, k)] = ops[o].tgt /\ ops[o].tgt # None BY <3>1, <1>f DEF HasMoved, MetadataFollows
      <4> QED BY <4>1, <4>2, <1>c, <1>f, <3>1 DEF Open
    <3>2. CASE ~ (c = f /\ k = "current")
      <4>1. PinValue(c, k)' = PinValue(c, k) BY <3>2, <1>c DEF PinValue, PinKinds
      <4>2. Open(c) => refs[PinRef(c, k)] = PinValue(c, k) \/ (Unprotected(c) /\ refs[PinRef(c, k)] = None)
        <5>1. ops[o].ref # PinRef(c, k) BY <3>2, <1>f, RefsApart DEF PinKinds
        <5> QED BY <5>1, OthersRecorded
      <4> QED BY <4>1, <4>2, <1>c, MissingPins DEF RecoveryInv, InOrder, PinsRecorded, MetadataFollows
    <3> QED BY <3>1, <3>2
  <2> QED BY <2>1 DEF PinsRecorded, MetadataFollows
<1>3. Rooted' BY <1>k DEF RecoveryInv, InOrder, Rooted, NoneLeft, MetadataFollows, main
<1>4. AnnouncedChain' BY ChainKept DEF RecoveryInv, InOrder
<1>5. ReviewHolds' BY <1>c DEF RecoveryInv, InOrder, ReviewHolds
<1>6. \A d \in Devices : Settled(d) => Settled(d)' BY <1>c DEF Settled, HasOpenConflict
<1>7. ASSUME NEW d \in Devices, OwedRow(d) PROVE OwedRow(d)'
  <2>1. status'[d] # "review_needed" BY <1>7 DEF OwedRow
  <2>2. Active(o) BY DEF HasMoved, Active, Prepared
  <2> QED BY <2>1, <2>2, <1>7, <1>k, OwedFinishes
<1> QED BY <1>k, <1>1, <1>2, <1>3, <1>4, <1>5, <1>6, <1>7

\* The handler of a moved ref commits metadata.
LEMMA AtCommit ==
  ASSUME RecoveryInv, pc = "commit"
  PROVE  /\ job.op \in Ops /\ HasMoved(job.op) /\ row = ops[job.op] /\ row.dev = job.dev /\ ~ Interrupted
         /\ Expects(row)
         /\ mode = "serving" /\ row.type # "server_merge" => \A d \in Devices : Settled(d)
         /\ mode = "serving" => \A d \in Devices \ {job.dev} : Settled(d)
<1>1. ~ Interrupted /\ Moving /\ job.op \in Ops /\ Prepared(job.op) /\ refs[row.ref] = row.tgt /\ row.tgt # None
  BY AfterMove
<1>2. row.dev = job.dev BY DEF RecoveryInv, InOrder, HandlerFits, AtWork
<1>3. Expects(row) BY <1>1 DEF RecoveryInv, InOrder, RowsExpect, row
<1>4. mode = "serving" /\ row.type # "server_merge" => \A d \in Devices : Settled(d) BY NothingOwed
<1>5. mode = "serving" => \A d \in Devices \ {job.dev} : Settled(d) BY DEF RecoveryInv, InOrder, MergesOwed
<1> QED BY <1>1, <1>2, <1>3, <1>4, <1>5 DEF HasMoved, row

\* The push is recorded and goes on to its merge.
LEMMA CommitPushInOrder == ASSUME RecoveryInv, CommitPush PROVE InOrder'
<1> USE DEF gitVars, deviceVars, dbVars, clientVars
<1>a. /\ pc = "commit" /\ row.type = "device_push" /\ pc' = "merge"
      /\ ops' = SetOp(job.op, "committed") /\ head' = [head EXCEPT ![job.dev] = row.tgt]
      /\ status' = SetStatus(job.dev, "ahead")
      /\ UNCHANGED <<refs, disk, gitUp, curMain, vault, conflicts, announced, mode, job, todo, waiting, sent>>
  BY DEF CommitPush
<1>f. /\ job.op \in Ops /\ HasMoved(job.op) /\ row = ops[job.op] /\ row.dev = job.dev /\ ~ Interrupted
      /\ mode = "serving" => \A d \in Devices : Settled(d)
  BY <1>a, AtCommit
<1>o. PICK o \in Ops : o = job.op /\ HasMoved(o) /\ ops[o] = row BY <1>f
<1>m. MetadataFollows(o) BY <1>a, <1>f, <1>o DEF MetadataFollows, AtWork
<1>1. /\ OneActive' /\ RowsAt' /\ RefsRecorded' /\ RowsExpect' /\ PinsRecorded' /\ Rooted' /\ DiskExact'
      /\ AnnouncedChain' /\ ReviewHolds'
      /\ job.dev \in Devices /\ head'[job.dev] = row.tgt
      /\ (\A d \in Devices : status'[d] # "revoked") /\ NoReview(job.dev) /\ OwedRow(job.dev)'
      /\ \A d \in Devices \ {job.dev} : Settled(d)' = Settled(d) /\ (OwedRow(d) => OwedRow(d)')
  <2>1. head' = [head EXCEPT ![ops[o].dev] = ops[o].tgt] /\ status' = SetStatus(ops[o].dev, "ahead") /\ ops[o].type = "device_push"
    BY <1>a, <1>o, <1>f
  <2>2. ops'[o].dev = job.dev /\ job' = job BY <1>m, <1>o, <1>f, <1>a, FollowsLeavesNone DEF Finishes
  <2>3. OwedRow(ops[o].dev)' BY <2>1, <1>a, <1>o, <1>m, PushRecorded
  <2>4. OwedRow(job.dev)' BY <2>2, <2>3
  <2>5. /\ OneActive' /\ RowsAt' /\ RefsRecorded' /\ RowsExpect' /\ PinsRecorded' /\ Rooted' /\ DiskExact'
        /\ AnnouncedChain' /\ ReviewHolds' /\ \A d \in Devices : status'[d] # "revoked"
    BY <2>1, <1>a, <1>o, <1>m, PushRecorded
  <2>6. PICK e \in Devices : e = ops[o].dev BY <2>1, <1>a, <1>o, <1>m, PushRecorded
  <2>7. /\ head'[e] = ops[o].tgt /\ NoReview(e)
        /\ \A d \in Devices \ {e} : Settled(d)' = Settled(d) /\ (OwedRow(d) => OwedRow(d)')
    BY <2>1, <2>6, <1>a, <1>o, <1>m, PushRecorded
  <2>8. e = job.dev /\ ops[o].tgt = row.tgt BY <2>6, <1>o, <1>f
  <2> QED BY <2>4, <2>5, <2>7, <2>8
<1>2. Healthy' BY <1>a, <1>1 DEF RecoveryInv, InOrder, Healthy, StartupSteps
<1>3. HandlerFits'
  <2>1. job.commit = row.tgt BY <1>a DEF RecoveryInv, InOrder, HandlerFits, AtWork
  <2> QED BY <2>1, <1>a, <1>1 DEF HandlerFits, AtWork, NoReview, Open
<1>4. WaitingFits' BY <1>a, WaitingKept DEF RecoveryInv, InOrder
<1>5. MergesOwed'
  <2> SUFFICES ASSUME NEW d \in Devices, ~ Settled(d)' PROVE OwedRow(d)' /\ (mode' = "serving" => d = job'.dev)
    BY <1>a DEF MergesOwed
  <2>1. CASE d = job.dev BY <2>1, <1>1, <1>a
  <2>2. CASE d # job.dev BY <2>2, <1>1, <1>a, <1>f DEF RecoveryInv, InOrder, MergesOwed
  <2> QED BY <2>1, <2>2
<1> QED BY <1>1, <1>2, <1>3, <1>4, <1>5 DEF InOrder

\* What the handlers that advance main have in common.
LEMMA CommitMain ==
  ASSUME RecoveryInv, pc = "commit", MovesMain(row), pc' = "end", ops' = SetOp(job.op, "committed"), curMain' = row.tgt,
         announced' = Announce(curMain, row.tgt),
         status' = IF row.dev = NoDevice THEN status ELSE SetStatus(row.dev, "synced"),
         conflicts' = IF row.type = "conflict_resolve"
                      THEN [conflicts EXCEPT ![row.conf].status = "resolved"] ELSE conflicts,
         job'.push = job.push /\ job'.dev = job.dev /\ job'.commit = job.commit,
         UNCHANGED <<refs, disk, gitUp, vault, head, mode, todo, waiting, sent>>
  PROVE  InOrder'
<1>f. /\ job.op \in Ops /\ HasMoved(job.op) /\ row = ops[job.op] /\ row.dev = job.dev /\ ~ Interrupted
      /\ mode = "serving" => \A d \in Devices \ {job.dev} : Settled(d)
  BY AtCommit
<1>o. PICK o \in Ops : o = job.op /\ HasMoved(o) /\ ops[o] = row BY <1>f
<1>m. MetadataFollows(o) BY <1>f, <1>o DEF MetadataFollows, AtWork
<1>1. /\ OneActive' /\ RowsAt' /\ RefsRecorded' /\ RowsExpect' /\ PinsRecorded' /\ Rooted' /\ DiskExact'
      /\ AnnouncedChain' /\ ReviewHolds'
      /\ \A d \in Devices : status'[d] # "revoked"
      /\ \A d \in Devices : Settled(d) \/ d = job.dev => Settled(d)'
      /\ \A d \in Devices : d # job.dev /\ OwedRow(d) => OwedRow(d)'
  BY <1>o, <1>f, <1>m, MainRecorded
<1>2. Healthy' BY <1>1 DEF RecoveryInv, InOrder, Healthy, StartupSteps
<1>3. HandlerFits' BY HandlerDone DEF AtWork
<1>4. WaitingFits' BY WaitingKept DEF RecoveryInv, InOrder
<1>5. MergesOwed'
  <2> SUFFICES ASSUME NEW d \in Devices, ~ Settled(d)' PROVE OwedRow(d)' /\ mode' # "serving"
    BY DEF MergesOwed
  <2>1. d # job.dev /\ ~ Settled(d) BY <1>1
  <2> QED BY <2>1, <1>1, <1>f DEF RecoveryInv, InOrder, MergesOwed
<1> QED BY <1>1, <1>2, <1>3, <1>4, <1>5 DEF InOrder

LEMMA CommitMergeInOrder == ASSUME RecoveryInv, CommitMerge PROVE InOrder'
<1> USE DEF gitVars, deviceVars, dbVars, clientVars
<1>f. pc = "commit" /\ row.type = "server_merge" BY DEF CommitMerge
<1>1. row.dev = job.dev /\ row.dev \in Devices /\ row.exp = curMain /\ MovesMain(row)
  BY <1>f, AtCommit DEF Expects, MovesMain
<1>2. row.dev # NoDevice BY <1>1, ConstantsAssumption
<1>3. job'.push = job.push /\ job'.dev = job.dev /\ job'.commit = job.commit BY Types DEF CommitMerge, Job
<1> QED BY <1>f, <1>1, <1>2, <1>3, CommitMain DEF CommitMerge

LEMMA CommitResolveInOrder == ASSUME RecoveryInv, CommitResolve PROVE InOrder'
<1> USE DEF gitVars, deviceVars, dbVars, clientVars
<1>f. pc = "commit" /\ row.type = "conflict_resolve" BY DEF CommitResolve
<1>1. row.dev = job.dev /\ row.dev \in Devices /\ row.exp = curMain /\ MovesMain(row)
  BY <1>f, AtCommit DEF Expects, MovesMain
<1>2. row.dev # NoDevice BY <1>1, ConstantsAssumption
<1> QED BY <1>f, <1>1, <1>2, CommitMain DEF CommitResolve

LEMMA CommitMainEditInOrder == ASSUME RecoveryInv, CommitMainEdit PROVE InOrder'
<1> USE DEF gitVars, deviceVars, dbVars, clientVars
<1>f. pc = "commit" /\ row.type \in {"note_restore", "vault_settings", "name_repair"} BY DEF CommitMainEdit
<1>1. row.dev = NoDevice /\ row.exp = curMain /\ MovesMain(row)
  BY <1>f, AtCommit DEF Expects, MovesMain
<1>2. ops' = SetOp(job.op, "committed") /\ curMain' = row.tgt /\ announced' = Announce(curMain, row.tgt)
  BY <1>1 DEF CommitMainEdit
<1> QED BY <1>f, <1>1, <1>2, CommitMain DEF CommitMainEdit

LEMMA CommitRefreshInOrder == ASSUME RecoveryInv, CommitRefresh PROVE InOrder'
<1> USE DEF gitVars, deviceVars, dbVars, clientVars
<1>p. pc = "commit" /\ row.type = "conflict_refresh" BY DEF CommitRefresh
<1>f. /\ job.op \in Ops /\ HasMoved(job.op) /\ row = ops[job.op] /\ ~ Interrupted /\ Expects(row)
      /\ mode = "serving" => \A d \in Devices : Settled(d)
  BY <1>p, AtCommit
<1>v. vault = "active" /\ conflicts[row.conf].status = "open" /\ conflicts[row.conf].main = row.exp
  BY <1>p, <1>f DEF Expects, Open, RecoveryInv, InOrder, Healthy
<1>a. /\ pc' = "end" /\ ops' = SetOp(job.op, "committed") /\ conflicts' = [conflicts EXCEPT ![row.conf].main = row.tgt]
      /\ UNCHANGED <<refs, disk, gitUp, curMain, vault, head, status, announced, mode, job, todo, waiting, sent>>
  BY <1>v DEF CommitRefresh
<1>o. PICK o \in Ops : o = job.op /\ HasMoved(o) /\ ops[o] = row BY <1>f
<1>m. MetadataFollows(o) BY <1>a, <1>p, <1>f, <1>o DEF MetadataFollows, AtWork
<1>1. /\ OneActive' /\ RowsAt' /\ RefsRecorded' /\ RowsExpect' /\ PinsRecorded' /\ Rooted' /\ DiskExact'
      /\ AnnouncedChain' /\ ReviewHolds'
      /\ \A d \in Devices : (Settled(d) => Settled(d)') /\ (OwedRow(d) => OwedRow(d)')
  BY <1>a, <1>p, <1>o, <1>m, RefreshRecorded
<1>2. Healthy' BY <1>a DEF RecoveryInv, InOrder, Healthy, StartupSteps
<1>3. HandlerFits' BY <1>a, HandlerDone DEF AtWork
<1>4. WaitingFits' BY <1>a, WaitingKept DEF RecoveryInv, InOrder
<1>5. MergesOwed' BY <1>1, <1>f, <1>a DEF RecoveryInv, InOrder, MergesOwed
<1> QED BY <1>1, <1>2, <1>3, <1>4, <1>5 DEF InOrder

-----------------------------------------------------------------------------
(* Startup.                                                                *)

\* While startup reconciles, no request waits and no handler runs.
LEMMA StartupGoesOn ==
  ASSUME RecoveryInv, mode = "startup", pc' \in StartupSteps, mode' = mode, UNCHANGED <<gitUp, vault, waiting>>,
         \A d \in Devices : status'[d] # "revoked"
  PROVE  Healthy' /\ HandlerFits' /\ WaitingFits'
<1>1. Healthy' BY DEF RecoveryInv, InOrder, Healthy, StartupSteps
<1>2. HandlerFits' BY HandlerDone DEF AtWork, StartupSteps
<1>3. WaitingFits' BY DEF RecoveryInv, InOrder, WaitingFits
<1> QED BY <1>1, <1>2, <1>3

\* The verdict of startup: the row's ref has moved.
LEMMA RollsForward ==
  ASSUME RecoveryInv, NEW o \in Ops, Reconciling(o), StartupVerdict(ops[o]) = "roll_forward",
         ops' = SetOp(o, "committed"), UNCHANGED <<refs, disk, mode, pc, waiting, sent>>
  PROVE  HasMoved(o) /\ MetadataFollows(o) /\ pc' = "reconcile" /\ mode = "startup"
<1>1. Active(o) /\ pc = "reconcile" /\ mode = "startup" BY DEF Reconciling, RecoveryInv, InOrder, OneActive
<1>2. Prepared(o) /\ ops[o].tgt # None /\ refs[ops[o].ref] = ops[o].tgt
  BY <1>1 DEF StartupVerdict, Active, Prepared
<1>3. Interrupted /\ Interrupted' /\ Moving BY <1>1 DEF Interrupted, Moving
<1> QED BY <1>1, <1>2, <1>3 DEF HasMoved, MetadataFollows, Reconciling, AtWork

LEMMA RollForwardPushInOrder == ASSUME RecoveryInv, NEW o \in Ops, RollForwardPush(o) PROVE InOrder'
<1> USE DEF gitVars, deviceVars, dbVars, clientVars
<1>a. HasMoved(o) /\ MetadataFollows(o) /\ pc' = "reconcile" /\ mode = "startup"
  BY RollsForward DEF RollForwardPush
<1>b. PICK e \in Devices : e = ops[o].dev BY <1>a, PushRecorded DEF RollForwardPush
<1>1. /\ OneActive' /\ RowsAt' /\ RefsRecorded' /\ RowsExpect' /\ PinsRecorded' /\ Rooted' /\ DiskExact'
      /\ AnnouncedChain' /\ ReviewHolds' /\ (\A d \in Devices : status'[d] # "revoked")
      /\ \A d \in Devices \ {e} : Settled(d)' = Settled(d) /\ (OwedRow(d) => OwedRow(d)')
  BY <1>a, <1>b, PushRecorded DEF RollForwardPush
<1>2. OwedRow(e)'
  <2>1. OwedRow(ops[o].dev)' BY <1>a, PushRecorded DEF RollForwardPush
  <2>2. ops'[o].dev = e BY <1>a, <1>b, FollowsLeavesNone DEF Finishes
  <2> QED BY <2>1, <2>2
<1>3. Healthy' /\ HandlerFits' /\ WaitingFits' BY <1>a, <1>1, StartupGoesOn DEF RollForwardPush, StartupSteps
<1>4. MergesOwed'
  <2> SUFFICES ASSUME NEW d \in Devices, ~ Settled(d)' PROVE OwedRow(d)'
    BY <1>a DEF MergesOwed, RollForwardPush
  <2> QED BY <1>1, <1>2 DEF RecoveryInv, InOrder, MergesOwed
<1> QED BY <1>1, <1>3, <1>4 DEF InOrder

LEMMA RollForwardMainInOrder == ASSUME RecoveryInv, NEW o \in Ops, RollForwardMain(o) PROVE InOrder'
<1> USE DEF gitVars, deviceVars, dbVars, clientVars
<1>a. HasMoved(o) /\ MetadataFollows(o) /\ pc' = "reconcile" /\ mode = "startup"
  BY RollsForward DEF RollForwardMain
<1>b. MovesMain(ops[o]) BY DEF RollForwardMain, MovesMain
<1>c. ops[o].exp = curMain BY <1>a, <1>b DEF HasMoved, RecoveryInv, InOrder, RowsExpect, Expects
<1>1. /\ OneActive' /\ RowsAt' /\ RefsRecorded' /\ RowsExpect' /\ PinsRecorded' /\ Rooted' /\ DiskExact'
      /\ AnnouncedChain' /\ ReviewHolds' /\ (\A d \in Devices : status'[d] # "revoked")
      /\ \A d \in Devices : Settled(d) \/ d = ops[o].dev => Settled(d)'
      /\ \A d \in Devices : d # ops[o].dev /\ OwedRow(d) => OwedRow(d)'
  BY <1>a, <1>b, <1>c, MainRecorded DEF RollForwardMain
<1>3. Healthy' /\ HandlerFits' /\ WaitingFits' BY <1>a, <1>1, StartupGoesOn DEF RollForwardMain, StartupSteps
<1>4. MergesOwed'
  <2> SUFFICES ASSUME NEW d \in Devices, ~ Settled(d)' PROVE OwedRow(d)'
    BY <1>a DEF MergesOwed, RollForwardMain
  <2> QED BY <1>1 DEF RecoveryInv, InOrder, MergesOwed
<1> QED BY <1>1, <1>3, <1>4 DEF InOrder

LEMMA RollForwardRefreshInOrder == ASSUME RecoveryInv, NEW o \in Ops, RollForwardRefresh(o) PROVE InOrder'
<1> USE DEF gitVars, deviceVars, dbVars, clientVars
<1>a. HasMoved(o) /\ MetadataFollows(o) /\ pc' = "reconcile" /\ mode = "startup"
  BY RollsForward DEF RollForwardRefresh
<1>1. /\ OneActive' /\ RowsAt' /\ RefsRecorded' /\ RowsExpect' /\ PinsRecorded' /\ Rooted' /\ DiskExact'
      /\ AnnouncedChain' /\ ReviewHolds'
      /\ \A d \in Devices : (Settled(d) => Settled(d)') /\ (OwedRow(d) => OwedRow(d)')
  BY <1>a, RefreshRecorded DEF RollForwardRefresh
<1>2. \A d \in Devices : status'[d] # "revoked" BY DEF RollForwardRefresh, RecoveryInv, InOrder, Healthy
<1>3. Healthy' /\ HandlerFits' /\ WaitingFits' BY <1>a, <1>2, StartupGoesOn DEF RollForwardRefresh, StartupSteps
<1>4. MergesOwed'
  <2> SUFFICES ASSUME NEW d \in Devices, ~ Settled(d)' PROVE OwedRow(d)'
    BY <1>a DEF MergesOwed, RollForwardRefresh
  <2> QED BY <1>1 DEF RecoveryInv, InOrder, MergesOwed
<1> QED BY <1>1, <1>3, <1>4 DEF InOrder

\* Protection refs may be missing while startup reconciles.
PinsOrMissing ==
  \A c \in Conflicts : \A k \in PinKinds :
    /\ conflicts[c].status = "none" => refs[PinRef(c, k)] = None
    /\ Open(c) => PinValue(c, k) # None /\ refs[PinRef(c, k)] \in {PinValue(c, k), None}

\* A row that was interrupted before its ref moved leaves everything recorded.
LEMMA Unmoved ==
  ASSUME RecoveryInv, NEW o \in Ops, Active(o), Prepared(o) => refs[ops[o].ref] = ops[o].exp
  PROVE  Recorded /\ PinsOrMissing
<1>1. CASE ~ Prepared(o)
  <2>1. \A p \in Ops : ~ Prepared(p) BY <1>1 DEF RecoveryInv, InOrder, OneActive, Active, Prepared
  <2>2. \A r : ~ Lag(r) BY <2>1 DEF Lag
  <2>3. Recorded BY <2>2, AllRecorded DEF Recorded
  <2> QED BY <2>2, <2>3 DEF RecoveryInv, InOrder, PinsRecorded, PinsOrMissing
<1>2. CASE Prepared(o)
  <2>e. Expects(ops[o]) /\ refs[ops[o].ref] = ops[o].exp BY <1>2 DEF RecoveryInv, InOrder, RowsExpect
  <2>l. \A r : Lag(r) => r = ops[o].ref BY <1>2, OneLags
  <2>1. main = curMain
    <3>1. CASE MovesMain(ops[o]) BY <3>1, <2>e, <1>2, RowRef DEF Expects, main
    <3>2. CASE ~ MovesMain(ops[o])
      <4>1. ops[o].ref # MainRef BY <3>2, <1>2, RowRef, RefsApart DEF MovesMain, PinKinds
      <4> QED BY <4>1, <2>l DEF RecoveryInv, InOrder, RefsRecorded
    <3> QED BY <3>1, <3>2
  <2>2. ASSUME NEW d \in Devices PROVE refs[DeviceRef(d)] = head[d]
    <3>1. CASE ops[o].ref # DeviceRef(d) BY <3>1, <2>l DEF RecoveryInv, InOrder, RefsRecorded
    <3>2. CASE ops[o].ref = DeviceRef(d)
      <4>1. ops[o].type = "device_push" /\ ops[o].dev = d
        BY <3>2, <1>2, RowRef, RefsApart DEF MovesMain, PinKinds
      <4> QED BY <4>1, <3>2, <2>e DEF Expects
    <3> QED BY <3>1, <3>2
  <2>3. ASSUME NEW c \in Conflicts, NEW k \in PinKinds, Open(c)
        PROVE  PinValue(c, k) # None /\ refs[PinRef(c, k)] \in {PinValue(c, k), None}
    <3>1. CASE ops[o].ref # PinRef(c, k) BY <2>3, <3>1, <2>l DEF RecoveryInv, InOrder, PinsRecorded
    <3>2. CASE ops[o].ref = PinRef(c, k)
      <4>1. ops[o].type = "conflict_refresh" /\ ops[o].conf = c /\ k = "current"
        BY <3>2, <1>2, RowRef, RefsApart DEF MovesMain, PinKinds
      <4>2. refs[PinRef(c, k)] = conflicts[c].main BY <4>1, <3>2, <2>e DEF Expects
      <4>3. PinValue(c, k) = conflicts[c].main BY <4>1 DEF PinValue
      <4> QED BY <4>2, <4>3, <2>3 DEF RecoveryInv, InOrder, PinsRecorded
    <3> QED BY <3>1, <3>2
  <2> QED BY <2>1, <2>2, <2>3 DEF Recorded, PinsOrMissing, RecoveryInv, InOrder, PinsRecorded
<1> QED BY <1>1, <1>2

\* An undone row leaves refs and metadata as they were recorded before it.
LEMMA ReconcileAbortInOrder == ASSUME RecoveryInv, NEW o \in Ops, ReconcileAbort(o) PROVE InOrder'
<1> USE DEF gitVars, deviceVars, dbVars, clientVars
<1>a. /\ mode = "startup" /\ pc = "reconcile" /\ pc' = "reconcile" /\ o \in todo /\ todo' = todo \ {o}
      /\ ops' = Aborted(o) /\ StartupVerdict(ops[o]) = "abort"
      /\ UNCHANGED <<refs, disk, gitUp, curMain, vault, head, status, conflicts, announced, mode, job, waiting, sent>>
  BY DEF ReconcileAbort, Reconciling
<1>b. Active(o) /\ \A p \in Ops : Active(p) => p = o BY <1>a DEF RecoveryInv, InOrder, OneActive
<1>c. Prepared(o) => refs[ops[o].ref] = ops[o].exp
  BY <1>a DEF StartupVerdict, ExpectedRefsStillCurrent, Prepared
<1>d. Recorded /\ PinsOrMissing BY <1>b, <1>c, Unmoved
<1>f. Finishes(o, "aborted") BY <1>a, <1>b, AbortedEffect DEF Active
<1>n. NoneLeft' BY <1>b, <1>f, FinishesLeavesNone
<1>t. todo' = {} BY <1>a, <1>b DEF RecoveryInv, InOrder, OneActive
<1>1. OneActive' /\ RowsAt' /\ RowsExpect' BY <1>n, <1>t, <1>a, NoneLeftSays DEF AtWork
<1>2. RefsRecorded' BY <1>a, <1>d, RefsKept
<1>3. PinsRecorded'
  <2>1. Interrupted' BY <1>a DEF Interrupted
  <2> QED BY <2>1, <1>a, <1>d DEF PinsRecorded, PinsOrMissing, Unprotected, Open, PinValue
<1>4. Rooted' BY <1>a, <1>n, RootedKept DEF RecoveryInv, InOrder, NoneLeft
<1>5. DiskExact' /\ AnnouncedChain' /\ ReviewHolds' BY <1>a, DiskKept, ChainKept, ReviewKept DEF RecoveryInv, InOrder
<1>6. \A d \in Devices : status'[d] # "revoked" BY <1>a DEF RecoveryInv, InOrder, Healthy
<1>7. Healthy' /\ HandlerFits' /\ WaitingFits' BY <1>a, <1>6, StartupGoesOn DEF StartupSteps
<1>8. MergesOwed'
  <2>1. \A d \in Devices : OwedRow(d) => OwedRow(d)'
    BY <1>a, <1>b, <1>f, OwedFinishes DEF OwedRow
  <2> QED BY <2>1, <1>a, OwedKept DEF RecoveryInv, InOrder
<1> QED BY <1>1, <1>2, <1>3, <1>4, <1>5, <1>7, <1>8 DEF InOrder

\* Startup never finds a ref that a row does not explain.
LEMMA NeverBlocks == ASSUME RecoveryInv, NEW o \in Ops, ReconcileBlock(o) PROVE FALSE
<1>1. Active(o) /\ pc = "reconcile" BY DEF ReconcileBlock, Reconciling, RecoveryInv, InOrder, OneActive
<1>2. Prepared(o) BY <1>1 DEF ReconcileBlock, StartupVerdict, Active, Prepared
<1>3. Expects(ops[o]) BY <1>2 DEF RecoveryInv, InOrder, RowsExpect
<1>4. RollForwardFits(ops[o]) BY <1>3 DEF Expects, RollForwardFits, MovesMain, Open
<1>5. StartupVerdict(ops[o]) = "block" BY <1>4 DEF ReconcileBlock
<1>6. ops[o].tgt = None /\ ~ ExpectedRefsStillCurrent(ops[o]) /\ refs[ops[o].ref] = ops[o].exp
  BY <1>5, <1>2 DEF StartupVerdict, RecoveryInv, InOrder, RowsAt
<1>7. Recorded BY <1>1, <1>6, Unmoved
<1> QED BY <1>3, <1>6, <1>7 DEF ExpectedRefsStillCurrent, Expects, Recorded

\* All rows are decided; every open conflict is looked at next.
LEMMA StartProtectInOrder == ASSUME RecoveryInv, StartProtect PROVE InOrder'
<1> USE DEF gitVars, deviceVars, dbVars, clientVars
<1>a. /\ mode = "startup" /\ pc = "reconcile" /\ todo = {} /\ pc' = "protect"
      /\ todo' = {c \in Conflicts : Open(c)}
      /\ UNCHANGED <<refs, disk, gitUp, curMain, vault, head, status, ops, conflicts, announced, mode, job, waiting, sent>>
  BY DEF StartProtect, Open
<1>n. NoneLeft BY <1>a DEF RecoveryInv, InOrder, OneActive, NoneLeft
<1>m. NoneLeft' BY <1>n, <1>a DEF NoneLeft, Active
<1>r. Recorded /\ \A r : ~ Lag(r) BY <1>n, Still
<1>1. OneActive' /\ RowsAt' /\ RowsExpect' BY <1>m, <1>a, NoneLeftSays DEF AtWork
<1>2. RefsRecorded' BY <1>a, <1>r, RefsKept
<1>3. PinsRecorded'
  <2>1. ASSUME NEW c \in Conflicts, NEW k \in PinKinds
        PROVE  /\ (conflicts[c].status = "none" => refs[PinRef(c, k)] = None)'
               /\ Open(c)' => (PinValue(c, k) # None /\ (refs[PinRef(c, k)] = PinValue(c, k)
                                                         \/ (Unprotected(c) /\ refs[PinRef(c, k)] = None)))'
    <3>1. Open(c)' = Open(c) /\ PinValue(c, k)' = PinValue(c, k) BY <1>a DEF Open, PinValue
    <3>2. Open(c) => Unprotected(c)' BY <1>a DEF Unprotected
    <3> QED BY <3>1, <3>2, <1>r, <1>a DEF RecoveryInv, InOrder, PinsRecorded
  <2>2. \A c \in todo' : c \in Conflicts /\ Open(c)' BY <1>a DEF Open
  <2> QED BY <2>1, <2>2 DEF PinsRecorded
<1>4. Rooted' BY <1>a, <1>m, RootedKept DEF RecoveryInv, InOrder, NoneLeft
<1>5. DiskExact' /\ AnnouncedChain' /\ ReviewHolds' BY <1>a, DiskKept, ChainKept, ReviewKept DEF RecoveryInv, InOrder
<1>6. \A d \in Devices : status'[d] # "revoked" BY <1>a DEF RecoveryInv, InOrder, Healthy
<1>7. Healthy' /\ HandlerFits' /\ WaitingFits' BY <1>a, <1>6, StartupGoesOn DEF StartupSteps
<1>8. MergesOwed'
  <2>1. \A d \in Devices : OwedRow(d) => OwedRow(d)' BY <1>a DEF OwedRow
  <2> QED BY <2>1, <1>a, OwedKept DEF RecoveryInv, InOrder
<1> QED BY <1>1, <1>2, <1>3, <1>4, <1>5, <1>7, <1>8 DEF InOrder

\* Missing protection refs are created; none is found to differ.
LEMMA ProtectPins ==
  ASSUME RecoveryInv, NEW c \in Conflicts, ProtectConflict(c)
  PROVE  /\ \A k \in PinKinds : refs'[PinRef(c, k)] = PinValue(c, k)
         /\ \A r \in Refs : (\A k \in PinKinds : r # PinRef(c, k)) => refs'[r] = refs[r]
         /\ Open(c) /\ vault' = vault /\ disk' \in {disk, refs'} /\ (disk = refs => disk' = refs')
         /\ refs' \in [Refs -> Commit]
<1>1. mode = "startup" /\ pc = "protect" /\ c \in todo BY DEF ProtectConflict
<1>2. Open(c) BY <1>1 DEF RecoveryInv, InOrder, PinsRecorded
<1>3. \A r : ~ Lag(r) BY <1>1, AwayFromWork DEF AtWork
<1>4. \A k \in PinKinds : PinValue(c, k) # None /\ refs[PinRef(c, k)] \in {None, PinValue(c, k)}
  BY <1>2, <1>3 DEF RecoveryInv, InOrder, PinsRecorded
<1>5. /\ vault' = vault
      /\ refs' = [r \in Refs |-> IF \E k \in Unpinned(c) : r = PinRef(c, k)
                                 THEN PinValue(c, CHOOSE k \in PinKinds : r = PinRef(c, k)) ELSE refs[r]]
  BY <1>4 DEF ProtectConflict
<1>6. ASSUME NEW k \in PinKinds PROVE refs'[PinRef(c, k)] = PinValue(c, k)
  <2>1. PinRef(c, k) \in Refs BY RefFacts
  <2>2. (CHOOSE l \in PinKinds : PinRef(c, k) = PinRef(c, l)) = k BY RefsApart
  <2>3. CASE k \in Unpinned(c) BY <2>1, <2>2, <2>3, <1>5
  <2>4. CASE k \notin Unpinned(c)
    <3>1. refs[PinRef(c, k)] = PinValue(c, k) BY <2>4 DEF Unpinned
    <3>2. ~ \E l \in Unpinned(c) : PinRef(c, k) = PinRef(c, l) BY <2>4, RefsApart DEF Unpinned
    <3> QED BY <3>1, <3>2, <2>1, <1>5
  <2> QED BY <2>3, <2>4
<1>7. \A r \in Refs : (\A k \in PinKinds : r # PinRef(c, k)) => refs'[r] = refs[r]
  BY <1>5 DEF Unpinned
<1>8. disk' \in {disk, refs'} /\ (disk = refs => disk' = refs') /\ refs' \in [Refs -> Commit]
  BY ProtectWrites DEF RecoveryInv, StoryInv, BehindInv
<1> QED BY <1>2, <1>5, <1>6, <1>7, <1>8

LEMMA ProtectConflictInOrder == ASSUME RecoveryInv, NEW c \in Conflicts, ProtectConflict(c) PROVE InOrder'
<1> USE DEF gitVars, deviceVars, dbVars, clientVars
<1>a. /\ mode = "startup" /\ pc = "protect" /\ pc' = "protect" /\ c \in todo /\ todo' = todo \ {c}
      /\ UNCHANGED <<gitUp, curMain, head, status, ops, conflicts, announced, mode, job, waiting, sent>>
  BY DEF ProtectConflict
<1>p. /\ \A k \in PinKinds : refs'[PinRef(c, k)] = PinValue(c, k)
      /\ \A r \in Refs : (\A k \in PinKinds : r # PinRef(c, k)) => refs'[r] = refs[r]
      /\ Open(c) /\ vault' = vault /\ (disk = refs => disk' = refs')
  BY ProtectPins
<1>f. ~ Interrupted /\ NoneLeft /\ Recorded /\ \A r : ~ Lag(r) BY <1>a, AwayFromWork DEF AtWork
<1>m. NoneLeft' BY <1>f, <1>a DEF NoneLeft, Active
<1>k. main' = main /\ \A d \in Devices : refs'[DeviceRef(d)] = refs[DeviceRef(d)]
  BY <1>p, RefFacts, RefsApart DEF main
<1>1. OneActive' /\ RowsAt' /\ RowsExpect' BY <1>m, <1>a, NoneLeftSays DEF AtWork
<1>2. RefsRecorded' BY <1>a, <1>f, <1>k DEF RefsRecorded, Recorded
<1>3. PinsRecorded'
  <2>1. ASSUME NEW e \in Conflicts, NEW k \in PinKinds
        PROVE  /\ (conflicts[e].status = "none" => refs[PinRef(e, k)] = None)'
               /\ Open(e)' => (PinValue(e, k) # None /\ (refs[PinRef(e, k)] = PinValue(e, k)
                                                         \/ (Unprotected(e) /\ refs[PinRef(e, k)] = None)))'
    <3>1. Open(e)' = Open(e) /\ PinValue(e, k)' = PinValue(e, k) BY <1>a DEF Open, PinValue
    <3>2. CASE e = c BY <3>1, <3>2, <1>p, <1>a DEF RecoveryInv, InOrder, PinsRecorded, Open
    <3>3. CASE e # c
      <4>1. refs'[PinRef(e, k)] = refs[PinRef(e, k)] BY <3>3, <1>p, RefFacts, RefsApart
      <4>2. Unprotected(e) => Unprotected(e)' BY <3>3, <1>a, <1>f DEF Unprotected
      <4> QED BY <3>1, <4>1, <4>2, <1>a, <1>f DEF RecoveryInv, InOrder, PinsRecorded
    <3> QED BY <3>2, <3>3
  <2>2. \A e \in todo' : e \in Conflicts /\ Open(e)' BY <1>a DEF Open, RecoveryInv, InOrder, PinsRecorded
  <2> QED BY <2>1, <2>2 DEF PinsRecorded
<1>4. Rooted' BY <1>a, <1>k, <1>m DEF RecoveryInv, InOrder, Rooted, NoneLeft
<1>5. DiskExact' BY <1>a, <1>p DEF RecoveryInv, InOrder, DiskExact
<1>6. AnnouncedChain' /\ ReviewHolds' BY <1>a, ChainKept, ReviewKept DEF RecoveryInv, InOrder
<1>7. \A d \in Devices : status'[d] # "revoked" BY <1>a DEF RecoveryInv, InOrder, Healthy
<1>8. Healthy' /\ HandlerFits' /\ WaitingFits' BY <1>a, <1>p, <1>7, StartupGoesOn DEF StartupSteps
<1>9. MergesOwed'
  <2>1. \A d \in Devices : OwedRow(d) => OwedRow(d)' BY <1>a DEF OwedRow
  <2> QED BY <2>1, <1>a, OwedKept DEF RecoveryInv, InOrder
<1> QED BY <1>1, <1>2, <1>3, <1>4, <1>5, <1>6, <1>8, <1>9 DEF InOrder

\* What checkVaultPersistentState compares agrees.
LEMMA IsConsistent == ASSUME RecoveryInv, Recorded, PinsExact PROVE Consistent
BY DEF Consistent, Recorded, PinsExact, Pinned, Unpinned, Open, RecoveryInv, InOrder, PinsRecorded

\* The scan finds the vault consistent.
LEMMA ScanVaultInOrder == ASSUME RecoveryInv, ScanVault PROVE InOrder'
<1> USE DEF gitVars, deviceVars, dbVars, clientVars
<1>p. mode = "startup" /\ pc = "protect" /\ todo = {} BY DEF ScanVault
<1>f. ~ Interrupted /\ NoneLeft /\ Recorded /\ \A r : ~ Lag(r) BY <1>p, AwayFromWork DEF AtWork
<1>e. PinsExact BY <1>p, <1>f DEF RecoveryInv, InOrder, PinsRecorded, PinsExact, Unprotected
<1>c. Consistent BY <1>f, <1>e, IsConsistent
<1>v. vault = "active" BY DEF RecoveryInv, InOrder, Healthy
<1>a. /\ pc' = "resume" /\ ops' = Archived /\ vault' = vault
      /\ UNCHANGED <<refs, disk, gitUp, curMain, head, status, conflicts, announced, mode, job, todo, waiting, sent>>
  BY <1>c, <1>v DEF ScanVault
<1>m. NoneLeft' BY <1>f, <1>a, ArchivedLeavesNone
<1>3. OneActive' /\ RowsAt' /\ RefsRecorded' /\ RowsExpect' /\ PinsRecorded' /\ Rooted' /\ DiskExact' /\ AnnouncedChain'
  BY <1>a, <1>p, <1>f, <1>e, <1>m, QuietStep DEF AtWork
<1>4. ReviewHolds' BY <1>a, ReviewKept DEF RecoveryInv, InOrder
<1>5. \A d \in Devices : status'[d] # "revoked" BY <1>a DEF RecoveryInv, InOrder, Healthy
<1>6. Healthy' /\ HandlerFits' /\ WaitingFits' BY <1>a, <1>p, <1>5, StartupGoesOn DEF StartupSteps
<1>7. MergesOwed'
  <2>1. \A d \in Devices : OwedRow(d) /\ ~ Settled(d) => OwedRow(d)' BY <1>a, OwedArchived
  <2> QED BY <2>1, <1>a, <1>p, OwedKept DEF RecoveryInv, InOrder
<1> QED BY <1>3, <1>4, <1>6, <1>7 DEF InOrder

\* A merge that is owed is resumed for a device that is not under review.
LEMMA ResumeMergeInOrder == ASSUME RecoveryInv, NEW d \in Devices, ResumeMerge(d) PROVE InOrder'
<1> USE DEF gitVars, deviceVars, dbVars, clientVars
<1>a. /\ mode = "startup" /\ pc = "resume" /\ pc' = "merge" /\ job' = [NoJob EXCEPT !.dev = d, !.commit = head[d]]
      /\ UNCHANGED <<refs, disk, gitUp, curMain, vault, head, status, ops, conflicts, announced, mode, todo, waiting, sent>>
  BY DEF ResumeMerge
<1>j. job'.dev = d /\ job'.commit = head[d] BY <1>a DEF NoJob
<1>f. ~ Interrupted /\ NoneLeft /\ Recorded /\ PinsExact BY <1>a, AwayFromWork DEF AtWork
<1>n. NoReview(d) BY NotUnderReview DEF ResumeMerge, OwesMerge, PendingMergeRow, PublishedRow
<1>m. NoneLeft' BY <1>f, <1>a DEF NoneLeft, Active
<1>3. OneActive' /\ RowsAt' /\ RefsRecorded' /\ RowsExpect' /\ PinsRecorded' /\ Rooted' /\ DiskExact' /\ AnnouncedChain'
  BY <1>a, <1>f, <1>m, QuietStep DEF AtWork
<1>4. ReviewHolds' BY <1>a, ReviewKept DEF RecoveryInv, InOrder
<1>5. Healthy' BY <1>a DEF RecoveryInv, InOrder, Healthy, StartupSteps
<1>6. HandlerFits'
  <2>1. NoReview(job.dev)' BY <1>j, <1>n, <1>a DEF NoReview, Open
  <2> QED BY <2>1, <1>j, <1>a DEF HandlerFits, AtWork
<1>7. WaitingFits' BY <1>a DEF RecoveryInv, InOrder, WaitingFits
<1>8. MergesOwed'
  <2>1. \A e \in Devices : OwedRow(e) => OwedRow(e)' BY <1>a DEF OwedRow
  <2> QED BY <2>1, <1>a, OwedKept DEF RecoveryInv, InOrder
<1> QED BY <1>3, <1>4, <1>5, <1>6, <1>7, <1>8 DEF InOrder

\* The server listens when no merge is owed.
LEMMA ListenInOrder == ASSUME RecoveryInv, Listen PROVE InOrder'
<1> USE DEF gitVars, deviceVars, dbVars, clientVars
<1>a. /\ mode = "startup" /\ pc = "resume" /\ mode' = "serving" /\ pc' = "idle"
      /\ UNCHANGED <<refs, disk, gitUp, curMain, vault, head, status, ops, conflicts, announced, job, todo, waiting, sent>>
  BY DEF Listen
<1>f. ~ Interrupted /\ NoneLeft /\ Recorded /\ PinsExact BY <1>a, AwayFromWork DEF AtWork
<1>m. NoneLeft' BY <1>f, <1>a DEF NoneLeft, Active
<1>3. OneActive' /\ RowsAt' /\ RefsRecorded' /\ RowsExpect' /\ PinsRecorded' /\ Rooted' /\ DiskExact' /\ AnnouncedChain'
  BY <1>a, <1>f, <1>m, QuietStep DEF AtWork
<1>4. ReviewHolds' BY <1>a, ReviewKept DEF RecoveryInv, InOrder
<1>5. Healthy' BY <1>a DEF RecoveryInv, InOrder, Healthy, StartupSteps
<1>6. HandlerFits' BY <1>a, HandlerDone DEF AtWork
<1>7. WaitingFits' BY <1>a DEF RecoveryInv, InOrder, WaitingFits
<1>8. ASSUME NEW d \in Devices PROVE Settled(d)
  <2> SUFFICES ASSUME ~ Settled(d) PROVE FALSE OBVIOUS
  <2>1. OwedRow(d) BY DEF RecoveryInv, InOrder, MergesOwed
  <2>2. PICK o \in Ops : /\ ops[o].type = "device_push" /\ ops[o].status = "committed"
                         /\ ops[o].dev = d /\ ops[o].tgt = head[d]
    BY <2>1 DEF OwedRow
  <2>3. status[d] \notin {"revoked", "review_needed"} BY <2>1 DEF OwedRow, RecoveryInv, InOrder, Healthy
  <2>4. PendingMergeRow(ops[o]) BY <2>2, <2>3 DEF PendingMergeRow, PublishedRow, IsAncestor, Settled
  <2>5. ~ HasOpenConflict(d, head[d]) /\ ~ IsAncestor(head[d], main) BY <1>f DEF Settled, IsAncestor, Recorded
  <2>6. OwesMerge(d) BY <2>2, <2>4, <2>5 DEF OwesMerge, RecoveryInv, InOrder, Healthy
  <2> QED BY <2>6 DEF Listen
<1>9. MergesOwed' BY <1>8, <1>a, SettledKept
<1> QED BY <1>3, <1>4, <1>5, <1>6, <1>7, <1>9 DEF InOrder

\* What is not about refs or the place of the handler stays as it was.
LEMMA InterruptionKeeps ==
  ASSUME RecoveryInv, Interrupted', mode' # "serving", pc' \notin AtWork \cup {"merge", "conflict", "protect"},
         pc' = "reconcile" => todo' = {o \in Ops : Active(o)} /\ mode' = "startup",
         pc' \in {"idle", "reconcile"}, gitUp', \A d \in Devices : waiting'[d] \in {None, waiting[d]},
         mode # "serving" \/ waiting' = [d \in Devices |-> None],
         UNCHANGED <<curMain, vault, head, status, ops, conflicts, announced, sent>>
  PROVE  /\ Healthy' /\ OneActive' /\ RowsExpect' /\ AnnouncedChain' /\ ReviewHolds' /\ HandlerFits'
         /\ WaitingFits' /\ MergesOwed' /\ Moving' /\ (\A r : Lag(r) => Lag(r)')
         /\ \A c \in Conflicts : Open(c)' = Open(c) /\ Unprotected(c)' /\ (\A k : PinValue(c, k)' = PinValue(c, k))
<1>1. Healthy' BY DEF RecoveryInv, InOrder, Healthy, StartupSteps
<1>2. OneActive' BY DEF RecoveryInv, InOrder, OneActive, Active
<1>3. RowsExpect' BY DEF RecoveryInv, InOrder, RowsExpect, Expects, Prepared, MovesMain, NoReview, Open
<1>4. AnnouncedChain' /\ ReviewHolds' BY ChainKept, ReviewKept DEF RecoveryInv, InOrder
<1>5. HandlerFits' BY HandlerDone
<1>6. WaitingFits' BY DEF RecoveryInv, InOrder, WaitingFits
<1>7. Moving' /\ (\A r : Lag(r) => Lag(r)') BY DEF Moving, Lag, Prepared
<1>8. \A c \in Conflicts : Open(c)' = Open(c) /\ Unprotected(c)' /\ (\A k : PinValue(c, k)' = PinValue(c, k))
  BY DEF Open, Unprotected, PinValue
<1>9. MergesOwed'
  <2>1. \A e \in Devices : OwedRow(e) => OwedRow(e)' BY DEF OwedRow
  <2> QED BY <2>1, OwedKept DEF RecoveryInv, InOrder
<1> QED BY <1>1, <1>2, <1>3, <1>4, <1>5, <1>6, <1>7, <1>8, <1>9

LEMMA BootInOrder == ASSUME RecoveryInv, Boot PROVE InOrder'
<1> USE DEF gitVars, deviceVars, dbVars, clientVars
<1>a. /\ mode = "down" /\ mode' = "startup" /\ pc' = "reconcile" /\ gitUp' /\ todo' = {o \in Ops : Active(o)}
      /\ UNCHANGED <<refs, disk, curMain, vault, head, status, ops, conflicts, announced, job, waiting, sent>>
  BY DEF Boot, Active
<1>p. pc = "idle" BY <1>a DEF RecoveryInv, StoryInv, BehindInv, DownIdle
<1>i. Interrupted' BY <1>a DEF Interrupted
<1>1. /\ Healthy' /\ OneActive' /\ RowsExpect' /\ AnnouncedChain' /\ ReviewHolds' /\ HandlerFits'
      /\ WaitingFits' /\ MergesOwed' /\ Moving' /\ (\A r : Lag(r) => Lag(r)')
      /\ \A c \in Conflicts : Open(c)' = Open(c) /\ Unprotected(c)' /\ (\A k : PinValue(c, k)' = PinValue(c, k))
  BY <1>a, <1>i, InterruptionKeeps DEF AtWork
<1>2. RowsAt' BY <1>1, <1>a DEF RecoveryInv, InOrder, RowsAt, Prepared
<1>3. RefsRecorded' BY <1>1, <1>a DEF RecoveryInv, InOrder, RefsRecorded, main
<1>4. PinsRecorded' BY <1>1, <1>a DEF RecoveryInv, InOrder, PinsRecorded
<1>5. Rooted' BY <1>a DEF RecoveryInv, InOrder, Rooted, Active, main
<1>6. DiskExact' BY <1>a, <1>p, DiskKept DEF RecoveryInv, InOrder
<1> QED BY <1>1, <1>2, <1>3, <1>4, <1>5, <1>6 DEF InOrder

-----------------------------------------------------------------------------
(* The process or the machine stops.                                       *)

\* Where only the process dies, git keeps what it was told.
LEMMA CrashInOrder == ASSUME RecoveryInv, OrderlyRuns, Crash PROVE InOrder'
<1> USE DEF gitVars, deviceVars, dbVars, clientVars
<1>a. /\ mode' = "down" /\ pc' = "idle" /\ waiting' = [d \in Devices |-> None]
      /\ UNCHANGED <<refs, disk, gitUp, curMain, vault, head, status, ops, conflicts, announced, sent>>
  BY DEF Crash, Stop
<1>p. "power_loss" \notin Faults BY DEF Crash, Fault, OrderlyRuns
<1>i. Interrupted' /\ gitUp' BY <1>a DEF Interrupted, RecoveryInv, InOrder, Healthy
<1>w. \A d \in Devices : waiting'[d] \in {None, waiting[d]} BY <1>a
<1>1. /\ Healthy' /\ OneActive' /\ RowsExpect' /\ AnnouncedChain' /\ ReviewHolds' /\ HandlerFits'
      /\ WaitingFits' /\ MergesOwed' /\ Moving' /\ (\A r : Lag(r) => Lag(r)')
      /\ \A c \in Conflicts : Open(c)' = Open(c) /\ Unprotected(c)' /\ (\A k : PinValue(c, k)' = PinValue(c, k))
  BY <1>a, <1>i, <1>w, InterruptionKeeps DEF AtWork
<1>2. RowsAt' BY <1>1, <1>a DEF RecoveryInv, InOrder, RowsAt, Prepared
<1>3. RefsRecorded' BY <1>1, <1>a DEF RecoveryInv, InOrder, RefsRecorded, main
<1>4. PinsRecorded' BY <1>1, <1>a DEF RecoveryInv, InOrder, PinsRecorded
<1>5. Rooted' BY <1>a, <1>w DEF RecoveryInv, InOrder, Rooted, Active, main
<1>6. DiskExact' BY <1>p DEF DiskExact
<1> QED BY <1>1, <1>2, <1>3, <1>4, <1>5, <1>6 DEF InOrder

\* Where the machine dies, the ref being moved may be back where its row found it.
LEMMA PowerLossTakes ==
  ASSUME RecoveryInv, PowerLoss
  PROVE  \/ refs' = refs
         \/ \E o \in Ops : /\ Prepared(o) /\ Lag(ops[o].ref) /\ refs'[ops[o].ref] = ops[o].exp
                           /\ \A r \in Refs : r # ops[o].ref => refs'[r] = refs[r]
<1>p. "power_loss" \in Faults BY DEF PowerLoss, Fault
<1>l. PICK lost \in SUBSET {r \in Refs : refs[r] # disk[r]} :
        refs' = [r \in Refs |-> IF r \in lost THEN disk[r] ELSE refs[r]]
  BY DEF PowerLoss
<1>1. CASE disk = refs
  <2>1. lost = {} BY <1>1
  <2> QED BY <2>1, <1>l, Types
<1>2. CASE pc = "fsync" /\ disk = [refs EXCEPT ![row.ref] = row.exp]
  <2>1. PICK o \in Ops : o = job.op /\ Prepared(o) /\ row = ops[o] /\ Moving BY <1>2, AfterMove DEF row
  <2>2. ops[o].ref \in Refs BY <2>1, RowRef
  <2>3. disk[ops[o].ref] = ops[o].exp /\ \A r \in Refs : r # ops[o].ref => disk[r] = refs[r]
    BY <1>2, <2>1, <2>2, Types
  <2>4. \A r \in Refs : r # ops[o].ref => refs'[r] = refs[r] BY <2>3, <1>l
  <2>5. Lag(ops[o].ref) BY <2>1 DEF Lag
  <2>6. CASE ops[o].ref \in lost
    <3>1. refs'[ops[o].ref] = ops[o].exp BY <2>6, <2>3, <2>2, <1>l
    <3> QED BY <3>1, <2>1, <2>4, <2>5
  <2>7. CASE ops[o].ref \notin lost
    <3>1. \A r \in Refs : refs'[r] = refs[r] BY <2>7, <2>3, <2>2, <1>l
    <3> QED BY <3>1, <1>l, Types
  <2> QED BY <2>6, <2>7
<1> QED BY <1>p, <1>1, <1>2 DEF RecoveryInv, InOrder, DiskExact

LEMMA PowerLossInOrder == ASSUME RecoveryInv, PowerLoss PROVE InOrder'
<1> USE DEF gitVars, deviceVars, dbVars, clientVars
<1>a. /\ mode' = "down" /\ pc' = "idle" /\ waiting' = [d \in Devices |-> None] /\ disk' = refs'
      /\ UNCHANGED <<gitUp, curMain, vault, head, status, ops, conflicts, announced, sent>>
  BY DEF PowerLoss, Stop
<1>i. Interrupted' /\ gitUp' BY <1>a DEF Interrupted, RecoveryInv, InOrder, Healthy
<1>w. \A d \in Devices : waiting'[d] \in {None, waiting[d]} BY <1>a
<1>1. /\ Healthy' /\ OneActive' /\ RowsExpect' /\ AnnouncedChain' /\ ReviewHolds' /\ HandlerFits'
      /\ WaitingFits' /\ MergesOwed' /\ Moving' /\ (\A r : Lag(r) => Lag(r)')
      /\ \A c \in Conflicts : Open(c)' = Open(c) /\ Unprotected(c)' /\ (\A k : PinValue(c, k)' = PinValue(c, k))
  BY <1>a, <1>i, <1>w, InterruptionKeeps DEF AtWork
<1>d. DiskExact' BY <1>a DEF DiskExact
<1>2. CASE refs' = refs
  <2>1. RowsAt' BY <1>2, <1>1, <1>a DEF RecoveryInv, InOrder, RowsAt, Prepared
  <2>2. RefsRecorded' BY <1>2, <1>1, <1>a DEF RecoveryInv, InOrder, RefsRecorded, main
  <2>3. PinsRecorded' BY <1>2, <1>1, <1>a DEF RecoveryInv, InOrder, PinsRecorded
  <2>4. Rooted' BY <1>2, <1>a, <1>w DEF RecoveryInv, InOrder, Rooted, Active, main
  <2> QED BY <1>1, <1>d, <2>1, <2>2, <2>3, <2>4 DEF InOrder
<1>3. CASE refs' # refs
  <2>o. PICK o \in Ops : /\ Prepared(o) /\ Lag(ops[o].ref) /\ refs'[ops[o].ref] = ops[o].exp
                         /\ \A r \in Refs : r # ops[o].ref => refs'[r] = refs[r]
    BY <1>3, PowerLossTakes
  <2>e. Expects(ops[o]) BY <2>o DEF RecoveryInv, InOrder, RowsExpect
  <2>k. \A r \in Refs : ~ Lag(r)' => refs'[r] = refs[r] BY <2>o, <1>1
  <2>1. RowsAt'
    <3>1. \A p \in Ops : Prepared(p)' => p = o BY <2>o, <1>a, OneLags DEF Prepared, Active
    <3> QED BY <3>1, <2>o, <1>a DEF RowsAt
  <2>2. RefsRecorded'
    BY <2>k, <1>1, <1>a, RefFacts DEF RecoveryInv, InOrder, RefsRecorded, main
  <2>3. PinsRecorded'
    <3>1. ASSUME NEW c \in Conflicts, NEW k \in PinKinds
          PROVE  /\ (conflicts[c].status = "none" => refs[PinRef(c, k)] = None)'
                 /\ Open(c)' => (PinValue(c, k) # None /\ (refs[PinRef(c, k)] = PinValue(c, k)
                                   \/ (Unprotected(c) /\ refs[PinRef(c, k)] = None) \/ Lag(PinRef(c, k))))'
      <4>1. /\ conflicts[c].status = "none" => refs[PinRef(c, k)] = None
            /\ Open(c) => /\ PinValue(c, k) # None
                          /\ \/ refs[PinRef(c, k)] = PinValue(c, k) \/ refs[PinRef(c, k)] = None \/ Lag(PinRef(c, k))
        BY DEF RecoveryInv, InOrder, PinsRecorded
      <4>2. CASE PinRef(c, k) # ops[o].ref
        <5>1. refs'[PinRef(c, k)] = refs[PinRef(c, k)] BY <4>2, <2>o, RefFacts
        <5> QED BY <5>1, <4>1, <1>1, <1>a
      <4>3. CASE PinRef(c, k) = ops[o].ref
        <5>1. Open(c) BY <4>3, <2>o, RowRef, RefsApart DEF MovesMain, PinKinds
        <5>2. Lag(PinRef(c, k))
          <6>1. PICK q : q = PinRef(c, k) OBVIOUS
          <6>2. Lag(q) BY <6>1, <4>3, <2>o DEF Lag
          <6> QED BY <6>1, <6>2 DEF Lag
        <5>3. conflicts'[c].status # "none" BY <5>1, <1>a DEF Open
        <5> QED BY <5>1, <5>2, <5>3, <4>1, <1>1
      <4> QED BY <4>2, <4>3
    <3> QED BY <3>1, <1>a DEF PinsRecorded
  <2>4. Rooted'
    <3>1. 0 \in main'
      <4>1. CASE ops[o].ref = MainRef
        <5>1. MovesMain(ops[o]) BY <4>1, <2>o DEF RecoveryInv, StoryInv, BehindInv, Shape, RowShape
        <5> QED BY <5>1, <4>1, <2>o, <2>e DEF Expects, main, RecoveryInv, InOrder, Rooted
      <4>2. CASE ops[o].ref # MainRef BY <4>2, <2>o, RefFacts DEF main, RecoveryInv, InOrder, Rooted
      <4> QED BY <4>1, <4>2
    <3>2. ASSUME NEW d \in Devices, refs'[DeviceRef(d)] # None PROVE 0 \in refs'[DeviceRef(d)]
      <4>1. CASE DeviceRef(d) # ops[o].ref BY <4>1, <3>2, <2>o, RefFacts DEF RecoveryInv, InOrder, Rooted
      <4>2. CASE DeviceRef(d) = ops[o].ref
        <5>1. ops[o].type = "device_push" /\ ops[o].dev = d
          BY <4>2, <2>o, RowRef, RefsApart DEF MovesMain, PinKinds
        <5>2. refs'[DeviceRef(d)] = head[d] BY <5>1, <4>2, <2>o, <2>e DEF Expects
        <5> QED BY <5>2, <3>2 DEF RecoveryInv, InOrder, Rooted
      <4> QED BY <4>1, <4>2
    <3> QED BY <3>1, <3>2, <1>a, <1>w DEF RecoveryInv, InOrder, Rooted, Active
  <2> QED BY <1>1, <1>d, <2>1, <2>2, <2>3, <2>4 DEF InOrder
<1> QED BY <1>2, <1>3

-----------------------------------------------------------------------------
(* Every step.                                                             *)

\* Steps that an orderly run in order does not take.
LEMMA NotTaken ==
  ASSUME RecoveryInv, OrderlyRuns
  PROVE  /\ ~ PinRefused /\ ~ PinFails /\ ~ FsyncFails /\ ~ GitCommandFails /\ ~ StoreWriteFails
         /\ ~ GitUnavailable /\ ~ CatchAborts /\ ~ CatchRethrows /\ ~ CatchReconciles /\ ~ FailPush
         /\ ~ RestartForGit /\ ~ ReadinessBlocks /\ ~ RepairVault
         /\ \A d \in Devices : ~ Revoke(d) /\ ~ CompleteOnboarding(d)
<1>1. ~ PinRefused
  <2> SUFFICES ASSUME PinRefused PROVE FALSE OBVIOUS
  <2>1. job.conf \in Conflicts /\ Open(job.conf)
    BY DEF PinRefused, Open, RecoveryInv, StoryInv, BehindInv, Shape, JobShape, JobHolds
  <2>2. NextPin(job.conf) \in PinKinds BY DEF NextPin, PinKinds
  <2> QED BY <2>1, <2>2 DEF PinRefused, RecoveryInv, InOrder, PinsRecorded
<1>2. ~ PinFails /\ ~ FsyncFails /\ ~ GitCommandFails /\ ~ StoreWriteFails
  BY DEF PinFails, FsyncFails, GitCommandFails, StoreWriteFails, Fault, OrderlyRuns
<1>3. ~ GitUnavailable /\ ~ RestartForGit /\ ~ RepairVault
  BY DEF GitUnavailable, RestartForGit, RepairVault, RecoveryInv, InOrder, Healthy
<1>4. ~ CatchAborts /\ ~ CatchRethrows /\ ~ CatchReconciles /\ ~ FailPush
  BY DEF CatchAborts, CatchRethrows, CatchReconciles, FailPush, RecoveryInv, InOrder, Healthy
<1>5. ~ ReadinessBlocks /\ \A d \in Devices : ~ Revoke(d) /\ ~ CompleteOnboarding(d)
  BY DEF ReadinessBlocks, Revoke, CompleteOnboarding, OrderlyRuns
<1> QED BY <1>1, <1>2, <1>3, <1>4, <1>5

\* A step that changes none of the variables.
LEMMA StutterInOrder == ASSUME InOrder, UNCHANGED vars PROVE InOrder'
<1> USE DEF vars, gitVars, deviceVars, dbVars, clientVars
<1>a. \A r : Lag(r)' = Lag(r) BY DEF Lag, Moving, Interrupted, Prepared
<1>b. \A c \in Conflicts : Open(c)' = Open(c) /\ Unprotected(c)' = Unprotected(c) /\ (\A k : PinValue(c, k)' = PinValue(c, k))
  BY DEF Open, Unprotected, Interrupted, PinValue
<1>1. Healthy' /\ OneActive' BY DEF InOrder, Healthy, OneActive, Active, Interrupted, row
<1>2. RowsAt' BY DEF InOrder, RowsAt, Prepared, Moving, Interrupted
<1>3. RefsRecorded' BY <1>a DEF InOrder, RefsRecorded, main
<1>4. RowsExpect' BY DEF InOrder, RowsExpect, Expects, Prepared, MovesMain, NoReview, Open
<1>5. PinsRecorded' BY <1>a, <1>b DEF InOrder, PinsRecorded
<1>6. Rooted' BY DEF InOrder, Rooted, Active, main
<1>7. DiskExact' /\ AnnouncedChain' BY ChainKept DEF InOrder, DiskExact, row
<1>8. ReviewHolds' BY ReviewKept DEF InOrder
<1>9. HandlerFits' BY DEF InOrder, HandlerFits, NoReview, Open, row, deviceTip
<1>10. WaitingFits' BY DEF InOrder, WaitingFits
<1>11. MergesOwed' BY DEF InOrder, MergesOwed, Settled, HasOpenConflict, OwedRow, row
<1> QED BY <1>1, <1>2, <1>3, <1>4, <1>5, <1>6, <1>7, <1>8, <1>9, <1>10, <1>11 DEF InOrder

LEMMA RecoveryStep == ASSUME OrderlyRuns, RecoveryInv, [Next]_vars PROVE RecoveryInv'
<1>s. StoryInv' BY OrderlyApart, StoryStep DEF RecoveryInv
<1> SUFFICES InOrder' BY <1>s DEF RecoveryInv
<1>n. /\ ~ PinRefused /\ ~ PinFails /\ ~ FsyncFails /\ ~ GitCommandFails /\ ~ StoreWriteFails
      /\ ~ GitUnavailable /\ ~ CatchAborts /\ ~ CatchRethrows /\ ~ CatchReconciles /\ ~ FailPush
      /\ ~ RestartForGit /\ ~ ReadinessBlocks /\ ~ RepairVault
      /\ \A d \in Devices : ~ Revoke(d) /\ ~ CompleteOnboarding(d)
  BY NotTaken
<1>1. CASE PushStep
  BY <1>1, <1>n, RejectPushInOrder, FinishExistingInOrder, PreparePushInOrder, ImportPackInOrder, MergeNoopInOrder,
     MergeConflictsInOrder, PrepareMergeInOrder, MergePolicyViolationInOrder, CreateConflictInOrder,
     PinConflictInOrder, ConflictDoneInOrder DEF PushStep
<1>2. CASE RefStep
  BY <1>2, <1>n, PrepareTargetInOrder, UpdateRefInOrder, FsyncRepositoryInOrder, CommitPushInOrder, CommitMergeInOrder,
     CommitResolveInOrder, CommitMainEditInOrder, CommitRefreshInOrder, FinishInOrder DEF RefStep
<1>3. CASE FaultStep BY <1>3, <1>n, CrashInOrder, PowerLossInOrder DEF FaultStep
<1>4. CASE StartupStep
  BY <1>4, <1>n, BootInOrder, StartProtectInOrder, ScanVaultInOrder, ListenInOrder, ReconcileAbortInOrder, NeverBlocks,
     RollForwardPushInOrder, RollForwardMainInOrder, RollForwardRefreshInOrder, ProtectConflictInOrder,
     ResumeMergeInOrder DEF StartupStep
<1>5. CASE RequestStep
  <2>1. CASE StartSettings \/ StartNameRepair
    BY <2>1, StartMainEditInOrder DEF StartSettings, StartNameRepair, MayRequest
  <2> QED BY <1>5, <1>n, <2>1, AuthenticatePushInOrder, StartPushInOrder, AcknowledgeAppliedInOrder, StartResolveInOrder,
          StartRefreshInOrder, StartRestoreInOrder DEF RequestStep
<1>6. CASE UNCHANGED vars BY <1>6, StutterInOrder DEF RecoveryInv
<1> QED BY <1>1, <1>2, <1>3, <1>4, <1>5, <1>6 DEF Next, Quiescent

LEMMA RecoveryInit == Init => RecoveryInv
<1> SUFFICES ASSUME Init PROVE InOrder BY StoryInit DEF RecoveryInv
<1>0. /\ \A o \in Ops : ops[o] = NoRow
      /\ \A c \in Conflicts : conflicts[c] = NoConflict
      /\ \A d \in Devices : head[d] = None /\ waiting[d] = None /\ sent[d] = {} /\ status[d] = "paired"
                            /\ refs[DeviceRef(d)] = None
      /\ \A c \in Conflicts, k \in PinKinds : refs[PinRef(c, k)] = None
      /\ main = Root /\ curMain = Root /\ announced = <<>> /\ mode = "serving" /\ pc = "idle"
      /\ disk = refs /\ gitUp /\ vault = "active"
  BY RefFacts DEF Init, main
<1>1. Healthy BY <1>0 DEF Healthy, StartupSteps
<1>2. OneActive BY <1>0 DEF OneActive, Active, NoRow, AtWork
<1>3. RowsAt /\ RowsExpect BY <1>0 DEF RowsAt, RowsExpect, Prepared, NoRow
<1>4. RefsRecorded BY <1>0 DEF RefsRecorded
<1>5. PinsRecorded BY <1>0 DEF PinsRecorded, Open, NoConflict
<1>6. Rooted BY <1>0 DEF Rooted, Root, Active, NoRow, None
<1>7. DiskExact BY <1>0 DEF DiskExact
<1>8. AnnouncedChain BY <1>0 DEF AnnouncedChain
<1>9. ReviewHolds BY <1>0 DEF ReviewHolds, Open, NoConflict
<1>10. HandlerFits BY <1>0 DEF HandlerFits, AtWork
<1>11. WaitingFits BY <1>0 DEF WaitingFits
<1>12. MergesOwed BY <1>0 DEF MergesOwed, Settled, None
<1> QED BY <1>1, <1>2, <1>3, <1>4, <1>5, <1>6, <1>7, <1>8, <1>9, <1>10, <1>11, <1>12 DEF InOrder

-----------------------------------------------------------------------------
(* The theorems.                                                           *)

\* Whenever a server that was interrupted anywhere, any number of times, is idle
\* again, main, every device ref and every protection ref equal what metadata
\* records and the vault is not blocked (reconcileStartupOperations,
\* ensureProtectedConflictRefs and markInconsistentVaults).
THEOREM RecoveryIsExact ==
  ASSUME OrderlyRuns
  PROVE  Spec => []RecoveredExactly
<1>1. RecoveryInv /\ [Next]_vars => RecoveryInv' BY RecoveryStep
<1>2. RecoveryInv => RecoveredExactly
  <2> SUFFICES ASSUME RecoveryInv, mode = "serving", pc = "idle" PROVE vault = "active" /\ Consistent
    BY DEF RecoveredExactly
  <2> QED BY Idle, IsConsistent DEF RecoveryInv, InOrder, Healthy
<1> QED BY <1>1, <1>2, RecoveryInit, PTL DEF Spec

\* The main_advanced events form one chain from the root to current_main, whether
\* the request that moved main announced it or the startup that rolled it forward.
THEOREM EventsAreOneChain ==
  ASSUME OrderlyRuns
  PROVE  Spec => []AnnouncedChain
<1>1. RecoveryInv /\ [Next]_vars => RecoveryInv' BY RecoveryStep
<1>2. RecoveryInv => AnnouncedChain BY DEF RecoveryInv, InOrder
<1> QED BY <1>1, <1>2, RecoveryInit, PTL DEF Spec

\* A device with an open conflict is under review, through every merge, refresh,
\* acknowledgement, restart and roll forward (deviceBlockRejection relies on it).
THEOREM ReviewHoldsDevice ==
  ASSUME OrderlyRuns
  PROVE  Spec => []OpenConflictHoldsDevice
<1>1. RecoveryInv /\ [Next]_vars => RecoveryInv' BY RecoveryStep
<1>2. RecoveryInv => OpenConflictHoldsDevice
  BY DEF RecoveryInv, InOrder, ReviewHolds, Open, OpenConflictHoldsDevice
<1> QED BY <1>1, <1>2, RecoveryInit, PTL DEF Spec

\* A device the idle server shows as synced has nothing published that still waits
\* for its merge: what a stop left between the device ref and main was resumed
\* before the server listened (resumePendingMerges).
THEOREM SyncedHidesNothing ==
  ASSUME OrderlyRuns
  PROVE  Spec => []SyncedIsSettled
<1>1. RecoveryInv /\ [Next]_vars => RecoveryInv' BY RecoveryStep
<1>2. RecoveryInv => SyncedIsSettled BY Idle DEF Settled, SyncedIsSettled
<1> QED BY <1>1, <1>2, RecoveryInit, PTL DEF Spec

\* What an idle server holds for review is protected: the three refs of every open
\* conflict exist, also when the server stopped while it was writing them.
THEOREM ConflictsStayPinned ==
  ASSUME OrderlyRuns
  PROVE  Spec => []OpenConflictsPinned
<1>1. RecoveryInv /\ [Next]_vars => RecoveryInv' BY RecoveryStep
<1>2. RecoveryInv => OpenConflictsPinned
  <2> SUFFICES ASSUME RecoveryInv, mode = "serving", pc = "idle", NEW c \in Conflicts, Open(c)
      PROVE  Unpinned(c) \subseteq {"current"} /\ Explained(PinRef(c, "current"), conflicts[c].main)
    BY DEF OpenConflictsPinned, LivePinned, Open
  <2>1. \A k \in PinKinds : PinValue(c, k) # None /\ refs[PinRef(c, k)] = PinValue(c, k)
    BY Idle DEF PinsExact, RecoveryInv, InOrder, PinsRecorded
  <2> QED BY <2>1 DEF Unpinned, Explained, PinValue, PinKinds
<1> QED BY <1>1, <1>2, RecoveryInit, PTL DEF Spec

=============================================================================
