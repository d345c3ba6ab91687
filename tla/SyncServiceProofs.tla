-------------------------- MODULE SyncServiceProofs --------------------------
(***************************************************************************)
(* Proofs about SyncService, for any number of devices, commits, rows,     *)
(* conflicts, requests and faults.                                         *)
(***************************************************************************)
EXTENDS SyncService, SequenceTheorems, TLAPS

\* The faults a deployment can survive together.  A power loss takes back whatever
\* was not synced; a crash between update-ref and its fsync, a failed fsync or a git
\* that dies after writing leaves such a ref behind, and neither the catch blocks
\* nor startup sync it before they let metadata follow.
DurabilityFaultsApart ==
  "power_loss" \in Faults => Faults \cap {"crash", "fsync", "lost_exit"} = {}

\* Rows that move refs/heads/main.
MovesMain(r) == r.type \notin {"device_push", "conflict_refresh"}

HoldsRow == {"target", "cas", "fsync", "commit", "catch"}

\* What the lock holder's local variables refer to at each of its steps.
JobShape ==
  /\ pc \in {"validate", "import"} =>
       job.push \in Ops /\ job.op = job.push /\ row.type = "device_push"
  /\ pc \in {"validate", "import", "merge", "conflict"} => job.dev \in Devices
  /\ pc \in HoldsRow => job.op \in Ops
  /\ pc \in HoldsRow /\ row.type \in {"device_push", "server_merge"} => job.dev \in Devices
  /\ pc \in {"cas", "fsync", "commit"} /\ MovesMain(row) => row.tgt # None
  /\ pc = "pin" => job.conf \in Conflicts

\* What an operation row says about the ref it moves: the new main takes in the one
\* it replaces and the proposal it integrates.
RowShape ==
  \A o \in Ops :
    /\ MovesMain(ops[o]) => ops[o].ref = MainRef
    /\ ~ MovesMain(ops[o]) => ops[o].ref \in Refs \ {MainRef}
    /\ MovesMain(ops[o]) /\ ops[o].tgt # None => ops[o].exp \cup ops[o].commit \subseteq ops[o].tgt
    /\ ops[o].type = "device_push" => ops[o].tgt # None

Shape == TypeOK /\ JobShape /\ RowShape

\* The ref has moved before metadata is committed.
Moved == pc \in {"fsync", "commit"} => refs[row.ref] = row.tgt

\* Where power may fail, everything but the ref being moved is durable.
Durable ==
  "power_loss" \in Faults =>
    /\ pc # "fsync" => disk = refs
    /\ IsAncestor(curMain, disk[MainRef])

DownIdle == mode = "down" => pc = "idle"

BehindInv == Shape /\ DownIdle /\ MetadataBehindGit /\ Moved /\ Durable

\* A conflict_resolve row stands for the proposal its conflict record holds.
ResolveRows ==
  \A o \in Ops : ops[o].type = "conflict_resolve" =>
    /\ ops[o].conf \in Conflicts
    /\ conflicts[ops[o].conf].status # "none"
    /\ conflicts[ops[o].conf].commit = ops[o].commit

\* An open conflict holds a commit.
OpenHoldsCommit == \A c \in Conflicts : conflicts[c].status = "open" => conflicts[c].commit # None

\* A proposal is part of the history m or held for review.
Preserved(t, m) ==
  \/ IsAncestor(t, m)
  \/ \E c \in Conflicts : conflicts[c].status = "open" /\ conflicts[c].commit = t

\* What the handler has in hand is a commit, and one it reports integrated is.
JobHolds ==
  /\ job.push # 0 => job.commit # None
  /\ pc \in {"merge", "conflict"} => job.commit # None
  /\ pc \in HoldsRow /\ row.type \in {"device_push", "server_merge"} => job.commit # None
  /\ pc \in HoldsRow /\ row.type = "server_merge" => row.commit = job.commit
  /\ pc = "pin" => conflicts[job.conf].status = "open" /\ conflicts[job.conf].commit = job.commit
  /\ job.ok => pc = "end" /\ (job.push # 0 => Preserved(job.commit, main))

AckedDurable ==
  \A t \in acked :
    /\ Preserved(t, main)
    /\ "power_loss" \in Faults => Preserved(t, disk[MainRef])

\* Metadata, rows, records and the handler's variables tell one story.
StoryInv == BehindInv /\ ResolveRows /\ OpenHoldsCommit /\ JobHolds

PreservedInv == StoryInv /\ AckedDurable

-----------------------------------------------------------------------------
(* Types of the pieces the actions are built from.                         *)

\* The refs of the vault exist and only one of them is main.
LEMMA RefFacts ==
  /\ MainRef \in Refs
  /\ \A d \in Devices : DeviceRef(d) \in Refs \ {MainRef}
  /\ \A c \in Conflicts, k \in PinKinds : PinRef(c, k) \in Refs \ {MainRef}
BY DEF MainRef, DeviceRef, PinRef, Refs, PinKinds

\* The empty row, job, record and commit have their types.
LEMMA EmptyTyped ==
  /\ NoRow \in OpRow /\ NoJob \in Job /\ NoConflict \in ConflictRecord
  /\ None \in Commit /\ Root \in Commit
BY RefFacts, ConstantsAssumption
   DEF NoRow, OpRow, NoJob, Job, NoConflict, ConflictRecord, OpTypes, OpStatus, None, Commit, Root

\* A write of one device's status leaves a table of statuses.
LEMMA SetStatusTyped ==
  ASSUME status \in [Devices -> DeviceStatus], NEW d, NEW v \in DeviceStatus
  PROVE  /\ SetStatus(d, v) \in [Devices -> DeviceStatus]
         /\ \A e \in Devices : status[e] = "revoked" => SetStatus(d, v)[e] = "revoked"
BY DEF SetStatus, DeviceStatus

\* The rows after a step are the old ones, perhaps with another status, or empty.
KeepsRows(new) ==
  /\ new \in [Ops -> OpRow]
  /\ \A o \in Ops : \/ new[o] = NoRow
                     \/ \E s \in OpStatus : new[o] = [ops[o] EXCEPT !.status = s]

\* Changing a status, aborting and archiving all keep the rows in this sense.
LEMMA RowsKept ==
  ASSUME ops \in [Ops -> OpRow]
  PROVE  /\ KeepsRows(ops)
         /\ \A o, s : s \in OpStatus => KeepsRows(SetOp(o, s))
         /\ \A o : KeepsRows(Aborted(o))
         /\ KeepsRows(Archived)
<1>1. \A o \in Ops : ops[o] = [ops[o] EXCEPT !.status = ops[o].status] /\ ops[o].status \in OpStatus
  BY DEF OpRow
<1>2. KeepsRows(ops) BY <1>1 DEF KeepsRows
<1>3. ASSUME NEW o, NEW s \in OpStatus PROVE KeepsRows(SetOp(o, s))
  BY <1>1 DEF KeepsRows, SetOp, OpRow
<1>4. ASSUME NEW o PROVE KeepsRows(Aborted(o))
  BY <1>1, ZenonT(40) DEF KeepsRows, Aborted, OpRow, OpStatus
<1>5. KeepsRows(Archived)
  BY <1>1, EmptyTyped DEF KeepsRows, Archived
<1> QED BY <1>2, <1>3, <1>4, <1>5

\* A new row for a free slot.
LEMMA NewRowTyped ==
  ASSUME ops \in [Ops -> OpRow], NEW o \in Ops, NEW r \in OpRow
  PROVE  [ops EXCEPT ![o] = r] \in [Ops -> OpRow]
OBVIOUS

\* An event appended to events leaves events.
LEMMA AnnounceTyped ==
  ASSUME announced \in Seq([prev : Commit, main : Commit]), NEW p \in Commit, NEW m \in Commit
  PROVE  Announce(p, m) \in Seq([prev : Commit, main : Commit])
BY DEF Announce

\* A protection ref is given a commit of its record.
LEMMA PinValueTyped ==
  ASSUME conflicts \in [Conflicts -> ConflictRecord], NEW c \in Conflicts, NEW k \in PinKinds
  PROVE  PinValue(c, k) \in Commit
BY DEF PinValue, PinKinds, ConflictRecord

\* The handler changes one of its local variables at a time.
LEMMA JobTyped ==
  ASSUME job \in Job
  PROVE  /\ [job EXCEPT !.ok = TRUE] \in Job
         /\ \A b \in Commit : [job EXCEPT !.base = b] \in Job
         /\ \A e \in {"durability", "other"} : [job EXCEPT !.err = e] \in Job
         /\ \A o \in Ops : [job EXCEPT !.op = o] \in Job
         /\ \A c \in Conflicts : [job EXCEPT !.conf = c] \in Job
BY DEF Job

\* Rows that keep everything but their status keep their shape.
LEMMA KeptShape ==
  ASSUME Shape, KeepsRows(ops')
  PROVE  RowShape'
<1> SUFFICES ASSUME NEW o \in Ops
             PROVE  /\ MovesMain(ops'[o]) => ops'[o].ref = MainRef
                    /\ ~ MovesMain(ops'[o]) => ops'[o].ref \in Refs \ {MainRef}
                    /\ MovesMain(ops'[o]) /\ ops'[o].tgt # None
                         => ops'[o].exp \cup ops'[o].commit \subseteq ops'[o].tgt
                    /\ ops'[o].type = "device_push" => ops'[o].tgt # None
  BY DEF RowShape
<1>1. CASE ops'[o] = NoRow
  BY <1>1, RefFacts DEF NoRow, MovesMain, None
<1>2. CASE \E s \in OpStatus : ops'[o] = [ops[o] EXCEPT !.status = s]
  <2>1. PICK s \in OpStatus : ops'[o] = [ops[o] EXCEPT !.status = s] BY <1>2
  <2>2. ops[o] \in OpRow BY DEF Shape, TypeOK
  <2>3. /\ ops'[o].type = ops[o].type /\ ops'[o].ref = ops[o].ref /\ ops'[o].tgt = ops[o].tgt
        /\ ops'[o].exp = ops[o].exp /\ ops'[o].commit = ops[o].commit
    BY <2>1, <2>2 DEF OpRow
  <2> QED BY <2>3 DEF Shape, RowShape, MovesMain
<1> QED BY <1>1, <1>2 DEF KeepsRows

\* A new row or a new target keeps the shape of the others.
LEMMA PutShape ==
  ASSUME Shape, NEW o \in Ops, NEW r \in OpRow, ops' = [ops EXCEPT ![o] = r],
         MovesMain(r) => r.ref = MainRef,
         ~ MovesMain(r) => r.ref \in Refs \ {MainRef},
         MovesMain(r) /\ r.tgt # None => r.exp \cup r.commit \subseteq r.tgt,
         r.type = "device_push" => r.tgt # None
  PROVE  ops' \in [Ops -> OpRow] /\ ops'[o] = r /\ RowShape'
<1>1. ops \in [Ops -> OpRow] BY DEF Shape, TypeOK
<1>2. ops' \in [Ops -> OpRow] /\ ops'[o] = r BY <1>1
<1>3. ASSUME NEW p \in Ops
      PROVE  /\ MovesMain(ops'[p]) => ops'[p].ref = MainRef
             /\ ~ MovesMain(ops'[p]) => ops'[p].ref \in Refs \ {MainRef}
             /\ MovesMain(ops'[p]) /\ ops'[p].tgt # None
                  => ops'[p].exp \cup ops'[p].commit \subseteq ops'[p].tgt
             /\ ops'[p].type = "device_push" => ops'[p].tgt # None
  <2>1. CASE p = o BY <2>1, <1>2
  <2>2. CASE p # o
    <3>1. ops'[p] = ops[p] BY <2>2, <1>1
    <3> QED BY <3>1 DEF Shape, RowShape
  <2> QED BY <2>1, <2>2
<1> QED BY <1>2, <1>3 DEF RowShape

-----------------------------------------------------------------------------
(* Every step keeps the shape.                                             *)

\* The push handler and the merge and conflict steps keep the shape.
LEMMA ShapePush == ASSUME Shape, PushStep PROVE Shape'
<1> USE DEF gitVars, deviceVars, dbVars, clientVars
<1>t. /\ TypeOK /\ JobShape /\ RowShape /\ job \in Job /\ ops \in [Ops -> OpRow]
      /\ status \in [Devices -> DeviceStatus] /\ conflicts \in [Conflicts -> ConflictRecord]
      /\ refs \in [Refs -> Commit]
  BY DEF Shape, TypeOK
<1>c. /\ job.commit \in Commit /\ main \in Commit
      /\ job.dev \in Devices => deviceTip \in Commit
  BY <1>t, RefFacts DEF Job, main, deviceTip
<1>1. CASE RejectPush
  <2>1. KeepsRows(ops') BY <1>1, <1>t, RowsKept DEF RejectPush
  <2>2. TypeOK' BY <1>1, <1>t, <2>1 DEF RejectPush, TypeOK, KeepsRows, RefSteps
  <2>3. JobShape' BY <1>1 DEF RejectPush, JobShape, HoldsRow
  <2> QED BY <2>1, <2>2, <2>3, KeptShape DEF Shape
<1>2. CASE FinishExisting
  <2>1. KeepsRows(ops') BY <1>2, <1>t, RowsKept DEF FinishExisting, OpStatus
  <2>2. job' \in Job /\ job'.dev = job.dev BY <1>2, <1>t, JobTyped, ZenonT(40) DEF FinishExisting, Job
  <2>3. TypeOK' BY <1>2, <1>t, <2>1, <2>2 DEF FinishExisting, TypeOK, KeepsRows, RefSteps, PushSteps
  <2>4. JobShape' BY <1>2, <1>t, <2>2 DEF FinishExisting, JobShape, HoldsRow
  <2> QED BY <2>1, <2>3, <2>4, KeptShape DEF Shape
<1>3. CASE PreparePush
  <2> DEFINE r == [ops[job.push] EXCEPT !.status = "prepared", !.exp = deviceTip]
  <2>1. job.push \in Ops /\ job.op = job.push /\ job.dev \in Devices
        /\ ops[job.push].type = "device_push"
    BY <1>3, <1>t DEF PreparePush, JobShape, row
  <2>2. r \in OpRow /\ r.type = "device_push" /\ r.ref = ops[job.push].ref /\ r.tgt = ops[job.push].tgt
    BY <2>1, <1>t, <1>c DEF OpRow, OpStatus
  <2>3. ops' = [ops EXCEPT ![job.push] = r] BY <1>3, <1>t, <2>1 DEF PreparePush
  <2>4. /\ ops' \in [Ops -> OpRow] /\ ops'[job.push] = r /\ RowShape'
    <3> HIDE DEF r
    <3> QED BY <2>1, <2>2, <2>3, PutShape, <1>t DEF Shape, RowShape, MovesMain
  <2>5. TypeOK' BY <1>3, <1>t, <2>4 DEF PreparePush, TypeOK, PushSteps
  <2>6. JobShape' BY <1>3, <1>t, <2>1, <2>2, <2>4 DEF PreparePush, JobShape, HoldsRow, row
  <2> QED BY <2>4, <2>5, <2>6 DEF Shape
<1>4. CASE ImportPack
  <2>0. PICK b \in Commit : job' = [job EXCEPT !.base = b] \/ job' = job
    BY <1>4, <1>t, <1>c DEF ImportPack, JobShape, Commit
  <2>1. job' \in Job /\ job'.dev = job.dev /\ job'.op = job.op
    BY <2>0, <1>t, JobTyped DEF Job
  <2>2. TypeOK' BY <1>4, <1>t, <2>1 DEF ImportPack, TypeOK, RefSteps, PushSteps
  <2>3. JobShape' BY <1>4, <1>t, <2>1 DEF ImportPack, JobShape, HoldsRow, MovesMain, row
  <2>4. RowShape' BY <1>4, <1>t DEF ImportPack, RowShape
  <2> QED BY <2>2, <2>3, <2>4 DEF Shape
<1>5. CASE MergeNoop
  <2>1. job' \in Job BY <1>5, <1>t, JobTyped DEF MergeNoop
  <2>2. status' \in [Devices -> DeviceStatus]
    BY <1>5, <1>t, SetStatusTyped DEF MergeNoop, DeviceStatus
  <2>3. TypeOK' BY <1>5, <1>t, <2>1, <2>2 DEF MergeNoop, TypeOK, RefSteps
  <2>4. JobShape' BY <1>5 DEF MergeNoop, JobShape, HoldsRow
  <2>5. RowShape' BY <1>5, <1>t DEF MergeNoop, RowShape
  <2> QED BY <2>3, <2>4, <2>5 DEF Shape
<1>7. CASE MergeConflicts
  <2>1. job' \in Job /\ job'.dev = job.dev
    BY <1>7, <1>t, <1>c, JobTyped DEF MergeConflicts, Job, Commit
  <2>2. TypeOK' BY <1>7, <1>t, <2>1 DEF MergeConflicts, TypeOK, PushSteps
  <2>3. JobShape' BY <1>7, <1>t, <2>1 DEF MergeConflicts, MustClassify, JobShape, HoldsRow
  <2>4. RowShape' BY <1>7, <1>t DEF MergeConflicts, RowShape
  <2> QED BY <2>2, <2>3, <2>4 DEF Shape
<1>8. CASE PrepareMerge
  <2>1. PICK o \in Ops :
          /\ ops' = [ops EXCEPT ![o] = [NoRow EXCEPT !.type = "server_merge", !.dev = job.dev,
                       !.status = "prepared", !.exp = main, !.expDev = job.commit,
                       !.commit = job.commit]]
          /\ job' = [job EXCEPT !.op = o]
    BY <1>8 DEF PrepareMerge
  <2> DEFINE r == [NoRow EXCEPT !.type = "server_merge", !.dev = job.dev, !.status = "prepared",
                     !.exp = main, !.expDev = job.commit, !.commit = job.commit]
  <2>2. job.dev \in Devices BY <1>8, <1>t DEF PrepareMerge, MustClassify, JobShape
  <2>3. r \in OpRow /\ r.type = "server_merge" /\ r.ref = MainRef /\ r.tgt = None
    BY <2>2, <1>c, EmptyTyped DEF NoRow, OpRow, OpTypes, OpStatus
  <2>4. ops' \in [Ops -> OpRow] /\ ops'[o] = r /\ RowShape'
    <3>1. ops' = [ops EXCEPT ![o] = r] BY <2>1
    <3> HIDE DEF r
    <3> QED BY <2>3, <3>1, PutShape DEF MovesMain
  <2>5. job' \in Job /\ job'.dev = job.dev /\ job'.op = o BY <2>1, <1>t, JobTyped DEF Job
  <2>6. TypeOK' BY <1>8, <1>t, <2>4, <2>5 DEF PrepareMerge, TypeOK, RefSteps
  <2>7. JobShape' BY <1>8, <2>2, <2>5 DEF PrepareMerge, JobShape, HoldsRow
  <2> QED BY <2>4, <2>6, <2>7 DEF Shape
<1>9. CASE MergePolicyViolation
  <2>1. KeepsRows(ops') BY <1>9, <1>t, RowsKept DEF MergePolicyViolation
  <2>2. job' \in Job /\ job'.dev = job.dev
    BY <1>9, <1>t, <1>c, JobTyped DEF MergePolicyViolation, Job, Commit
  <2>3. TypeOK' BY <1>9, <1>t, <2>1, <2>2 DEF MergePolicyViolation, TypeOK, KeepsRows, PushSteps
  <2>4. JobShape' BY <1>9, <1>t, <2>2 DEF MergePolicyViolation, JobShape, HoldsRow, row
  <2> QED BY <2>1, <2>3, <2>4, KeptShape DEF Shape
<1>10. CASE CreateConflict
  <2>1. PICK c \in Conflicts :
          /\ conflicts' = [conflicts EXCEPT ![c] = [status |-> "open", dev |-> job.dev,
                             base |-> job.base, main |-> main, commit |-> job.commit]]
          /\ job' = [job EXCEPT !.conf = c]
    BY <1>10 DEF CreateConflict
  <2>2. conflicts' \in [Conflicts -> ConflictRecord]
    <3>1. [status |-> "open", dev |-> job.dev, base |-> job.base, main |-> main,
           commit |-> job.commit] \in ConflictRecord
      BY <1>t, <1>c DEF Job, ConflictRecord
    <3> QED BY <3>1, <2>1, <1>t
  <2>3. job' \in Job /\ job'.conf = c BY <2>1, <1>t, JobTyped DEF Job
  <2>4. status' \in [Devices -> DeviceStatus]
    BY <1>10, <1>t, SetStatusTyped DEF CreateConflict, DeviceStatus
  <2>5. TypeOK' BY <1>10, <1>t, <2>2, <2>3, <2>4 DEF CreateConflict, TypeOK, PushSteps
  <2>6. JobShape' BY <1>10, <2>3 DEF CreateConflict, JobShape, HoldsRow
  <2>7. RowShape' BY <1>10, <1>t DEF CreateConflict, RowShape
  <2> QED BY <2>5, <2>6, <2>7 DEF Shape
<1>11. CASE PinConflict
  <2>1. job.conf \in Conflicts BY <1>11, <1>t DEF PinConflict, JobShape
  <2>2. NextPin(job.conf) \in PinKinds BY DEF NextPin, PinKinds
  <2>3. refs' \in [Refs -> Commit] /\ disk' = refs'
    BY <1>11, <1>t, <2>1, <2>2, PinValueTyped DEF PinConflict
  <2>4. TypeOK' BY <1>11, <1>t, <2>3 DEF PinConflict, TypeOK
  <2>5. JobShape' BY <1>11, <1>t DEF PinConflict, JobShape, row
  <2>6. RowShape' BY <1>11, <1>t DEF PinConflict, RowShape
  <2> QED BY <2>4, <2>5, <2>6 DEF Shape
<1>12. CASE PinRefused
  <2>1. TypeOK' BY <1>12, <1>t DEF PinRefused, TypeOK, RefSteps
  <2>2. JobShape' BY <1>12 DEF PinRefused, JobShape, HoldsRow
  <2>3. RowShape' BY <1>12, <1>t DEF PinRefused, RowShape
  <2> QED BY <2>1, <2>2, <2>3 DEF Shape
<1>13. CASE ConflictDone
  <2>1. KeepsRows(ops') BY <1>13, <1>t, RowsKept DEF ConflictDone, OpStatus
  <2>2. job' \in Job BY <1>13, <1>t, JobTyped DEF ConflictDone
  <2>3. TypeOK' BY <1>13, <1>t, <2>1, <2>2 DEF ConflictDone, TypeOK, KeepsRows, RefSteps
  <2>4. JobShape' BY <1>13 DEF ConflictDone, JobShape, HoldsRow
  <2> QED BY <2>1, <2>3, <2>4, KeptShape DEF Shape
<1> QED BY <1>1, <1>2, <1>3, <1>4, <1>5, <1>7, <1>8, <1>9, <1>10, <1>11, <1>12, <1>13
        DEF PushStep

\* Moving a ref, committing metadata and the catch blocks keep the shape.
LEMMA ShapeRef == ASSUME Shape, RefStep PROVE Shape'
<1> USE DEF gitVars, deviceVars, dbVars, clientVars
<1>t. /\ TypeOK /\ JobShape /\ RowShape /\ job \in Job /\ ops \in [Ops -> OpRow]
      /\ status \in [Devices -> DeviceStatus] /\ conflicts \in [Conflicts -> ConflictRecord]
      /\ refs \in [Refs -> Commit] /\ curMain \in Commit
      /\ announced \in Seq([prev : Commit, main : Commit])
  BY DEF Shape, TypeOK
<1>r. pc \in HoldsRow => /\ job.op \in Ops /\ row \in OpRow
                         /\ row.ref \in Refs /\ row.exp \in Commit /\ row.tgt \in Commit
                         /\ row.commit \in Commit
  BY <1>t DEF JobShape, row, OpRow
<1>1. CASE PrepareTarget
  <2>1. PICK v \in Commit : /\ v # None /\ row.exp \cup row.commit \subseteq v
                            /\ ops' = [ops EXCEPT ![job.op].tgt = v]
    <3>1. CASE \E i \in Ids : ops' = [ops EXCEPT ![job.op].tgt = row.exp \cup row.commit \cup {i}]
      <4>1. PICK i \in Ids : ops' = [ops EXCEPT ![job.op].tgt = row.exp \cup row.commit \cup {i}]
        BY <3>1
      <4>2. row.exp \cup row.commit \cup {i} \in Commit
        BY <1>1, <1>r DEF PrepareTarget, HoldsRow, Commit
      <4> QED BY <4>1, <4>2 DEF None
    <3>2. CASE CanReuseDeviceCommit(row.exp, row.commit) /\ ops' = [ops EXCEPT ![job.op].tgt = row.commit]
      BY <3>2, <1>1, <1>r DEF CanReuseDeviceCommit, PrepareTarget, HoldsRow, Commit, None
    <3> QED BY <3>1, <3>2, <1>1 DEF PrepareTarget
  <2> DEFINE r == [row EXCEPT !.tgt = v]
  <2>2. job.op \in Ops /\ row \in OpRow BY <1>1, <1>r DEF PrepareTarget, HoldsRow
  <2>3. /\ r \in OpRow /\ r.type = row.type /\ r.ref = row.ref /\ r.tgt = v
        /\ r.exp = row.exp /\ r.commit = row.commit
    BY <2>1, <2>2 DEF OpRow
  <2>4. ops' = [ops EXCEPT ![job.op] = r] BY <2>1, <2>2, <1>t DEF row
  <2>5. ops' \in [Ops -> OpRow] /\ ops'[job.op] = r /\ RowShape'
    <3>1. /\ MovesMain(row) => row.ref = MainRef
          /\ ~ MovesMain(row) => row.ref \in Refs \ {MainRef}
      BY <1>t, <2>2 DEF RowShape, row
    <3>2. /\ MovesMain(r) => r.ref = MainRef
          /\ ~ MovesMain(r) => r.ref \in Refs \ {MainRef}
          /\ r.exp \cup r.commit \subseteq r.tgt /\ r.tgt # None
      <4> HIDE DEF r
      <4> QED BY <3>1, <2>1, <2>3 DEF MovesMain
    <3> HIDE DEF r
    <3> QED BY <3>2, <2>2, <2>3, <2>4, PutShape
  <2>6. TypeOK' BY <1>1, <1>t, <2>5 DEF PrepareTarget, TypeOK, RefSteps
  <2>7. row' = r BY <1>1, <2>5 DEF PrepareTarget, row
  <2>8. JobShape' BY <1>1, <1>t, <2>1, <2>2, <2>3, <2>7 DEF PrepareTarget, JobShape, HoldsRow
  <2> QED BY <2>5, <2>6, <2>8 DEF Shape
<1>2. CASE UpdateRef
  <2>1. job' \in Job /\ job'.op = job.op /\ job'.dev = job.dev
    BY <1>2, <1>t, JobTyped DEF UpdateRef, Job
  <2>2. refs' \in [Refs -> Commit] BY <1>2, <1>t, <1>r DEF UpdateRef, HoldsRow
  <2>3. CatchBlock \in {"catch", "fail"} BY DEF CatchBlock
  <2>4. TypeOK' BY <1>2, <1>t, <2>1, <2>2, <2>3 DEF UpdateRef, TypeOK, RefSteps
  <2>5. JobShape' BY <1>2, <1>t, <2>1, <2>3 DEF UpdateRef, JobShape, HoldsRow, row
  <2>6. RowShape' BY <1>2, <1>t DEF UpdateRef, RowShape
  <2> QED BY <2>4, <2>5, <2>6 DEF Shape
<1>3. CASE FsyncRepository
  <2>1. TypeOK' BY <1>3, <1>t DEF FsyncRepository, TypeOK, RefSteps
  <2>2. JobShape' BY <1>3, <1>t DEF FsyncRepository, JobShape, HoldsRow, row
  <2>3. RowShape' BY <1>3, <1>t DEF FsyncRepository, RowShape
  <2> QED BY <2>1, <2>2, <2>3 DEF Shape
<1>4. CASE GitUnavailable
  <2>1. job' \in Job BY <1>4, <1>t, JobTyped DEF GitUnavailable
  <2>2. TypeOK' BY <1>4, <1>t, <2>1 DEF GitUnavailable, TypeOK, RefSteps
  <2>3. JobShape' BY <1>4 DEF GitUnavailable, JobShape, HoldsRow
  <2>4. RowShape' BY <1>4, <1>t DEF GitUnavailable, RowShape
  <2> QED BY <2>2, <2>3, <2>4 DEF Shape
<1>5. CASE CatchAborts
  <2>1. KeepsRows(ops') BY <1>5, <1>t, RowsKept DEF CatchAborts
  <2>2. TypeOK' BY <1>5, <1>t, <2>1 DEF CatchAborts, TypeOK, KeepsRows, RefSteps
  <2>3. JobShape' BY <1>5 DEF CatchAborts, JobShape, HoldsRow
  <2> QED BY <2>1, <2>2, <2>3, KeptShape DEF Shape
<1>6. CASE CatchRethrows
  <2>1. TypeOK' BY <1>6, <1>t DEF CatchRethrows, TypeOK, RefSteps
  <2>2. JobShape' BY <1>6 DEF CatchRethrows, JobShape, HoldsRow
  <2>3. RowShape' BY <1>6, <1>t DEF CatchRethrows, RowShape
  <2> QED BY <2>1, <2>2, <2>3 DEF Shape
<1>7. CASE CatchReconciles
  <2>1. KeepsRows(ops') BY <1>7, <1>t, RowsKept DEF CatchReconciles
  <2>2. /\ faults' \in Nat /\ pc' \in {"commit", "fail"}
        /\ vault' \in {"active", "blocked_integrity"}
        /\ pc' = "commit" => ops' = ops /\ row.tgt # None
    BY <1>7, <1>t DEF CatchReconciles, ReadBack, Fault, TypeOK
  <2>3. TypeOK' BY <1>7, <1>t, <2>1, <2>2 DEF CatchReconciles, TypeOK, KeepsRows, RefSteps
  <2>4. JobShape' BY <1>7, <1>t, <2>2 DEF CatchReconciles, JobShape, HoldsRow, row
  <2> QED BY <2>1, <2>3, <2>4, KeptShape DEF Shape
<1>8. CASE FailPush
  <2>1. KeepsRows(ops') BY <1>8, <1>t, RowsKept DEF FailPush
  <2>2. TypeOK' BY <1>8, <1>t, <2>1 DEF FailPush, TypeOK, KeepsRows, RefSteps
  <2>3. JobShape' BY <1>8 DEF FailPush, JobShape, HoldsRow
  <2> QED BY <2>1, <2>2, <2>3, KeptShape DEF Shape
<1>9. CASE CommitPush
  <2>1. KeepsRows(ops') BY <1>9, <1>t, RowsKept DEF CommitPush, OpStatus
  <2>2. head' \in [Devices -> Commit]
    BY <1>9, <1>t, <1>r DEF CommitPush, TypeOK, HoldsRow
  <2>3. status' \in [Devices -> DeviceStatus]
    BY <1>9, <1>t, SetStatusTyped DEF CommitPush, DeviceStatus
  <2>4. TypeOK' BY <1>9, <1>t, <2>1, <2>2, <2>3 DEF CommitPush, TypeOK, KeepsRows, PushSteps
  <2>5. JobShape' BY <1>9, <1>t DEF CommitPush, JobShape, HoldsRow
  <2> QED BY <2>1, <2>4, <2>5, KeptShape DEF Shape
<1>10. CASE CommitMerge
  <2>1. KeepsRows(ops') BY <1>10, <1>t, RowsKept DEF CommitMerge, OpStatus
  <2>2. status' \in [Devices -> DeviceStatus]
    BY <1>10, <1>t, SetStatusTyped DEF CommitMerge, DeviceStatus
  <2>3. /\ announced' \in Seq([prev : Commit, main : Commit]) /\ curMain' \in Commit
        /\ job' \in Job
    BY <1>10, <1>t, <1>r, AnnounceTyped, JobTyped DEF CommitMerge, HoldsRow
  <2>4. TypeOK' BY <1>10, <1>t, <2>1, <2>2, <2>3 DEF CommitMerge, TypeOK, KeepsRows, RefSteps
  <2>5. JobShape' BY <1>10 DEF CommitMerge, JobShape, HoldsRow
  <2> QED BY <2>1, <2>4, <2>5, KeptShape DEF Shape
<1>11. CASE CommitResolve
  <2>1. KeepsRows(ops') BY <1>11, <1>t, RowsKept DEF CommitResolve, OpStatus
  <2>2. status' \in [Devices -> DeviceStatus]
    BY <1>11, <1>t, SetStatusTyped DEF CommitResolve, DeviceStatus
  <2>3. /\ announced' \in Seq([prev : Commit, main : Commit]) /\ curMain' \in Commit
    BY <1>11, <1>t, <1>r, AnnounceTyped DEF CommitResolve, HoldsRow
  <2>4. conflicts' \in [Conflicts -> ConflictRecord]
    BY <1>11, <1>t DEF CommitResolve, ConflictRecord
  <2>5. TypeOK' BY <1>11, <1>t, <2>1, <2>2, <2>3, <2>4 DEF CommitResolve, TypeOK, KeepsRows, RefSteps
  <2>6. JobShape' BY <1>11 DEF CommitResolve, JobShape, HoldsRow
  <2> QED BY <2>1, <2>5, <2>6, KeptShape DEF Shape
<1>12. CASE CommitMainEdit
  <2>1. KeepsRows(ops') BY <1>12, <1>t, RowsKept DEF CommitMainEdit, OpStatus
  <2>2. announced' \in Seq([prev : Commit, main : Commit]) /\ curMain' \in Commit
    BY <1>12, <1>t, <1>r, AnnounceTyped DEF CommitMainEdit, HoldsRow
  <2>3. TypeOK' BY <1>12, <1>t, <2>1, <2>2 DEF CommitMainEdit, TypeOK, KeepsRows, RefSteps
  <2>4. JobShape' BY <1>12 DEF CommitMainEdit, JobShape, HoldsRow
  <2> QED BY <2>1, <2>3, <2>4, KeptShape DEF Shape
<1>13. CASE CommitRefresh
  <2>1. KeepsRows(ops') BY <1>13, <1>t, RowsKept DEF CommitRefresh, OpStatus
  <2>2. conflicts' \in [Conflicts -> ConflictRecord]
    BY <1>13, <1>t, <1>r, SMTT(30) DEF CommitRefresh, ConflictRecord, HoldsRow
  <2>3. TypeOK' BY <1>13, <1>t, <2>1, <2>2 DEF CommitRefresh, TypeOK, KeepsRows, RefSteps
  <2>4. JobShape' BY <1>13 DEF CommitRefresh, JobShape, HoldsRow
  <2> QED BY <2>1, <2>3, <2>4, KeptShape DEF Shape
<1>14. CASE Finish
  <2>1. KeepsRows(ops') BY <1>14, <1>t, RowsKept DEF Finish
  <2>2. acked' \in SUBSET Commit BY <1>14, <1>t DEF Finish, TypeOK, Job
  <2>3. TypeOK' BY <1>14, <1>t, <2>1, <2>2, EmptyTyped DEF Finish, TypeOK, KeepsRows, StartupSteps
  <2>4. JobShape' BY <1>14 DEF Finish, JobShape, HoldsRow
  <2> QED BY <2>1, <2>3, <2>4, KeptShape DEF Shape
<1> QED BY <1>1, <1>2, <1>3, <1>4, <1>5, <1>6, <1>7, <1>8, <1>9, <1>10, <1>11, <1>12, <1>13, <1>14
        DEF RefStep

\* Failures keep the shape.
LEMMA ShapeFault == ASSUME Shape, FaultStep PROVE Shape'
<1> USE DEF gitVars, deviceVars, dbVars, clientVars
<1>t. /\ TypeOK /\ JobShape /\ RowShape /\ job \in Job /\ ops \in [Ops -> OpRow]
      /\ refs \in [Refs -> Commit] /\ disk \in [Refs -> Commit] /\ faults \in Nat
  BY DEF Shape, TypeOK
<1>b. CatchBlock \in {"catch", "fail"} /\ (pc = "import" => CatchBlock = "fail") BY DEF CatchBlock
<1>1. CASE PinFails
  <2>0. gitUp' \in BOOLEAN /\ faults' = faults + 1 BY <1>1, <1>t, Zenon DEF PinFails, TypeOK, Fault
  <2>1. TypeOK' BY <1>1, <1>t, <2>0 DEF PinFails, TypeOK, RefSteps
  <2>2. JobShape' BY <1>1 DEF PinFails, JobShape, HoldsRow
  <2>3. RowShape' BY <1>1, <1>t DEF PinFails, RowShape
  <2> QED BY <2>1, <2>2, <2>3 DEF Shape
<1>2. CASE FsyncFails
  <2>1. job' \in Job /\ job'.op = job.op /\ job'.dev = job.dev
    BY <1>2, <1>t, JobTyped DEF FsyncFails, Job
  <2>0. gitUp' \in BOOLEAN /\ faults' = faults + 1 BY <1>2, Zenon DEF FsyncFails, Fault
  <2>2. TypeOK' BY <1>2, <1>t, <1>b, <2>0, <2>1 DEF FsyncFails, TypeOK, RefSteps
  <2>3. JobShape' BY <1>2, <1>t, <1>b, <2>1 DEF FsyncFails, JobShape, HoldsRow, row
  <2>4. RowShape' BY <1>2, <1>t DEF FsyncFails, RowShape
  <2> QED BY <2>2, <2>3, <2>4 DEF Shape
<1>3. CASE GitCommandFails
  <2>1. job' \in Job /\ job'.op = job.op /\ job'.dev = job.dev
    BY <1>3, <1>t, JobTyped DEF GitCommandFails, Job
  <2>2. refs' \in [Refs -> Commit]
    BY <1>3, <1>t DEF GitCommandFails, JobShape, HoldsRow, row, OpRow
  <2>3. TypeOK' BY <1>3, <1>t, <1>b, <2>1, <2>2 DEF GitCommandFails, TypeOK, RefSteps, Fault
  <2>4. JobShape' BY <1>3, <1>t, <1>b, <2>1 DEF GitCommandFails, JobShape, HoldsRow, row
  <2>5. RowShape' BY <1>3, <1>t DEF GitCommandFails, RowShape
  <2> QED BY <2>3, <2>4, <2>5 DEF Shape
<1>4. CASE StoreWriteFails
  <2>1. job' \in Job /\ job'.op = job.op /\ job'.dev = job.dev
    BY <1>4, <1>t, JobTyped DEF StoreWriteFails, Job
  <2>2. pc' \in {"catch", "fail", "end"} /\ (pc' = "catch" => pc = "target")
    BY <1>4, <1>b DEF StoreWriteFails
  <2>3. TypeOK' BY <1>4, <1>t, <2>1, <2>2 DEF StoreWriteFails, TypeOK, RefSteps, Fault
  <2>4. JobShape' BY <1>4, <1>t, <2>1, <2>2 DEF StoreWriteFails, JobShape, HoldsRow, row
  <2>5. RowShape' BY <1>4, <1>t DEF StoreWriteFails, RowShape
  <2> QED BY <2>3, <2>4, <2>5 DEF Shape
<1>5. CASE Crash
  <2>1. TypeOK' BY <1>5, <1>t, EmptyTyped DEF Crash, Stop, TypeOK, Fault
  <2>2. JobShape' BY <1>5 DEF Crash, Stop, JobShape, HoldsRow
  <2>3. RowShape' BY <1>5, <1>t DEF Crash, Stop, RowShape
  <2> QED BY <2>1, <2>2, <2>3 DEF Shape
<1>6. CASE PowerLoss
  <2>1. refs' \in [Refs -> Commit] BY <1>6, <1>t DEF PowerLoss
  <2>2. TypeOK' BY <1>6, <1>t, <2>1, EmptyTyped DEF PowerLoss, Stop, TypeOK, Fault
  <2>3. JobShape' BY <1>6 DEF PowerLoss, Stop, JobShape, HoldsRow
  <2>4. RowShape' BY <1>6, <1>t DEF PowerLoss, Stop, RowShape
  <2> QED BY <2>2, <2>3, <2>4 DEF Shape
<1> QED BY <1>1, <1>2, <1>3, <1>4, <1>5, <1>6 DEF FaultStep

\* What ensureProtectedConflictRefs writes: the pins of one conflict, nothing else.
LEMMA ProtectWrites ==
  ASSUME Shape, NEW c \in Conflicts, ProtectConflict(c)
  PROVE  /\ refs' \in [Refs -> Commit]
         /\ refs'[MainRef] = refs[MainRef]
         /\ disk' \in {disk, refs'}
         /\ disk = refs => disk' = refs'
<1>t. refs \in [Refs -> Commit] /\ disk \in [Refs -> Commit] /\ conflicts \in [Conflicts -> ConflictRecord]
  BY DEF Shape, TypeOK
<1> DEFINE put == [r \in Refs |-> IF \E k \in Unpinned(c) : r = PinRef(c, k)
                                  THEN PinValue(c, CHOOSE k \in PinKinds : r = PinRef(c, k))
                                  ELSE refs[r]]
<1>1. ASSUME NEW r \in Refs, \E k \in Unpinned(c) : r = PinRef(c, k)
      PROVE  PinValue(c, CHOOSE k \in PinKinds : r = PinRef(c, k)) \in Commit
  <2>1. \E k \in PinKinds : r = PinRef(c, k) BY <1>1 DEF Unpinned
  <2>2. (CHOOSE k \in PinKinds : r = PinRef(c, k)) \in PinKinds BY <2>1
  <2> QED BY <2>2, <1>t, PinValueTyped
<1>2. put \in [Refs -> Commit] BY <1>1, <1>t
<1>3. put[MainRef] = refs[MainRef]
  BY RefFacts DEF Unpinned
<1>4. Unpinned(c) = {} => put = refs BY <1>t
<1>5. \/ refs' = put /\ disk' = IF Unpinned(c) = {} THEN disk ELSE refs'
      \/ refs' = refs /\ disk' = disk
  BY DEF ProtectConflict
<1> HIDE DEF put
<1> QED BY <1>2, <1>3, <1>4, <1>5, <1>t

\* Restart and recovery keep the shape.
LEMMA ShapeStartup == ASSUME Shape, StartupStep PROVE Shape'
<1> USE DEF gitVars, deviceVars, dbVars, clientVars
<1>t. /\ TypeOK /\ JobShape /\ RowShape /\ job \in Job /\ ops \in [Ops -> OpRow]
      /\ status \in [Devices -> DeviceStatus] /\ conflicts \in [Conflicts -> ConflictRecord]
      /\ refs \in [Refs -> Commit] /\ head \in [Devices -> Commit]
      /\ announced \in Seq([prev : Commit, main : Commit])
      /\ todo \in SUBSET (Ops \cup Conflicts)
  BY DEF Shape, TypeOK
<1>1. CASE Boot
  <2>1. TypeOK' BY <1>1, <1>t DEF Boot, TypeOK, StartupSteps
  <2>2. JobShape' BY <1>1 DEF Boot, JobShape, HoldsRow
  <2>3. RowShape' BY <1>1, <1>t DEF Boot, RowShape
  <2> QED BY <2>1, <2>2, <2>3 DEF Shape
<1>2. CASE StartProtect
  <2>1. TypeOK' BY <1>2, <1>t DEF StartProtect, TypeOK, StartupSteps
  <2>2. JobShape' BY <1>2 DEF StartProtect, JobShape, HoldsRow
  <2>3. RowShape' BY <1>2, <1>t DEF StartProtect, RowShape
  <2> QED BY <2>1, <2>2, <2>3 DEF Shape
<1>3. CASE ScanVault
  <2>1. KeepsRows(ops') BY <1>3, <1>t, RowsKept DEF ScanVault
  <2>2. TypeOK' BY <1>3, <1>t, <2>1 DEF ScanVault, TypeOK, KeepsRows, StartupSteps
  <2>3. JobShape' BY <1>3 DEF ScanVault, JobShape, HoldsRow
  <2> QED BY <2>1, <2>2, <2>3, KeptShape DEF Shape
<1>4. CASE Listen
  <2>1. TypeOK' BY <1>4, <1>t DEF Listen, TypeOK
  <2>2. JobShape' BY <1>4 DEF Listen, JobShape, HoldsRow
  <2>3. RowShape' BY <1>4, <1>t DEF Listen, RowShape
  <2> QED BY <2>1, <2>2, <2>3 DEF Shape
<1>5. CASE RestartForGit
  <2>1. TypeOK' BY <1>5, <1>t, EmptyTyped DEF RestartForGit, Stop, TypeOK
  <2>2. JobShape' BY <1>5 DEF RestartForGit, Stop, JobShape, HoldsRow
  <2>3. RowShape' BY <1>5, <1>t DEF RestartForGit, Stop, RowShape
  <2> QED BY <2>1, <2>2, <2>3 DEF Shape
<1>6. ASSUME NEW o \in Ops, ReconcileAbort(o) PROVE Shape'
  <2>1. KeepsRows(ops') BY <1>6, <1>t, RowsKept DEF ReconcileAbort
  <2>2. TypeOK' BY <1>6, <1>t, <2>1 DEF ReconcileAbort, Reconciling, TypeOK, KeepsRows
  <2>3. JobShape' BY <1>6 DEF ReconcileAbort, Reconciling, JobShape, HoldsRow
  <2> QED BY <2>1, <2>2, <2>3, KeptShape DEF Shape
<1>7. ASSUME NEW o \in Ops, ReconcileBlock(o) PROVE Shape'
  <2>1. TypeOK' BY <1>7, <1>t DEF ReconcileBlock, Reconciling, TypeOK
  <2>2. JobShape' BY <1>7 DEF ReconcileBlock, Reconciling, JobShape, HoldsRow
  <2>3. RowShape' BY <1>7, <1>t DEF ReconcileBlock, RowShape
  <2> QED BY <2>1, <2>2, <2>3 DEF Shape
<1>8. ASSUME NEW o \in Ops, RollForwardPush(o) PROVE Shape'
  <2>1. KeepsRows(ops') BY <1>8, <1>t, RowsKept DEF RollForwardPush, OpStatus
  <2>2. head' \in [Devices -> Commit] BY <1>8, <1>t DEF RollForwardPush, OpRow
  <2>3. status' \in [Devices -> DeviceStatus]
    BY <1>8, <1>t, SetStatusTyped DEF RollForwardPush, DeviceStatus
  <2>4. TypeOK' BY <1>8, <1>t, <2>1, <2>2, <2>3 DEF RollForwardPush, Reconciling, TypeOK, KeepsRows
  <2>5. JobShape' BY <1>8 DEF RollForwardPush, Reconciling, JobShape, HoldsRow
  <2> QED BY <2>1, <2>4, <2>5, KeptShape DEF Shape
<1>9. ASSUME NEW o \in Ops, RollForwardMain(o) PROVE Shape'
  <2>1. KeepsRows(ops') BY <1>9, <1>t, RowsKept DEF RollForwardMain, OpStatus
  <2>2. status' \in [Devices -> DeviceStatus]
    BY <1>9, <1>t, SetStatusTyped DEF RollForwardMain, DeviceStatus
  <2>3. ops[o].exp \in Commit /\ ops[o].tgt \in Commit BY <1>t DEF OpRow
  <2>4. announced' \in Seq([prev : Commit, main : Commit]) /\ curMain' \in Commit
    BY <1>9, <1>t, <2>3, AnnounceTyped DEF RollForwardMain
  <2>5. conflicts' \in [Conflicts -> ConflictRecord]
    BY <1>9, <1>t DEF RollForwardMain, ConflictRecord
  <2>6. TypeOK' BY <1>9, <1>t, <2>1, <2>2, <2>4, <2>5
                DEF RollForwardMain, Reconciling, TypeOK, KeepsRows
  <2>7. JobShape' BY <1>9 DEF RollForwardMain, Reconciling, JobShape, HoldsRow
  <2> QED BY <2>1, <2>6, <2>7, KeptShape DEF Shape
<1>10. ASSUME NEW o \in Ops, RollForwardRefresh(o) PROVE Shape'
  <2>1. KeepsRows(ops') BY <1>10, <1>t, RowsKept DEF RollForwardRefresh, OpStatus
  <2>2. conflicts' \in [Conflicts -> ConflictRecord]
    BY <1>10, <1>t DEF RollForwardRefresh, ConflictRecord, OpRow
  <2>3. TypeOK' BY <1>10, <1>t, <2>1, <2>2 DEF RollForwardRefresh, Reconciling, TypeOK, KeepsRows
  <2>4. JobShape' BY <1>10 DEF RollForwardRefresh, Reconciling, JobShape, HoldsRow
  <2> QED BY <2>1, <2>3, <2>4, KeptShape DEF Shape
<1>11. ASSUME NEW c \in Conflicts, ProtectConflict(c) PROVE Shape'
  <2>1. refs' \in [Refs -> Commit] /\ disk' \in [Refs -> Commit]
    BY <1>11, <1>t, ProtectWrites DEF Shape, TypeOK
  <2>2. vault' \in {"active", "blocked_integrity"} BY <1>11, <1>t DEF ProtectConflict, TypeOK
  <2>3. TypeOK' BY <1>11, <1>t, <2>1, <2>2 DEF ProtectConflict, TypeOK
  <2>4. JobShape' BY <1>11 DEF ProtectConflict, JobShape, HoldsRow
  <2>5. RowShape' BY <1>11, <1>t DEF ProtectConflict, RowShape
  <2> QED BY <2>3, <2>4, <2>5 DEF Shape
<1>12. ASSUME NEW d \in Devices, ResumeMerge(d) PROVE Shape'
  <2>1. job' \in Job /\ job'.dev = d
    BY <1>12, <1>t, EmptyTyped DEF ResumeMerge, NoJob, Job
  <2>2. TypeOK' BY <1>12, <1>t, <2>1 DEF ResumeMerge, TypeOK, PushSteps
  <2>3. JobShape' BY <1>12, <2>1 DEF ResumeMerge, JobShape, HoldsRow
  <2>4. RowShape' BY <1>12, <1>t DEF ResumeMerge, RowShape
  <2> QED BY <2>2, <2>3, <2>4 DEF Shape
<1> QED BY <1>1, <1>2, <1>3, <1>4, <1>5, <1>6, <1>7, <1>8, <1>9, <1>10, <1>11, <1>12 DEF StartupStep

\* Requests keep the shape.
LEMMA ShapeRequest == ASSUME Shape, RequestStep PROVE Shape'
<1> USE DEF gitVars, deviceVars, dbVars, clientVars
<1>t. /\ TypeOK /\ JobShape /\ RowShape /\ job \in Job /\ ops \in [Ops -> OpRow]
      /\ status \in [Devices -> DeviceStatus] /\ conflicts \in [Conflicts -> ConflictRecord]
      /\ refs \in [Refs -> Commit] /\ head \in [Devices -> Commit] /\ curMain \in Commit
      /\ waiting \in [Devices -> Commit] /\ sent \in [Devices -> SUBSET Commit]
      /\ announced \in Seq([prev : Commit, main : Commit])
      /\ requests \in Nat /\ faults \in Nat
  BY DEF Shape, TypeOK
<1>k. KnownMains \subseteq Commit
  <2> DEFINE E == [prev : Commit, main : Commit]
  <2>0. \A i \in DOMAIN announced : announced[i] \in E
    <3>1. announced \in Seq(E) BY <1>t
    <3> HIDE DEF E
    <3> QED BY <3>1
  <2>1. \A i \in DOMAIN announced : announced[i].main \in Commit BY <2>0
  <2> QED BY <2>1, EmptyTyped DEF KnownMains
<1>1. ASSUME NEW d \in Devices, AuthenticatePush(d) PROVE Shape'
  <2>1. waiting' \in [Devices -> Commit] /\ sent' \in [Devices -> SUBSET Commit] /\ requests' \in Nat
    <3>1. CASE \E t \in sent[d] : waiting' = [waiting EXCEPT ![d] = t] /\ UNCHANGED <<sent, requests>>
      BY <3>1, <1>t
    <3>2. CASE /\ requests' = requests + 1
               /\ \E t \in Proposable(d) : /\ waiting' = [waiting EXCEPT ![d] = t]
                                           /\ sent' = [sent EXCEPT ![d] = @ \cup {t}]
      <4>1. PICK t \in Proposable(d) : /\ waiting' = [waiting EXCEPT ![d] = t]
                                      /\ sent' = [sent EXCEPT ![d] = @ \cup {t}]
        BY <3>2
      <4>2. ProposalBases(d) \subseteq Commit BY <1>k, <1>t, RefFacts, EmptyTyped DEF ProposalBases
      <4>3. t \in Commit BY <4>1, <4>2, <1>k DEF Proposable, Commit
      <4>4. waiting' \in [Devices -> Commit] BY <4>1, <4>3, <1>t
      <4>5. sent[d] \cup {t} \in SUBSET Commit BY <4>3, <1>t
      <4>6. sent' = [sent EXCEPT ![d] = sent[d] \cup {t}] BY <4>1, <1>t
      <4>7. sent' \in [Devices -> SUBSET Commit] BY <4>5, <4>6, <1>t
      <4> QED BY <4>4, <4>7, <3>2, <1>t
    <3> QED BY <1>1, <3>1, <3>2 DEF AuthenticatePush
  <2>2. TypeOK' BY <1>1, <1>t, <2>1 DEF AuthenticatePush, TypeOK
  <2>3. JobShape' BY <1>1, <1>t DEF AuthenticatePush, JobShape, row
  <2>4. RowShape' BY <1>1, <1>t DEF AuthenticatePush, RowShape
  <2> QED BY <2>2, <2>3, <2>4 DEF Shape
<1>2. ASSUME NEW d \in Devices, StartPush(d) PROVE Shape'
  <2> DEFINE r == [NoRow EXCEPT !.type = "device_push", !.dev = d, !.status = "started",
                     !.ref = DeviceRef(d), !.exp = head[d], !.tgt = waiting[d],
                     !.commit = waiting[d]]
  <2>1. PICK o \in Ops : /\ ops' = [ops EXCEPT ![o] = r]
                         /\ job' = [NoJob EXCEPT !.dev = d, !.commit = waiting[d], !.op = o, !.push = o]
    BY <1>2 DEF StartPush
  <2>2. /\ r \in OpRow /\ r.type = "device_push" /\ r.ref = DeviceRef(d) /\ r.tgt = waiting[d]
    BY <1>t, RefFacts, EmptyTyped DEF NoRow, OpRow, OpTypes, OpStatus
  <2>3. ops' \in [Ops -> OpRow] /\ ops'[o] = r /\ RowShape'
    <3>1. r.ref \in Refs \ {MainRef} /\ r.tgt # None BY <1>2, <2>2, RefFacts DEF StartPush
    <3> HIDE DEF r
    <3> QED BY <2>1, <2>2, <3>1, PutShape DEF MovesMain
  <2>4. job' \in Job /\ job'.dev = d /\ job'.op = o /\ job'.push = o
    BY <2>1, <1>t, EmptyTyped DEF NoJob, Job
  <2>5. waiting' \in [Devices -> Commit] BY <1>2, <1>t, EmptyTyped DEF StartPush
  <2>6. TypeOK' BY <1>2, <1>t, <2>3, <2>4, <2>5 DEF StartPush, TypeOK, PushSteps
  <2>7. JobShape' BY <1>2, <2>2, <2>3, <2>4 DEF StartPush, JobShape, HoldsRow, row
  <2> QED BY <2>3, <2>6, <2>7 DEF Shape
<1>3. ASSUME NEW d \in Devices, AcknowledgeApplied(d) PROVE Shape'
  <2>1. PICK m \in KnownMains :
          /\ applied' = [applied EXCEPT ![d] = m]
          /\ status' = SetStatus(d, IF m = curMain THEN "synced" ELSE "paired")
    BY <1>3 DEF AcknowledgeApplied
  <2>2. status' \in [Devices -> DeviceStatus] BY <2>1, <1>t, SetStatusTyped DEF DeviceStatus
  <2>3. applied' \in [Devices -> Commit] BY <2>1, <1>t, <1>k DEF TypeOK
  <2>4. TypeOK' BY <1>3, <1>t, <2>2, <2>3 DEF AcknowledgeApplied, TypeOK
  <2>5. JobShape' BY <1>3, <1>t DEF AcknowledgeApplied, JobShape, row
  <2>6. RowShape' BY <1>3, <1>t DEF AcknowledgeApplied, RowShape
  <2> QED BY <2>4, <2>5, <2>6 DEF Shape
<1>4. ASSUME NEW d \in Devices, CompleteOnboarding(d) PROVE Shape'
  <2>1. status' \in [Devices -> DeviceStatus]
    BY <1>4, <1>t, SetStatusTyped DEF CompleteOnboarding, DeviceStatus
  <2>2. TypeOK' BY <1>4, <1>t, <2>1 DEF CompleteOnboarding, TypeOK
  <2>3. JobShape' BY <1>4, <1>t DEF CompleteOnboarding, JobShape, row
  <2>4. RowShape' BY <1>4, <1>t DEF CompleteOnboarding, RowShape
  <2> QED BY <2>2, <2>3, <2>4 DEF Shape
<1>5. ASSUME NEW d \in Devices, Revoke(d) PROVE Shape'
  <2>1. status' \in [Devices -> DeviceStatus] BY <1>5, <1>t DEF Revoke, DeviceStatus
  <2>2. TypeOK' BY <1>5, <1>t, <2>1 DEF Revoke, TypeOK
  <2>3. JobShape' BY <1>5, <1>t DEF Revoke, JobShape, row
  <2>4. RowShape' BY <1>5, <1>t DEF Revoke, RowShape
  <2> QED BY <2>2, <2>3, <2>4 DEF Shape
<1>6. ASSUME NEW c \in Conflicts, StartResolve(c) PROVE Shape'
  <2> DEFINE r == [NoRow EXCEPT !.type = "conflict_resolve", !.dev = conflicts[c].dev,
                     !.status = "prepared", !.exp = curMain, !.expDev = conflicts[c].commit,
                     !.commit = conflicts[c].commit, !.conf = c]
  <2>1. PICK o \in Ops : /\ ops' = [ops EXCEPT ![o] = r]
                         /\ job' = [NoJob EXCEPT !.dev = conflicts[c].dev, !.op = o, !.conf = c]
    BY <1>6 DEF StartResolve
  <2>0. conflicts[c].dev \in Devices \cup {NoDevice} /\ conflicts[c].commit \in Commit
    BY <1>t DEF ConflictRecord
  <2>2. /\ r \in OpRow /\ r.type = "conflict_resolve" /\ r.ref = MainRef /\ r.tgt = None
    BY <2>0, <1>t, RefFacts, EmptyTyped DEF NoRow, OpRow, OpTypes, OpStatus
  <2>3. ops' \in [Ops -> OpRow] /\ ops'[o] = r /\ RowShape'
    <3> HIDE DEF r
    <3> QED BY <2>1, <2>2, PutShape DEF MovesMain
  <2>4. job' \in Job /\ job'.op = o BY <2>0, <2>1, <1>t, EmptyTyped DEF NoJob, Job
  <2>5. TypeOK' BY <1>6, <1>t, <2>3, <2>4 DEF StartResolve, TypeOK, RefSteps
  <2>6. JobShape' BY <1>6, <2>2, <2>3, <2>4 DEF StartResolve, JobShape, HoldsRow, row
  <2> QED BY <2>3, <2>5, <2>6 DEF Shape
<1>7. ASSUME NEW c \in Conflicts, StartRefresh(c) PROVE Shape'
  <2> DEFINE r == [NoRow EXCEPT !.type = "conflict_refresh", !.dev = conflicts[c].dev,
                     !.status = "prepared", !.ref = PinRef(c, "current"),
                     !.exp = conflicts[c].main, !.tgt = curMain, !.conf = c]
  <2>0. conflicts[c].dev \in Devices \cup {NoDevice} /\ conflicts[c].main \in Commit
    BY <1>t DEF ConflictRecord
  <2>1. CASE vault' = "blocked_integrity" /\ UNCHANGED <<ops, pc, job>>
    <3>1. TypeOK' BY <1>7, <1>t, <2>1 DEF StartRefresh, TypeOK
    <3>2. JobShape' BY <1>7, <1>t, <2>1 DEF StartRefresh, JobShape, row
    <3>3. RowShape' BY <1>t, <2>1 DEF RowShape
    <3> QED BY <3>1, <3>2, <3>3 DEF Shape
  <2>2. CASE /\ \E o \in Ops :
                  /\ ops' = [ops EXCEPT ![o] = r]
                  /\ job' = [NoJob EXCEPT !.dev = conflicts[c].dev, !.op = o, !.conf = c]
             /\ pc' = "cas" /\ UNCHANGED vault
    <3>1. PICK o \in Ops : /\ ops' = [ops EXCEPT ![o] = r]
                           /\ job' = [NoJob EXCEPT !.dev = conflicts[c].dev, !.op = o, !.conf = c]
      BY <2>2
    <3>2. /\ r \in OpRow /\ r.type = "conflict_refresh" /\ r.ref = PinRef(c, "current")
          /\ r.tgt = curMain
      BY <2>0, <1>t, RefFacts, EmptyTyped DEF NoRow, OpRow, OpTypes, OpStatus, PinKinds
    <3>3. ops' \in [Ops -> OpRow] /\ ops'[o] = r /\ RowShape'
      <4>1. r.ref \in Refs \ {MainRef} BY <3>2, RefFacts DEF PinKinds
      <4> HIDE DEF r
      <4> QED BY <3>1, <3>2, <4>1, PutShape DEF MovesMain
    <3>4. job' \in Job /\ job'.op = o BY <2>0, <3>1, <1>t, EmptyTyped DEF NoJob, Job
    <3>5. TypeOK' BY <1>7, <1>t, <2>2, <3>3, <3>4 DEF StartRefresh, TypeOK, RefSteps
    <3>6. JobShape' BY <2>2, <3>2, <3>3, <3>4 DEF JobShape, HoldsRow, MovesMain, row
    <3> QED BY <3>3, <3>5, <3>6 DEF Shape
  <2> QED BY <1>7, <2>1, <2>2 DEF StartRefresh
<1>8. CASE StartRestore
  <2> DEFINE r == [NoRow EXCEPT !.type = "note_restore", !.status = "prepared", !.exp = curMain]
  <2>1. PICK o \in Ops : ops' = [ops EXCEPT ![o] = r] /\ job' = [NoJob EXCEPT !.op = o]
    BY <1>8 DEF StartRestore
  <2>2. r \in OpRow /\ r.type = "note_restore" /\ r.ref = MainRef /\ r.tgt = None
    BY <1>t, RefFacts, EmptyTyped DEF NoRow, OpRow, OpTypes, OpStatus
  <2>3. ops' \in [Ops -> OpRow] /\ ops'[o] = r /\ RowShape'
    <3> HIDE DEF r
    <3> QED BY <2>1, <2>2, PutShape DEF MovesMain
  <2>4. job' \in Job /\ job'.op = o BY <2>1, EmptyTyped DEF NoJob, Job
  <2>5. TypeOK' BY <1>8, <1>t, <2>3, <2>4 DEF StartRestore, TypeOK, RefSteps
  <2>6. JobShape' BY <1>8, <2>2, <2>3, <2>4 DEF StartRestore, JobShape, HoldsRow, row
  <2> QED BY <2>3, <2>5, <2>6 DEF Shape
<1>9. ASSUME NEW type \in {"vault_settings", "name_repair"}, StartMainEdit(type) PROVE Shape'
  <2>1. PICK o \in Ops, i \in Ids :
          /\ ops' = [ops EXCEPT ![o] = [NoRow EXCEPT !.type = type, !.status = "prepared",
                       !.exp = curMain, !.tgt = curMain \cup {i}]]
          /\ job' = [NoJob EXCEPT !.op = o]
    BY <1>9 DEF StartMainEdit
  <2> DEFINE v == curMain \cup {i}
             r == [NoRow EXCEPT !.type = type, !.status = "prepared", !.exp = curMain, !.tgt = v]
  <2>2. v \in Commit /\ v # None /\ curMain \subseteq v BY <1>t DEF Commit, None
  <2>3. /\ r \in OpRow /\ r.type = type /\ r.ref = MainRef /\ r.tgt = v
        /\ r.exp = curMain /\ r.commit = None
    <3> HIDE DEF v
    <3> QED BY <1>t, <2>2, RefFacts, EmptyTyped DEF NoRow, OpRow, OpTypes, OpStatus
  <2>4. ops' \in [Ops -> OpRow] /\ ops'[o] = r /\ RowShape'
    <3>1. ops' = [ops EXCEPT ![o] = r] BY <2>1
    <3>2. r.exp \cup r.commit \subseteq r.tgt BY <2>2, <2>3 DEF None
    <3> HIDE DEF r, v
    <3> QED BY <2>3, <3>1, <3>2, PutShape DEF MovesMain
  <2>5. job' \in Job /\ job'.op = o BY <2>1, EmptyTyped DEF NoJob, Job
  <2> HIDE DEF r, v
  <2>6. TypeOK' BY <1>9, <1>t, <2>4, <2>5 DEF StartMainEdit, TypeOK, RefSteps
  <2>7. JobShape' BY <1>9, <2>2, <2>3, <2>4, <2>5 DEF StartMainEdit, JobShape, HoldsRow, row
  <2> QED BY <2>4, <2>6, <2>7 DEF Shape
<1>10. CASE ReadinessBlocks \/ RepairVault
  <2>1. TypeOK' BY <1>10, <1>t DEF ReadinessBlocks, RepairVault, TypeOK, Fault
  <2>2. JobShape' BY <1>10, <1>t DEF ReadinessBlocks, RepairVault, JobShape, row
  <2>3. RowShape' BY <1>10, <1>t DEF ReadinessBlocks, RepairVault, RowShape
  <2> QED BY <2>1, <2>2, <2>3 DEF Shape
<1> QED BY <1>1, <1>2, <1>3, <1>4, <1>5, <1>6, <1>7, <1>8, <1>9, <1>10
        DEF RequestStep, StartSettings, StartNameRepair

\* The initial state has the shape.
LEMMA ShapeInit == Init => Shape
<1> SUFFICES ASSUME Init PROVE Shape OBVIOUS
<1>1. TypeOK BY RefFacts, EmptyTyped DEF Init, TypeOK, DeviceStatus
<1>2. JobShape BY DEF Init, JobShape, HoldsRow
<1>3. RowShape BY RefFacts, EmptyTyped DEF Init, RowShape, NoRow, MovesMain, None
<1> QED BY <1>1, <1>2, <1>3 DEF Shape

\* Every step keeps the shape.
LEMMA ShapeStep == Shape /\ [Next]_vars => Shape'
<1> SUFFICES ASSUME Shape, [Next]_vars PROVE Shape' OBVIOUS
<1>1. CASE UNCHANGED vars
  <2>1. TypeOK' /\ JobShape' /\ RowShape'
    BY <1>1 DEF Shape, TypeOK, JobShape, RowShape, row, vars, gitVars, deviceVars, dbVars, clientVars
  <2> QED BY <2>1 DEF Shape
<1>2. CASE Next
  BY <1>1, <1>2, ShapePush, ShapeRef, ShapeFault, ShapeStartup, ShapeRequest DEF Next, Quiescent
<1> QED BY <1>1, <1>2

\* Every reachable state of the integration protocol is well typed.
THEOREM TypeCorrect == Spec => []TypeOK
<1>1. Shape => TypeOK BY DEF Shape
<1> QED BY <1>1, ShapeInit, ShapeStep, PTL DEF Spec

-----------------------------------------------------------------------------
(* Metadata stays behind Git.                                              *)

\* How a step treats the pieces the argument is about: it leaves main, current_main
\* and durability alone, or it is one of the few steps that do not.
Calm ==
  /\ curMain' = curMain
  /\ refs'[MainRef] = refs[MainRef]
  /\ disk'[MainRef] = disk[MainRef] \/ disk'[MainRef] = refs[MainRef]
  /\ "power_loss" \in Faults /\ pc # "fsync" => disk' = refs'
  /\ pc' # "fsync"
  /\ pc' = "commit" => refs'[row'.ref] = row'.tgt

\* A calm step keeps metadata behind Git.
LEMMA CalmKeeps ==
  ASSUME BehindInv, Shape', DownIdle', Calm, pc = "fsync" => "power_loss" \notin Faults
  PROVE  BehindInv'
BY DEF BehindInv, MetadataBehindGit, Moved, Durable, Calm, IsAncestor, main

\* The lock is free while the process is down.
LEMMA DownStep == ASSUME DownIdle, [Next]_vars PROVE DownIdle'
<1> USE DEF DownIdle, gitVars, deviceVars, dbVars, clientVars
<1>1. ASSUME mode' = mode, pc # "idle" PROVE DownIdle' BY <1>1
<1>2. CASE PushStep
  BY <1>1, <1>2 DEF PushStep, RejectPush, FinishExisting, PreparePush, ImportPack, MergeNoop, MergeConflicts, PrepareMerge, MergePolicyViolation, CreateConflict,
     PinConflict, PinRefused, ConflictDone, MustClassify
<1>3. CASE RefStep
  BY <1>1, <1>3 DEF RefStep, PrepareTarget, UpdateRef, FsyncRepository, GitUnavailable, CatchAborts,
     CatchRethrows, CatchReconciles, FailPush, CommitPush, CommitMerge, CommitResolve,
     CommitMainEdit, CommitRefresh, Finish
<1>4. CASE FaultStep
  BY <1>1, <1>4 DEF FaultStep, PinFails, FsyncFails, GitCommandFails, StoreWriteFails, Crash,
     PowerLoss, Stop
<1>5. CASE StartupStep
  BY <1>1, <1>5 DEF StartupStep, Boot, StartProtect, ScanVault, Listen, RestartForGit, Stop,
     ReconcileAbort, ReconcileBlock, RollForwardPush, RollForwardMain, RollForwardRefresh,
     Reconciling, ProtectConflict, ResumeMerge
<1>6. CASE RequestStep
  BY <1>6 DEF RequestStep, AuthenticatePush, StartPush, AcknowledgeApplied, CompleteOnboarding,
     Revoke, StartResolve, StartRefresh, StartRestore, StartSettings, StartNameRepair,
     StartMainEdit, MayRequest, ReadinessBlocks, RepairVault
<1> QED BY <1>2, <1>3, <1>4, <1>5, <1>6 DEF Next, Quiescent, vars

\* Most steps move neither main nor current_main.
LEMMA QuietSteps ==
  ASSUME BehindInv, UNCHANGED <<refs, disk, curMain>>, pc # "fsync", pc' \notin {"fsync", "commit"}
  PROVE  Calm
BY DEF BehindInv, Durable, Calm

\* Every step keeps metadata behind Git and lets no history go.
LEMMA BehindStep ==
  ASSUME DurabilityFaultsApart, BehindInv, [Next]_vars
  PROVE  /\ BehindInv'
         /\ curMain \subseteq curMain'
         /\ main \subseteq main' \/ mode' = "down"
<1> USE DEF gitVars, deviceVars, dbVars, clientVars
<1>s. Shape /\ Shape' /\ DownIdle' BY ShapeStep, DownStep DEF BehindInv
<1>t. /\ refs \in [Refs -> Commit] /\ disk \in [Refs -> Commit] /\ JobShape /\ RowShape
      /\ refs' \in [Refs -> Commit]
  BY <1>s DEF Shape, TypeOK
<1>i. /\ MetadataBehindGit /\ Moved /\ Durable BY DEF BehindInv
<1> DEFINE Goal == /\ BehindInv' /\ curMain \subseteq curMain'
                   /\ main \subseteq main' \/ mode' = "down"
<1>q. ASSUME UNCHANGED <<refs, disk, curMain>>, pc # "fsync", pc' \notin {"fsync", "commit"}
      PROVE  Goal
  BY <1>q, <1>s, QuietSteps, CalmKeeps DEF main
<1>1. CASE PushStep
  <2>1. CASE ImportPack
    <3>1. Calm BY <2>1, <1>i DEF ImportPack, Calm, Durable
    <3>2. main' = main /\ curMain' = curMain BY <2>1 DEF ImportPack, main
    <3> QED BY <2>1, <3>1, <3>2, <1>s, CalmKeeps DEF ImportPack
  <2>2. CASE PinConflict
    <3>1. job.conf \in Conflicts /\ NextPin(job.conf) \in PinKinds
      BY <2>2, <1>t DEF PinConflict, JobShape, NextPin, PinKinds
    <3>2. refs'[MainRef] = refs[MainRef] /\ disk' = refs'
      BY <2>2, <3>1, <1>t, RefFacts DEF PinConflict
    <3>3. Calm BY <2>2, <3>2 DEF PinConflict, Calm
    <3> QED BY <2>2, <3>2, <3>3, <1>s, CalmKeeps DEF PinConflict, main
  <2>3. CASE RejectPush \/ FinishExisting \/ PreparePush
    BY <2>3, <1>q DEF RejectPush, FinishExisting, PreparePush
  <2>4. CASE MergeNoop \/ MergeConflicts \/ PrepareMerge
    BY <2>4, <1>q
    DEF MergeNoop, MergeConflicts, PrepareMerge, MustClassify
  <2>5. CASE MergePolicyViolation \/ CreateConflict \/ PinRefused \/ ConflictDone
    BY <2>5, <1>q DEF MergePolicyViolation, CreateConflict, PinRefused, ConflictDone
  <2> QED BY <1>1, <2>1, <2>2, <2>3, <2>4, <2>5 DEF PushStep
<1>2. CASE RefStep
  <2>1. CASE UpdateRef
    <3>1. CASE refs[row.ref] = row.exp
      <4>1. /\ refs' = [refs EXCEPT ![row.ref] = row.tgt] /\ pc' = "fsync" /\ disk' = disk
            /\ curMain' = curMain /\ job' = job /\ ops' = ops /\ pc = "cas"
        BY <2>1, <3>1 DEF UpdateRef
      <4>2. job.op \in Ops /\ row.ref \in Refs /\ row' = row
        BY <4>1, <1>s DEF Shape, TypeOK, JobShape, HoldsRow, row, OpRow
      <4>3. main \subseteq main'
        <5>1. CASE MovesMain(row)
          BY <5>1, <3>1, <4>1, <4>2, <1>t DEF RowShape, JobShape, row, main
        <5>2. CASE ~ MovesMain(row)
          BY <5>2, <4>1, <4>2, <1>t DEF RowShape, row, main
        <5> QED BY <5>1, <5>2
      <4>4. MetadataBehindGit' BY <4>1, <4>3, <1>i DEF MetadataBehindGit, IsAncestor
      <4>5. Moved' BY <4>1, <4>2, <1>t DEF Moved
      <4>6. Durable' BY <4>1, <1>i DEF Durable, IsAncestor
      <4> QED BY <4>1, <4>3, <4>4, <4>5, <4>6, <1>s DEF BehindInv
    <3>2. CASE refs[row.ref] # row.exp
      BY <2>1, <3>2, <1>q DEF UpdateRef, CatchBlock
    <3> QED BY <3>1, <3>2
  <2>2. CASE FsyncRepository
    <3>1. main' = main /\ curMain' = curMain BY <2>2 DEF FsyncRepository, main
    <3>2. Moved' BY <2>2, <1>i DEF FsyncRepository, Moved, row
    <3>3. Durable' BY <2>2, <1>i DEF FsyncRepository, Durable, MetadataBehindGit, IsAncestor, main
    <3> QED BY <3>1, <3>2, <3>3, <1>s, <1>i DEF BehindInv, MetadataBehindGit
  <2>3. CASE CatchReconciles
    <3>1. UNCHANGED <<refs, disk, curMain>> /\ pc # "fsync" /\ pc' # "fsync"
          /\ main' = main
      BY <2>3 DEF CatchReconciles, main
    <3>2. pc' = "commit" => refs'[row'.ref] = row'.tgt
      BY <2>3 DEF CatchReconciles, row, None
    <3>3. Calm BY <3>1, <3>2, <1>i DEF Calm, Durable
    <3> QED BY <3>1, <3>3, <1>s, CalmKeeps
  <2>4. CASE /\ pc = "commit" /\ MovesMain(row) /\ pc' \notin {"fsync", "commit"}
             /\ UNCHANGED <<refs, disk>> /\ curMain' \in {curMain, row.tgt}
    <3>1. main = row.tgt BY <2>4, <1>t, <1>i DEF Moved, JobShape, HoldsRow, RowShape, row, main
    <3>2. main' = main /\ curMain \subseteq curMain' /\ IsAncestor(curMain', main)
      BY <2>4, <3>1, <1>i DEF MetadataBehindGit, IsAncestor, None, main
    <3>3. Durable'
      BY <2>4, <3>1, <3>2, <1>i DEF Durable, IsAncestor, MetadataBehindGit, main
    <3>4. Moved' BY <2>4 DEF Moved
    <3> QED BY <3>2, <3>3, <3>4, <1>s DEF BehindInv, MetadataBehindGit
  <2>5. CASE CommitMerge \/ CommitResolve \/ CommitMainEdit
    BY <2>5, <2>4 DEF CommitMerge, CommitResolve, CommitMainEdit, MovesMain
  <2>6. CASE PrepareTarget \/ GitUnavailable \/ CatchAborts \/ CatchRethrows \/ FailPush
    BY <2>6, <1>q DEF PrepareTarget, GitUnavailable, CatchAborts, CatchRethrows, FailPush
  <2>7. CASE CommitPush \/ CommitRefresh \/ Finish
    BY <2>7, <1>q DEF CommitPush, CommitRefresh, Finish
  <2> QED BY <1>2, <2>1, <2>2, <2>3, <2>5, <2>6, <2>7 DEF RefStep
<1>3. CASE FaultStep
  <2>1. CASE PinFails \/ StoreWriteFails
    BY <2>1, <1>q DEF PinFails, StoreWriteFails, CatchBlock
  <2>2. CASE FsyncFails
    <3>1. "power_loss" \notin Faults BY <2>2 DEF FsyncFails, Fault, DurabilityFaultsApart
    <3>2. Calm BY <2>2, <3>1 DEF FsyncFails, Calm, CatchBlock
    <3> QED BY <2>2, <3>1, <3>2, <1>s, CalmKeeps DEF FsyncFails, main
  <2>3. CASE GitCommandFails
    <3>1. CASE refs' = refs
      BY <2>3, <3>1, <1>q DEF GitCommandFails, CatchBlock
    <3>2. CASE refs[row.ref] = row.exp /\ Fault("lost_exit") /\ pc = "cas"
               /\ refs' = [refs EXCEPT ![row.ref] = row.tgt]
      <4>1. "power_loss" \notin Faults BY <3>2 DEF Fault, DurabilityFaultsApart
      <4>2. job.op \in Ops /\ row.ref \in Refs
        BY <3>2, <1>s DEF Shape, TypeOK, JobShape, HoldsRow, row, OpRow
      <4>3. main \subseteq main'
        <5>1. CASE MovesMain(row)
          BY <5>1, <3>2, <4>2, <1>t DEF RowShape, JobShape, row, main
        <5>2. CASE ~ MovesMain(row)
          BY <5>2, <3>2, <4>2, <1>t DEF RowShape, row, main
        <5> QED BY <5>1, <5>2
      <4>4. curMain' = curMain /\ pc' \in {"catch", "fail"} BY <2>3 DEF GitCommandFails, CatchBlock
      <4> QED BY <4>1, <4>3, <4>4, <1>s, <1>i DEF BehindInv, MetadataBehindGit, IsAncestor, Moved, Durable
    <3> QED BY <2>3, <3>1, <3>2 DEF GitCommandFails
  <2>4. CASE Crash
    <3>1. "power_loss" \notin Faults BY <2>4 DEF Crash, Fault, DurabilityFaultsApart
    <3> QED BY <2>4, <3>1, <1>s, <1>i
            DEF Crash, Stop, BehindInv, MetadataBehindGit, main, Moved, Durable
  <2>5. CASE PowerLoss
    <3>1. "power_loss" \in Faults BY <2>5 DEF PowerLoss, Fault
    <3>2. refs'[MainRef] \in {refs[MainRef], disk[MainRef]} /\ disk' = refs'
      BY <2>5, RefFacts DEF PowerLoss
    <3>3. curMain' = curMain /\ mode' = "down" /\ pc' = "idle" BY <2>5 DEF PowerLoss, Stop
    <3>4. IsAncestor(curMain, refs'[MainRef])
      BY <3>1, <3>2, <1>i DEF MetadataBehindGit, Durable, main
    <3> QED BY <3>2, <3>3, <3>4, <1>s DEF BehindInv, MetadataBehindGit, Moved, Durable, main
  <2> QED BY <1>3, <2>1, <2>2, <2>3, <2>4, <2>5 DEF FaultStep
<1>4. CASE StartupStep
  <2>1. CASE Boot \/ StartProtect \/ ScanVault \/ Listen \/ RestartForGit
    BY <2>1, <1>q DEF Boot, StartProtect, ScanVault, Listen, RestartForGit, Stop, BehindInv, DownIdle
  <2>2. ASSUME NEW o \in Ops,
               ReconcileAbort(o) \/ ReconcileBlock(o) \/ RollForwardPush(o) \/ RollForwardRefresh(o)
        PROVE  Goal
    BY <2>2, <1>q
    DEF ReconcileAbort, ReconcileBlock, RollForwardPush, RollForwardRefresh, Reconciling
  <2>3. ASSUME NEW o \in Ops, RollForwardMain(o) PROVE Goal
    <3>1. ops[o].ref = MainRef /\ refs[MainRef] = ops[o].tgt
      BY <2>3, <1>t DEF RollForwardMain, StartupVerdict, RowShape, MovesMain
    <3>2. curMain' = main /\ UNCHANGED <<refs, disk>> /\ pc = "reconcile" /\ pc' = "reconcile"
      BY <2>3, <3>1 DEF RollForwardMain, Reconciling, main
    <3>3. MetadataBehindGit' BY <3>2, <1>i DEF MetadataBehindGit, IsAncestor, None, main
    <3>4. Durable' BY <3>2, <1>i, <3>3 DEF Durable, MetadataBehindGit, main
    <3>5. curMain \subseteq curMain' /\ main' = main BY <3>2, <1>i DEF MetadataBehindGit, IsAncestor, main
    <3> QED BY <3>2, <3>3, <3>4, <3>5, <1>s DEF BehindInv, Moved
  <2>4. ASSUME NEW c \in Conflicts, ProtectConflict(c) PROVE Goal
    <3>1. refs'[MainRef] = refs[MainRef] /\ disk' \in {disk, refs'} /\ (disk = refs => disk' = refs')
      BY <2>4, <1>s, ProtectWrites
    <3>2. pc = "protect" /\ pc' = pc /\ curMain' = curMain BY <2>4 DEF ProtectConflict
    <3>3. Calm BY <3>1, <3>2, <1>i DEF Calm, Durable
    <3> QED BY <3>1, <3>2, <3>3, <1>s, CalmKeeps DEF main
  <2>5. ASSUME NEW d \in Devices, ResumeMerge(d) PROVE Goal
    BY <2>5, <1>q DEF ResumeMerge
  <2> QED BY <1>4, <2>1, <2>2, <2>3, <2>4, <2>5 DEF StartupStep
<1>5. CASE UNCHANGED <<refs, disk, curMain, pc, row>>
  BY <1>5, <1>s, <1>i DEF BehindInv, MetadataBehindGit, Moved, Durable, main
<1>6. CASE RequestStep
  <2>1. CASE \/ \E d \in Devices : \/ StartPush(d) \/ AcknowledgeApplied(d) \/ CompleteOnboarding(d)
             \/ \E c \in Conflicts : StartResolve(c) \/ StartRefresh(c)
             \/ StartRestore \/ StartSettings \/ StartNameRepair
    BY <2>1, <1>q
    DEF StartPush, AcknowledgeApplied, CompleteOnboarding, StartResolve, StartRefresh, StartRestore,
        StartSettings, StartNameRepair, StartMainEdit, MayRequest
  <2>2. CASE \/ \E d \in Devices : AuthenticatePush(d) \/ Revoke(d)
             \/ ReadinessBlocks \/ RepairVault
    BY <2>2, <1>5 DEF AuthenticatePush, Revoke, ReadinessBlocks, RepairVault, row
  <2> QED BY <1>6, <2>1, <2>2 DEF RequestStep
<1>7. CASE UNCHANGED vars BY <1>7, <1>5 DEF vars, row
<1> QED BY <1>1, <1>2, <1>3, <1>4, <1>6, <1>7 DEF Next, Quiescent

\* Metadata starts out equal to Git.
LEMMA BehindInit == Init => BehindInv
BY ShapeInit, RefFacts DEF Init, BehindInv, DownIdle, MetadataBehindGit, Moved, Durable, IsAncestor, main, Root, None

\* current_main is always part of the history of refs/heads/main, for any number of
\* devices, rows and conflicts and any schedule of crashes and failures, as long as
\* power losses do not meet the faults that leave a ref unsynced (every metadata
\* commit follows updateRef and its fsync).
THEOREM BehindGit ==
  ASSUME DurabilityFaultsApart
  PROVE  Spec => []MetadataBehindGit
<1>1. BehindInv => MetadataBehindGit BY DEF BehindInv
<1>2. BehindInv /\ [Next]_vars => BehindInv' BY BehindStep
<1> QED BY <1>1, <1>2, BehindInit, PTL DEF Spec

\* Neither current_main nor, while the machine keeps power, refs/heads/main ever
\* loses history.
THEOREM MainGrows ==
  ASSUME DurabilityFaultsApart
  PROVE  Spec => MainOnlyGrows
<1>1. BehindInv /\ [Next]_vars
        => BehindInv' /\ [curMain \subseteq curMain' /\ (main \subseteq main' \/ mode' = "down")]_vars
  BY BehindStep
<1> QED BY <1>1, BehindInit, PTL DEF Spec, MainOnlyGrows

-----------------------------------------------------------------------------
(* Acknowledged proposals are preserved.                                   *)

\* Records are never forgotten, and an open one is only closed by a main that has
\* taken in what it holds.
RecordsKept ==
  \A c \in Conflicts :
    /\ conflicts[c].status # "none" =>
         conflicts'[c].status # "none" /\ conflicts'[c].commit = conflicts[c].commit
    /\ conflicts[c].status = "open" /\ conflicts'[c].status # "open" =>
         conflicts[c].commit \subseteq curMain'
    /\ conflicts'[c].status = "open" /\ conflicts[c].status # "open" =>
         conflicts[c].status = "none" /\ conflicts'[c].commit = job.commit /\ job.commit # None

\* Closing the conflict of a resolution row whose target is the new current_main.
LEMMA ClosingKeeps ==
  ASSUME StoryInv, NEW o \in Ops, ops[o].type = "conflict_resolve", ops[o].tgt # None,
         curMain' = ops[o].tgt, conflicts' = [conflicts EXCEPT ![ops[o].conf].status = "resolved"]
  PROVE  RecordsKept
<1>1. conflicts \in [Conflicts -> ConflictRecord] BY DEF StoryInv, BehindInv, Shape, TypeOK
<1>2. /\ ops[o].conf \in Conflicts /\ conflicts[ops[o].conf].status # "none"
      /\ conflicts[ops[o].conf].commit = ops[o].commit
  BY DEF StoryInv, ResolveRows
<1>3. ops[o].commit \subseteq ops[o].tgt
  BY DEF StoryInv, BehindInv, Shape, RowShape, MovesMain
<1>4. ASSUME NEW c \in Conflicts
      PROVE  /\ conflicts'[c].commit = conflicts[c].commit
             /\ conflicts'[c].status = IF c = ops[o].conf THEN "resolved" ELSE conflicts[c].status
  BY <1>1 DEF ConflictRecord
<1> QED BY <1>2, <1>3, <1>4 DEF RecordsKept

\* Every step keeps the records.
LEMMA RecordsStep == ASSUME StoryInv, [Next]_vars PROVE RecordsKept
<1> USE DEF gitVars, deviceVars, dbVars, clientVars
<1>t. conflicts \in [Conflicts -> ConflictRecord] /\ JobShape /\ JobHolds /\ RowShape
  BY DEF StoryInv, BehindInv, Shape, TypeOK
<1>q. ASSUME conflicts' = conflicts PROVE RecordsKept BY <1>q DEF RecordsKept
<1>1. CASE CreateConflict
  <2>1. PICK c \in Conflicts :
          /\ conflicts[c].status = "none"
          /\ conflicts' = [conflicts EXCEPT ![c] = [status |-> "open", dev |-> job.dev,
                             base |-> job.base, main |-> main, commit |-> job.commit]]
    BY <1>1 DEF CreateConflict, FreeConflict
  <2>2. job.commit # None BY <1>1, <1>t DEF CreateConflict, JobHolds
  <2>3. \A e \in Conflicts \ {c} : conflicts'[e] = conflicts[e] BY <2>1, <1>t
  <2>4. conflicts'[c].commit = job.commit BY <2>1, <1>t
  <2> QED BY <2>1, <2>2, <2>3, <2>4 DEF RecordsKept
<1>2. CASE CommitResolve
  <2>1. job.op \in Ops /\ row.tgt # None
    BY <1>2, <1>t DEF CommitResolve, JobShape, HoldsRow, MovesMain
  <2> QED BY <1>2, <2>1, ClosingKeeps DEF CommitResolve, row
<1>3. ASSUME NEW c, NEW m, conflicts' = [conflicts EXCEPT ![c].main = m] PROVE RecordsKept
  <2>1. \A e \in Conflicts : /\ conflicts'[e].status = conflicts[e].status
                             /\ conflicts'[e].commit = conflicts[e].commit
    BY <1>3, <1>t DEF ConflictRecord
  <2> QED BY <2>1 DEF RecordsKept
<1>4. CASE CommitRefresh
  BY <1>4, <1>3, <1>q DEF CommitRefresh
<1>5. ASSUME NEW o \in Ops, RollForwardMain(o) PROVE RecordsKept
  <2>1. CASE ops[o].type = "conflict_resolve"
    <3>1. ops[o].tgt # None BY <1>5 DEF RollForwardMain, StartupVerdict
    <3> QED BY <1>5, <2>1, <3>1, ClosingKeeps DEF RollForwardMain
  <2>2. CASE ops[o].type # "conflict_resolve"
    BY <1>5, <2>2, <1>q DEF RollForwardMain
  <2> QED BY <2>1, <2>2
<1>6. ASSUME NEW o \in Ops, RollForwardRefresh(o) PROVE RecordsKept
  BY <1>6, <1>3 DEF RollForwardRefresh
<1>7. CASE PushStep
  BY <1>1, <1>7, <1>q DEF PushStep, RejectPush, FinishExisting, PreparePush, ImportPack, MergeNoop, MergeConflicts, PrepareMerge, MergePolicyViolation,
     PinConflict, PinRefused, ConflictDone
<1>8. CASE RefStep
  BY <1>2, <1>4, <1>8, <1>q DEF RefStep, PrepareTarget, UpdateRef, FsyncRepository, GitUnavailable,
     CatchAborts, CatchRethrows, CatchReconciles, FailPush, CommitPush, CommitMerge,
     CommitMainEdit, Finish
<1>9. CASE FaultStep
  BY <1>9, <1>q DEF FaultStep, PinFails, FsyncFails, GitCommandFails, StoreWriteFails, Crash,
     PowerLoss, Stop
<1>10. CASE StartupStep
  BY <1>5, <1>6, <1>10, <1>q DEF StartupStep, Boot, StartProtect, ScanVault, Listen, RestartForGit,
     Stop, ReconcileAbort, ReconcileBlock, RollForwardPush, ProtectConflict, ResumeMerge
<1>11. CASE RequestStep
  BY <1>11, <1>q DEF RequestStep, AuthenticatePush, StartPush, AcknowledgeApplied,
     CompleteOnboarding, Revoke, StartResolve, StartRefresh, StartRestore, StartSettings,
     StartNameRepair, StartMainEdit, ReadinessBlocks, RepairVault
<1> QED BY <1>7, <1>8, <1>9, <1>10, <1>11, <1>q DEF Next, Quiescent, vars

\* The resolution rows after a step are those before it, or the new one's conflict
\* is open.
ResolveRowsKept ==
  \A o \in Ops : ops'[o].type = "conflict_resolve" =>
    \/ /\ ops[o].type = "conflict_resolve"
       /\ ops'[o].conf = ops[o].conf /\ ops'[o].commit = ops[o].commit
    \/ /\ ops'[o].conf \in Conflicts /\ conflicts[ops'[o].conf].status = "open"
       /\ ops'[o].commit = conflicts[ops'[o].conf].commit

\* Rows that keep everything but their status stay resolution rows of their conflict.
LEMMA KeptResolveRows ==
  ASSUME ops \in [Ops -> OpRow], KeepsRows(ops')
  PROVE  ResolveRowsKept
<1> SUFFICES ASSUME NEW o \in Ops, ops'[o].type = "conflict_resolve"
             PROVE  /\ ops[o].type = "conflict_resolve"
                    /\ ops'[o].conf = ops[o].conf /\ ops'[o].commit = ops[o].commit
  BY DEF ResolveRowsKept
<1>1. ops'[o] # NoRow BY DEF NoRow
<1>2. PICK s \in OpStatus : ops'[o] = [ops[o] EXCEPT !.status = s] BY <1>1 DEF KeepsRows
<1> QED BY <1>2 DEF OpRow

\* A row of another type is put into a slot.
LEMMA OtherRowPut ==
  ASSUME ops \in [Ops -> OpRow], NEW o \in Ops, NEW r, r.type # "conflict_resolve",
         ops' = [ops EXCEPT ![o] = r]
  PROVE  ResolveRowsKept
<1>1. ops'[o] = r /\ \A p \in Ops \ {o} : ops'[p] = ops[p] OBVIOUS
<1> QED BY <1>1 DEF ResolveRowsKept

\* Every step keeps the resolution rows.
LEMMA ResolveRowsStep == ASSUME StoryInv, [Next]_vars PROVE ResolveRowsKept
<1> USE DEF gitVars, deviceVars, dbVars, clientVars
<1>t. /\ ops \in [Ops -> OpRow] /\ JobShape /\ conflicts \in [Conflicts -> ConflictRecord]
  BY DEF StoryInv, BehindInv, Shape, TypeOK
<1>q. ASSUME ops' = ops PROVE ResolveRowsKept BY <1>q DEF ResolveRowsKept
<1>k. ASSUME \/ \E o : ops' = Aborted(o)
             \/ \E o : ops' = SetOp(o, "committed")
             \/ ops' = Archived
      PROVE  ResolveRowsKept
  <2>1. KeepsRows(ops') BY <1>k, <1>t, RowsKept DEF OpStatus
  <2> QED BY <2>1, <1>t, KeptResolveRows
<1>1. CASE PushStep
  <2>1. CASE PreparePush
    <3>1. job.push \in Ops /\ ops[job.push].type = "device_push"
      BY <2>1, <1>t DEF PreparePush, JobShape, row
    <3> DEFINE r == [ops[job.push] EXCEPT !.status = "prepared", !.exp = deviceTip]
    <3>2. ops' = [ops EXCEPT ![job.push] = r] BY <2>1, <3>1, <1>t DEF PreparePush
    <3>3. r.type # "conflict_resolve" BY <3>1, <1>t DEF OpRow
    <3> HIDE DEF r
    <3> QED BY <3>1, <3>2, <3>3, <1>t, OtherRowPut
  <2>2. CASE PrepareMerge
    <3> DEFINE r == [NoRow EXCEPT !.type = "server_merge", !.dev = job.dev, !.status = "prepared",
                       !.exp = main, !.expDev = job.commit, !.commit = job.commit]
    <3>1. PICK o \in Ops : ops' = [ops EXCEPT ![o] = r] BY <2>2 DEF PrepareMerge
    <3>2. r.type # "conflict_resolve" BY DEF NoRow
    <3> HIDE DEF r
    <3> QED BY <3>1, <3>2, <1>t, OtherRowPut
  <2>3. CASE RejectPush \/ FinishExisting \/ MergePolicyViolation \/ ConflictDone
    BY <2>3, <1>q, <1>k DEF RejectPush, FinishExisting, MergePolicyViolation, ConflictDone
  <2> QED BY <1>1, <2>1, <2>2, <2>3, <1>q DEF PushStep, ImportPack, MergeNoop, MergeConflicts, CreateConflict, PinConflict, PinRefused
<1>2. CASE RefStep
  <2>1. CASE PrepareTarget
    <3>1. job.op \in Ops BY <2>1, <1>t DEF PrepareTarget, JobShape, HoldsRow
    <3>2. PICK v : ops' = [ops EXCEPT ![job.op].tgt = v] BY <2>1 DEF PrepareTarget
    <3>3. \A p \in Ops : /\ ops'[p].type = ops[p].type /\ ops'[p].conf = ops[p].conf
                         /\ ops'[p].commit = ops[p].commit
      BY <3>1, <3>2, <1>t DEF OpRow
    <3> QED BY <3>3 DEF ResolveRowsKept
  <2>2. CASE CatchAborts \/ CatchReconciles \/ FailPush \/ Finish
    BY <2>2, <1>q, <1>k DEF CatchAborts, CatchReconciles, FailPush, Finish
  <2>3. CASE CommitPush \/ CommitMerge \/ CommitResolve \/ CommitMainEdit \/ CommitRefresh
    BY <2>3, <1>q, <1>k DEF CommitPush, CommitMerge, CommitResolve, CommitMainEdit, CommitRefresh
  <2> QED BY <1>2, <2>1, <2>2, <2>3, <1>q DEF RefStep, UpdateRef, FsyncRepository, GitUnavailable,
          CatchRethrows
<1>3. CASE FaultStep
  BY <1>3, <1>q DEF FaultStep, PinFails, FsyncFails, GitCommandFails, StoreWriteFails, Crash,
     PowerLoss, Stop
<1>4. CASE StartupStep
  BY <1>4, <1>q, <1>k DEF StartupStep, Boot, StartProtect, ScanVault, Listen, RestartForGit,
     Stop, ReconcileAbort, ReconcileBlock, RollForwardPush, RollForwardMain, RollForwardRefresh,
     ProtectConflict, ResumeMerge
<1>5. CASE RequestStep
  <2>1. ASSUME NEW c \in Conflicts, StartResolve(c) PROVE ResolveRowsKept
    <3> DEFINE r == [NoRow EXCEPT !.type = "conflict_resolve", !.dev = conflicts[c].dev,
                       !.status = "prepared", !.exp = curMain, !.expDev = conflicts[c].commit,
                       !.commit = conflicts[c].commit, !.conf = c]
    <3>1. PICK o \in Ops : ops' = [ops EXCEPT ![o] = r] BY <2>1 DEF StartResolve
    <3>2. r.conf = c /\ r.commit = conflicts[c].commit /\ conflicts[c].status = "open"
      BY <2>1 DEF NoRow, StartResolve
    <3> HIDE DEF r
    <3>3. ops'[o] = r /\ \A p \in Ops \ {o} : ops'[p] = ops[p] BY <3>1, <1>t
    <3> QED BY <3>2, <3>3 DEF ResolveRowsKept
  <2>2. ASSUME NEW d \in Devices, StartPush(d) PROVE ResolveRowsKept
    <3> DEFINE r == [NoRow EXCEPT !.type = "device_push", !.dev = d, !.status = "started",
                       !.ref = DeviceRef(d), !.exp = head[d], !.tgt = waiting[d],
                       !.commit = waiting[d]]
    <3>1. PICK o \in Ops : ops' = [ops EXCEPT ![o] = r] BY <2>2 DEF StartPush
    <3>2. r.type # "conflict_resolve" BY DEF NoRow
    <3> HIDE DEF r
    <3> QED BY <3>1, <3>2, <1>t, OtherRowPut
  <2>3. ASSUME NEW c \in Conflicts, StartRefresh(c) PROVE ResolveRowsKept
    <3> DEFINE r == [NoRow EXCEPT !.type = "conflict_refresh", !.dev = conflicts[c].dev,
                       !.status = "prepared", !.ref = PinRef(c, "current"),
                       !.exp = conflicts[c].main, !.tgt = curMain, !.conf = c]
    <3>1. ops' = ops \/ \E o \in Ops : ops' = [ops EXCEPT ![o] = r] BY <2>3 DEF StartRefresh
    <3>2. r.type # "conflict_resolve" BY DEF NoRow
    <3> HIDE DEF r
    <3> QED BY <3>1, <3>2, <1>t, <1>q, OtherRowPut
  <2>4. CASE StartRestore
    <3> DEFINE r == [NoRow EXCEPT !.type = "note_restore", !.status = "prepared", !.exp = curMain]
    <3>1. PICK o \in Ops : ops' = [ops EXCEPT ![o] = r] BY <2>4 DEF StartRestore
    <3>2. r.type # "conflict_resolve" BY DEF NoRow
    <3> HIDE DEF r
    <3> QED BY <3>1, <3>2, <1>t, OtherRowPut
  <2>5. ASSUME NEW type \in {"vault_settings", "name_repair"}, StartMainEdit(type)
        PROVE  ResolveRowsKept
    <3>1. PICK o \in Ops, i \in Ids :
           ops' = [ops EXCEPT ![o] = [NoRow EXCEPT !.type = type, !.status = "prepared",
                                                   !.exp = curMain, !.tgt = curMain \cup {i}]]
      BY <2>5 DEF StartMainEdit
    <3> DEFINE r == [NoRow EXCEPT !.type = type, !.status = "prepared", !.exp = curMain,
                               !.tgt = curMain \cup {i}]
    <3>2. r.type # "conflict_resolve" BY DEF NoRow
    <3>3. ops' = [ops EXCEPT ![o] = r] BY <3>1
    <3> HIDE DEF r
    <3> QED BY <3>2, <3>3, <1>t, OtherRowPut
  <2> QED BY <1>5, <1>q, <2>1, <2>2, <2>3, <2>4, <2>5 DEF RequestStep, AuthenticatePush,
          AcknowledgeApplied, CompleteOnboarding, Revoke, StartSettings, StartNameRepair,
          ReadinessBlocks, RepairVault
<1> QED BY <1>1, <1>2, <1>3, <1>4, <1>5, <1>q DEF Next, Quiescent, vars

\* What is preserved stays preserved.
LEMMA PreservedKept ==
  ASSUME RecordsKept, NEW t, NEW m, NEW n, Preserved(t, m), t # None,
         m \subseteq n, curMain' \subseteq n
  PROVE  Preserved(t, n)'
<1>1. CASE IsAncestor(t, m) BY <1>1 DEF Preserved, IsAncestor
<1>2. CASE \E c \in Conflicts : conflicts[c].status = "open" /\ conflicts[c].commit = t
  BY <1>2 DEF Preserved, RecordsKept, IsAncestor
<1> QED BY <1>1, <1>2 DEF Preserved

Busy == HoldsRow \cup {"merge", "conflict", "pin"}

\* Every step of the handler keeps what it has in hand.
LEMMA JobHoldsStep == ASSUME StoryInv, [Next]_vars PROVE JobHolds'
<1> USE DEF gitVars, deviceVars, dbVars, clientVars
<1>t. /\ job \in Job /\ ops \in [Ops -> OpRow] /\ conflicts \in [Conflicts -> ConflictRecord]
      /\ JobShape /\ RowShape /\ JobHolds /\ DownIdle /\ waiting \in [Devices -> Commit]
  BY DEF StoryInv, BehindInv, Shape, TypeOK
<1>o. 0 \notin Ops BY ConstantsAssumption
<1>n. ASSUME job' = NoJob, pc' \notin Busy PROVE JobHolds'
  BY <1>n DEF JobHolds, NoJob, Busy
<1>e. ASSUME pc # "end", pc' \notin Busy, job'.push = job.push, job'.commit = job.commit,
             job'.ok = job.ok
      PROVE  JobHolds'
  BY <1>e, <1>t DEF JobHolds, Busy
<1>u. ASSUME UNCHANGED <<pc, job, ops, conflicts, refs>> PROVE JobHolds'
  BY <1>u, <1>t DEF JobHolds, Preserved, row, main
<1>x. /\ \A e : /\ [job EXCEPT !.err = e].push = job.push /\ [job EXCEPT !.err = e].ok = job.ok
                /\ [job EXCEPT !.err = e].commit = job.commit /\ [job EXCEPT !.err = e].op = job.op
                /\ [job EXCEPT !.err = e].conf = job.conf
      /\ \A b : /\ [job EXCEPT !.base = b].push = job.push /\ [job EXCEPT !.base = b].ok = job.ok
                /\ [job EXCEPT !.base = b].commit = job.commit /\ [job EXCEPT !.base = b].op = job.op
      /\ [job EXCEPT !.ok = TRUE].push = job.push /\ [job EXCEPT !.ok = TRUE].commit = job.commit
      /\ \A o : /\ [job EXCEPT !.op = o].push = job.push /\ [job EXCEPT !.op = o].ok = job.ok
                /\ [job EXCEPT !.op = o].commit = job.commit /\ [job EXCEPT !.op = o].op = o
      /\ \A c : /\ [job EXCEPT !.conf = c].push = job.push /\ [job EXCEPT !.conf = c].ok = job.ok
                /\ [job EXCEPT !.conf = c].commit = job.commit /\ [job EXCEPT !.conf = c].conf = c
  BY <1>t DEF Job
<1>k. ASSUME NEW o, ops' \in {ops, SetOp(o, "committed"), Aborted(o)}
      PROVE  \A p \in Ops : ops'[p].type = ops[p].type /\ ops'[p].commit = ops[p].commit
  BY <1>k, <1>t DEF SetOp, Aborted, OpRow
<1>1. CASE PushStep
  <2>1. CASE RejectPush \/ PinRefused
    BY <2>1, <1>e DEF RejectPush, PinRefused, Busy, HoldsRow
  <2>2. CASE FinishExisting
    <3>1. job.commit # None /\ job.push \in Ops BY <2>2, <1>t, <1>o DEF FinishExisting, JobShape, JobHolds
    <3>2. CASE HasOpenConflict(job.dev, job.commit) \/ IsAncestor(job.commit, main)
      <4>1. Preserved(job.commit, main) BY <3>2 DEF HasOpenConflict, Preserved
      <4>2. Preserved(job'.commit, main') /\ conflicts' = conflicts /\ pc' = "end"
            /\ job'.push = job.push /\ job'.commit = job.commit
        BY <2>2, <3>2, <4>1, <1>x DEF FinishExisting, main, Preserved
      <4> QED BY <4>1, <4>2, <3>1, <1>t DEF JobHolds, HoldsRow, Preserved
    <3>3. CASE ~ (HasOpenConflict(job.dev, job.commit) \/ IsAncestor(job.commit, main))
      BY <2>2, <3>1, <3>3, <1>t DEF FinishExisting, JobHolds, HoldsRow
    <3> QED BY <3>2, <3>3
  <2>3. CASE PreparePush
    BY <2>3, <1>t DEF PreparePush, JobHolds, HoldsRow
  <2>4. CASE ImportPack
    <3>1. job.commit # None /\ job.push \in Ops /\ row.type = "device_push"
      BY <2>4, <1>t, <1>o DEF ImportPack, JobShape, JobHolds
    <3>2. /\ job'.push = job.push /\ job'.commit = job.commit /\ job'.op = job.op /\ job'.ok = job.ok
          /\ pc' \in {"conflict", "cas"} /\ ops' = ops /\ pc = "import"
      BY <2>4, <1>t DEF ImportPack, Job
    <3> QED BY <3>1, <3>2, <1>t DEF JobHolds, HoldsRow, row
  <2>5. CASE MergeNoop
    <3>1. Preserved(job.commit, main)
      BY <2>5 DEF MergeNoop, NeedsMerge, HasOpenConflict, Preserved
    <3>2. /\ job'.push = job.push /\ job'.commit = job.commit /\ pc' = "end"
          /\ conflicts' = conflicts /\ main' = main /\ pc = "merge"
      BY <2>5, <1>x DEF MergeNoop, main
    <3> QED BY <3>1, <3>2, <1>t DEF JobHolds, HoldsRow, Preserved
  <2>6. CASE MergeConflicts \/ MergePolicyViolation
    <3>1. /\ job'.push = job.push /\ job'.commit = job.commit /\ job'.ok = job.ok
          /\ pc' = "conflict" /\ pc # "end"
      BY <2>6, <1>t DEF MergeConflicts, MustClassify, MergePolicyViolation, Job
    <3>2. job.commit # None
      BY <2>6, <1>t DEF MergeConflicts, MustClassify, MergePolicyViolation, JobHolds, HoldsRow, row
    <3> QED BY <3>1, <3>2, <1>t DEF JobHolds, HoldsRow
  <2>7. CASE PrepareMerge
    <3> DEFINE r == [NoRow EXCEPT !.type = "server_merge", !.dev = job.dev, !.status = "prepared",
                       !.exp = main, !.expDev = job.commit, !.commit = job.commit]
    <3>1. PICK o \in Ops : ops' = [ops EXCEPT ![o] = r] /\ job' = [job EXCEPT !.op = o]
      BY <2>7 DEF PrepareMerge
    <3>2. r.commit = job.commit BY DEF NoRow
    <3> HIDE DEF r
    <3>3. row'.commit = job.commit BY <3>1, <3>2, <1>t, <1>x DEF row
    <3>4. /\ job'.push = job.push /\ job'.commit = job.commit /\ job'.ok = job.ok
          /\ pc' = "target" /\ pc = "merge"
      BY <2>7, <3>1, <1>x DEF PrepareMerge, MustClassify
    <3> QED BY <3>3, <3>4, <1>t DEF JobHolds
  <2>8. CASE CreateConflict
    <3>1. PICK c \in Conflicts :
            /\ conflicts' = [conflicts EXCEPT ![c] = [status |-> "open", dev |-> job.dev,
                               base |-> job.base, main |-> main, commit |-> job.commit]]
            /\ job' = [job EXCEPT !.conf = c]
      BY <2>8 DEF CreateConflict
    <3>2. conflicts'[c].status = "open" /\ conflicts'[c].commit = job.commit BY <3>1, <1>t
    <3>3. /\ job'.push = job.push /\ job'.commit = job.commit /\ job'.ok = job.ok /\ job'.conf = c
          /\ pc' = "pin" /\ pc = "conflict"
      BY <2>8, <3>1, <1>x DEF CreateConflict
    <3> QED BY <3>2, <3>3, <1>t DEF JobHolds, HoldsRow
  <2>9. CASE PinConflict
    BY <2>9, <1>t DEF PinConflict, JobHolds, HoldsRow
  <2>10. CASE ConflictDone
    <3>1. Preserved(job.commit, main)
      BY <2>10, <1>t DEF ConflictDone, JobShape, JobHolds, Preserved
    <3>2. /\ job'.push = job.push /\ job'.commit = job.commit /\ pc' = "end"
          /\ conflicts' = conflicts /\ main' = main /\ pc = "pin"
      BY <2>10, <1>x DEF ConflictDone, main
    <3> QED BY <3>1, <3>2, <1>t DEF JobHolds, HoldsRow, Preserved
  <2> QED BY <1>1, <2>1, <2>2, <2>3, <2>4, <2>5, <2>6, <2>7, <2>8, <2>9, <2>10 DEF PushStep
<1>2. CASE RefStep
  <2>1. CASE PrepareTarget
    <3>1. job.op \in Ops BY <2>1, <1>t DEF PrepareTarget, JobShape, HoldsRow
    <3>2. PICK v : ops' = [ops EXCEPT ![job.op].tgt = v] BY <2>1 DEF PrepareTarget
    <3>3. ops'[job.op].type = ops[job.op].type /\ ops'[job.op].commit = ops[job.op].commit
      BY <3>1, <3>2, <1>t DEF OpRow
    <3>4. row'.type = row.type /\ row'.commit = row.commit BY <2>1, <3>3 DEF PrepareTarget, row
    <3> QED BY <2>1, <3>4, <1>t DEF PrepareTarget, JobHolds, HoldsRow
  <2>2. CASE UpdateRef
    <3>1. /\ job'.push = job.push /\ job'.commit = job.commit /\ job'.op = job.op /\ job'.ok = job.ok
          /\ pc' \in {"fsync", "catch", "fail"} /\ pc = "cas" /\ row' = row
      BY <2>2, <1>t DEF UpdateRef, CatchBlock, row, Job
    <3> QED BY <3>1, <1>t DEF JobHolds, HoldsRow
  <2>3. CASE FsyncRepository
    BY <2>3, <1>t DEF FsyncRepository, JobHolds, HoldsRow, row
  <2>4. CASE GitUnavailable \/ CatchAborts \/ CatchRethrows \/ FailPush
    BY <2>4, <1>e, <1>t DEF GitUnavailable, CatchAborts, CatchRethrows, FailPush, Busy, HoldsRow, Job
  <2>5. CASE CatchReconciles
    <3>1. pc' = "fail" \/ (pc' = "commit" /\ ops' = ops) BY <2>5 DEF CatchReconciles
    <3> QED BY <2>5, <3>1, <1>t DEF CatchReconciles, JobHolds, HoldsRow, row
  <2>6. CASE CommitPush
    BY <2>6, <1>t DEF CommitPush, JobHolds, HoldsRow
  <2>7. CASE CommitMerge
    <3>1. job.op \in Ops /\ job.commit # None /\ row.commit = job.commit
      BY <2>7, <1>t DEF CommitMerge, JobShape, JobHolds, HoldsRow
    <3>2. row.commit \subseteq row.tgt
      BY <2>7, <3>1, <1>t DEF CommitMerge, JobShape, RowShape, MovesMain, HoldsRow, row
    <3>3. refs[MainRef] = row.tgt
      BY <2>7, <3>1, <1>t DEF CommitMerge, StoryInv, BehindInv, Moved, RowShape, MovesMain, row
    <3>4. /\ job'.push = job.push /\ job'.commit = job.commit /\ pc' = "end" /\ main' = refs[MainRef]
      BY <2>7, <1>x DEF CommitMerge, main
    <3> QED BY <3>1, <3>2, <3>3, <3>4, <1>t DEF JobHolds, HoldsRow, Preserved, IsAncestor
  <2>8. CASE CommitResolve \/ CommitMainEdit \/ CommitRefresh
    BY <2>8, <1>e DEF CommitResolve, CommitMainEdit, CommitRefresh, Busy, HoldsRow
  <2>9. CASE Finish
    BY <2>9, <1>n DEF Finish, Busy, HoldsRow
  <2> QED BY <1>2, <2>1, <2>2, <2>3, <2>4, <2>5, <2>6, <2>7, <2>8, <2>9 DEF RefStep
<1>3. CASE FaultStep
  <2>1. CASE Crash \/ PowerLoss
    BY <2>1, <1>n DEF Crash, PowerLoss, Stop, Busy, HoldsRow
  <2>2. CASE PinFails
    BY <2>2, <1>e DEF PinFails, Busy, HoldsRow
  <2>3. CASE FsyncFails \/ GitCommandFails \/ StoreWriteFails
    <3>1. /\ job'.push = job.push /\ job'.commit = job.commit /\ job'.op = job.op /\ job'.ok = job.ok
          /\ pc' \in {"catch", "fail", "end"} /\ ops' = ops /\ pc # "end"
          /\ pc' = "catch" => pc \in HoldsRow
      BY <2>3, <1>t DEF FsyncFails, GitCommandFails, StoreWriteFails, CatchBlock, HoldsRow, Job
    <3> QED BY <3>1, <1>t DEF JobHolds, HoldsRow, row
  <2> QED BY <1>3, <2>1, <2>2, <2>3 DEF FaultStep
<1>4. CASE StartupStep
  <2>1. CASE RestartForGit
    BY <2>1, <1>n DEF RestartForGit, Stop, Busy, HoldsRow
  <2>2. CASE Boot \/ StartProtect \/ ScanVault \/ Listen
    BY <2>2, <1>e, <1>t DEF Boot, StartProtect, ScanVault, Listen, Busy, HoldsRow, DownIdle
  <2>3. ASSUME NEW o \in Ops,
               \/ ReconcileAbort(o) \/ ReconcileBlock(o) \/ RollForwardPush(o)
               \/ RollForwardMain(o) \/ RollForwardRefresh(o)
        PROVE  JobHolds'
    BY <2>3, <1>e DEF ReconcileAbort, ReconcileBlock, RollForwardPush, RollForwardMain,
       RollForwardRefresh, Reconciling, Busy, HoldsRow
  <2>4. ASSUME NEW c \in Conflicts, ProtectConflict(c) PROVE JobHolds'
    BY <2>4, <1>e DEF ProtectConflict, Busy, HoldsRow
  <2>5. ASSUME NEW d \in Devices, ResumeMerge(d) PROVE JobHolds'
    <3>1. head[d] # None
      BY <2>5, <1>t DEF ResumeMerge, OwesMerge, PendingMergeRow, PublishedRow, RowShape
    <3>2. job'.push = 0 /\ job'.commit = head[d] /\ job'.ok = FALSE BY <2>5 DEF ResumeMerge, NoJob
    <3> QED BY <2>5, <3>1, <3>2 DEF ResumeMerge, JobHolds, HoldsRow
  <2> QED BY <1>4, <2>1, <2>2, <2>3, <2>4, <2>5 DEF StartupStep
<1>5. CASE RequestStep
  <2>1. ASSUME NEW d \in Devices, StartPush(d) PROVE JobHolds'
    <3>1. job'.commit # None /\ job'.ok = FALSE /\ pc' = "validate"
      BY <2>1 DEF StartPush, NoJob
    <3> QED BY <3>1 DEF JobHolds, HoldsRow
  <2>2. ASSUME NEW o \in Ops, ops'[o].type \notin {"device_push", "server_merge"}, job'.op = o,
               job'.push = 0, job'.ok = FALSE, pc' \in {"target", "cas"}
        PROVE  JobHolds'
    BY <2>2 DEF JobHolds, row
  <2>3. ASSUME NEW c \in Conflicts, StartResolve(c) \/ StartRefresh(c) PROVE JobHolds'
    <3>1. CASE UNCHANGED <<pc, job, ops>>
      BY <2>3, <3>1, <1>u DEF StartResolve, StartRefresh
    <3>2. CASE ~ UNCHANGED <<pc, job, ops>>
      <4>1. PICK o \in Ops :
              /\ ops'[o].type \in {"conflict_resolve", "conflict_refresh"}
              /\ job' = [NoJob EXCEPT !.dev = conflicts[c].dev, !.op = o, !.conf = c]
        <5>1. CASE StartResolve(c)
          <6> DEFINE r == [NoRow EXCEPT !.type = "conflict_resolve", !.dev = conflicts[c].dev,
                             !.status = "prepared", !.exp = curMain, !.expDev = conflicts[c].commit,
                             !.commit = conflicts[c].commit, !.conf = c]
          <6>1. r.type = "conflict_resolve" BY DEF NoRow
          <6>2. PICK o \in Ops :
                  /\ ops' = [ops EXCEPT ![o] = r]
                  /\ job' = [NoJob EXCEPT !.dev = conflicts[c].dev, !.op = o, !.conf = c]
            BY <5>1 DEF StartResolve
          <6> HIDE DEF r
          <6> QED BY <6>1, <6>2, <1>t
        <5>2. CASE StartRefresh(c)
          <6> DEFINE r == [NoRow EXCEPT !.type = "conflict_refresh", !.dev = conflicts[c].dev,
                             !.status = "prepared", !.ref = PinRef(c, "current"),
                             !.exp = conflicts[c].main, !.tgt = curMain, !.conf = c]
          <6>1. r.type = "conflict_refresh" BY DEF NoRow
          <6>2. PICK o \in Ops :
                  /\ ops' = [ops EXCEPT ![o] = r]
                  /\ job' = [NoJob EXCEPT !.dev = conflicts[c].dev, !.op = o, !.conf = c]
            BY <5>2, <3>2 DEF StartRefresh
          <6> HIDE DEF r
          <6> QED BY <6>1, <6>2, <1>t
        <5> QED BY <2>3, <5>1, <5>2
      <4>2. job'.op = o /\ job'.push = 0 /\ job'.ok = FALSE BY <4>1 DEF NoJob
      <4>3. pc' \in {"target", "cas"} BY <2>3, <3>2 DEF StartResolve, StartRefresh
      <4> QED BY <4>1, <4>2, <4>3, <2>2
    <3> QED BY <3>1, <3>2
  <2>4. CASE StartRestore \/ StartSettings \/ StartNameRepair
    <3>1. PICK o \in Ops :
            /\ ops'[o].type \in {"note_restore", "vault_settings", "name_repair"}
            /\ job' = [NoJob EXCEPT !.op = o]
      <4>1. CASE StartRestore
        <5>1. PICK r : r = [NoRow EXCEPT !.type = "note_restore", !.status = "prepared",
                                         !.exp = curMain]
          OBVIOUS
        <5>2. PICK o \in Ops : ops' = [ops EXCEPT ![o] = r] /\ job' = [NoJob EXCEPT !.op = o]
          BY <4>1, <5>1 DEF StartRestore
        <5>3. ops'[o] = r /\ r.type = "note_restore"
          BY <5>1, <5>2, <1>t DEF NoRow
        <5> QED BY <5>2, <5>3
      <4>2. ASSUME NEW t \in {"vault_settings", "name_repair"}, StartMainEdit(t)
            PROVE  \E o \in Ops : ops'[o].type = t /\ job' = [NoJob EXCEPT !.op = o]
        <5>1. PICK o \in Ops, i \in Ids :
                /\ ops' = [ops EXCEPT ![o] = [NoRow EXCEPT !.type = t, !.status = "prepared",
                               !.exp = curMain, !.tgt = curMain \cup {i}]]
                /\ job' = [NoJob EXCEPT !.op = o]
          BY <4>2 DEF StartMainEdit
        <5>2. PICK r : r = [NoRow EXCEPT !.type = t, !.status = "prepared", !.exp = curMain,
                                         !.tgt = curMain \cup {i}]
          OBVIOUS
        <5>3. ops'[o] = r /\ r.type = t
          BY <5>1, <5>2, <1>t DEF NoRow
        <5> QED BY <5>1, <5>3
      <4>3. CASE StartSettings \/ StartNameRepair
        BY <4>2, <4>3 DEF StartSettings, StartNameRepair
      <4> QED BY <2>4, <4>1, <4>3
    <3>2. job'.op = o /\ job'.push = 0 /\ job'.ok = FALSE BY <3>1 DEF NoJob
    <3>3. pc' \in {"target", "cas"} BY <2>4 DEF StartRestore, StartSettings, StartNameRepair, StartMainEdit
    <3> QED BY <3>1, <3>2, <3>3, <2>2
  <2>5. CASE \/ \E d \in Devices : \/ AuthenticatePush(d) \/ AcknowledgeApplied(d)
                                  \/ CompleteOnboarding(d) \/ Revoke(d)
             \/ ReadinessBlocks \/ RepairVault
    BY <2>5, <1>u DEF AuthenticatePush, AcknowledgeApplied, CompleteOnboarding, Revoke,
       ReadinessBlocks, RepairVault
  <2> QED BY <1>5, <2>1, <2>3, <2>4, <2>5 DEF RequestStep
<1> QED BY <1>1, <1>2, <1>3, <1>4, <1>5, <1>u DEF Next, Quiescent, vars

\* The story is consistent at first ...
LEMMA StoryInit == Init => StoryInv
<1> SUFFICES ASSUME Init PROVE StoryInv OBVIOUS
<1>1. ResolveRows BY DEF Init, ResolveRows, NoRow
<1>2. OpenHoldsCommit BY DEF Init, OpenHoldsCommit, NoConflict
<1>3. JobHolds BY DEF Init, JobHolds, NoJob, HoldsRow
<1> QED BY <1>1, <1>2, <1>3, BehindInit DEF StoryInv

\* ... and after every step.
LEMMA StoryStep == ASSUME DurabilityFaultsApart, StoryInv, [Next]_vars PROVE StoryInv'
<1>1. BehindInv' BY BehindStep DEF StoryInv
<1>2. RecordsKept BY RecordsStep
<1>3. ResolveRows' BY <1>2, ResolveRowsStep DEF StoryInv, ResolveRows, ResolveRowsKept, RecordsKept
<1>4. OpenHoldsCommit' BY <1>2 DEF StoryInv, OpenHoldsCommit, RecordsKept
<1> QED BY <1>1, <1>3, <1>4, JobHoldsStep DEF StoryInv

\* What is on disk for main after a step: what was there, or what git shows; and
\* what git shows only shrinks to what was on disk.
LEMMA DiskStep ==
  ASSUME BehindInv, [Next]_vars
  PROVE  /\ disk'[MainRef] \in {disk[MainRef], refs'[MainRef]}
         /\ mode' = "down" /\ ~ (main \subseteq main') =>
              "power_loss" \in Faults /\ main' = disk[MainRef]
         /\ \A t \in acked' : t \in acked \/ (pc = "end" /\ job.push # 0 /\ job.ok /\ t = job.commit
                                               /\ UNCHANGED gitVars)
<1> USE DEF gitVars, deviceVars, dbVars, clientVars, main
<1>u. ASSUME UNCHANGED <<refs, disk, acked>> PROVE
         /\ disk'[MainRef] \in {disk[MainRef], refs'[MainRef]}
         /\ main \subseteq main'
         /\ \A t \in acked' : t \in acked
  BY <1>u
<1>1. CASE PushStep
  <2>1. CASE ImportPack \/ PinConflict
    <3>1. disk' \in {refs', refs} /\ acked' = acked /\ mode' = mode /\ pc # "idle"
      BY <2>1 DEF ImportPack, PinConflict
    <3> QED BY <2>1, <3>1 DEF ImportPack, PinConflict, BehindInv, DownIdle
  <2> QED BY <1>1, <1>u, <2>1 DEF PushStep, RejectPush, FinishExisting, PreparePush, MergeNoop, MergeConflicts, PrepareMerge, MergePolicyViolation,
          CreateConflict, PinRefused, ConflictDone
<1>2. CASE RefStep
  <2>1. CASE UpdateRef \/ FsyncRepository
    BY <2>1 DEF UpdateRef, FsyncRepository, BehindInv, DownIdle
  <2>2. CASE Finish
    BY <2>2 DEF Finish
  <2> QED BY <1>2, <1>u, <2>1, <2>2 DEF RefStep, PrepareTarget, GitUnavailable, CatchAborts,
          CatchRethrows, CatchReconciles, FailPush, CommitPush, CommitMerge, CommitResolve,
          CommitMainEdit, CommitRefresh
<1>3. CASE FaultStep
  <2>1. CASE GitCommandFails
    BY <2>1 DEF GitCommandFails, BehindInv, DownIdle
  <2>2. CASE PowerLoss
    BY <2>2, RefFacts DEF PowerLoss, Stop, Fault
  <2> QED BY <1>3, <1>u, <2>1, <2>2 DEF FaultStep, PinFails, FsyncFails, StoreWriteFails, Crash, Stop
<1>4. CASE StartupStep
  <2>1. ASSUME NEW c \in Conflicts, ProtectConflict(c)
        PROVE  /\ disk' \in {disk, refs'} /\ refs'[MainRef] = refs[MainRef] /\ acked' = acked
    BY <2>1, ProtectWrites DEF BehindInv, ProtectConflict
  <2> QED BY <1>4, <1>u, <2>1 DEF StartupStep, Boot, StartProtect, ScanVault, Listen, RestartForGit,
          Stop, ReconcileAbort, ReconcileBlock, RollForwardPush, RollForwardMain,
          RollForwardRefresh, ResumeMerge
<1>5. CASE RequestStep
  BY <1>5, <1>u DEF RequestStep, AuthenticatePush, StartPush, AcknowledgeApplied,
     CompleteOnboarding, Revoke, StartResolve, StartRefresh, StartRestore, StartSettings,
     StartNameRepair, StartMainEdit, ReadinessBlocks, RepairVault
<1> QED BY <1>1, <1>2, <1>3, <1>4, <1>5, <1>u DEF Next, Quiescent, vars

\* Every step preserves what has been acknowledged, in Git and on disk.
LEMMA PreservedStep == ASSUME DurabilityFaultsApart, PreservedInv, [Next]_vars PROVE PreservedInv'
<1>s. StoryInv /\ StoryInv' /\ AckedDurable BY StoryStep DEF PreservedInv
<1>b. BehindInv /\ BehindInv' BY <1>s DEF StoryInv
<1>r. RecordsKept BY <1>s, RecordsStep
<1>d. /\ disk'[MainRef] \in {disk[MainRef], refs'[MainRef]}
      /\ main \subseteq main' \/ ("power_loss" \in Faults /\ main' = disk[MainRef])
  BY <1>b, DiskStep, BehindStep
<1>m. /\ curMain' \subseteq main'
      /\ "power_loss" \in Faults => curMain' \subseteq disk'[MainRef]
  BY <1>b DEF BehindInv, MetadataBehindGit, Durable, IsAncestor, main
<1>1. ASSUME NEW t \in acked'
      PROVE  Preserved(t, main)' /\ ("power_loss" \in Faults => Preserved(t, disk[MainRef])')
  <2>1. t # None /\ Preserved(t, main) /\ ("power_loss" \in Faults => Preserved(t, disk[MainRef]))
    <3>1. CASE t \in acked
      <4>1. Preserved(t, main) /\ ("power_loss" \in Faults => Preserved(t, disk[MainRef]))
        BY <3>1, <1>s DEF AckedDurable
      <4>2. t # None BY <4>1, <1>s DEF Preserved, IsAncestor, StoryInv, OpenHoldsCommit
      <4> QED BY <4>1, <4>2
    <3>2. CASE pc = "end" /\ job.push # 0 /\ job.ok /\ t = job.commit
      <4>1. t # None /\ Preserved(t, main) BY <3>2, <1>s DEF StoryInv, JobHolds
      <4>2. "power_loss" \in Faults => disk[MainRef] = main
        BY <3>2, <1>b DEF BehindInv, Durable, main
      <4> QED BY <4>1, <4>2
    <3> QED BY <3>1, <3>2, <1>b, DiskStep
  <2>2. Preserved(t, main)'
    <3>1. CASE main \subseteq main' BY <2>1, <3>1, <1>r, <1>m, PreservedKept
    <3>2. CASE "power_loss" \in Faults /\ main' = disk[MainRef]
      BY <2>1, <3>2, <1>r, <1>m, PreservedKept
    <3> QED BY <3>1, <3>2, <1>d
  <2>3. ASSUME "power_loss" \in Faults PROVE Preserved(t, disk[MainRef])'
    <3>1. CASE disk'[MainRef] = disk[MainRef] BY <2>1, <2>3, <3>1, <1>r, <1>m, PreservedKept
    <3>2. CASE disk'[MainRef] = refs'[MainRef] BY <2>2, <3>2 DEF main
    <3> QED BY <3>1, <3>2, <1>d
  <2> QED BY <2>2, <2>3
<1> QED BY <1>1, <1>s DEF PreservedInv, AckedDurable

\* A proposal the server has answered as merged, already there or under review is
\* part of main or held by an open conflict ever after, through crashes, failing git
\* commands, failing metadata writes and restarts, and through power losses that do
\* not meet the faults that leave a ref unsynced.
THEOREM AckedPreserved ==
  ASSUME DurabilityFaultsApart
  PROVE  Spec => []AcknowledgedPreserved
<1>1. Init => PreservedInv BY StoryInit DEF Init, PreservedInv, AckedDurable
<1>2. PreservedInv /\ [Next]_vars => PreservedInv' BY PreservedStep
<1>3. PreservedInv => AcknowledgedPreserved
  BY DEF PreservedInv, AckedDurable, Preserved, AcknowledgedPreserved
<1> QED BY <1>1, <1>2, <1>3, PTL DEF Spec

-----------------------------------------------------------------------------
(* Revocation, and the abstract vault.                                     *)

\* A revoked device stays revoked, whatever the handlers, startup and the
\* acknowledgement routes write (enforceRevocationInvariant runs in every mutate).
THEOREM RevocationIsFinal == Spec => RevocationSticks
<1> USE DEF gitVars, deviceVars, dbVars, clientVars
<1> DEFINE Kept == \A d \in Devices : status[d] = "revoked" => status'[d] = "revoked"
<1>1. Shape /\ [Next]_vars => Kept
  <2> SUFFICES ASSUME Shape, [Next]_vars PROVE Kept OBVIOUS
  <2>t. status \in [Devices -> DeviceStatus] BY DEF Shape, TypeOK
  <2>u. ASSUME status' = status PROVE Kept BY <2>u
  <2>s. ASSUME NEW d, NEW v \in DeviceStatus, status' = SetStatus(d, v) PROVE Kept
    BY <2>t, <2>s, SetStatusTyped
  <2>1. CASE PushStep
    BY <2>1, <2>u, <2>s DEF DeviceStatus, PushStep, RejectPush, FinishExisting, PreparePush,
       ImportPack, MergeNoop, MergeConflicts, PrepareMerge,
       MergePolicyViolation, CreateConflict, PinConflict, PinRefused, ConflictDone
  <2>2. CASE RefStep
    BY <2>2, <2>u, <2>s DEF DeviceStatus, RefStep, PrepareTarget, UpdateRef, FsyncRepository,
       GitUnavailable, CatchAborts, CatchRethrows, CatchReconciles, FailPush, CommitPush,
       CommitMerge, CommitResolve, CommitMainEdit, CommitRefresh, Finish
  <2>3. CASE FaultStep
    BY <2>3, <2>u DEF FaultStep, PinFails, FsyncFails, GitCommandFails, StoreWriteFails, Crash,
       PowerLoss, Stop
  <2>4. CASE StartupStep
    BY <2>4, <2>u, <2>s DEF DeviceStatus, StartupStep, Boot, StartProtect, ScanVault, Listen,
       RestartForGit, Stop, ReconcileAbort, ReconcileBlock, RollForwardPush, RollForwardMain,
       RollForwardRefresh, ProtectConflict, ResumeMerge
  <2>5. CASE RequestStep
    <3>1. ASSUME NEW d \in Devices, AcknowledgeApplied(d) \/ CompleteOnboarding(d) PROVE Kept
      BY <3>1, <2>s DEF DeviceStatus, AcknowledgeApplied, CompleteOnboarding
    <3>2. ASSUME NEW d \in Devices, Revoke(d) PROVE Kept BY <3>2, <2>t DEF Revoke
    <3> QED BY <2>5, <2>u, <3>1, <3>2 DEF RequestStep, AuthenticatePush, StartPush, StartResolve,
            StartRefresh, StartRestore, StartSettings, StartNameRepair, StartMainEdit,
            ReadinessBlocks, RepairVault
  <2> QED BY <2>1, <2>2, <2>3, <2>4, <2>5, <2>u DEF Next, Quiescent, vars
<1> QED BY <1>1, ShapeInit, ShapeStep, PTL DEF Spec, RevocationSticks

\* A step announces a new current_main and settles at most one record, ...
Announces ==
  \E p \in Commit :
    /\ curMain' \in Commit
    /\ announced' = Append(announced, [prev |-> p, main |-> curMain'])
    /\ \/ conflicts' = conflicts
       \/ \E c \in Conflicts : conflicts' = [conflicts EXCEPT ![c].status = "resolved"]

\* ... or opens one record, ...
Opens ==
  /\ UNCHANGED <<curMain, announced>>
  /\ \E c \in Conflicts :
       /\ conflicts[c].status = "none" /\ conflicts'[c].status = "open"
       /\ conflicts'[c].commit \in Commit \ {None}
       /\ \A e \in Conflicts \ {c} : conflicts'[e] = conflicts[e]

\* ... or does nothing a client of the abstract vault can see.
Hides ==
  /\ UNCHANGED <<curMain, announced>>
  /\ \A c \in Conflicts : /\ conflicts'[c].status = conflicts[c].status
                          /\ conflicts'[c].commit = conflicts[c].commit

\* Every step is one of these three.
LEMMA ClientView == ASSUME StoryInv, [Next]_vars PROVE Announces \/ Opens \/ Hides
<1> USE DEF gitVars, deviceVars, dbVars, clientVars
<1>t. /\ JobShape /\ JobHolds /\ ops \in [Ops -> OpRow] /\ curMain \in Commit /\ ResolveRows
      /\ conflicts \in [Conflicts -> ConflictRecord] /\ job \in Job
  BY DEF StoryInv, BehindInv, Shape, TypeOK
<1>r. pc = "commit" => job.op \in Ops /\ row.exp \in Commit /\ row.tgt \in Commit
  BY <1>t DEF JobShape, HoldsRow, row, OpRow
<1>u. ASSUME UNCHANGED <<curMain, announced, conflicts>> PROVE Hides BY <1>u DEF Hides
<1>f. ASSUME NEW c, NEW m, conflicts' = [conflicts EXCEPT ![c].main = m], UNCHANGED <<curMain, announced>>
      PROVE  Hides
  BY <1>f, <1>t DEF Hides, ConflictRecord
<1>1. CASE CommitMerge \/ CommitMainEdit
  BY <1>1, <1>t, <1>r, <1>u DEF CommitMerge, CommitMainEdit, Announce, Announces
<1>2. CASE CommitResolve
  <2>1. row.conf \in Conflicts BY <1>2, <1>t, <1>r DEF CommitResolve, ResolveRows, row
  <2> QED BY <1>2, <2>1, <1>r DEF CommitResolve, Announce, Announces
<1>3. ASSUME NEW o \in Ops, RollForwardMain(o) PROVE Announces
  <2>1. ops[o].exp \in Commit /\ ops[o].tgt \in Commit BY <1>t DEF OpRow
  <2>2. ops[o].type = "conflict_resolve" => ops[o].conf \in Conflicts BY <1>t DEF ResolveRows
  <2> QED BY <1>3, <2>1, <2>2 DEF RollForwardMain, Announce, Announces
<1>4. CASE CreateConflict
  <2>1. PICK c \in Conflicts :
          /\ conflicts[c].status = "none"
          /\ conflicts' = [conflicts EXCEPT ![c] = [status |-> "open", dev |-> job.dev,
                             base |-> job.base, main |-> main, commit |-> job.commit]]
    BY <1>4 DEF CreateConflict, FreeConflict
  <2>2. job.commit \in Commit \ {None} BY <1>4, <1>t DEF CreateConflict, JobHolds, Job
  <2>3. conflicts'[c].status = "open" /\ conflicts'[c].commit = job.commit BY <2>1, <1>t
  <2>4. \A e \in Conflicts \ {c} : conflicts'[e] = conflicts[e] BY <2>1, <1>t
  <2>5. UNCHANGED <<curMain, announced>> BY <1>4 DEF CreateConflict
  <2> QED BY <2>1, <2>2, <2>3, <2>4, <2>5 DEF Opens
<1>5. CASE CommitRefresh BY <1>5, <1>u, <1>f DEF CommitRefresh
<1>6. ASSUME NEW o \in Ops, RollForwardRefresh(o) PROVE Hides
  BY <1>6, <1>f DEF RollForwardRefresh
<1>7. CASE PushStep
  BY <1>4, <1>7, <1>u DEF PushStep, RejectPush, FinishExisting, PreparePush, ImportPack, MergeNoop, MergeConflicts, PrepareMerge, MergePolicyViolation,
     PinConflict, PinRefused, ConflictDone
<1>8. CASE RefStep
  BY <1>1, <1>2, <1>5, <1>8, <1>u DEF RefStep, PrepareTarget, UpdateRef, FsyncRepository,
     GitUnavailable, CatchAborts, CatchRethrows, CatchReconciles, FailPush, CommitPush, Finish
<1>9. CASE FaultStep
  BY <1>9, <1>u DEF FaultStep, PinFails, FsyncFails, GitCommandFails, StoreWriteFails, Crash,
     PowerLoss, Stop
<1>10. CASE StartupStep
  BY <1>3, <1>6, <1>10, <1>u DEF StartupStep, Boot, StartProtect, ScanVault, Listen, RestartForGit,
     Stop, ReconcileAbort, ReconcileBlock, RollForwardPush, ProtectConflict, ResumeMerge
<1>11. CASE RequestStep
  BY <1>11, <1>u DEF RequestStep, AuthenticatePush, StartPush, AcknowledgeApplied,
     CompleteOnboarding, Revoke, StartResolve, StartRefresh, StartRestore, StartSettings,
     StartNameRepair, StartMainEdit, ReadinessBlocks, RepairVault
<1> QED BY <1>7, <1>8, <1>9, <1>10, <1>11, <1>u DEF Next, Quiescent, vars

\* The events grow by one, so does the abstract log.
LEMMA LogGrows ==
  ASSUME announced \in Seq([prev : Commit, main : Commit]), NEW p \in Commit, NEW m \in Commit,
         announced' = Append(announced, [prev |-> p, main |-> m])
  PROVE  Mains' = Append(Mains, m)
<1> DEFINE E == [prev : Commit, main : Commit]
           e == [prev |-> p, main |-> m]
<1>1. e \in E /\ e.main = m OBVIOUS
<1>2. announced \in Seq(E) /\ announced' = Append(announced, e) OBVIOUS
<1> HIDE DEF E, e
<1>3. Len(announced) \in Nat /\ Len(announced') = Len(announced) + 1 BY <1>1, <1>2
<1>4. \A i \in 1 .. Len(announced) + 1 :
        announced'[i] = IF i = Len(announced) + 1 THEN e ELSE announced[i]
  BY <1>1, <1>2
<1>5. Mains' = [i \in 1 .. Len(announced) + 1 |-> announced'[i].main] BY <1>3 DEF Mains
<1>6. Mains' = [i \in 1 .. Len(announced) + 1 |-> IF i = Len(announced) + 1 THEN m ELSE Mains[i]]
  BY <1>1, <1>3, <1>4, <1>5 DEF Mains
<1>7. Len(Mains) = Len(announced) BY <1>3 DEF Mains
<1>8. Mains \in Seq(Commit)
  <2>1. \A i \in 1 .. Len(announced) : announced[i] \in E BY <1>2
  <2>2. \A i \in 1 .. Len(announced) : announced[i].main \in Commit BY <2>1 DEF E
  <2> QED BY <2>2, <1>3 DEF Mains
<1>9. /\ Append(Mains, m) \in Seq(Commit) /\ Len(Append(Mains, m)) = Len(announced) + 1
      /\ \A i \in 1 .. Len(announced) + 1 :
           Append(Mains, m)[i] = IF i = Len(announced) + 1 THEN m ELSE Mains[i]
  BY <1>7, <1>8
<1>10. /\ Mains' \in Seq(Commit) /\ Len(Mains') = Len(announced) + 1
       /\ \A i \in 1 .. Len(announced) + 1 : Mains'[i] = Append(Mains, m)[i]
  <2>1. \A i \in 1 .. Len(announced) + 1 : Mains'[i] = Append(Mains, m)[i] BY <1>6, <1>9
  <2>2. \A i \in 1 .. Len(announced) + 1 : Append(Mains, m)[i] \in Commit BY <1>9
  <2>3. \A i \in 1 .. Len(announced) + 1 : Mains'[i] \in Commit BY <2>1, <2>2
  <2>4. Mains' \in [1 .. Len(announced) + 1 -> Commit] BY <2>3, <1>6
  <2>5. Len(announced) + 1 \in Nat BY <1>3
  <2>6. Mains' \in Seq(Commit) BY <2>4, <2>5
  <2>7. Len(Mains') = Len(announced) + 1 BY <2>4, <2>5, <2>6
  <2> QED BY <2>1, <2>6, <2>7
<1> QED BY <1>9, <1>10, SeqEqual

\* The whole protocol, with its two stores, rows, crashes and recovery, implements
\* the abstract vault: canonical history only grows, each growth is announced once,
\* and what a review holds is let go only by the growth that takes it in.
THEOREM Implements ==
  ASSUME DurabilityFaultsApart
  PROVE  Spec => ImplementsCanonicalVault
<1>1. Init => Canonical!Init
  BY DEF Init, Canonical!Init, Mains, Held, NoConflict, None
<1>2. ASSUME StoryInv, [Next]_vars PROVE [Canonical!Next]_(Canonical!vars)
  <2>t. /\ announced \in Seq([prev : Commit, main : Commit])
        /\ conflicts \in [Conflicts -> ConflictRecord] /\ curMain \in Commit
    BY <1>2 DEF StoryInv, BehindInv, Shape, TypeOK
  <2>g. curMain \subseteq curMain' BY <1>2, BehindStep DEF StoryInv
  <2>1. CASE Hides
    <3>1. Held' = Held BY <2>1 DEF Hides, Held
    <3>2. Mains' = Mains /\ curMain' = curMain BY <2>1 DEF Hides, Mains
    <3> QED BY <3>1, <3>2 DEF Canonical!vars
  <2>2. CASE Opens
    <3>1. PICK c \in Conflicts :
            /\ conflicts[c].status = "none" /\ conflicts'[c].status = "open"
            /\ conflicts'[c].commit \in Commit \ {None}
            /\ \A e \in Conflicts \ {c} : conflicts'[e] = conflicts[e]
      BY <2>2 DEF Opens
    <3>2. Held[c] = {} /\ Held'[c] \in Commit \ {{}} BY <3>1 DEF Held, None
    <3>3. Held' = [Held EXCEPT ![c] = Held'[c]] BY <3>1 DEF Held
    <3>4. Mains' = Mains /\ curMain' = curMain BY <2>2 DEF Opens, Mains
    <3>5. Canonical!Hold(c) BY <3>2, <3>3, <3>4 DEF Canonical!Hold
    <3> QED BY <3>5 DEF Canonical!Next
  <2>3. CASE Announces
    <3>1. PICK p \in Commit :
            /\ curMain' \in Commit
            /\ announced' = Append(announced, [prev |-> p, main |-> curMain'])
            /\ \/ conflicts' = conflicts
               \/ \E c \in Conflicts : conflicts' = [conflicts EXCEPT ![c].status = "resolved"]
      BY <2>3 DEF Announces
    <3>2. Mains' = Append(Mains, curMain') BY <3>1, <2>t, LogGrows
    <3>3. Canonical!Grow BY <3>1, <3>2, <2>g DEF Canonical!Grow
    <3>4. ASSUME Held' = Held PROVE Canonical!Next BY <3>3, <3>4 DEF Canonical!Next, Canonical!Advance
    <3>5. CASE conflicts' = conflicts BY <3>4, <3>5 DEF Held
    <3>6. ASSUME NEW c \in Conflicts, conflicts' = [conflicts EXCEPT ![c].status = "resolved"]
          PROVE  Canonical!Next
      <4>1. /\ conflicts'[c].status = "resolved"
            /\ \A e \in Conflicts \ {c} : conflicts'[e] = conflicts[e]
        BY <3>6, <2>t DEF ConflictRecord
      <4>2. Held' = [Held EXCEPT ![c] = {}] BY <4>1 DEF Held, None
      <4>3. CASE conflicts[c].status = "open"
        <5>1. Held[c] = conflicts[c].commit BY <4>3 DEF Held
        <5>2. Held[c] # {} BY <5>1, <4>3, <1>2 DEF StoryInv, OpenHoldsCommit, None
        <5>3. Held[c] \subseteq curMain' BY <5>1, <4>1, <4>3, <1>2, RecordsStep DEF RecordsKept
        <5>4. Canonical!Settle(c) BY <5>2, <5>3, <3>3, <4>2 DEF Canonical!Settle
        <5> QED BY <5>4 DEF Canonical!Next
      <4>4. CASE conflicts[c].status # "open"
        <5>1. Held' = Held BY <4>2, <4>4 DEF Held, None
        <5> QED BY <5>1, <3>4
      <4> QED BY <4>3, <4>4
    <3> QED BY <3>1, <3>5, <3>6
  <2> QED BY <1>2, <2>1, <2>2, <2>3, ClientView
<1>3. StoryInv /\ [Next]_vars => StoryInv' BY StoryStep
<1> QED BY <1>1, <1>2, <1>3, StoryInit, PTL DEF Spec, ImplementsCanonicalVault, Canonical!Spec
=============================================================================
