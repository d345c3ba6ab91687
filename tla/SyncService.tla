----------------------------- MODULE SyncService -----------------------------
(***************************************************************************)
(* The integration protocol of the OBTS server for one vault: how a device *)
(* push, a merge, a conflict and its resolution, a review refresh, a note  *)
(* restore, a settings change and a name repair move Git refs and metadata *)
(* together, and what startup makes of an operation a crash interrupted.   *)
(* Source: src/src/server/syncService.ts, app.ts, gitService.ts and        *)
(* metadataStore.ts.                                                       *)
(*                                                                         *)
(* Two stores are updated without a common transaction:                    *)
(*   - Git refs, moved by `git update-ref` (compare and swap) and made     *)
(*     durable afterwards by an fsync of the repository;                   *)
(*   - the metadata database, one JSON file that every `mutate` replaces   *)
(*     atomically and durably.                                             *)
(* An operation row, written `prepared` before the ref moves, lets startup *)
(* finish or undo what was interrupted between the two.                    *)
(*                                                                         *)
(* A commit is modelled by its history: the set of identifiers of the      *)
(* commits reachable from it, its own included.  Ancestry is then the      *)
(* subset relation, and a merge commit is the union of its parents plus an *)
(* identifier of its own.  File contents are abstracted away: whether a    *)
(* proposal merges cleanly or conflicts is a choice.                       *)
(*                                                                         *)
(* Every step between two `await`s that touches shared state is an action. *)
(* The per-vault lock (withVaultLock) lets one handler run at a time: `pc` *)
(* is where that handler stands and `job` holds its local variables.  What *)
(* runs outside the lock interleaves with it: revocation, readiness        *)
(* probes, authentication of new pushes, crashes.                          *)
(***************************************************************************)
EXTENDS Integers, FiniteSets, Sequences

CONSTANTS
  Devices,      \* devices paired with the vault
  NoDevice,     \* the device of an operation that has none
  Ids,          \* identifiers of commits, 0 is the root commit
  Conflicts,    \* conflict record slots
  Ops,          \* slots of the hot sync_operations table
  Requests,     \* owner requests the environment makes, see below
  Proposals,    \* what devices push besides extensions of their own history
  Faults,       \* the faults that may happen
  MaxFaults,    \* bound on the number of faults in a behaviour
  MaxRequests   \* bound on the requests that create a commit

OwnerRequests == {"resolve", "refresh", "restore", "settings", "name_repair",
                  "revoke", "acknowledge", "complete_onboarding", "readiness", "operator_repair"}
ProposalKinds == {"retry", "divergent", "orphan", "covered"}
FaultKinds == {"crash", "power_loss", "fsync", "git_command", "lost_exit", "store_write", "slow"}

ASSUME ConstantsAssumption ==
  /\ Ids \subseteq Nat
  /\ 0 \in Ids
  /\ Conflicts \subseteq Nat \ {0}
  /\ Ops \subseteq Nat \ {0}
  /\ NoDevice \notin Devices
  /\ Requests \subseteq OwnerRequests
  /\ Proposals \subseteq ProposalKinds
  /\ Faults \subseteq FaultKinds
  /\ MaxFaults \in Nat
  /\ MaxRequests \in Nat

-----------------------------------------------------------------------------
(* Commits and refs.                                                       *)

Commit == SUBSET Ids
None == {}
Root == {0}

\* git merge-base --is-ancestor a b
IsAncestor(a, b) == a # None /\ a \subseteq b

PinKinds == {"base", "current", "device_commit"}
MainRef == <<"main", 0>>
DeviceRef(d) == <<"device", d>>
PinRef(c, k) == <<k, c>>
Refs == {MainRef} \cup {DeviceRef(d) : d \in Devices}
          \cup {PinRef(c, k) : c \in Conflicts, k \in PinKinds}

DeviceStatus == {"paired", "ahead", "synced", "review_needed", "revoked"}
OpTypes == {"none", "device_push", "server_merge", "conflict_resolve",
            "conflict_refresh", "note_restore", "vault_settings", "name_repair"}
OpStatus == {"none", "started", "prepared", "committed", "aborted"}

\* A row of sync_operations.  `ref` is the ref its target moves, `exp` the value
\* the ref must have before, `tgt` the value after (None until it is known) and
\* `expDev` the device ref a merge or a resolution expects besides.
OpRow == [type : OpTypes, dev : Devices \cup {NoDevice}, status : OpStatus,
          ref : Refs, exp : Commit, tgt : Commit, expDev : Commit,
          commit : Commit, conf : Conflicts \cup {0}]

NoRow == [type |-> "none", dev |-> NoDevice, status |-> "none", ref |-> MainRef,
          exp |-> None, tgt |-> None, expDev |-> None, commit |-> None, conf |-> 0]

\* A conflict record; expected_main and current_main of the code are always
\* written together, `main` is both.
ConflictRecord == [status : {"none", "open", "resolved"}, dev : Devices \cup {NoDevice},
                   base : Commit, main : Commit, commit : Commit]

NoConflict == [status |-> "none", dev |-> NoDevice, base |-> None, main |-> None,
               commit |-> None]

PushSteps == {"validate", "import", "merge", "conflict", "pin"}
RefSteps == {"target", "cas", "fsync", "commit", "catch", "fail", "end"}
StartupSteps == {"reconcile", "protect", "scan", "resume"}

Job == [dev : Devices \cup {NoDevice}, commit : Commit, op : Ops \cup {0},
        push : Ops \cup {0}, conf : Conflicts \cup {0}, base : Commit,
        err : {"none", "durability", "other"}, ok : BOOLEAN]

NoJob == [dev |-> NoDevice, commit |-> None, op |-> 0, push |-> 0, conf |-> 0,
          base |-> None, err |-> "none", ok |-> FALSE]

VARIABLES
  refs,       \* Git refs as the git processes see them
  disk,       \* Git refs as of the last successful fsync of the repository
  gitUp,      \* FALSE once an fsync failed: GitService refuses to run git
  curMain,    \* vault.current_main
  vault,      \* vault.status
  head,       \* device.device_ref_head
  status,     \* device.status
  applied,    \* device.last_applied_main
  ops,        \* hot sync_operations rows
  conflicts,  \* conflict records
  announced,  \* the main_advanced events
  mode,       \* whether the process is down, starting or serving
  pc,         \* where the holder of the vault lock, or startup, stands
  job,        \* the local variables of the lock holder
  todo,       \* rows or conflicts a startup phase still has to look at
  waiting,    \* authenticated pushes that wait for the vault lock
  sent,       \* what each device has proposed so far (it may retry)
  acked,      \* proposals answered merged, noop or conflicted
  faults,     \* faults so far
  requests    \* commit-creating requests so far

gitVars == <<refs, disk, gitUp>>
deviceVars == <<head, status, applied>>
dbVars == <<curMain, vault, deviceVars, ops, conflicts, announced>>
clientVars == <<waiting, sent, acked, requests>>
vars == <<gitVars, dbVars, mode, pc, job, todo, clientVars, faults>>

TypeOK ==
  /\ refs \in [Refs -> Commit]
  /\ disk \in [Refs -> Commit]
  /\ gitUp \in BOOLEAN
  /\ curMain \in Commit
  /\ vault \in {"active", "blocked_integrity"}
  /\ head \in [Devices -> Commit]
  /\ status \in [Devices -> DeviceStatus]
  /\ applied \in [Devices -> Commit]
  /\ ops \in [Ops -> OpRow]
  /\ conflicts \in [Conflicts -> ConflictRecord]
  /\ announced \in Seq([prev : Commit, main : Commit])
  /\ mode \in {"down", "startup", "serving"}
  /\ pc \in {"idle"} \cup PushSteps \cup RefSteps \cup StartupSteps
  /\ job \in Job
  /\ todo \in SUBSET (Ops \cup Conflicts)
  /\ waiting \in [Devices -> Commit]
  /\ sent \in [Devices -> SUBSET Commit]
  /\ acked \in SUBSET Commit
  /\ faults \in Nat
  /\ requests \in Nat

Init ==
  /\ refs = [r \in Refs |-> IF r = MainRef THEN Root ELSE None]
  /\ disk = refs
  /\ gitUp = TRUE
  /\ curMain = Root
  /\ vault = "active"
  /\ head = [d \in Devices |-> None]
  /\ status = [d \in Devices |-> "paired"]
  /\ applied = [d \in Devices |-> None]
  /\ ops = [o \in Ops |-> NoRow]
  /\ conflicts = [c \in Conflicts |-> NoConflict]
  /\ announced = <<>>
  /\ mode = "serving"
  /\ pc = "idle"
  /\ job = NoJob
  /\ todo = {}
  /\ waiting = [d \in Devices |-> None]
  /\ sent = [d \in Devices |-> {}]
  /\ acked = {}
  /\ faults = 0
  /\ requests = 0

-----------------------------------------------------------------------------
(* Helpers.                                                                *)

main == refs[MainRef]

Fault(k) == k \in Faults /\ faults < MaxFaults /\ faults' = faults + 1

\* Commits the state still refers to; a new commit gets the least identifier
\* none of them contains (objects nobody can name any more are garbage).
Used ==
  UNION ({refs[r] : r \in Refs} \cup {disk[r] : r \in Refs} \cup {curMain, job.commit}
         \cup {head[d] : d \in Devices} \cup {applied[d] : d \in Devices}
         \cup {waiting[d] : d \in Devices} \cup UNION {sent[d] : d \in Devices}
         \cup {ops[o].exp : o \in Ops} \cup {ops[o].tgt : o \in Ops}
         \cup {ops[o].commit : o \in Ops}
         \cup {conflicts[c].main : c \in Conflicts}
         \cup {conflicts[c].commit : c \in Conflicts}
         \cup {announced[i].main : i \in DOMAIN announced} \cup acked)

FreshId(i) == i \in Ids \ Used /\ \A j \in Ids \ Used : i <= j

FreeOp(o) == ops[o].status = "none" /\ \A p \in Ops : ops[p].status = "none" => o <= p
FreeConflict(c) ==
  conflicts[c].status = "none" /\ \A e \in Conflicts : conflicts[e].status = "none" => c <= e

\* Mutant: the write is not followed by enforceRevocationInvariant.
SetStatusUnchecked(d, v) == [status EXCEPT ![d] = v]

\* A write of device.status followed by enforceRevocationInvariant.
SetStatus(d, v) == [status EXCEPT ![d] = IF @ = "revoked" THEN "revoked" ELSE v]

SetOp(o, s) == [ops EXCEPT ![o].status = s]

\* Mutant: a status the schema does not know, also over a committed row.
AbortedAsRejected(o) == [ops EXCEPT ![o].status = "rejected"]

\* abortOperation: a committed row stays committed
Aborted(o) == [ops EXCEPT ![o].status = IF @ = "committed" THEN @ ELSE "aborted"]

HasOpenConflict(d, t) ==
  \E c \in Conflicts : conflicts[c].status = "open" /\ conflicts[c].dev = d /\ conflicts[c].commit = t

\* isPendingMergeRow, before and after it asks git
PublishedRow(row) ==
  /\ row.type = "device_push" /\ row.status = "committed"
  /\ head[row.dev] = row.tgt
  /\ status[row.dev] \notin {"revoked", "review_needed"}

PendingMergeRow(row) == PublishedRow(row) /\ ~ IsAncestor(row.tgt, curMain)

\* Mutant: a committed push is archived although its merge is still owed.
ArchivedTooEarly ==
  [o \in Ops |-> IF ops[o].status \in {"committed", "aborted"} THEN NoRow ELSE ops[o]]

\* archiveCompletedHistory: finished rows of a vault that is not blocked leave the
\* hot table unless their merge is still owed; when git cannot be asked about one,
\* nothing is archived
MayArchive == vault = "active" /\ (gitUp \/ \A o \in Ops : ~ PublishedRow(ops[o]))

Archived ==
  [o \in Ops |->
     IF MayArchive /\ ops[o].status \in {"committed", "aborted"} /\ ~ PendingMergeRow(ops[o])
     THEN NoRow ELSE ops[o]]

PinValue(c, k) ==
  CASE k = "base" -> conflicts[c].base
    [] k = "current" -> conflicts[c].main
    [] k = "device_commit" -> conflicts[c].commit

-----------------------------------------------------------------------------
(* Requests that wait for the vault lock.                                  *)

KnownMains == {Root} \cup {announced[i].main : i \in DOMAIN announced}

\* What a device may build a proposal on: its own published history, a main it
\* has been told about, or (an orphan) nothing of this vault.
ProposalBases(d) ==
  ({refs[DeviceRef(d)]} \ {None}) \cup KnownMains
  \cup (IF "orphan" \in Proposals THEN {None} ELSE {})

\* How the target relates to the published history of its device.
Relation(t, tip) ==
  IF tip = None THEN "initial"
  ELSE IF IsAncestor(tip, t) THEN "fast_forward"
  ELSE IF IsAncestor(t, tip) THEN "superseded"
  ELSE "divergent"

\* A device extends what it has published and what it is publishing; only a device
\* restored from a backup or used from two copies proposes something else.
FollowsOwnHistory(d, t) ==
  \/ "divergent" \in Proposals
  \/ /\ Relation(t, refs[DeviceRef(d)]) # "divergent"
     /\ job.push # 0 /\ job.dev = d => job.commit \subseteq t

\* A new commit, or (a device that has nothing of its own) a main it has been told
\* about.
Proposable(d) ==
  {b \cup {i} : b \in ProposalBases(d), i \in {j \in Ids : FreshId(j)}}
  \cup (IF "covered" \in Proposals THEN KnownMains ELSE {})

\* POST sync/push up to the vault lock: authentication and the checks of
\* integrateDeviceCommit that read the vault row before waiting for the lock.
AuthenticatePush(d) ==
  /\ mode = "serving" /\ gitUp /\ vault = "active"
  /\ status[d] # "revoked" /\ waiting[d] = None
  /\ \/ /\ requests < MaxRequests
        /\ requests' = requests + 1
        /\ \E t \in Proposable(d) :
             /\ FollowsOwnHistory(d, t)
             /\ waiting' = [waiting EXCEPT ![d] = t]
             /\ sent' = [sent EXCEPT ![d] = @ \cup {t}]
     \/ /\ "retry" \in Proposals
        /\ \E t \in sent[d] :
             /\ FollowsOwnHistory(d, t)
             /\ waiting' = [waiting EXCEPT ![d] = t]
        /\ UNCHANGED <<sent, requests>>
  /\ UNCHANGED <<gitVars, dbVars, mode, pc, job, todo, acked, faults>>

-----------------------------------------------------------------------------
(* The push handler, integrateDeviceCommit.                                *)

\* The lock is acquired and the operation row is written `started`.  (Bound: the
\* lock is only acquired while the slots a push may need are free.)
StartPush(d) ==
  /\ mode = "serving" /\ pc = "idle" /\ waiting[d] # None
  /\ \E c \in Conflicts : FreeConflict(c)
  /\ \E o, p \in Ops : o # p /\ ops[o].status = "none" /\ ops[p].status = "none"
  /\ \E o \in Ops :
       /\ FreeOp(o)
       /\ ops' = [ops EXCEPT ![o] = [NoRow EXCEPT !.type = "device_push", !.dev = d,
                    !.status = "started", !.ref = DeviceRef(d), !.exp = head[d],
                    !.tgt = waiting[d], !.commit = waiting[d]]]
       /\ job' = [NoJob EXCEPT !.dev = d, !.commit = waiting[d], !.op = o, !.push = o]
  /\ waiting' = [waiting EXCEPT ![d] = None]
  /\ pc' = "validate"
  /\ UNCHANGED <<gitVars, curMain, vault, deviceVars, conflicts, announced, mode, todo,
                 sent, acked, requests, faults>>

deviceTip == refs[DeviceRef(job.dev)]

\* rejectDevicePush: a device under review may only repeat its published commit;
\* any proposal may fail validation (object, path, policy, base or onboarding
\* checks, abstracted) before something is stored.
RejectPush ==
  /\ pc = "validate" /\ gitUp
  /\ ops' = Aborted(job.push)
  /\ pc' = "end"
  /\ UNCHANGED <<gitVars, curMain, vault, deviceVars, conflicts, announced, mode, job, todo,
                 clientVars, faults>>

\* Mutant: the review gate is missing.
MayAlwaysPublish(d) == TRUE

\* deviceBlockRejection
MayPublish(d) == status[d] # "review_needed"

\* Mutant: a commit the device ref already has is taken for integrated.
FinishExistingAsNoop ==
  /\ pc = "validate" /\ gitUp
  /\ \/ deviceTip = job.commit
     \/ MayPublish(job.dev) /\ Relation(job.commit, deviceTip) = "superseded"
  /\ ops' = SetOp(job.push, "committed")
  /\ pc' = "end" /\ job' = [job EXCEPT !.ok = TRUE]
  /\ UNCHANGED <<gitVars, curMain, vault, deviceVars, conflicts, announced, mode, todo,
                 clientVars, faults>>

\* finishExistingDeviceCommit: the target is already part of the device ref.
FinishExisting ==
  /\ pc = "validate" /\ gitUp
  /\ \/ deviceTip = job.commit
     \/ MayPublish(job.dev) /\ Relation(job.commit, deviceTip) = "superseded"
  /\ ops' = SetOp(job.push, "committed")
  /\ IF HasOpenConflict(job.dev, job.commit) \/ IsAncestor(job.commit, main)
     THEN pc' = "end" /\ job' = [job EXCEPT !.ok = TRUE]
     ELSE pc' = "merge" /\ job' = job
  /\ UNCHANGED <<gitVars, curMain, vault, deviceVars, conflicts, announced, mode, todo,
                 clientVars, faults>>

\* The validated proposal is recorded `prepared` against the ref read under the lock.
PreparePush ==
  /\ pc = "validate" /\ gitUp
  /\ MayPublish(job.dev)
  /\ deviceTip # job.commit
  /\ Relation(job.commit, deviceTip) # "superseded"
  /\ ops' = [ops EXCEPT ![job.push].status = "prepared", ![job.push].exp = deviceTip]
  /\ pc' = "import"
  /\ UNCHANGED <<gitVars, curMain, vault, deviceVars, conflicts, announced, mode, job, todo,
                 clientVars, faults>>

\* Objects are promoted and the repository synced; divergence goes to review
\* instead of the device ref (acceptDivergentDeviceCommit uses the shared history,
\* or main, as base).
ImportPack ==
  /\ pc = "import"
  /\ IF Relation(job.commit, deviceTip) = "divergent"
     THEN /\ pc' = "conflict"
          /\ job' = [job EXCEPT !.base = IF job.commit \cap deviceTip # {}
                                         THEN job.commit \cap deviceTip
                                         ELSE IF job.commit \cap main # {}
                                              THEN job.commit \cap main ELSE main]
     ELSE pc' = "cas" /\ job' = job
  /\ disk' = refs
  /\ UNCHANGED <<refs, gitUp, dbVars, mode, todo, clientVars, faults>>

-----------------------------------------------------------------------------
(* mergeDeviceCommit and createConflict.                                   *)

\* The commit is neither in main nor held by an open conflict of its device.
NeedsMerge == ~ IsAncestor(job.commit, main) /\ ~ HasOpenConflict(job.dev, job.commit)

\* Nothing to merge; a device whose commit is part of main is in step with it.
MergeNoop ==
  /\ pc = "merge" /\ gitUp /\ ~ NeedsMerge
  /\ status' = IF IsAncestor(job.commit, main) THEN SetStatus(job.dev, "synced") ELSE status
  /\ pc' = "end" /\ job' = [job EXCEPT !.ok = TRUE]
  /\ UNCHANGED <<gitVars, curMain, vault, head, applied, ops, conflicts, announced, mode, todo,
                 clientVars, faults>>

MustClassify == pc = "merge" /\ gitUp /\ NeedsMerge

\* Overlapping, structural, directory or policy conflicts; unrelated histories
\* always end here, with no base.  (A root-ignore refusal records main as base; which
\* commit is recorded makes no difference here, only whether there is one.)
MergeConflicts ==
  /\ MustClassify
  /\ job' = [job EXCEPT !.base = job.commit \cap main]
  /\ pc' = "conflict"
  /\ UNCHANGED <<gitVars, dbVars, mode, todo, clientVars, faults>>

\* A clean merge: its operation row is prepared before the merge commit exists.
PrepareMerge ==
  /\ MustClassify
  /\ job.commit \cap main # {}
  /\ \E o \in Ops :
       /\ FreeOp(o)
       /\ ops' = [ops EXCEPT ![o] = [NoRow EXCEPT !.type = "server_merge", !.dev = job.dev,
                    !.status = "prepared", !.exp = main, !.expDev = job.commit,
                    !.commit = job.commit]]
       /\ job' = [job EXCEPT !.op = o]
  /\ pc' = "target"
  /\ UNCHANGED <<gitVars, curMain, vault, deviceVars, conflicts, announced, mode, todo,
                 clientVars, faults>>

\* The merged tree violates the root-ignore policy: abort, then review.
MergePolicyViolation ==
  /\ pc = "target" /\ gitUp /\ ops[job.op].type = "server_merge"
  /\ ops' = Aborted(job.op)
  /\ job' = [job EXCEPT !.base = job.commit \cap main]
  /\ pc' = "conflict"
  /\ UNCHANGED <<gitVars, curMain, vault, deviceVars, conflicts, announced, mode, todo,
                 clientVars, faults>>

\* createConflict, the metadata part: record, device status and event at once.
CreateConflict ==
  /\ pc = "conflict"
  /\ \E c \in Conflicts :
       /\ FreeConflict(c)
       /\ conflicts' = [conflicts EXCEPT ![c] =
            [status |-> "open", dev |-> job.dev, base |-> job.base, main |-> main,
             commit |-> job.commit]]
       /\ job' = [job EXCEPT !.conf = c]
  /\ status' = SetStatus(job.dev, "review_needed")
  /\ pc' = "pin"
  /\ UNCHANGED <<gitVars, curMain, vault, head, applied, ops, announced, mode, todo,
                 clientVars, faults>>

\* The protection refs of a conflict that do not hold what they should; no ref can
\* hold an empty commit.
Unpinned(c) == {k \in PinKinds : PinValue(c, k) = None \/ refs[PinRef(c, k)] # PinValue(c, k)}

\* The next of the three protection refs, in the order of the code.
NextPin(c) ==
  IF "base" \in Unpinned(c) THEN "base"
  ELSE IF "current" \in Unpinned(c) THEN "current" ELSE "device_commit"

\* ensureRef creates and fsyncs one protection ref.
PinConflict ==
  /\ pc = "pin" /\ gitUp
  /\ Unpinned(job.conf) # {}
  /\ LET k == NextPin(job.conf) IN
       /\ PinValue(job.conf, k) # None
       /\ refs' = [refs EXCEPT ![PinRef(job.conf, k)] = PinValue(job.conf, k)]
       /\ disk' = refs'
  /\ UNCHANGED <<gitUp, dbVars, mode, pc, job, todo, clientVars, faults>>

\* Mutant: the vault is not blocked when a conflict cannot be protected.
PinRefusedQuietly ==
  /\ pc = "pin" /\ Unpinned(job.conf) # {} /\ PinValue(job.conf, NextPin(job.conf)) = None
  /\ pc' = "fail"
  /\ UNCHANGED <<gitVars, dbVars, mode, job, todo, clientVars, faults>>

\* An empty base is not an object name: `git update-ref` refuses it, the vault is
\* blocked and the error thrown.
PinRefused ==
  /\ pc = "pin" /\ Unpinned(job.conf) # {} /\ PinValue(job.conf, NextPin(job.conf)) = None
  /\ vault' = "blocked_integrity"
  /\ pc' = "fail"
  /\ UNCHANGED <<gitVars, curMain, deviceVars, ops, conflicts, announced, mode, job, todo,
                 clientVars, faults>>

\* Mutant: likewise.
PinFailsQuietly ==
  /\ pc = "pin" /\ Unpinned(job.conf) # {} /\ Fault("git_command")
  /\ pc' = "fail"
  /\ UNCHANGED <<gitVars, dbVars, mode, job, todo, clientVars>>

\* The same when git or the fsync fails.
PinFails ==
  /\ pc = "pin" /\ Unpinned(job.conf) # {}
  /\ \/ Fault("git_command") /\ UNCHANGED gitUp
     \/ Fault("fsync") /\ gitUp' = FALSE
  /\ vault' = "blocked_integrity"
  /\ pc' = "fail"
  /\ UNCHANGED <<refs, disk, curMain, deviceVars, ops, conflicts, announced, mode, job, todo,
                 clientVars>>

\* All protected: the row of a divergent push is committed, then the answer.
ConflictDone ==
  /\ pc = "pin" /\ Unpinned(job.conf) = {}
  /\ ops' = IF job.push # 0 THEN SetOp(job.push, "committed") ELSE ops
  /\ pc' = "end" /\ job' = [job EXCEPT !.ok = TRUE]
  /\ UNCHANGED <<gitVars, curMain, vault, deviceVars, conflicts, announced, mode, todo,
                 clientVars, faults>>

-----------------------------------------------------------------------------
(* Owner requests: each runs under the vault lock from its first step.     *)

MayRequest(r) ==
  /\ r \in Requests
  /\ mode = "serving" /\ pc = "idle" /\ gitUp /\ vault = "active"

\* resolveConflict: the resolution is built on current_main, which may have moved
\* past the reviewed main when nothing reviewed was touched.
StartResolve(c) ==
  /\ MayRequest("resolve")
  /\ conflicts[c].status = "open"
  /\ \E o \in Ops :
       /\ FreeOp(o)
       /\ ops' = [ops EXCEPT ![o] = [NoRow EXCEPT !.type = "conflict_resolve",
                    !.dev = conflicts[c].dev, !.status = "prepared", !.exp = curMain,
                    !.expDev = conflicts[c].commit, !.commit = conflicts[c].commit,
                    !.conf = c]]
       /\ job' = [NoJob EXCEPT !.dev = conflicts[c].dev, !.op = o, !.conf = c]
  /\ pc' = "target"
  /\ UNCHANGED <<gitVars, curMain, vault, deviceVars, conflicts, announced, mode, todo,
                 clientVars, faults>>

\* POST notes/restore
StartRestore ==
  /\ MayRequest("restore") /\ requests < MaxRequests
  /\ requests' = requests + 1
  /\ \E o \in Ops :
       /\ FreeOp(o)
       /\ ops' = [ops EXCEPT ![o] = [NoRow EXCEPT !.type = "note_restore",
                    !.status = "prepared", !.exp = curMain]]
       /\ job' = [NoJob EXCEPT !.op = o]
  /\ pc' = "target"
  /\ UNCHANGED <<gitVars, curMain, vault, deviceVars, conflicts, announced, mode, todo,
                 waiting, sent, acked, faults>>

\* saveVaultSyncSettings and applyNameRepair: the commit exists before the row,
\* which is prepared with its target at once.
StartMainEdit(type) ==
  /\ requests < MaxRequests
  /\ requests' = requests + 1
  /\ \E o \in Ops, i \in Ids :
       /\ FreeOp(o) /\ FreshId(i)
       /\ ops' = [ops EXCEPT ![o] = [NoRow EXCEPT !.type = type, !.status = "prepared",
                    !.exp = curMain, !.tgt = curMain \cup {i}]]
       /\ job' = [NoJob EXCEPT !.op = o]
  /\ pc' = "cas"
  /\ UNCHANGED <<gitVars, curMain, vault, deviceVars, conflicts, announced, mode, todo,
                 waiting, sent, acked, faults>>

StartSettings == MayRequest("settings") /\ StartMainEdit("vault_settings")
StartNameRepair == MayRequest("name_repair") /\ StartMainEdit("name_repair")

\* refreshConflictReviewPackage: the `current` protection ref follows main.
StartRefresh(c) ==
  /\ MayRequest("refresh")
  /\ conflicts[c].status = "open" /\ conflicts[c].main # curMain
  /\ IF refs[PinRef(c, "current")] # conflicts[c].main
     THEN vault' = "blocked_integrity" /\ UNCHANGED <<ops, pc, job>>
     ELSE /\ \E o \in Ops :
               /\ FreeOp(o)
               /\ ops' = [ops EXCEPT ![o] = [NoRow EXCEPT !.type = "conflict_refresh",
                            !.dev = conflicts[c].dev, !.status = "prepared",
                            !.ref = PinRef(c, "current"), !.exp = conflicts[c].main,
                            !.tgt = curMain, !.conf = c]]
               /\ job' = [NoJob EXCEPT !.dev = conflicts[c].dev, !.op = o, !.conf = c]
          /\ pc' = "cas"
          /\ UNCHANGED vault
  /\ UNCHANGED <<gitVars, curMain, deviceVars, conflicts, announced, mode, todo, clientVars, faults>>

\* POST sync/applied: the device confirms the main it has applied.
AcknowledgeApplied(d) ==
  /\ MayRequest("acknowledge")
  /\ status[d] \notin {"revoked", "review_needed"}
  /\ \E m \in KnownMains :
       /\ IsAncestor(m, curMain) /\ applied[d] \subseteq m
       /\ applied' = [applied EXCEPT ![d] = m]
       /\ status' = SetStatus(d, IF m = curMain THEN "synced" ELSE "paired")
  /\ UNCHANGED <<gitVars, curMain, vault, head, ops, conflicts, announced, mode, pc, job, todo,
                 clientVars, faults>>

\* POST onboarding/complete (it does not look at vault.status or at conflicts)
CompleteOnboarding(d) ==
  /\ "complete_onboarding" \in Requests /\ mode = "serving" /\ pc = "idle"
  /\ status[d] # "revoked" /\ applied[d] = curMain
  /\ status' = SetStatus(d, "synced")
  /\ UNCHANGED <<gitVars, curMain, vault, head, applied, ops, conflicts, announced, mode, pc, job,
                 todo, clientVars, faults>>

-----------------------------------------------------------------------------
(* Moving a ref.  The four steps are shared by all operations; what differs *)
(* is the reaction to an error.                                            *)

row == ops[job.op]

\* The device commit itself serves as the merge when main is its only parent (and
\* the integrated tree is its own, which is left open).
CanReuseDeviceCommit(m, c) == \E i \in Ids \ m : c = m \cup {i}

\* Mutant: the commit is created without the proposal as a parent.
PrepareTargetWithoutProposal ==
  /\ pc = "target" /\ gitUp
  /\ \E i \in Ids : FreshId(i) /\ ops' = [ops EXCEPT ![job.op].tgt = row.exp \cup {i}]
  /\ pc' = "cas"
  /\ UNCHANGED <<gitVars, curMain, vault, deviceVars, conflicts, announced, mode, job, todo,
                 clientVars, faults>>

\* The commit object is created and recorded as the row's target
\* (prepareMergeRefUpdate, prepareConflictResolutionRefUpdate, prepareRouteRefUpdate).
PrepareTarget ==
  /\ pc = "target" /\ gitUp
  /\ \/ \E i \in Ids :
          /\ FreshId(i)
          /\ ops' = [ops EXCEPT ![job.op].tgt = row.exp \cup row.commit \cup {i}]
     \/ /\ row.type = "server_merge" /\ CanReuseDeviceCommit(row.exp, row.commit)
        /\ ops' = [ops EXCEPT ![job.op].tgt = row.commit]
  /\ pc' = "cas"
  /\ UNCHANGED <<gitVars, curMain, vault, deviceVars, conflicts, announced, mode, job, todo,
                 clientVars, faults>>

\* Where an error thrown by the current step lands: the operation's own catch
\* block, or the one around the whole handler.
CatchBlock == IF pc \in {"target", "cas", "fsync"} /\ row.type # "device_push" THEN "catch" ELSE "fail"

\* Mutants: the ref is written without comparing, and a refused write is not noticed.
UpdateRefForced ==
  /\ pc = "cas" /\ gitUp
  /\ refs' = [refs EXCEPT ![row.ref] = row.tgt]
  /\ pc' = "fsync"
  /\ UNCHANGED <<disk, gitUp, dbVars, mode, job, todo, clientVars, faults>>

UpdateRefUnnoticed ==
  /\ pc = "cas" /\ gitUp
  /\ refs' = IF refs[row.ref] = row.exp THEN [refs EXCEPT ![row.ref] = row.tgt] ELSE refs
  /\ pc' = "fsync"
  /\ UNCHANGED <<disk, gitUp, dbVars, mode, job, todo, clientVars, faults>>

\* git update-ref <ref> <target> <expected>
UpdateRef ==
  /\ pc = "cas" /\ gitUp
  /\ IF refs[row.ref] = row.exp
     THEN refs' = [refs EXCEPT ![row.ref] = row.tgt] /\ pc' = "fsync" /\ job' = job
     ELSE refs' = refs /\ pc' = CatchBlock /\ job' = [job EXCEPT !.err = "other"]
  /\ UNCHANGED <<disk, gitUp, dbVars, mode, todo, clientVars, faults>>

\* Mutant: the repository is not synced before metadata is committed.
FsyncSkipped ==
  /\ pc = "fsync"
  /\ pc' = "commit"
  /\ UNCHANGED <<gitVars, dbVars, mode, job, todo, clientVars, faults>>

\* fsyncTree(repo)
FsyncRepository ==
  /\ pc = "fsync"
  /\ disk' = refs
  /\ pc' = "commit"
  /\ UNCHANGED <<refs, gitUp, dbVars, mode, job, todo, clientVars, faults>>

\* The repository cannot be synced: a ref may have moved, perhaps not durably, and
\* GitService refuses to run git until the process restarts.
FsyncFails ==
  /\ pc \in {"import", "fsync"} /\ Fault("fsync")
  /\ gitUp' = FALSE
  /\ pc' = CatchBlock /\ job' = [job EXCEPT !.err = "durability"]
  /\ UNCHANGED <<refs, disk, dbVars, mode, todo, clientVars>>

\* A git command fails, for update-ref possibly after the ref has moved.
GitCommandFails ==
  /\ pc \in {"import", "target", "cas"}
  /\ \/ Fault("git_command") /\ refs' = refs
     \/ /\ pc = "cas" /\ refs[row.ref] = row.exp /\ Fault("lost_exit")
        /\ refs' = [refs EXCEPT ![row.ref] = row.tgt]
  /\ pc' = CatchBlock /\ job' = [job EXCEPT !.err = "other"]
  /\ UNCHANGED <<disk, gitUp, dbVars, mode, todo, clientVars>>

\* The next handler finds git unavailable.
GitUnavailable ==
  /\ pc = "validate" /\ ~ gitUp
  /\ pc' = "fail" /\ job' = [job EXCEPT !.err = "durability"]
  /\ UNCHANGED <<gitVars, dbVars, mode, todo, clientVars, faults>>

\* mutate fails before it replaces the database file: nothing is stored and the
\* error is thrown.  (A failure after the replacement makes the store refuse all
\* use until restart, which is a crash before or after the step.)
StoreWriteFails ==
  /\ pc \in {"validate", "target", "commit", "merge", "conflict", "catch", "fail"}
  /\ Fault("store_write")
  /\ IF pc = "fail" THEN pc' = "end" /\ job' = job
     ELSE /\ pc' = IF pc = "target" THEN CatchBlock ELSE "fail"
          /\ job' = [job EXCEPT !.err = "other"]
  /\ UNCHANGED <<gitVars, dbVars, mode, todo, clientVars>>

\* What a catch block sees when it reads the ref back: getRef answers null when
\* git fails.
ReadBack(actual) ==
  \/ actual = refs[row.ref] /\ UNCHANGED faults
  \/ actual = None /\ Fault("git_command")

\* Which operations read the ref back before they decide; the others abort.
Reconciles(type) == type \in {"server_merge", "conflict_refresh", "vault_settings", "name_repair"}

CatchAborts ==
  /\ pc = "catch" /\ ~ Reconciles(row.type)
  /\ ops' = Aborted(job.op)
  /\ pc' = "fail"
  /\ UNCHANGED <<gitVars, curMain, vault, deviceVars, conflicts, announced, mode, job, todo,
                 clientVars, faults>>

\* A durability error leaves the row prepared: startup decides.
CatchRethrows ==
  /\ pc = "catch" /\ Reconciles(row.type) /\ job.err = "durability"
  /\ pc' = "fail"
  /\ UNCHANGED <<gitVars, dbVars, mode, job, todo, clientVars, faults>>

CatchReconciles ==
  /\ pc = "catch" /\ Reconciles(row.type) /\ job.err = "other"
  /\ \E actual \in {refs[row.ref], None} :
       /\ ReadBack(actual)
       /\ \/ /\ actual = row.tgt /\ row.tgt # None
             /\ pc' = "commit"
             /\ UNCHANGED <<ops, vault>>
          \/ /\ actual # row.tgt /\ actual = row.exp
             /\ pc' = "fail"
             /\ ops' = Aborted(job.op)
             /\ UNCHANGED vault
          \/ /\ (actual # row.tgt \/ row.tgt = None) /\ actual # row.exp
             /\ pc' = "fail"
             /\ vault' = "blocked_integrity"
             /\ UNCHANGED ops
  /\ UNCHANGED <<gitVars, curMain, deviceVars, conflicts, announced, mode, job, todo, clientVars>>

\* The catch around integrateDeviceCommit: the push row is aborted unless committed.
FailPush ==
  /\ pc = "fail"
  /\ ops' = IF job.push # 0 THEN Aborted(job.push) ELSE ops
  /\ pc' = "end"
  /\ UNCHANGED <<gitVars, curMain, vault, deviceVars, conflicts, announced, mode, job, todo,
                 clientVars, faults>>

-----------------------------------------------------------------------------
(* The metadata commit that follows a moved ref: every effect in one mutate. *)

\* Mutant: startup rolls metadata forward without the event.
AnnounceOnlyWhenServing(prev, new) ==
  IF mode = "serving" THEN Append(announced, [prev |-> prev, main |-> new]) ELSE announced

\* appendEvent("main_advanced")
Announce(prev, new) == Append(announced, [prev |-> prev, main |-> new])

CommitPush ==
  /\ pc = "commit" /\ row.type = "device_push"
  /\ ops' = SetOp(job.op, "committed")
  /\ head' = [head EXCEPT ![job.dev] = row.tgt]
  /\ status' = SetStatus(job.dev, "ahead")
  /\ pc' = "merge"
  /\ UNCHANGED <<gitVars, curMain, vault, applied, conflicts, announced, mode, job, todo,
                 clientVars, faults>>

CommitMerge ==
  /\ pc = "commit" /\ row.type = "server_merge"
  /\ ops' = SetOp(job.op, "committed")
  /\ curMain' = row.tgt
  /\ announced' = Announce(row.exp, row.tgt)
  /\ status' = SetStatus(job.dev, "synced")
  /\ pc' = "end" /\ job' = [job EXCEPT !.ok = TRUE]
  /\ UNCHANGED <<gitVars, vault, head, applied, conflicts, mode, todo, clientVars, faults>>

CommitResolve ==
  /\ pc = "commit" /\ row.type = "conflict_resolve"
  /\ ops' = SetOp(job.op, "committed")
  /\ curMain' = row.tgt
  /\ announced' = Announce(row.exp, row.tgt)
  /\ conflicts' = [conflicts EXCEPT ![row.conf].status = "resolved"]
  /\ status' = SetStatus(job.dev, "synced")
  /\ pc' = "end"
  /\ UNCHANGED <<gitVars, vault, head, applied, mode, job, todo, clientVars, faults>>

\* A name repair is refused unless current_main is still what it was prepared for.
CommitMainEdit ==
  /\ pc = "commit" /\ row.type \in {"note_restore", "vault_settings", "name_repair"}
  /\ IF row.type = "name_repair" /\ curMain # row.exp
     THEN UNCHANGED <<ops, curMain, announced>>
     ELSE /\ ops' = SetOp(job.op, "committed")
          /\ curMain' = row.tgt
          /\ announced' = Announce(IF row.type = "vault_settings" THEN curMain ELSE row.exp, row.tgt)
  /\ pc' = "end"
  /\ UNCHANGED <<gitVars, vault, deviceVars, conflicts, mode, job, todo, clientVars, faults>>

\* Refused, with the row left prepared, when the vault was blocked meanwhile.
CommitRefresh ==
  /\ pc = "commit" /\ row.type = "conflict_refresh"
  /\ IF vault = "active" /\ conflicts[row.conf].status = "open" /\ conflicts[row.conf].main = row.exp
     THEN /\ ops' = SetOp(job.op, "committed")
          /\ conflicts' = [conflicts EXCEPT ![row.conf].main = row.tgt]
     ELSE UNCHANGED <<ops, conflicts>>
  /\ pc' = "end"
  /\ UNCHANGED <<gitVars, curMain, vault, deviceVars, announced, mode, job, todo, clientVars, faults>>

\* The handler returns: history is archived, the lock released, a push answered.
\* An error while startup resumes merges ends the process.
Finish ==
  /\ pc = "end"
  /\ ops' = Archived
  /\ acked' = IF job.push # 0 /\ job.ok THEN acked \cup {job.commit} ELSE acked
  /\ job' = NoJob
  /\ \/ mode = "serving" /\ pc' = "idle" /\ UNCHANGED mode
     \/ mode = "startup" /\ job.ok /\ pc' = "resume" /\ UNCHANGED mode
     \/ mode = "startup" /\ ~ job.ok /\ pc' = "idle" /\ mode' = "down"
  /\ UNCHANGED <<gitVars, curMain, vault, deviceVars, conflicts, announced, todo,
                 waiting, sent, requests, faults>>

-----------------------------------------------------------------------------
(* What runs beside the lock holder.                                       *)

\* AuthService.revokeDevice
Revoke(d) ==
  /\ "revoke" \in Requests /\ mode = "serving" /\ status[d] # "revoked"
  /\ status' = [status EXCEPT ![d] = "revoked"]
  /\ UNCHANGED <<gitVars, curMain, vault, head, applied, ops, conflicts, announced, mode, pc, job,
                 todo, clientVars, faults>>

Pinned(c) == conflicts[c].status = "open" => Unpinned(c) = {}

\* checkVaultPersistentState, the part that compares metadata with refs
Consistent ==
  /\ main = curMain
  /\ \A d \in Devices : refs[DeviceRef(d)] = head[d]
  /\ \A c \in Conflicts : Pinned(c)

\* preparedRefTransitionAllows: a prepared row explains that a ref already has its
\* target while metadata still has the expected value.
Explained(ref, recorded) ==
  \/ refs[ref] = recorded
  \/ \E o \in Ops : /\ ops[o].status = "prepared" /\ ops[o].ref = ref
                    /\ ops[o].exp = recorded /\ ops[o].tgt = refs[ref] /\ ops[o].tgt # None

\* preparedConflictRefTransitionAllows: only the `current` ref of a conflict moves
LivePinned(c) ==
  conflicts[c].status = "open" =>
    /\ Unpinned(c) \subseteq {"current"}
    /\ Explained(PinRef(c, "current"), conflicts[c].main)

LiveConsistent ==
  /\ Explained(MainRef, curMain)
  /\ \A d \in Devices : Explained(DeviceRef(d), head[d])
  /\ \A c \in Conflicts : LivePinned(c)

\* A readiness probe durably blocks the vault it finds inconsistent.  A prepared
\* row counts for a grace period only, so a slow operation may be misjudged.
ReadinessBlocks ==
  /\ "readiness" \in Requests /\ mode = "serving" /\ gitUp /\ vault = "active"
  /\ \/ ~ LiveConsistent /\ UNCHANGED faults
     \/ ~ Consistent /\ Fault("slow")
  /\ vault' = "blocked_integrity"
  /\ UNCHANGED <<gitVars, curMain, deviceVars, ops, conflicts, announced, mode, pc, job, todo,
                 clientVars>>

-----------------------------------------------------------------------------
(* Crash and startup (createServer in app.ts).                             *)

Stop ==
  /\ mode' = "down" /\ pc' = "idle" /\ job' = NoJob /\ todo' = {}
  /\ waiting' = [d \in Devices |-> None]
  /\ UNCHANGED <<dbVars, sent, acked, requests>>

\* The process dies; nothing that git or the store has written is lost.
Crash ==
  /\ mode # "down" /\ Fault("crash")
  /\ Stop
  /\ UNCHANGED gitVars

\* The machine dies; any ref written since the last fsync may be lost.
PowerLoss ==
  /\ Fault("power_loss")
  /\ Stop
  /\ \E lost \in SUBSET {r \in Refs : refs[r] # disk[r]} :
       refs' = [r \in Refs |-> IF r \in lost THEN disk[r] ELSE refs[r]]
  /\ disk' = refs'
  /\ UNCHANGED gitUp

\* The operator restarts a server that has lost Git durability.
RestartForGit ==
  /\ mode = "serving" /\ pc = "idle" /\ ~ gitUp
  /\ Stop
  /\ UNCHANGED <<gitVars, faults>>

Boot ==
  /\ mode = "down"
  /\ mode' = "startup" /\ pc' = "reconcile" /\ gitUp' = TRUE
  /\ todo' = {o \in Ops : ops[o].status \in {"started", "prepared"}}
  /\ UNCHANGED <<refs, disk, dbVars, job, clientVars, faults>>

Reconciling(o) == mode = "startup" /\ pc = "reconcile" /\ o \in todo /\ todo' = todo \ {o}

\* expectedRefsStillCurrent
ExpectedRefsStillCurrent(r) ==
  /\ refs[r.ref] = r.exp
  /\ r.type \in {"server_merge", "conflict_resolve"} => refs[DeviceRef(r.dev)] = r.expDev

\* Mutant: startup never finishes an operation.
VerdictAlwaysAbort(r) == "abort"

\* What startup decides about a row that was started or prepared.
StartupVerdict(r) ==
  IF r.status = "started" THEN "abort"
  ELSE IF r.tgt = None THEN (IF ExpectedRefsStillCurrent(r) THEN "abort" ELSE "block")
  ELSE IF refs[r.ref] = r.tgt THEN "roll_forward"
  ELSE IF refs[r.ref] = r.exp THEN "abort"
  ELSE "block"

ReconcileAbort(o) ==
  /\ Reconciling(o) /\ StartupVerdict(ops[o]) = "abort"
  /\ ops' = Aborted(o)
  /\ UNCHANGED <<gitVars, curMain, vault, deviceVars, conflicts, announced, mode, pc, job,
                 clientVars, faults>>

\* rollForwardPreparedOperation refuses a target that metadata no longer fits.
RollForwardFits(r) ==
  /\ r.type \in {"vault_settings", "name_repair"} => curMain = r.exp
  /\ r.type = "conflict_refresh" => conflicts[r.conf].status = "open" /\ conflicts[r.conf].main = r.exp

ReconcileBlock(o) ==
  /\ Reconciling(o)
  /\ \/ StartupVerdict(ops[o]) = "block"
     \/ StartupVerdict(ops[o]) = "roll_forward" /\ ~ RollForwardFits(ops[o])
  /\ vault' = "blocked_integrity"
  /\ UNCHANGED <<gitVars, curMain, deviceVars, ops, conflicts, announced, mode, pc, job,
                 clientVars, faults>>

RollForwardPush(o) ==
  /\ Reconciling(o) /\ StartupVerdict(ops[o]) = "roll_forward"
  /\ ops[o].type = "device_push"
  /\ ops' = SetOp(o, "committed")
  /\ head' = [head EXCEPT ![ops[o].dev] = ops[o].tgt]
  /\ status' = SetStatus(ops[o].dev, "ahead")
  /\ UNCHANGED <<gitVars, curMain, vault, applied, conflicts, announced, mode, pc, job,
                 clientVars, faults>>

\* server_merge, conflict_resolve, note_restore, vault_settings and name_repair
RollForwardMain(o) ==
  /\ Reconciling(o) /\ StartupVerdict(ops[o]) = "roll_forward"
  /\ ops[o].type \notin {"device_push", "conflict_refresh"} /\ RollForwardFits(ops[o])
  /\ ops' = SetOp(o, "committed")
  /\ curMain' = ops[o].tgt
  /\ announced' = Announce(ops[o].exp, ops[o].tgt)
  /\ status' = IF ops[o].dev = NoDevice THEN status ELSE SetStatus(ops[o].dev, "synced")
  /\ conflicts' = IF ops[o].type = "conflict_resolve"
                  THEN [conflicts EXCEPT ![ops[o].conf].status = "resolved"] ELSE conflicts
  /\ UNCHANGED <<gitVars, vault, head, applied, mode, pc, job, clientVars, faults>>

RollForwardRefresh(o) ==
  /\ Reconciling(o) /\ StartupVerdict(ops[o]) = "roll_forward"
  /\ ops[o].type = "conflict_refresh" /\ RollForwardFits(ops[o])
  /\ ops' = SetOp(o, "committed")
  /\ conflicts' = [conflicts EXCEPT ![ops[o].conf].main = ops[o].tgt]
  /\ UNCHANGED <<gitVars, curMain, vault, deviceVars, announced, mode, pc, job, clientVars, faults>>

StartProtect ==
  /\ mode = "startup" /\ pc = "reconcile" /\ todo = {}
  /\ pc' = "protect"
  /\ todo' = {c \in Conflicts : conflicts[c].status = "open"}
  /\ UNCHANGED <<gitVars, dbVars, mode, job, clientVars, faults>>

\* ensureProtectedConflictRefs: missing pins are created, a different pin or an
\* empty commit blocks the vault.
ProtectConflict(c) ==
  /\ mode = "startup" /\ pc = "protect" /\ c \in todo
  /\ todo' = todo \ {c}
  /\ IF \A k \in PinKinds : PinValue(c, k) # None /\ refs[PinRef(c, k)] \in {None, PinValue(c, k)}
     THEN /\ refs' = [r \in Refs |-> IF \E k \in Unpinned(c) : r = PinRef(c, k)
                                     THEN PinValue(c, CHOOSE k \in PinKinds : r = PinRef(c, k))
                                     ELSE refs[r]]
          /\ disk' = IF Unpinned(c) = {} THEN disk ELSE refs'
          /\ UNCHANGED vault
     ELSE vault' = "blocked_integrity" /\ UNCHANGED <<refs, disk>>
  /\ UNCHANGED <<gitUp, curMain, deviceVars, ops, conflicts, announced, mode, pc, job,
                 clientVars, faults>>

\* markInconsistentVaults, then archiveStartupHistory
ScanVault ==
  /\ mode = "startup" /\ pc = "protect" /\ todo = {}
  /\ vault' = IF Consistent THEN vault ELSE "blocked_integrity"
  /\ ops' = IF vault' = "active" THEN Archived ELSE ops
  /\ pc' = "resume"
  /\ UNCHANGED <<gitVars, curMain, deviceVars, conflicts, announced, mode, job, todo,
                 clientVars, faults>>

\* resumePendingMerges
OwesMerge(d) ==
  /\ vault = "active"
  /\ \E o \in Ops : ops[o].dev = d /\ PendingMergeRow(ops[o])
  /\ ~ HasOpenConflict(d, head[d]) /\ ~ IsAncestor(head[d], main)

ResumeMerge(d) ==
  /\ mode = "startup" /\ pc = "resume" /\ OwesMerge(d)
  /\ job' = [NoJob EXCEPT !.dev = d, !.commit = head[d]]
  /\ pc' = "merge"
  /\ UNCHANGED <<gitVars, dbVars, mode, todo, clientVars, faults>>

Listen ==
  /\ mode = "startup" /\ pc = "resume" /\ \A d \in Devices : ~ OwesMerge(d)
  /\ mode' = "serving" /\ pc' = "idle"
  /\ UNCHANGED <<gitVars, dbVars, job, todo, clientVars, faults>>

\* `obts integrity repair`, run by the operator while the server is stopped
RepairVault ==
  /\ "operator_repair" \in Requests /\ mode = "down" /\ vault = "blocked_integrity" /\ Consistent
  /\ vault' = "active"
  /\ UNCHANGED <<gitVars, curMain, deviceVars, ops, conflicts, announced, mode, pc, job, todo,
                 clientVars, faults>>

-----------------------------------------------------------------------------

PushStep ==
  \/ RejectPush \/ FinishExisting \/ PreparePush \/ ImportPack
  \/ MergeNoop \/ MergeConflicts \/ PrepareMerge
  \/ MergePolicyViolation \/ CreateConflict \/ PinConflict \/ PinRefused
  \/ ConflictDone

RefStep ==
  \/ PrepareTarget \/ UpdateRef \/ FsyncRepository \/ GitUnavailable
  \/ CatchAborts \/ CatchRethrows \/ CatchReconciles \/ FailPush
  \/ CommitPush \/ CommitMerge \/ CommitResolve \/ CommitMainEdit \/ CommitRefresh \/ Finish

FaultStep ==
  \/ PinFails \/ FsyncFails \/ GitCommandFails \/ StoreWriteFails \/ Crash \/ PowerLoss

StartupStep ==
  \/ Boot \/ StartProtect \/ ScanVault \/ Listen \/ RestartForGit
  \/ \E o \in Ops : \/ ReconcileAbort(o) \/ ReconcileBlock(o) \/ RollForwardPush(o)
                    \/ RollForwardMain(o) \/ RollForwardRefresh(o)
  \/ \E c \in Conflicts : ProtectConflict(c)
  \/ \E d \in Devices : ResumeMerge(d)

RequestStep ==
  \/ \E d \in Devices : \/ AuthenticatePush(d) \/ StartPush(d) \/ AcknowledgeApplied(d)
                        \/ CompleteOnboarding(d) \/ Revoke(d)
  \/ \E c \in Conflicts : StartResolve(c) \/ StartRefresh(c)
  \/ StartRestore \/ StartSettings \/ StartNameRepair \/ ReadinessBlocks \/ RepairVault

\* The server waits for the next request; a handler or a startup that cannot go on
\* is a deadlock.
Quiescent == mode = "serving" /\ pc = "idle" /\ UNCHANGED vars

Next == PushStep \/ RefStep \/ FaultStep \/ StartupStep \/ RequestStep \/ Quiescent

Spec == Init /\ [][Next]_vars

\* The lock holder and startup always take their next step while the process runs,
\* and a stopped server is started again.
Fairness == WF_vars(PushStep \/ RefStep \/ StartupStep)

LiveSpec == Spec /\ Fairness

-----------------------------------------------------------------------------
(* Properties.                                                             *)

\* Metadata never runs ahead of Git: current_main is always part of the history of
\* refs/heads/main, also after a power loss took back what was not synced (updateRef
\* and its fsync precede every metadata commit).
MetadataBehindGit == IsAncestor(curMain, main)

\* A proposal answered merged, noop or conflicted is never lost: it is part of main
\* or held by an open conflict record, whatever fails afterwards.
AcknowledgedPreserved ==
  \A t \in acked :
    \/ IsAncestor(t, main)
    \/ \E c \in Conflicts : conflicts[c].status = "open" /\ conflicts[c].commit = t

\* With a server that can use git and nobody in the lock, every ref equals its
\* metadata and the vault is not blocked: startup has finished or undone whatever
\* was interrupted (reconcileStartupOperations and what follows it).
RecoveredExactly == mode = "serving" /\ pc = "idle" /\ gitUp => vault = "active" /\ Consistent

\* The main_advanced events are one chain from the root to current_main: no
\* advance is announced twice, skipped or announced out of order, by the request
\* that made it or by the startup that finished it.
AnnouncedChain ==
  /\ \A i \in DOMAIN announced :
       /\ announced[i].prev = IF i = 1 THEN Root ELSE announced[i - 1].main
       /\ IsAncestor(announced[i].prev, announced[i].main)
  /\ curMain = IF announced = <<>> THEN Root ELSE announced[Len(announced)].main

\* What a served vault holds for review stays reachable: once the handler that
\* opened a conflict has returned, its three protection refs exist, and only a
\* prepared refresh may have moved one of them ahead of the record.
OpenConflictsPinned ==
  mode = "serving" /\ pc = "idle" /\ vault = "active" => \A c \in Conflicts : LivePinned(c)

\* A device with an open conflict cannot publish newer commits: as long as it is not
\* revoked its status keeps it under review (deviceBlockRejection).
OpenConflictHoldsDevice ==
  \A c \in Conflicts : conflicts[c].status = "open" =>
    status[conflicts[c].dev] \in {"review_needed", "revoked"}

\* A device shown as synced has nothing published that is still waiting for its
\* merge: the status the acknowledgement routes, merges and startup write never
\* hides work a crash left between the device ref and main.
SyncedIsSettled ==
  mode = "serving" /\ pc = "idle" =>
    \A d \in Devices : status[d] = "synced" =>
      head[d] \subseteq curMain \/ HasOpenConflict(d, head[d])

\* Canonical history only grows: current_main across every crash and restart, and
\* the ref except when the machine loses power.  Startup never moves it back.
MainOnlyGrows == [][curMain \subseteq curMain' /\ (main \subseteq main' \/ mode' = "down")]_vars

\* Revocation is final, also for a push that was authenticated before it.
RevocationSticks == [][\A d \in Devices : status[d] = "revoked" => status'[d] = "revoked"]_vars

\* The server implements the abstract vault: whatever fails or restarts, clients see
\* canonical history grow, one event per growth, and a held proposal let go only by
\* the growth that takes it in (the metadata commits of the operations and their
\* roll forward at startup).
Held == [c \in Conflicts |-> IF conflicts[c].status = "open" THEN conflicts[c].commit ELSE None]
Mains == [i \in 1 .. Len(announced) |-> announced[i].main]
Canonical == INSTANCE CanonicalVault WITH
               Histories <- Commit, First <- Root, Slots <- Conflicts,
               main <- curMain, log <- Mains, held <- Held
ImplementsCanonicalVault == Canonical!Spec

\* A published proposal is eventually integrated or put under review, although the
\* server may crash anywhere in between, unless its device is revoked or the vault
\* is blocked.
PublishedIsIntegrated ==
  \A d \in Devices :
    (head[d] # None) ~>
      \/ IsAncestor(head[d], curMain)
      \/ HasOpenConflict(d, head[d])
      \/ status[d] = "revoked" \/ vault = "blocked_integrity"
=============================================================================
