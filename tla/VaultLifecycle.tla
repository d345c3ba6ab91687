--------------------------- MODULE VaultLifecycle ---------------------------
(***************************************************************************)
(* Whole-vault deletion (src/server/vaultLifecycleCoordinator.ts) and      *)
(* permanent removal of a revoked device (src/server/                      *)
(* deviceRemovalService.ts), against the work they have to wait for: HTTP  *)
(* requests of the device, which hold a device lease and a vault           *)
(* admission (the request fence of app.ts), and the detached transfer      *)
(* processors of chunkTransferService.ts.  One vault and one device of it  *)
(* are modelled; other devices' work looks to a deletion like the          *)
(* requests here.  The device proposes a chain of commits, so main and     *)
(* the device ref are numbers: everything up to them is contained.         *)
(***************************************************************************)
EXTENDS Naturals, FiniteSets

CONSTANTS
  None,        \* no record
  Requests,    \* bound: requests of the device served at a time
  MaxCommits,  \* bound: proposals the device uploads
  MaxFaults    \* bound: crashes, failed writes and failed commands

Commits == 1..MaxCommits

DeletionPhases == {"intent", "draining", "erasing", "finalizing", "receipt"}

UploadStates == {"open", "processing", "completed", "rejected", "aborted"}

\* Device removal jobs.
Jobs ==
  [phase : {"intent", "ref_deleting", "cleanup"}, expected : 0..MaxCommits,
   discard : BOOLEAN, failed : {None, "retry", "owner"}]

ASSUME ConstantsAssumption ==
  /\ IsFiniteSet(Requests) /\ Requests \cap Nat = {}
  /\ None \notin Requests \cup Nat \cup DeletionPhases \cup UploadStates \cup Jobs
  /\ MaxCommits \in Nat \ {0} /\ MaxFaults \in Nat

VARIABLES
  vaultRow,    \* metadata: the vault's status, "gone" when its row is erased
  deletion,    \* metadata: phase of the deletion job, or its receipt
  device,      \* metadata: the device row
  removal,     \* metadata: the device removal job
  conflict,    \* metadata: the device's open conflict, as its commit
  repo, ref, main,  \* Git: the repository exists; device ref; covered by main
  session,     \* transfer directory: status of the upload of each commit
  made,        \* how many commits the device has uploaded
  mode,        \* the server process: down, resuming (startup), serving
  closing,     \* vault barrier
  devClosing,  \* device barrier
  active,      \* holders of a vault admission
  leases,      \* holders of a device lease
  lock,        \* holder of the vault sync lock
  request,     \* stage of each request
  processor,   \* stage of the detached processor of each upload
  remover,     \* the removal request: stage, and what it was granted
  deleter,     \* the deletion request's stage
  worker,      \* the deletion worker's stage
  granted,     \* what the owner's last removal request allowed (history)
  faults       \* how many faults there were

metadata == <<vaultRow, deletion, device, removal, conflict>>

git == <<repo, ref, main>>

disk == <<metadata, git, session, made>>

barriers == <<closing, devClosing>>

fences == <<active, leases, lock>>

threads == <<request, processor, remover, deleter, worker>>

vars == <<disk, mode, barriers, fences, threads, granted, faults>>

-----------------------------------------------------------------------------
(* Barriers and fences *)

NoRemover == [at |-> "idle", grant |-> FALSE, ok |-> FALSE, main |-> 0, oid |-> 0]

Fault == faults < MaxFaults /\ faults' = faults + 1

(* Holders of fences: a request, the processor of an upload (its commit),  *)
(* and the removal.                                                         *)
Push(c) == c

Removal == 0

\* hasDurableDeletionRecord
DurablyClosed == deletion # None \/ vaultRow = "deleting"

\* A holder lets go of what it holds (finally blocks, releaseFenceIfSettled).
Release(h) ==
  /\ active' = active \ {h} /\ leases' = leases \ {h}
  /\ lock' = IF lock = h THEN None ELSE lock

\* Mutant: the lock outlives the admission it was taken under.
ReleaseAdmissionKeepsLock(h) == active' = active \ {h} /\ UNCHANGED <<leases, lock>>

\* The processor leaves processPush: the lock and the admission go, its
\* device lease stays until it exits.
ReleaseAdmission(h) ==
  /\ active' = active \ {h} /\ lock' = IF lock = h THEN None ELSE lock
  /\ UNCHANGED leases

Unfinished(c) == session[c] \in {"open", "processing"}

\* drainVault, drainDevice: unfinished uploads become aborted.
AbortedSessions == [c \in Commits |-> IF Unfinished(c) THEN "aborted" ELSE session[c]]

-----------------------------------------------------------------------------
(* Requests of the device *)

\* authenticateDeviceToken
Authenticate(r) ==
  /\ mode = "serving" /\ request[r] = "idle"
  /\ vaultRow = "active" /\ device = "paired"
  /\ request' = [request EXCEPT ![r] = "authenticated"]
  /\ UNCHANGED <<disk, mode, barriers, fences, processor, remover, deleter, worker, granted, faults>>

Finish(r) == request' = [request EXCEPT ![r] = "idle"] /\ Release(r)

\* tryAcquireDeviceLease: registered before the first await.
TryAcquireDeviceLease(r) ==
  /\ request[r] = "authenticated"
  /\ IF devClosing THEN Finish(r)
     ELSE /\ leases' = leases \cup {r} /\ UNCHANGED <<active, lock>>
          /\ request' = [request EXCEPT ![r] = "leased"]
  /\ UNCHANGED <<disk, mode, barriers, processor, remover, deleter, worker, granted, faults>>

\* Mutant: the durable state is not read again after the lease is registered.
AcquireDeviceLeaseBlind(r) ==
  /\ request[r] = "leased"
  /\ request' = [request EXCEPT ![r] = "checked"] /\ UNCHANGED fences
  /\ UNCHANGED <<disk, mode, barriers, processor, remover, deleter, worker, granted, faults>>

\* acquireDeviceLease: with the lease registered, the durable state decides.
AcquireDeviceLease(r) ==
  /\ request[r] = "leased"
  /\ IF device = "paired" /\ removal = None
     THEN request' = [request EXCEPT ![r] = "checked"] /\ UNCHANGED fences
     ELSE Finish(r)
  /\ UNCHANGED <<disk, mode, barriers, processor, remover, deleter, worker, granted, faults>>

\* acquireAdmission up to its await: the barrier, then the durable record.
AskAdmission(r) ==
  /\ request[r] = "checked"
  /\ IF closing \/ DurablyClosed THEN Finish(r)
     ELSE request' = [request EXCEPT ![r] = "admitting"] /\ UNCHANGED fences
  /\ UNCHANGED <<disk, mode, barriers, processor, remover, deleter, worker, granted, faults>>

\* Mutant: the barrier is not read again after the await.
TakeAdmissionUnchecked(r) ==
  /\ request[r] = "admitting"
  /\ active' = active \cup {r} /\ UNCHANGED <<leases, lock>>
  /\ request' = [request EXCEPT ![r] = "running"]
  /\ UNCHANGED <<disk, mode, barriers, processor, remover, deleter, worker, granted, faults>>

\* ... and after it: the barrier again, and the count, in one turn.
TakeAdmission(r) ==
  /\ request[r] = "admitting"
  /\ IF closing THEN Finish(r)
     ELSE /\ active' = active \cup {r} /\ UNCHANGED <<leases, lock>>
          /\ request' = [request EXCEPT ![r] = "running"]
  /\ UNCHANGED <<disk, mode, barriers, processor, remover, deleter, worker, granted, faults>>

\* createPush: an upload session for the device's next commit.
HandleCreate(r) ==
  /\ request[r] = "running" /\ made < MaxCommits /\ ~closing
  /\ made' = made + 1
  /\ session' = [session EXCEPT ![made + 1] = "open"]
  /\ Finish(r)
  /\ UNCHANGED <<metadata, git, mode, barriers, processor, remover, deleter, worker, granted, faults>>

\* beginFinalizePush or getPush: the upload is processing from now on, and
\* its processor is started with a lease of its own unless the device is
\* being removed (startProcessing).
HandleFinalize(r) ==
  /\ request[r] = "running" /\ ~closing
  /\ \E c \in Commits :
       /\ session[c] = "open" \/ (session[c] = "processing" /\ processor[c] = "none")
       /\ session' = [session EXCEPT ![c] = "processing"]
       /\ active' = active \ {r} /\ UNCHANGED lock
       /\ IF devClosing THEN leases' = leases \ {r} /\ UNCHANGED processor
          ELSE /\ leases' = (leases \ {r}) \cup {Push(c)}
               /\ processor' = [processor EXCEPT ![c] = "start"]
  /\ request' = [request EXCEPT ![r] = "idle"]
  /\ UNCHANGED <<metadata, git, made, mode, barriers, remover, deleter, worker, granted, faults>>

\* Any other handler, an aborted request, or a write refused by its own
\* admission because the vault is closing by now.
HandleOther(r) ==
  /\ request[r] = "running"
  /\ Finish(r)
  /\ UNCHANGED <<disk, mode, barriers, processor, remover, deleter, worker, granted, faults>>

-----------------------------------------------------------------------------
(* Detached processors *)

Exit(c) == processor' = [processor EXCEPT ![c] = "none"] /\ Release(Push(c))

\* processPendingPush: nothing is begun for a device that is being removed
\* or an upload that is no longer processing.
ProcessorBegin(c) ==
  /\ processor[c] = "start"
  /\ IF devClosing \/ session[c] # "processing" THEN Exit(c)
     ELSE processor' = [processor EXCEPT ![c] = "admitting"] /\ UNCHANGED fences
  /\ UNCHANGED <<disk, mode, barriers, request, remover, deleter, worker, granted, faults>>

\* withAdmission around processPush; a refusal ends the processor, because
\* recording it would need an admission too.
ProcessorAdmit(c) ==
  /\ processor[c] = "admitting"
  /\ IF closing THEN Exit(c)
     ELSE /\ active' = active \cup {Push(c)} /\ UNCHANGED <<leases, lock>>
          /\ processor' = [processor EXCEPT ![c] = "waiting"]
  /\ UNCHANGED <<disk, mode, barriers, request, remover, deleter, worker, granted, faults>>

\* withVaultLock: its turn comes, and it asks for admission once more.
ProcessorLock(c) ==
  /\ processor[c] = "waiting" /\ lock = None
  /\ IF closing THEN Exit(c)
     ELSE /\ lock' = Push(c) /\ UNCHANGED <<active, leases>>
          /\ processor' = [processor EXCEPT ![c] = "locked"]
  /\ UNCHANGED <<disk, mode, barriers, request, remover, deleter, worker, granted, faults>>

\* integrateDeviceCommit up to the device ref: a device under review is
\* refused, an older commit is superseded, a newer one moves the ref.
ProcessorPublish(c) ==
  /\ processor[c] = "locked"
  /\ IF conflict # 0 /\ c # ref
     THEN /\ processor' = [processor EXCEPT ![c] = "rejected"]
          /\ ReleaseAdmission(Push(c)) /\ UNCHANGED ref
     ELSE /\ processor' = [processor EXCEPT ![c] = "published"]
          /\ ref' = IF c > ref THEN c ELSE ref
          /\ UNCHANGED fences
  /\ UNCHANGED <<metadata, repo, main, session, made, mode, barriers, request, remover, deleter, worker, granted, faults>>

\* ... and its merge, or the conflict it opens.
ProcessorMerge(c) ==
  /\ processor[c] = "published"
  /\ \/ (c <= main \/ conflict = c) /\ UNCHANGED <<main, conflict>>
     \/ c > main /\ conflict # c /\ main' = c /\ UNCHANGED conflict
     \/ c > main /\ conflict # c /\ conflict' = c /\ UNCHANGED main
  /\ processor' = [processor EXCEPT ![c] = "completed"]
  /\ ReleaseAdmission(Push(c))
  /\ UNCHANGED <<vaultRow, deletion, device, removal, repo, ref, session, made, mode, barriers, request, remover, deleter, worker, granted, faults>>

\* The outcome is recorded while the session is still processing and the
\* vault still admits the write.
ProcessorRecord(c) ==
  /\ processor[c] \in {"completed", "rejected"}
  /\ session' = IF session[c] = "processing" /\ ~closing THEN [session EXCEPT ![c] = processor[c]] ELSE session
  /\ Exit(c)
  /\ UNCHANGED <<metadata, git, made, mode, barriers, request, remover, deleter, worker, granted, faults>>

\* A Git command fails, before or after the device ref moved: retried later.
ProcessorFails(c) ==
  /\ processor[c] \in {"locked", "published"} /\ Fault
  /\ processor' = [processor EXCEPT ![c] = "start"]
  /\ ReleaseAdmission(Push(c))
  /\ UNCHANGED <<disk, mode, barriers, request, remover, deleter, worker, granted>>

-----------------------------------------------------------------------------
(* The owner: revocation, review, removal requests *)

\* revokeDevice
Revoke ==
  /\ mode = "serving" /\ vaultRow = "active" /\ device = "paired"
  /\ device' = "revoked"
  /\ UNCHANGED <<vaultRow, deletion, removal, conflict, git, session, made, mode, barriers, fences, threads, granted, faults>>

\* resolveConflict under the vault lock.
Resolve ==
  /\ mode = "serving" /\ conflict # 0 /\ lock = None /\ ~closing
  /\ main' = (IF conflict > main THEN conflict ELSE main) /\ conflict' = 0
  /\ UNCHANGED <<vaultRow, deletion, device, removal, repo, ref, session, made, mode, barriers, fences, threads, granted, faults>>

Superseded == removal = None \/ DurablyClosed

OpenWork == conflict # 0 \/ (lock # None /\ lock # Removal)

\* stagedTargetCommits
Staged == {c \in Commits : session[c] \notin {None, "completed", "rejected"}}

\* assertCovered, assertStagedCovered: against main as it was read.
Covered(discard, seen) == discard \/ (ref <= seen /\ \A c \in Staged : c <= seen)

\* select: a revoked device of a vault that is not being deleted.  The
\* request carries the plain phrase, the discard phrase or a wrong one; a
\* wrong phrase and open work (assertNoOpenWork) refuse it, but only after
\* its grant is recorded.
SelectForRemoval ==
  /\ mode = "serving" /\ remover.at = "idle"
  /\ vaultRow = "active" /\ ~DurablyClosed /\ device = "revoked"
  /\ \E grant, ok \in BOOLEAN :
       /\ grant => ok
       /\ remover' = [at |-> "grant", grant |-> grant, ok |-> ok /\ ~OpenWork, main |-> main, oid |-> 0]
  /\ UNCHANGED <<disk, mode, barriers, fences, request, processor, deleter, worker, granted, faults>>

\* Mutant: the grant of an earlier request is left in the job.
PersistGrantLater ==
  /\ remover.at = "grant"
  /\ granted' = remover.grant /\ UNCHANGED removal
  /\ remover' = IF remover.ok THEN [remover EXCEPT !.at = "verify"] ELSE NoRemover
  /\ UNCHANGED <<vaultRow, deletion, device, conflict, git, session, made, mode, barriers, fences, request, processor, deleter, worker, faults>>

\* persistGrant: what this request allows replaces what an earlier one did,
\* before anything is refused.
PersistGrant ==
  /\ remover.at = "grant"
  /\ removal' = IF removal = None THEN None ELSE [removal EXCEPT !.discard = remover.grant]
  /\ granted' = remover.grant
  /\ remover' = IF remover.ok THEN [remover EXCEPT !.at = "verify"] ELSE NoRemover
  /\ UNCHANGED <<vaultRow, deletion, device, conflict, git, session, made, mode, barriers, fences, request, processor, deleter, worker, faults>>

\* verifyRefForIntent, assertStagedCovered
VerifyForRemoval ==
  /\ remover.at = "verify"
  /\ LET early == removal = None \/ removal.phase = "intent" IN
     remover' = IF early /\ ~Covered(remover.grant, remover.main) THEN NoRemover
                ELSE [remover EXCEPT !.at = "intent", !.main = 0, !.oid = IF early THEN ref ELSE removal.expected]
  /\ UNCHANGED <<disk, mode, barriers, fences, request, processor, deleter, worker, granted, faults>>

\* commitIntent
CommitIntent ==
  /\ remover.at = "intent"
  /\ IF vaultRow # "active" \/ DurablyClosed
     THEN remover' = NoRemover /\ UNCHANGED removal
     ELSE /\ removal' = IF removal = None
                        THEN [phase |-> "intent", expected |-> remover.oid, discard |-> remover.grant, failed |-> None]
                        ELSE [removal EXCEPT !.discard = remover.grant, !.failed = None]
          /\ remover' = [NoRemover EXCEPT !.at = "close"]
  /\ UNCHANGED <<vaultRow, deletion, device, conflict, git, session, made, mode, barriers, fences, request, processor, deleter, worker, granted, faults>>

\* closeDeviceBarrier, in the turn after the intent is durable.
CloseDeviceBarrier ==
  /\ remover.at = "close"
  /\ devClosing' = TRUE /\ remover' = [remover EXCEPT !.at = "drain"]
  /\ UNCHANGED <<disk, mode, closing, fences, request, processor, deleter, worker, granted, faults>>

-----------------------------------------------------------------------------
(* The removal job: drive *)

StopRemover == remover' = NoRemover /\ Release(Removal)

\* recordFailure: the job stays, with or without leave to retry by itself.
FailRemoval(how) ==
  /\ removal' = IF removal = None THEN None ELSE [removal EXCEPT !.failed = how]
  /\ StopRemover

\* markPending, drainDevice: unfinished uploads are aborted.
DrainDevice ==
  /\ remover.at = "drain"
  /\ IF removal = None THEN StopRemover /\ UNCHANGED <<removal, session>>
     ELSE /\ removal' = [removal EXCEPT !.failed = None]
          /\ session' = AbortedSessions
          /\ remover' = [remover EXCEPT !.at = "drain_processors"] /\ UNCHANGED fences
  /\ UNCHANGED <<vaultRow, deletion, device, conflict, git, made, mode, barriers, request, processor, deleter, worker, granted, faults>>

AwaitProcessors ==
  /\ remover.at = "drain_processors" /\ \A c \in Commits : processor[c] = "none"
  /\ remover' = [remover EXCEPT !.at = "drain_leases"]
  /\ UNCHANGED <<disk, mode, barriers, fences, request, processor, deleter, worker, granted, faults>>

DrainDeviceLeases ==
  /\ remover.at = "drain_leases" /\ leases = {}
  /\ remover' = [remover EXCEPT !.at = "lock"]
  /\ UNCHANGED <<disk, mode, barriers, fences, request, processor, deleter, worker, granted, faults>>

\* drainTimeoutMs passes: the job is left for a later attempt.
DrainTimeout ==
  /\ remover.at \in {"drain_processors", "drain_leases"}
  /\ FailRemoval("retry")
  /\ UNCHANGED <<vaultRow, deletion, device, conflict, git, session, made, mode, barriers, request, processor, deleter, worker, granted, faults>>

\* runWithVaultLock, and the admission it takes.
LockForRemoval ==
  /\ remover.at = "lock" /\ lock = None
  /\ IF closing THEN FailRemoval("owner")
     ELSE /\ lock' = Removal /\ active' = active \cup {Removal} /\ UNCHANGED <<leases, removal>>
          /\ remover' = [remover EXCEPT !.at = "decide"]
  /\ UNCHANGED <<vaultRow, deletion, device, conflict, git, session, made, mode, barriers, request, processor, deleter, worker, granted, faults>>

\* The job that deleteRefStep works on: bound anew, as another generation,
\* when the ref is not the one the job expects.
Rebound ==
  IF removal.phase = "cleanup" \/ ref # removal.expected
  THEN [removal EXCEPT !.expected = ref, !.phase = "intent"] ELSE removal

\* What deleteRefStep decides under the lock: the ref is to be deleted, is
\* gone already, or the owner has to say more.
Decide ==
  IF ref = 0 /\ removal.phase # "intent"
  THEN IF Covered(removal.discard, main) THEN "cleanup" ELSE "owner"
  ELSE IF removal.phase = "intent" /\ ref = 0 /\ removal.expected # 0
  THEN IF OpenWork \/ ~removal.discard THEN "owner" ELSE "cleanup"
  ELSE IF Rebound.phase = "intent" /\ OpenWork THEN "owner"
  ELSE IF ~Covered(removal.discard, main) THEN "owner"
  ELSE IF ref = 0 THEN "cleanup" ELSE "ref_deleting"

DecideRemoval ==
  /\ remover.at = "decide"
  /\ IF Superseded THEN StopRemover /\ UNCHANGED removal
     ELSE CASE Decide = "owner" ->
                 removal' = [(IF ref = 0 THEN removal ELSE Rebound) EXCEPT !.failed = "owner"] /\ StopRemover
            [] Decide = "cleanup" ->
                 /\ removal' = [removal EXCEPT !.phase = "cleanup", !.expected = ref]
                 /\ remover' = [remover EXCEPT !.at = "admit"] /\ Release(Removal)
            [] OTHER ->
                 /\ removal' = [Rebound EXCEPT !.phase = "ref_deleting"]
                 /\ remover' = [remover EXCEPT !.at = "delete"] /\ UNCHANGED fences
  /\ UNCHANGED <<vaultRow, deletion, device, conflict, git, session, made, mode, barriers, request, processor, deleter, worker, granted, faults>>

\* deleteRefCas; the job may have been superseded since it was decided.
DeleteRef ==
  /\ remover.at = "delete"
  /\ ref' = 0 /\ remover' = [remover EXCEPT !.at = "record"]
  /\ UNCHANGED <<metadata, repo, main, session, made, mode, barriers, fences, request, processor, deleter, worker, granted, faults>>

RecordRefDeleted ==
  /\ remover.at = "record"
  /\ IF removal = None THEN StopRemover /\ UNCHANGED removal
     ELSE /\ removal' = [removal EXCEPT !.phase = "cleanup"]
          /\ remover' = [remover EXCEPT !.at = "admit"] /\ Release(Removal)
  /\ UNCHANGED <<vaultRow, deletion, device, conflict, git, session, made, mode, barriers, request, processor, deleter, worker, granted, faults>>

\* cleanupAndComplete runs in an admission of its own.
AdmitCleanup ==
  /\ remover.at = "admit"
  /\ IF closing THEN FailRemoval("owner")
     ELSE /\ active' = active \cup {Removal} /\ UNCHANGED <<leases, lock, removal>>
          /\ remover' = [remover EXCEPT !.at = "sweep"]
  /\ UNCHANGED <<vaultRow, deletion, device, conflict, git, session, made, mode, barriers, request, processor, deleter, worker, granted, faults>>

\* The sweeps of credentials and connections, then eraseDeviceResidue.
EraseDeviceResidue ==
  /\ remover.at = "sweep"
  /\ IF removal = None THEN StopRemover /\ UNCHANGED session
     ELSE /\ session' = [c \in Commits |-> None]
          /\ remover' = [remover EXCEPT !.at = "complete"] /\ UNCHANGED fences
  /\ UNCHANGED <<metadata, git, made, mode, barriers, request, processor, deleter, worker, granted, faults>>

\* The device row and the job go in one commit; then the barrier is opened.
CompleteRemoval ==
  /\ remover.at = "complete"
  /\ IF removal = None THEN UNCHANGED <<device, removal, devClosing>>
     ELSE device' = "gone" /\ removal' = None /\ devClosing' = FALSE
  /\ StopRemover
  /\ UNCHANGED <<vaultRow, deletion, conflict, git, session, made, mode, closing, request, processor, deleter, worker, granted, faults>>

\* A metadata write, a strict ref read or the transfer directory fails.
RemovalFails ==
  /\ remover.at \notin {"idle", "close"} /\ Fault
  /\ IF remover.at \in {"grant", "verify", "intent"}
     THEN remover' = NoRemover /\ UNCHANGED <<removal, fences>>
     ELSE FailRemoval("retry")
  /\ UNCHANGED <<vaultRow, deletion, device, conflict, git, session, made, mode, barriers, request, processor, deleter, worker, granted>>

-----------------------------------------------------------------------------
(* Whole-vault deletion *)

\* beginDeletion: the barrier closes first ...
BeginDeletion ==
  /\ mode = "serving" /\ deleter = "idle" /\ vaultRow = "active"
  /\ closing' = TRUE /\ deleter' = "commit"
  /\ UNCHANGED <<disk, mode, devClosing, fences, request, processor, remover, worker, granted, faults>>

\* ... then the intent is made durable; it revokes the device and drops its
\* removal job ...
CommitDeletion ==
  /\ deleter = "commit"
  /\ vaultRow' = "deleting" /\ deletion' = "intent"
  /\ removal' = None /\ device' = IF device = "gone" THEN "gone" ELSE "revoked"
  /\ deleter' = "release"
  /\ UNCHANGED <<conflict, git, session, made, mode, barriers, fences, request, processor, remover, worker, granted, faults>>

\* The write fails: the owner is told to try again, the barrier stays.
CommitDeletionFails ==
  /\ deleter = "commit" /\ Fault
  /\ deleter' = "idle"
  /\ UNCHANGED <<disk, mode, barriers, fences, request, processor, remover, worker, granted>>

\* ... and the worker starts.
StartDeletion ==
  /\ deleter = "release"
  /\ devClosing' = FALSE /\ worker' = "top" /\ deleter' = "idle"
  /\ UNCHANGED <<disk, mode, closing, fences, request, processor, remover, granted, faults>>

\* runWorker, from its loop head: the phase, drainVault ...
DrainVault ==
  /\ worker = "top"
  /\ deletion' = IF deletion = "intent" THEN "draining" ELSE deletion
  /\ session' = AbortedSessions
  /\ worker' = "processors"
  /\ UNCHANGED <<vaultRow, device, removal, conflict, git, made, mode, barriers, fences, request, processor, remover, deleter, granted, faults>>

AwaitVaultProcessors ==
  /\ worker = "processors" /\ \A c \in Commits : processor[c] = "none"
  /\ worker' = "drain"
  /\ UNCHANGED <<disk, mode, barriers, fences, request, processor, remover, deleter, granted, faults>>

\* ... waitForDrain ...
WaitForDrain ==
  /\ worker = "drain" /\ active = {}
  /\ worker' = "transfers"
  /\ UNCHANGED <<disk, mode, barriers, fences, request, processor, remover, deleter, granted, faults>>

EraseVaultResidue ==
  /\ worker = "transfers"
  /\ session' = [c \in Commits |-> None] /\ worker' = "git"
  /\ UNCHANGED <<metadata, git, made, mode, barriers, fences, request, processor, remover, deleter, granted, faults>>

\* Mutant: a missing repository always means that storage is unavailable.
EnterErasurePresent ==
  /\ worker = "git"
  /\ IF repo THEN deletion' = (IF deletion = "finalizing" THEN deletion ELSE "erasing") /\ worker' = "erase"
     ELSE UNCHANGED deletion /\ worker' = "top"
  /\ UNCHANGED <<vaultRow, device, removal, conflict, git, session, made, mode, barriers, fences, request, processor, remover, deleter, granted, faults>>

\* eraseGitAndTemp: the repository must be there unless its erasure was
\* entered before.
EnterErasure ==
  /\ worker = "git"
  /\ IF repo \/ deletion \in {"erasing", "finalizing"}
     THEN deletion' = (IF deletion = "finalizing" THEN deletion ELSE "erasing") /\ worker' = "erase"
     ELSE UNCHANGED deletion /\ worker' = "top"
  /\ UNCHANGED <<vaultRow, device, removal, conflict, git, session, made, mode, barriers, fences, request, processor, remover, deleter, granted, faults>>

EraseGit ==
  /\ worker = "erase"
  /\ repo' = FALSE /\ ref' = 0 /\ main' = 0 /\ worker' = "finalizing"
  /\ UNCHANGED <<metadata, session, made, mode, barriers, fences, request, processor, remover, deleter, granted, faults>>

EnterFinalizing ==
  /\ worker = "finalizing"
  /\ deletion' = "finalizing" /\ worker' = "finish"
  /\ UNCHANGED <<vaultRow, device, removal, conflict, git, session, made, mode, barriers, fences, request, processor, remover, deleter, granted, faults>>

\* finalizeDb: every row of the vault goes and the receipt comes, at once.
FinalizeDb ==
  /\ worker = "finish"
  /\ vaultRow' = "gone" /\ deletion' = "receipt" /\ device' = "gone" /\ removal' = None /\ conflict' = 0
  /\ worker' = "none"
  /\ UNCHANGED <<git, session, made, mode, barriers, fences, request, processor, remover, deleter, granted, faults>>

\* A step of the worker fails: recordRetry, and from the loop head again.
WorkerFails ==
  /\ worker \notin {"none", "top"} /\ Fault
  /\ worker' = "top"
  /\ UNCHANGED <<disk, mode, barriers, fences, request, processor, remover, deleter, granted>>

\* expireReceipts
ExpireReceipt ==
  /\ deletion = "receipt" /\ mode = "serving"
  /\ deletion' = None
  /\ UNCHANGED <<vaultRow, device, removal, conflict, git, session, made, mode, barriers, fences, threads, granted, faults>>

-----------------------------------------------------------------------------
(* Crash and startup *)

Crash ==
  /\ mode # "down" /\ Fault
  /\ mode' = "down"
  /\ closing' = FALSE /\ devClosing' = FALSE
  /\ active' = {} /\ leases' = {} /\ lock' = None
  /\ request' = [r \in Requests |-> "idle"] /\ processor' = [c \in Commits |-> "none"]
  /\ remover' = NoRemover /\ deleter' = "idle" /\ worker' = "none"
  /\ UNCHANGED <<disk, granted>>

Resumed(c) == session[c] = "processing" /\ device = "paired" /\ vaultRow = "active"

\* createObtsServer: the barriers are restored first, then transfers,
\* deletion jobs and removal jobs are resumed.
Startup ==
  /\ mode = "down" /\ mode' = "resuming"
  /\ closing' = DurablyClosed
  /\ devClosing' = (removal # None /\ ~DurablyClosed)
  /\ processor' = [c \in Commits |-> IF Resumed(c) THEN "start" ELSE "none"]
  /\ leases' = {Push(c) : c \in {d \in Commits : Resumed(d)}}
  /\ worker' = IF deletion \in {None, "receipt"} THEN "none" ELSE "top"
  /\ remover' = IF removal = None \/ removal.failed = "owner" THEN NoRemover ELSE [NoRemover EXCEPT !.at = "drain"]
  /\ UNCHANGED <<disk, active, lock, request, deleter, granted, faults>>

\* resumePendingMerges: a published commit of a device that is not revoked
\* still has to be merged; then the server listens.
Serve ==
  /\ mode = "resuming" /\ remover.at = "idle" /\ lock = None
  /\ mode' = "serving"
  /\ IF device = "paired" /\ conflict = 0 /\ ref > main /\ ~closing
     THEN (main' = ref /\ UNCHANGED conflict) \/ (conflict' = ref /\ UNCHANGED main)
     ELSE UNCHANGED <<main, conflict>>
  /\ UNCHANGED <<vaultRow, deletion, device, removal, repo, ref, session, made, barriers, fences, threads, granted, faults>>

-----------------------------------------------------------------------------
Init ==
  /\ vaultRow = "active" /\ deletion = None /\ device = "paired" /\ removal = None /\ conflict = 0
  /\ repo = TRUE /\ ref = 0 /\ main = 0
  /\ session = [c \in Commits |-> None] /\ made = 0
  /\ mode = "serving" /\ closing = FALSE /\ devClosing = FALSE
  /\ active = {} /\ leases = {} /\ lock = None
  /\ request = [r \in Requests |-> "idle"] /\ processor = [c \in Commits |-> "none"]
  /\ remover = NoRemover /\ deleter = "idle" /\ worker = "none"
  /\ granted = FALSE /\ faults = 0

RequestStep(r) ==
  \/ TryAcquireDeviceLease(r) \/ AcquireDeviceLease(r) \/ AskAdmission(r) \/ TakeAdmission(r)
  \/ HandleCreate(r) \/ HandleFinalize(r) \/ HandleOther(r)

ProcessorStep(c) ==
  \/ ProcessorBegin(c) \/ ProcessorAdmit(c) \/ ProcessorLock(c) \/ ProcessorPublish(c)
  \/ ProcessorMerge(c) \/ ProcessorRecord(c)

RemoverStep ==
  \/ PersistGrant \/ VerifyForRemoval \/ CommitIntent \/ CloseDeviceBarrier
  \/ DrainDevice \/ AwaitProcessors \/ DrainDeviceLeases \/ LockForRemoval \/ DecideRemoval
  \/ DeleteRef \/ RecordRefDeleted \/ AdmitCleanup \/ EraseDeviceResidue \/ CompleteRemoval

WorkerStep ==
  \/ DrainVault \/ AwaitVaultProcessors \/ WaitForDrain \/ EraseVaultResidue
  \/ EnterErasure \/ EraseGit \/ EnterFinalizing \/ FinalizeDb

Next ==
  \/ \E r \in Requests : Authenticate(r) \/ RequestStep(r)
  \/ \E c \in Commits : ProcessorStep(c) \/ ProcessorFails(c)
  \/ Revoke \/ Resolve \/ SelectForRemoval \/ RemoverStep \/ DrainTimeout \/ RemovalFails
  \/ BeginDeletion \/ CommitDeletion \/ CommitDeletionFails \/ StartDeletion
  \/ WorkerStep \/ WorkerFails \/ ExpireReceipt
  \/ Crash \/ Startup \/ Serve

Spec == Init /\ [][Next]_vars

\* Handlers, processors, the removal and the deletion worker are promises
\* that Node runs on; a crashed server is started again.
FairSpec ==
  /\ Spec
  /\ \A r \in Requests : WF_vars(RequestStep(r))
  /\ \A c \in Commits : WF_vars(ProcessorStep(c))
  /\ WF_vars(RemoverStep) /\ WF_vars(CommitDeletion) /\ WF_vars(StartDeletion) /\ WF_vars(WorkerStep)
  /\ WF_vars(Startup) /\ WF_vars(Serve)

-----------------------------------------------------------------------------
(* Properties *)

Holders == Requests \cup {Push(c) : c \in Commits} \cup {Removal}

\* Types of the durable rows, the sessions, the fences and the stages.
TypeOK ==
  /\ vaultRow \in {"active", "deleting", "gone"}
  /\ deletion \in {None} \cup DeletionPhases
  /\ device \in {"paired", "revoked", "gone"}
  /\ removal \in {None} \cup Jobs
  /\ conflict \in 0..MaxCommits /\ ref \in 0..MaxCommits /\ main \in 0..MaxCommits
  /\ session \in [Commits -> {None} \cup UploadStates]
  /\ active \subseteq Holders /\ leases \subseteq Holders
  /\ lock = None \/ lock \in active

\* From the moment a deletion erases the repository nothing that was
\* admitted runs, and the vault row goes only when repository and uploads
\* are gone: the re-check after the await of acquireAdmission and the drain
\* leave no request, processor or removal behind, across crashes and
\* retries.
ErasedInPeace ==
  /\ deletion \in {"erasing", "finalizing", "receipt"} =>
       active = {} /\ lock = None /\ \A c \in Commits : session[c] = None
  /\ vaultRow = "gone" => ~repo

\* A removed device stays removed: no upload, ref, conflict or processor of
\* it exists once its row is gone, although requests that authenticated
\* before the revocation may still be under way.
RemovedIsRemoved ==
  device = "gone" /\ vaultRow = "active" =>
    /\ ref = 0 /\ conflict = 0
    /\ \A c \in Commits : session[c] = None /\ processor[c] = "none"

\* A copy of a commit the server holds for the device.
HeldCopy(c) == c <= ref \/ session[c] \in {"open", "processing", "aborted"}

\* The removal of a device destroys the only copy of work that main does not
\* contain only if the owner's last request said so: a refused or mistyped
\* request withdraws an earlier grant, also for what startup resumes.
DiscardedByGrant ==
  [][\A c \in Commits :
       HeldCopy(c) /\ vaultRow' = "active" /\ c > main' /\ conflict' # c /\ session'[c] # "rejected" =>
         (c <= ref' \/ session'[c] # None) \/ granted]_vars

\* An accepted deletion completes although steps fail and the server
\* crashes: draining never waits for something that waits for it.
DeletionCompletes == vaultRow = "deleting" ~> vaultRow = "gone"
=============================================================================
