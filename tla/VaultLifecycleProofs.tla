------------------------ MODULE VaultLifecycleProofs ------------------------
(***************************************************************************)
(* Proofs about VaultLifecycle, for any number of requests, uploads and    *)
(* faults.                                                                 *)
(***************************************************************************)
EXTENDS VaultLifecycle, TLAPS

\* Stages of the removal in which it holds an admission, and those after the drain.
AdmittedRemoval == {"decide", "delete", "record", "sweep", "complete"}

PastDrain == {"lock", "decide", "delete", "record", "admit", "sweep", "complete"}

RowsTyped ==
  /\ vaultRow \in {"active", "deleting", "gone"}
  /\ deletion \in {None} \cup DeletionPhases
  /\ device \in {"paired", "revoked", "gone"}
  /\ removal \in {None} \cup Jobs
  /\ conflict \in 0..MaxCommits

GitTyped == repo \in BOOLEAN /\ ref \in 0..MaxCommits /\ main \in 0..MaxCommits

\* Uploads are numbered as they are made, and one that is still open has no processor.
UploadsNumbered ==
  /\ session \in [Commits -> {None} \cup UploadStates]
  /\ made \in 0..MaxCommits
  /\ \A c \in Commits :
       /\ c > made => session[c] = None /\ processor[c] = "none"
       /\ session[c] = "open" => processor[c] = "none"

ThreadsTyped ==
  /\ request \in [Requests -> {"idle", "authenticated", "leased", "checked", "admitting", "running"}]
  /\ processor \in [Commits -> {"none", "start", "admitting", "waiting", "locked", "published",
                                "completed", "rejected"}]
  /\ deleter \in {"idle", "commit", "release"}
  /\ worker \in {"none", "top", "processors", "drain", "transfers", "git", "erase", "finalizing", "finish"}

RemovalStages ==
  {"idle", "grant", "verify", "intent", "close", "drain", "drain_processors", "drain_leases"}
    \cup PastDrain

Removers ==
  [at : RemovalStages, grant : BOOLEAN, ok : BOOLEAN, main : 0..MaxCommits, oid : 0..MaxCommits]

RemoverTyped == remover \in Removers /\ granted \in BOOLEAN

\* Every stage holds its fences, and a stopped server holds none.
FencesHeld ==
  /\ active \subseteq Holders /\ leases \subseteq Holders
  /\ \A r \in Requests :
       /\ (r \in active) = (request[r] = "running")
       /\ (r \in leases) = (request[r] \in {"leased", "checked", "admitting", "running"})
  /\ \A c \in Commits :
       /\ (c \in active) = (processor[c] \in {"waiting", "locked", "published"})
       /\ (c \in leases) = (processor[c] # "none")
  /\ (0 \in active) = (remover.at \in AdmittedRemoval) /\ 0 \notin leases
  /\ \/ lock = None
     \/ lock \in Commits /\ processor[lock] \in {"locked", "published"}
     \/ lock = 0 /\ remover.at \in {"decide", "delete", "record"}

DownIdle ==
  mode = "down" =>
    /\ active = {} /\ leases = {} /\ remover.at = "idle" /\ deleter = "idle" /\ worker = "none"
    /\ \A c \in Commits : processor[c] = "none"
    /\ \A r \in Requests : request[r] = "idle"

Shape ==
  RowsTyped /\ GitTyped /\ UploadsNumbered /\ ThreadsTyped /\ RemoverTyped /\ FencesHeld /\ DownIdle

\* The row, the job, the barrier and the worker of a deletion tell one story.
DeletionAgrees ==
  /\ vaultRow = "active" => deletion = None
  /\ vaultRow = "deleting" => deletion \in {"intent", "draining", "erasing", "finalizing"}
  /\ vaultRow = "gone" => deletion \in {None, "receipt"} /\ ~repo
  /\ worker # "none" => vaultRow = "deleting"
  /\ deleter = "commit" => vaultRow = "active" /\ closing
  /\ deleter = "release" => deletion = "intent" /\ worker = "none"
  /\ mode # "down" /\ DurablyClosed => closing
  /\ worker \in {"erase", "finalizing", "finish"} => deletion \in {"erasing", "finalizing"}
  /\ worker \in {"finalizing", "finish"} => ~repo
  /\ worker = "finish" => deletion = "finalizing"

\* What the worker has drained stays drained: nobody is admitted past a closed barrier.
Drained ==
  /\ worker \in {"drain", "transfers", "git", "erase", "finalizing", "finish"} =>
       \A c \in Commits : processor[c] = "none"
  /\ worker \in {"transfers", "git", "erase", "finalizing", "finish"} => active = {}
  /\ worker \in {"git", "erase", "finalizing", "finish"} => \A c \in Commits : session[c] = None
  /\ deletion \in {"erasing", "finalizing", "receipt"} =>
       active = {} /\ \A c \in Commits : session[c] = None /\ processor[c] = "none"

DeletionInv == Shape /\ DeletionAgrees /\ Drained

\* Nothing works for the device any more, and nothing can start to: a request that has
\* authenticated gets no further than its lease.
Quiet ==
  /\ device # "paired"
  /\ \A r \in Requests : request[r] \in {"idle", "authenticated", "leased"}
  /\ \A c \in Commits : processor[c] = "none"

\* Only a device that is not paired is removed.
RemovalOfRevoked ==
  /\ removal # None => vaultRow = "active"
  /\ removal # None \/ remover.at # "idle" \/ vaultRow # "active" => device # "paired"

\* A removal gets past its drain in quiet, and takes away the ref and the uploads of a
\* device without a conflict.
RemovalInQuiet ==
  /\ remover.at \in PastDrain => Quiet
  /\ removal # None /\ removal.phase # "intent" => Quiet /\ conflict = 0
  /\ remover.at \in {"delete", "record", "admit", "sweep", "complete"} => conflict = 0
  /\ remover.at \in {"record", "admit", "sweep", "complete"} => ref = 0
  /\ remover.at = "complete" => \A c \in Commits : session[c] = None
  /\ device = "gone" /\ vaultRow = "active" =>
       /\ Quiet /\ ref = 0 /\ conflict = 0 /\ \A c \in Commits : session[c] = None
       /\ removal = None /\ remover.at = "idle"

RemovalInv == DeletionInv /\ RemovalOfRevoked /\ RemovalInQuiet

\* A removal that is not covered by main has the grant of the owner's last request.
CoveredOrGranted ==
  /\ removal # None /\ removal.discard => granted
  /\ remover.at \in {"verify", "intent"} => granted = remover.grant
  /\ remover.at \in {"delete", "record", "admit", "sweep"} /\ vaultRow = "active" =>
       granted \/ ((remover.at = "delete" => ref <= main) /\ \A c \in Staged : c <= main)

GrantInv == RemovalInv /\ CoveredOrGranted

-----------------------------------------------------------------------------
(* One lemma for each part of the invariant: the actions that change its     *)
(* variables, one by one, and then all the others together.                 *)

\* What the code makes of a removal's state.
LEMMA RemoverKinds ==
  ASSUME Shape
  PROVE  /\ NoRemover \in Removers
         /\ \A at \in RemovalStages :
              [NoRemover EXCEPT !.at = at] \in Removers /\ [remover EXCEPT !.at = at] \in Removers
<1>1. 0 \in 0..MaxCommits
  BY ConstantsAssumption
<1>2. NoRemover \in Removers
  BY <1>1 DEF NoRemover, Removers, RemovalStages
<1>3. ASSUME NEW x \in Removers, NEW at \in RemovalStages PROVE [x EXCEPT !.at = at] \in Removers
  BY DEF Removers
<1> QED BY <1>2, <1>3 DEF Shape, RemoverTyped

\* Metadata rows keep their types.
LEMMA RowsTypedStep ==
  ASSUME Shape, [Next]_vars PROVE RowsTyped'
<1>1. ASSUME NEW c \in Commits, ProcessorMerge(c) PROVE RowsTyped'
  BY <1>1, ConstantsAssumption DEF ProcessorMerge, ReleaseAdmission, Push, disk, metadata, git,
     barriers, fences, threads, Shape, RowsTyped, GitTyped, RemoverTyped, Removers, DeletionPhases,
     Jobs, Commits
<1>2. ASSUME Revoke PROVE RowsTyped'
  BY <1>2, ConstantsAssumption DEF Revoke, disk, metadata, git, barriers, fences, threads, Shape,
     RowsTyped, GitTyped, RemoverTyped, Removers, DeletionPhases, Jobs, Commits
<1>3. ASSUME Resolve PROVE RowsTyped'
  BY <1>3, ConstantsAssumption DEF Resolve, disk, metadata, git, barriers, fences, threads, Shape,
     RowsTyped, GitTyped, RemoverTyped, Removers, DeletionPhases, Jobs, Commits
<1>4. ASSUME PersistGrant PROVE RowsTyped'
  BY <1>4, ConstantsAssumption DEF PersistGrant, NoRemover, disk, metadata, git, barriers, fences,
     threads, Shape, RowsTyped, GitTyped, RemoverTyped, Removers, DeletionPhases, Jobs, Commits
<1>5. ASSUME CommitIntent PROVE RowsTyped'
  <2>1. UNCHANGED <<vaultRow, deletion, device, conflict>>
    BY <1>5 DEF CommitIntent
  <2>2. removal' \in {None} \cup Jobs
    <3>1. [phase |-> "intent", expected |-> remover.oid, discard |-> remover.grant, failed |-> None] \in Jobs
      BY DEF Shape, RemoverTyped, Removers, Jobs
    <3>2. removal # None => [removal EXCEPT !.discard = remover.grant, !.failed = None] \in Jobs
      BY DEF Shape, RemoverTyped, Removers, RowsTyped, Jobs
    <3> QED BY <1>5, <3>1, <3>2 DEF CommitIntent, Shape, RowsTyped
  <2> QED BY <2>1, <2>2 DEF Shape, RowsTyped
<1>6. ASSUME DrainDevice PROVE RowsTyped'
  BY <1>6, ConstantsAssumption DEF DrainDevice, StopRemover, NoRemover, Release, Removal,
     AbortedSessions, disk, metadata, git, barriers, fences, threads, Shape, RowsTyped, GitTyped,
     RemoverTyped, Removers, DeletionPhases, Jobs, Commits
<1>7. ASSUME DrainTimeout PROVE RowsTyped'
  BY <1>7, ConstantsAssumption DEF DrainTimeout, FailRemoval, StopRemover, NoRemover, Release,
     Removal, disk, metadata, git, barriers, fences, threads, Shape, RowsTyped, GitTyped,
     RemoverTyped, Removers, DeletionPhases, Jobs, Commits
<1>8. ASSUME LockForRemoval PROVE RowsTyped'
  BY <1>8, ConstantsAssumption DEF LockForRemoval, FailRemoval, StopRemover, NoRemover, Release,
     Removal, disk, metadata, git, barriers, fences, threads, Shape, RowsTyped, GitTyped,
     RemoverTyped, Removers, DeletionPhases, Jobs, Commits
<1>9. ASSUME DecideRemoval PROVE RowsTyped'
  <2>1. UNCHANGED <<vaultRow, deletion, device, conflict>>
    BY <1>9 DEF DecideRemoval
  <2>2. CASE Superseded
    BY <1>9, <2>1, <2>2 DEF DecideRemoval, Shape, RowsTyped
  <2>3. CASE ~Superseded
    <3>1. removal \in Jobs
      BY <2>3 DEF Superseded, Shape, RowsTyped
    <3>2. Rebound \in Jobs
      BY <3>1 DEF Rebound, Jobs, Shape, GitTyped
    <3>3. /\ [(IF ref = 0 THEN removal ELSE Rebound) EXCEPT !.failed = "owner"] \in Jobs
          /\ [removal EXCEPT !.phase = "cleanup", !.expected = ref] \in Jobs
          /\ [Rebound EXCEPT !.phase = "ref_deleting"] \in Jobs
      BY <3>1, <3>2 DEF Jobs, Shape, GitTyped
    <3> QED BY <1>9, <2>1, <2>3, <3>3 DEF DecideRemoval, Shape, RowsTyped
  <2> QED BY <2>2, <2>3
<1>10. ASSUME RecordRefDeleted PROVE RowsTyped'
  BY <1>10, ConstantsAssumption DEF RecordRefDeleted, StopRemover, NoRemover, Release, Removal,
     disk, metadata, git, barriers, fences, threads, Shape, RowsTyped, GitTyped, RemoverTyped,
     Removers, DeletionPhases, Jobs, Commits
<1>11. ASSUME AdmitCleanup PROVE RowsTyped'
  BY <1>11, ConstantsAssumption DEF AdmitCleanup, FailRemoval, StopRemover, NoRemover, Release,
     Removal, disk, metadata, git, barriers, fences, threads, Shape, RowsTyped, GitTyped,
     RemoverTyped, Removers, DeletionPhases, Jobs, Commits
<1>12. ASSUME CompleteRemoval PROVE RowsTyped'
  BY <1>12, ConstantsAssumption DEF CompleteRemoval, StopRemover, NoRemover, Release, Removal,
     disk, metadata, git, barriers, fences, threads, Shape, RowsTyped, GitTyped, RemoverTyped,
     Removers, DeletionPhases, Jobs, Commits
<1>13. ASSUME RemovalFails PROVE RowsTyped'
  BY <1>13, ConstantsAssumption DEF RemovalFails, FailRemoval, Fault, StopRemover, NoRemover,
     Release, Removal, disk, metadata, git, barriers, fences, threads, Shape, RowsTyped, GitTyped,
     RemoverTyped, Removers, DeletionPhases, Jobs, Commits
<1>14. ASSUME CommitDeletion PROVE RowsTyped'
  BY <1>14, ConstantsAssumption DEF CommitDeletion, disk, metadata, git, barriers, fences, threads,
     Shape, RowsTyped, GitTyped, RemoverTyped, Removers, DeletionPhases, Jobs, Commits
<1>15. ASSUME DrainVault PROVE RowsTyped'
  BY <1>15, ConstantsAssumption DEF DrainVault, AbortedSessions, disk, metadata, git, barriers,
     fences, threads, Shape, RowsTyped, GitTyped, RemoverTyped, Removers, DeletionPhases, Jobs,
     Commits
<1>16. ASSUME EnterErasure PROVE RowsTyped'
  BY <1>16, ConstantsAssumption DEF EnterErasure, disk, metadata, git, barriers, fences, threads,
     Shape, RowsTyped, GitTyped, RemoverTyped, Removers, DeletionPhases, Jobs, Commits
<1>17. ASSUME EnterFinalizing PROVE RowsTyped'
  BY <1>17, ConstantsAssumption DEF EnterFinalizing, disk, metadata, git, barriers, fences,
     threads, Shape, RowsTyped, GitTyped, RemoverTyped, Removers, DeletionPhases, Jobs, Commits
<1>18. ASSUME FinalizeDb PROVE RowsTyped'
  BY <1>18, ConstantsAssumption DEF FinalizeDb, disk, metadata, git, barriers, fences, threads,
     Shape, RowsTyped, GitTyped, RemoverTyped, Removers, DeletionPhases, Jobs, Commits
<1>19. ASSUME ExpireReceipt PROVE RowsTyped'
  BY <1>19, ConstantsAssumption DEF ExpireReceipt, disk, metadata, git, barriers, fences, threads,
     Shape, RowsTyped, GitTyped, RemoverTyped, Removers, DeletionPhases, Jobs, Commits
<1>20. ASSUME Serve PROVE RowsTyped'
  BY <1>20, ConstantsAssumption DEF Serve, disk, metadata, git, barriers, fences, threads, Shape,
     RowsTyped, GitTyped, RemoverTyped, Removers, DeletionPhases, Jobs, Commits
<1>21. ASSUME UNCHANGED <<vaultRow, deletion, device, removal, conflict>> PROVE RowsTyped'
  BY <1>21 DEF Shape, RowsTyped, GitTyped, RemoverTyped, Removers, DeletionPhases, Jobs, Commits
<1> QED
  BY <1>1, <1>2, <1>3, <1>4, <1>5, <1>6, <1>7, <1>8, <1>9, <1>10, <1>11, <1>12, <1>13, <1>14,
     <1>15, <1>16, <1>17, <1>18, <1>19, <1>20, <1>21
  DEF Next, RequestStep, ProcessorStep, RemoverStep, WorkerStep, vars, disk, metadata, git,
     barriers, fences, threads, Authenticate, TryAcquireDeviceLease, AcquireDeviceLease,
     AskAdmission, TakeAdmission, HandleCreate, HandleFinalize, HandleOther, ProcessorBegin,
     ProcessorAdmit, ProcessorLock, ProcessorPublish, ProcessorRecord, ProcessorFails,
     SelectForRemoval, VerifyForRemoval, CloseDeviceBarrier, AwaitProcessors, DrainDeviceLeases,
     DeleteRef, EraseDeviceResidue, BeginDeletion, CommitDeletionFails, StartDeletion,
     AwaitVaultProcessors, WaitForDrain, EraseVaultResidue, EraseGit, WorkerFails, Crash, Startup

\* Refs keep their types.
LEMMA GitTypedStep ==
  ASSUME Shape, [Next]_vars PROVE GitTyped'
<1>1. ASSUME NEW c \in Commits, ProcessorPublish(c) PROVE GitTyped'
  BY <1>1, ConstantsAssumption DEF ProcessorPublish, ReleaseAdmission, Push, disk, metadata, git,
     barriers, fences, threads, Shape, GitTyped, RowsTyped, Commits
<1>2. ASSUME NEW c \in Commits, ProcessorMerge(c) PROVE GitTyped'
  BY <1>2, ConstantsAssumption DEF ProcessorMerge, ReleaseAdmission, Push, disk, metadata, git,
     barriers, fences, threads, Shape, GitTyped, RowsTyped, Commits
<1>3. ASSUME Resolve PROVE GitTyped'
  BY <1>3, ConstantsAssumption DEF Resolve, disk, metadata, git, barriers, fences, threads, Shape,
     GitTyped, RowsTyped, Commits
<1>4. ASSUME DeleteRef PROVE GitTyped'
  BY <1>4, ConstantsAssumption DEF DeleteRef, disk, metadata, git, barriers, fences, threads,
     Shape, GitTyped, RowsTyped, Commits
<1>5. ASSUME EraseGit PROVE GitTyped'
  <2>1. ref' = 0 /\ main' = 0 BY <1>5 DEF EraseGit
  <2>2. repo' \in BOOLEAN BY <1>5 DEF EraseGit
  <2> QED BY <2>1, <2>2, ConstantsAssumption DEF GitTyped
<1>6. ASSUME Serve PROVE GitTyped'
  BY <1>6, ConstantsAssumption DEF Serve, disk, metadata, git, barriers, fences, threads, Shape,
     GitTyped, RowsTyped, Commits
<1>7. ASSUME UNCHANGED <<repo, ref, main>> PROVE GitTyped'
  BY <1>7 DEF Shape, GitTyped, RowsTyped, Commits
<1> QED
  BY <1>1, <1>2, <1>3, <1>4, <1>5, <1>6, <1>7
  DEF Next, RequestStep, ProcessorStep, RemoverStep, WorkerStep, vars, disk, metadata, git,
     barriers, fences, threads, Authenticate, TryAcquireDeviceLease, AcquireDeviceLease,
     AskAdmission, TakeAdmission, HandleCreate, HandleFinalize, HandleOther, ProcessorBegin,
     ProcessorAdmit, ProcessorLock, ProcessorRecord, ProcessorFails, Revoke, SelectForRemoval,
     PersistGrant, VerifyForRemoval, CommitIntent, CloseDeviceBarrier, DrainDevice,
     AwaitProcessors, DrainDeviceLeases, DrainTimeout, LockForRemoval, DecideRemoval,
     RecordRefDeleted, AdmitCleanup, EraseDeviceResidue, CompleteRemoval, RemovalFails,
     BeginDeletion, CommitDeletion, CommitDeletionFails, StartDeletion, DrainVault,
     AwaitVaultProcessors, WaitForDrain, EraseVaultResidue, EnterErasure, EnterFinalizing,
     FinalizeDb, WorkerFails, ExpireReceipt, Crash, Startup

\* Uploads stay numbered.
LEMMA UploadsNumberedStep ==
  ASSUME Shape, [Next]_vars PROVE UploadsNumbered'
<1>1. ASSUME NEW r \in Requests, HandleCreate(r) PROVE UploadsNumbered'
  BY <1>1, ConstantsAssumption DEF HandleCreate, Finish, Release, disk, metadata, git, barriers,
     fences, threads, Shape, UploadsNumbered, UploadStates, ThreadsTyped, Commits
<1>2. ASSUME NEW r \in Requests, HandleFinalize(r) PROVE UploadsNumbered'
  BY <1>2, ConstantsAssumption DEF HandleFinalize, Push, disk, metadata, git, barriers, fences,
     threads, Shape, UploadsNumbered, UploadStates, ThreadsTyped, Commits
<1>3. ASSUME NEW c \in Commits, ProcessorBegin(c) PROVE UploadsNumbered'
  BY <1>3, ConstantsAssumption DEF ProcessorBegin, Exit, Release, Push, disk, metadata, git,
     barriers, fences, threads, Shape, UploadsNumbered, UploadStates, ThreadsTyped, Commits
<1>4. ASSUME NEW c \in Commits, ProcessorAdmit(c) PROVE UploadsNumbered'
  BY <1>4, ConstantsAssumption DEF ProcessorAdmit, Exit, Release, Push, disk, metadata, git,
     barriers, fences, threads, Shape, UploadsNumbered, UploadStates, ThreadsTyped, Commits
<1>5. ASSUME NEW c \in Commits, ProcessorLock(c) PROVE UploadsNumbered'
  BY <1>5, ConstantsAssumption DEF ProcessorLock, Exit, Release, Push, disk, metadata, git,
     barriers, fences, threads, Shape, UploadsNumbered, UploadStates, ThreadsTyped, Commits
<1>6. ASSUME NEW c \in Commits, ProcessorPublish(c) PROVE UploadsNumbered'
  BY <1>6, ConstantsAssumption DEF ProcessorPublish, ReleaseAdmission, Push, disk, metadata, git,
     barriers, fences, threads, Shape, UploadsNumbered, UploadStates, ThreadsTyped, Commits
<1>7. ASSUME NEW c \in Commits, ProcessorMerge(c) PROVE UploadsNumbered'
  BY <1>7, ConstantsAssumption DEF ProcessorMerge, ReleaseAdmission, Push, disk, metadata, git,
     barriers, fences, threads, Shape, UploadsNumbered, UploadStates, ThreadsTyped, Commits
<1>8. ASSUME NEW c \in Commits, ProcessorRecord(c) PROVE UploadsNumbered'
  BY <1>8, ConstantsAssumption DEF ProcessorRecord, Exit, Release, Push, disk, metadata, git,
     barriers, fences, threads, Shape, UploadsNumbered, UploadStates, ThreadsTyped, Commits
<1>9. ASSUME NEW c \in Commits, ProcessorFails(c) PROVE UploadsNumbered'
  BY <1>9, ConstantsAssumption DEF ProcessorFails, ReleaseAdmission, Push, Fault, disk, metadata,
     git, barriers, fences, threads, Shape, UploadsNumbered, UploadStates, ThreadsTyped, Commits
<1>10. ASSUME DrainDevice PROVE UploadsNumbered'
  BY <1>10, ConstantsAssumption DEF DrainDevice, StopRemover, NoRemover, Release, Removal,
     AbortedSessions, disk, metadata, git, barriers, fences, threads, Shape, UploadsNumbered,
     UploadStates, ThreadsTyped, Commits, Unfinished
<1>11. ASSUME EraseDeviceResidue PROVE UploadsNumbered'
  BY <1>11, ConstantsAssumption DEF EraseDeviceResidue, StopRemover, NoRemover, Release, Removal,
     disk, metadata, git, barriers, fences, threads, Shape, UploadsNumbered, UploadStates,
     ThreadsTyped, Commits
<1>12. ASSUME DrainVault PROVE UploadsNumbered'
  BY <1>12, ConstantsAssumption DEF DrainVault, AbortedSessions, disk, metadata, git, barriers,
     fences, threads, Shape, UploadsNumbered, UploadStates, ThreadsTyped, Commits, Unfinished
<1>13. ASSUME EraseVaultResidue PROVE UploadsNumbered'
  BY <1>13, ConstantsAssumption DEF EraseVaultResidue, disk, metadata, git, barriers, fences,
     threads, Shape, UploadsNumbered, UploadStates, ThreadsTyped, Commits
<1>14. ASSUME Crash PROVE UploadsNumbered'
  BY <1>14, ConstantsAssumption DEF Crash, Fault, NoRemover, disk, metadata, git, barriers, fences,
     threads, Shape, UploadsNumbered, UploadStates, ThreadsTyped, Commits
<1>15. ASSUME Startup PROVE UploadsNumbered'
  BY <1>15, ConstantsAssumption DEF Startup, NoRemover, Push, Resumed, disk, metadata, git,
     barriers, fences, threads, Shape, UploadsNumbered, UploadStates, ThreadsTyped, Commits
<1>16. ASSUME UNCHANGED <<session, made, processor>> PROVE UploadsNumbered'
  BY <1>16 DEF Shape, UploadsNumbered, UploadStates, ThreadsTyped, Commits
<1> QED
  BY <1>1, <1>2, <1>3, <1>4, <1>5, <1>6, <1>7, <1>8, <1>9, <1>10, <1>11, <1>12, <1>13, <1>14,
     <1>15, <1>16
  DEF Next, RequestStep, ProcessorStep, RemoverStep, WorkerStep, vars, disk, metadata, git,
     barriers, fences, threads, Authenticate, TryAcquireDeviceLease, AcquireDeviceLease,
     AskAdmission, TakeAdmission, HandleOther, Revoke, Resolve, SelectForRemoval, PersistGrant,
     VerifyForRemoval, CommitIntent, CloseDeviceBarrier, AwaitProcessors, DrainDeviceLeases,
     DrainTimeout, LockForRemoval, DecideRemoval, DeleteRef, RecordRefDeleted, AdmitCleanup,
     CompleteRemoval, RemovalFails, BeginDeletion, CommitDeletion, CommitDeletionFails,
     StartDeletion, AwaitVaultProcessors, WaitForDrain, EnterErasure, EraseGit, EnterFinalizing,
     FinalizeDb, WorkerFails, ExpireReceipt, Serve

\* Stages are the ones of the code.
LEMMA ThreadsTypedStep ==
  ASSUME Shape, [Next]_vars PROVE ThreadsTyped'
<1>1. ASSUME NEW r \in Requests, Authenticate(r) PROVE ThreadsTyped'
  BY <1>1 DEF Authenticate, disk, metadata, git, barriers, fences, threads, Shape, ThreadsTyped
<1>2. ASSUME NEW r \in Requests, TryAcquireDeviceLease(r) PROVE ThreadsTyped'
  BY <1>2 DEF TryAcquireDeviceLease, Finish, Release, disk, metadata, git, barriers, fences,
     threads, Shape, ThreadsTyped
<1>3. ASSUME NEW r \in Requests, AcquireDeviceLease(r) PROVE ThreadsTyped'
  BY <1>3 DEF AcquireDeviceLease, Finish, Release, disk, metadata, git, barriers, fences, threads,
     Shape, ThreadsTyped
<1>4. ASSUME NEW r \in Requests, AskAdmission(r) PROVE ThreadsTyped'
  BY <1>4 DEF AskAdmission, Finish, Release, disk, metadata, git, barriers, fences, threads, Shape,
     ThreadsTyped
<1>5. ASSUME NEW r \in Requests, TakeAdmission(r) PROVE ThreadsTyped'
  BY <1>5 DEF TakeAdmission, Finish, Release, disk, metadata, git, barriers, fences, threads,
     Shape, ThreadsTyped
<1>6. ASSUME NEW r \in Requests, HandleCreate(r) PROVE ThreadsTyped'
  BY <1>6 DEF HandleCreate, Finish, Release, disk, metadata, git, barriers, fences, threads, Shape,
     ThreadsTyped
<1>7. ASSUME NEW r \in Requests, HandleFinalize(r) PROVE ThreadsTyped'
  BY <1>7 DEF HandleFinalize, Push, disk, metadata, git, barriers, fences, threads, Shape,
     ThreadsTyped
<1>8. ASSUME NEW r \in Requests, HandleOther(r) PROVE ThreadsTyped'
  BY <1>8 DEF HandleOther, Finish, Release, disk, metadata, git, barriers, fences, threads, Shape,
     ThreadsTyped
<1>9. ASSUME NEW c \in Commits, ProcessorBegin(c) PROVE ThreadsTyped'
  BY <1>9 DEF ProcessorBegin, Exit, Release, Push, disk, metadata, git, barriers, fences, threads,
     Shape, ThreadsTyped
<1>10. ASSUME NEW c \in Commits, ProcessorAdmit(c) PROVE ThreadsTyped'
  BY <1>10 DEF ProcessorAdmit, Exit, Release, Push, disk, metadata, git, barriers, fences, threads,
     Shape, ThreadsTyped
<1>11. ASSUME NEW c \in Commits, ProcessorLock(c) PROVE ThreadsTyped'
  BY <1>11 DEF ProcessorLock, Exit, Release, Push, disk, metadata, git, barriers, fences, threads,
     Shape, ThreadsTyped
<1>12. ASSUME NEW c \in Commits, ProcessorPublish(c) PROVE ThreadsTyped'
  BY <1>12 DEF ProcessorPublish, ReleaseAdmission, Push, disk, metadata, git, barriers, fences,
     threads, Shape, ThreadsTyped
<1>13. ASSUME NEW c \in Commits, ProcessorMerge(c) PROVE ThreadsTyped'
  BY <1>13 DEF ProcessorMerge, ReleaseAdmission, Push, disk, metadata, git, barriers, fences,
     threads, Shape, ThreadsTyped
<1>14. ASSUME NEW c \in Commits, ProcessorRecord(c) PROVE ThreadsTyped'
  BY <1>14 DEF ProcessorRecord, Exit, Release, Push, disk, metadata, git, barriers, fences,
     threads, Shape, ThreadsTyped
<1>15. ASSUME NEW c \in Commits, ProcessorFails(c) PROVE ThreadsTyped'
  BY <1>15 DEF ProcessorFails, ReleaseAdmission, Push, Fault, disk, metadata, git, barriers,
     fences, threads, Shape, ThreadsTyped
<1>16. ASSUME BeginDeletion PROVE ThreadsTyped'
  BY <1>16 DEF BeginDeletion, disk, metadata, git, barriers, fences, threads, Shape, ThreadsTyped
<1>17. ASSUME CommitDeletion PROVE ThreadsTyped'
  BY <1>17 DEF CommitDeletion, disk, metadata, git, barriers, fences, threads, Shape, ThreadsTyped
<1>18. ASSUME CommitDeletionFails PROVE ThreadsTyped'
  BY <1>18 DEF CommitDeletionFails, Fault, disk, metadata, git, barriers, fences, threads, Shape,
     ThreadsTyped
<1>19. ASSUME StartDeletion PROVE ThreadsTyped'
  BY <1>19 DEF StartDeletion, disk, metadata, git, barriers, fences, threads, Shape, ThreadsTyped
<1>20. ASSUME DrainVault PROVE ThreadsTyped'
  BY <1>20 DEF DrainVault, AbortedSessions, disk, metadata, git, barriers, fences, threads, Shape,
     ThreadsTyped
<1>21. ASSUME AwaitVaultProcessors PROVE ThreadsTyped'
  BY <1>21 DEF AwaitVaultProcessors, disk, metadata, git, barriers, fences, threads, Shape,
     ThreadsTyped
<1>22. ASSUME WaitForDrain PROVE ThreadsTyped'
  BY <1>22 DEF WaitForDrain, disk, metadata, git, barriers, fences, threads, Shape, ThreadsTyped
<1>23. ASSUME EraseVaultResidue PROVE ThreadsTyped'
  BY <1>23 DEF EraseVaultResidue, disk, metadata, git, barriers, fences, threads, Shape,
     ThreadsTyped
<1>24. ASSUME EnterErasure PROVE ThreadsTyped'
  BY <1>24 DEF EnterErasure, disk, metadata, git, barriers, fences, threads, Shape, ThreadsTyped
<1>25. ASSUME EraseGit PROVE ThreadsTyped'
  BY <1>25 DEF EraseGit, disk, metadata, git, barriers, fences, threads, Shape, ThreadsTyped
<1>26. ASSUME EnterFinalizing PROVE ThreadsTyped'
  BY <1>26 DEF EnterFinalizing, disk, metadata, git, barriers, fences, threads, Shape, ThreadsTyped
<1>27. ASSUME FinalizeDb PROVE ThreadsTyped'
  BY <1>27 DEF FinalizeDb, disk, metadata, git, barriers, fences, threads, Shape, ThreadsTyped
<1>28. ASSUME WorkerFails PROVE ThreadsTyped'
  BY <1>28 DEF WorkerFails, Fault, disk, metadata, git, barriers, fences, threads, Shape,
     ThreadsTyped
<1>29. ASSUME Crash PROVE ThreadsTyped'
  BY <1>29 DEF Crash, Fault, NoRemover, disk, metadata, git, barriers, fences, threads, Shape,
     ThreadsTyped
<1>30. ASSUME Startup PROVE ThreadsTyped'
  BY <1>30 DEF Startup, NoRemover, Push, Resumed, disk, metadata, git, barriers, fences, threads,
     Shape, ThreadsTyped
<1>31. ASSUME UNCHANGED <<request, processor, deleter, worker>> PROVE ThreadsTyped'
  BY <1>31 DEF Shape, ThreadsTyped
<1> QED
  BY <1>1, <1>2, <1>3, <1>4, <1>5, <1>6, <1>7, <1>8, <1>9, <1>10, <1>11, <1>12, <1>13, <1>14,
     <1>15, <1>16, <1>17, <1>18, <1>19, <1>20, <1>21, <1>22, <1>23, <1>24, <1>25, <1>26, <1>27,
     <1>28, <1>29, <1>30, <1>31
  DEF Next, RequestStep, ProcessorStep, RemoverStep, WorkerStep, vars, disk, metadata, git,
     barriers, fences, threads, Revoke, Resolve, SelectForRemoval, PersistGrant, VerifyForRemoval,
     CommitIntent, CloseDeviceBarrier, DrainDevice, AwaitProcessors, DrainDeviceLeases,
     DrainTimeout, LockForRemoval, DecideRemoval, DeleteRef, RecordRefDeleted, AdmitCleanup,
     EraseDeviceResidue, CompleteRemoval, RemovalFails, ExpireReceipt, Serve

\* The removal keeps its shape.
LEMMA RemoverTypedStep ==
  ASSUME Shape, [Next]_vars PROVE RemoverTyped'
<1>1. ASSUME SelectForRemoval PROVE RemoverTyped'
  BY <1>1, ConstantsAssumption DEF SelectForRemoval, disk, metadata, git, barriers, fences,
     threads, Shape, RemoverTyped, Removers, RemovalStages, PastDrain, RowsTyped, GitTyped, Jobs
<1>2. ASSUME PersistGrant PROVE RemoverTyped'
  BY <1>2, ConstantsAssumption DEF PersistGrant, NoRemover, disk, metadata, git, barriers, fences,
     threads, Shape, RemoverTyped, Removers, RemovalStages, PastDrain, RowsTyped, GitTyped, Jobs
<1>3. ASSUME VerifyForRemoval PROVE RemoverTyped'
  <2> DEFINE early == removal = None \/ removal.phase = "intent"
             oid == IF early THEN ref ELSE removal.expected
  <2>1. oid \in 0..MaxCommits /\ 0 \in 0..MaxCommits
    BY ConstantsAssumption DEF Shape, RowsTyped, GitTyped, Jobs
  <2> HIDE DEF oid
  <2>2. [remover EXCEPT !.at = "intent", !.main = 0, !.oid = oid] \in Removers
    BY <2>1 DEF Shape, RemoverTyped, Removers, RemovalStages
  <2> QED BY <1>3, <2>2, RemoverKinds DEF VerifyForRemoval, Shape, RemoverTyped, oid
<1>4. ASSUME CommitIntent PROVE RemoverTyped'
  BY <1>4, RemoverKinds DEF CommitIntent, StopRemover, FailRemoval, Shape, RemoverTyped,
     RemovalStages, PastDrain
<1>5. ASSUME CloseDeviceBarrier PROVE RemoverTyped'
  BY <1>5, RemoverKinds DEF CloseDeviceBarrier, StopRemover, FailRemoval, Shape, RemoverTyped,
     RemovalStages, PastDrain
<1>6. ASSUME DrainDevice PROVE RemoverTyped'
  BY <1>6, RemoverKinds DEF DrainDevice, StopRemover, FailRemoval, Shape, RemoverTyped,
     RemovalStages, PastDrain
<1>7. ASSUME AwaitProcessors PROVE RemoverTyped'
  BY <1>7, RemoverKinds DEF AwaitProcessors, StopRemover, FailRemoval, Shape, RemoverTyped,
     RemovalStages, PastDrain
<1>8. ASSUME DrainDeviceLeases PROVE RemoverTyped'
  BY <1>8, RemoverKinds DEF DrainDeviceLeases, StopRemover, FailRemoval, Shape, RemoverTyped,
     RemovalStages, PastDrain
<1>9. ASSUME DrainTimeout PROVE RemoverTyped'
  BY <1>9, RemoverKinds DEF DrainTimeout, StopRemover, FailRemoval, Shape, RemoverTyped,
     RemovalStages, PastDrain
<1>10. ASSUME LockForRemoval PROVE RemoverTyped'
  BY <1>10, RemoverKinds DEF LockForRemoval, StopRemover, FailRemoval, Shape, RemoverTyped,
     RemovalStages, PastDrain
<1>11. ASSUME DecideRemoval PROVE RemoverTyped'
  BY <1>11, RemoverKinds DEF DecideRemoval, StopRemover, FailRemoval, Shape, RemoverTyped,
     RemovalStages, PastDrain
<1>12. ASSUME DeleteRef PROVE RemoverTyped'
  BY <1>12, RemoverKinds DEF DeleteRef, StopRemover, FailRemoval, Shape, RemoverTyped,
     RemovalStages, PastDrain
<1>13. ASSUME RecordRefDeleted PROVE RemoverTyped'
  BY <1>13, RemoverKinds DEF RecordRefDeleted, StopRemover, FailRemoval, Shape, RemoverTyped,
     RemovalStages, PastDrain
<1>14. ASSUME AdmitCleanup PROVE RemoverTyped'
  BY <1>14, RemoverKinds DEF AdmitCleanup, StopRemover, FailRemoval, Shape, RemoverTyped,
     RemovalStages, PastDrain
<1>15. ASSUME EraseDeviceResidue PROVE RemoverTyped'
  BY <1>15, RemoverKinds DEF EraseDeviceResidue, StopRemover, FailRemoval, Shape, RemoverTyped,
     RemovalStages, PastDrain
<1>16. ASSUME CompleteRemoval PROVE RemoverTyped'
  BY <1>16, RemoverKinds DEF CompleteRemoval, StopRemover, FailRemoval, Shape, RemoverTyped,
     RemovalStages, PastDrain
<1>17. ASSUME RemovalFails PROVE RemoverTyped'
  BY <1>17, RemoverKinds DEF RemovalFails, StopRemover, FailRemoval, Shape, RemoverTyped,
     RemovalStages, PastDrain
<1>18. ASSUME Crash PROVE RemoverTyped'
  BY <1>18, RemoverKinds DEF Crash, StopRemover, FailRemoval, Shape, RemoverTyped, RemovalStages,
     PastDrain
<1>19. ASSUME Startup PROVE RemoverTyped'
  BY <1>19, RemoverKinds DEF Startup, StopRemover, FailRemoval, Shape, RemoverTyped, RemovalStages,
     PastDrain
<1>20. ASSUME UNCHANGED <<remover, granted>> PROVE RemoverTyped'
  BY <1>20 DEF Shape, RemoverTyped, Removers, RemovalStages, PastDrain, RowsTyped, GitTyped, Jobs
<1> QED
  BY <1>1, <1>2, <1>3, <1>4, <1>5, <1>6, <1>7, <1>8, <1>9, <1>10, <1>11, <1>12, <1>13, <1>14,
     <1>15, <1>16, <1>17, <1>18, <1>19, <1>20
  DEF Next, RequestStep, ProcessorStep, RemoverStep, WorkerStep, vars, disk, metadata, git,
     barriers, fences, threads, Authenticate, TryAcquireDeviceLease, AcquireDeviceLease,
     AskAdmission, TakeAdmission, HandleCreate, HandleFinalize, HandleOther, ProcessorBegin,
     ProcessorAdmit, ProcessorLock, ProcessorPublish, ProcessorMerge, ProcessorRecord,
     ProcessorFails, Revoke, Resolve, BeginDeletion, CommitDeletion, CommitDeletionFails,
     StartDeletion, DrainVault, AwaitVaultProcessors, WaitForDrain, EraseVaultResidue,
     EnterErasure, EraseGit, EnterFinalizing, FinalizeDb, WorkerFails, ExpireReceipt, Serve

\* Every stage holds its fences.
LEMMA FencesHeldStep ==
  ASSUME Shape, [Next]_vars PROVE FencesHeld'
<1>1. ASSUME NEW r \in Requests, Authenticate(r) PROVE FencesHeld'
  BY <1>1, ConstantsAssumption DEF Authenticate, disk, metadata, git, barriers, fences, threads,
     Shape, FencesHeld, Holders, Removal, Push, ThreadsTyped, UploadsNumbered, RemoverTyped,
     Removers, RemovalStages, AdmittedRemoval, PastDrain, Commits
<1>2. ASSUME NEW r \in Requests, TryAcquireDeviceLease(r) PROVE FencesHeld'
  BY <1>2, ConstantsAssumption DEF TryAcquireDeviceLease, Finish, Release, disk, metadata, git,
     barriers, fences, threads, Shape, FencesHeld, Holders, Removal, Push, ThreadsTyped,
     UploadsNumbered, RemoverTyped, Removers, RemovalStages, AdmittedRemoval, PastDrain, Commits
<1>3. ASSUME NEW r \in Requests, AcquireDeviceLease(r) PROVE FencesHeld'
  BY <1>3, ConstantsAssumption DEF AcquireDeviceLease, Finish, Release, disk, metadata, git,
     barriers, fences, threads, Shape, FencesHeld, Holders, Removal, Push, ThreadsTyped,
     UploadsNumbered, RemoverTyped, Removers, RemovalStages, AdmittedRemoval, PastDrain, Commits
<1>4. ASSUME NEW r \in Requests, AskAdmission(r) PROVE FencesHeld'
  BY <1>4, ConstantsAssumption, SMTT(30) DEF AskAdmission, Finish, Release, disk, metadata, git, barriers,
     fences, threads, Shape, FencesHeld, Holders, Removal, Push, ThreadsTyped, UploadsNumbered,
     RemoverTyped, Removers, RemovalStages, AdmittedRemoval, PastDrain, Commits
<1>5. ASSUME NEW r \in Requests, TakeAdmission(r) PROVE FencesHeld'
  BY <1>5, ConstantsAssumption DEF TakeAdmission, Finish, Release, disk, metadata, git, barriers,
     fences, threads, Shape, FencesHeld, Holders, Removal, Push, ThreadsTyped, UploadsNumbered,
     RemoverTyped, Removers, RemovalStages, AdmittedRemoval, PastDrain, Commits
<1>6. ASSUME NEW r \in Requests, HandleCreate(r) PROVE FencesHeld'
  BY <1>6, ConstantsAssumption DEF HandleCreate, Finish, Release, disk, metadata, git, barriers,
     fences, threads, Shape, FencesHeld, Holders, Removal, Push, ThreadsTyped, UploadsNumbered,
     RemoverTyped, Removers, RemovalStages, AdmittedRemoval, PastDrain, Commits
<1>7. ASSUME NEW r \in Requests, HandleFinalize(r) PROVE FencesHeld'
  BY <1>7, ConstantsAssumption, SMTT(30) DEF HandleFinalize, Push, disk, metadata, git, barriers, fences,
     threads, Shape, FencesHeld, Holders, Removal, Push, ThreadsTyped, UploadsNumbered,
     RemoverTyped, Removers, RemovalStages, AdmittedRemoval, PastDrain, Commits
<1>8. ASSUME NEW r \in Requests, HandleOther(r) PROVE FencesHeld'
  BY <1>8, ConstantsAssumption DEF HandleOther, Finish, Release, disk, metadata, git, barriers,
     fences, threads, Shape, FencesHeld, Holders, Removal, Push, ThreadsTyped, UploadsNumbered,
     RemoverTyped, Removers, RemovalStages, AdmittedRemoval, PastDrain, Commits
<1>9. ASSUME NEW c \in Commits, ProcessorBegin(c) PROVE FencesHeld'
  BY <1>9, ConstantsAssumption, SMTT(30) DEF ProcessorBegin, Exit, Release, Push, disk, metadata, git,
     barriers, fences, threads, Shape, FencesHeld, Holders, Removal, Push, ThreadsTyped,
     UploadsNumbered, RemoverTyped, Removers, RemovalStages, AdmittedRemoval, PastDrain, Commits
<1>10. ASSUME NEW c \in Commits, ProcessorAdmit(c) PROVE FencesHeld'
  BY <1>10, ConstantsAssumption DEF ProcessorAdmit, Exit, Release, Push, disk, metadata, git,
     barriers, fences, threads, Shape, FencesHeld, Holders, Removal, Push, ThreadsTyped,
     UploadsNumbered, RemoverTyped, Removers, RemovalStages, AdmittedRemoval, PastDrain, Commits
<1>11. ASSUME NEW c \in Commits, ProcessorLock(c) PROVE FencesHeld'
  BY <1>11, ConstantsAssumption DEF ProcessorLock, Exit, Release, Push, disk, metadata, git,
     barriers, fences, threads, Shape, FencesHeld, Holders, Removal, Push, ThreadsTyped,
     UploadsNumbered, RemoverTyped, Removers, RemovalStages, AdmittedRemoval, PastDrain, Commits
<1>12. ASSUME NEW c \in Commits, ProcessorPublish(c) PROVE FencesHeld'
  BY <1>12, ConstantsAssumption DEF ProcessorPublish, ReleaseAdmission, Push, disk, metadata, git,
     barriers, fences, threads, Shape, FencesHeld, Holders, Removal, Push, ThreadsTyped,
     UploadsNumbered, RemoverTyped, Removers, RemovalStages, AdmittedRemoval, PastDrain, Commits
<1>13. ASSUME NEW c \in Commits, ProcessorMerge(c) PROVE FencesHeld'
  BY <1>13, ConstantsAssumption DEF ProcessorMerge, ReleaseAdmission, Push, disk, metadata, git,
     barriers, fences, threads, Shape, FencesHeld, Holders, Removal, Push, ThreadsTyped,
     UploadsNumbered, RemoverTyped, Removers, RemovalStages, AdmittedRemoval, PastDrain, Commits
<1>14. ASSUME NEW c \in Commits, ProcessorRecord(c) PROVE FencesHeld'
  BY <1>14, ConstantsAssumption DEF ProcessorRecord, Exit, Release, Push, disk, metadata, git,
     barriers, fences, threads, Shape, FencesHeld, Holders, Removal, Push, ThreadsTyped,
     UploadsNumbered, RemoverTyped, Removers, RemovalStages, AdmittedRemoval, PastDrain, Commits
<1>15. ASSUME NEW c \in Commits, ProcessorFails(c) PROVE FencesHeld'
  BY <1>15, ConstantsAssumption DEF ProcessorFails, ReleaseAdmission, Push, Fault, disk, metadata,
     git, barriers, fences, threads, Shape, FencesHeld, Holders, Removal, Push, ThreadsTyped,
     UploadsNumbered, RemoverTyped, Removers, RemovalStages, AdmittedRemoval, PastDrain, Commits
<1>16. ASSUME SelectForRemoval PROVE FencesHeld'
  BY <1>16, ConstantsAssumption DEF SelectForRemoval, disk, metadata, git, barriers, fences,
     threads, Shape, FencesHeld, Holders, Removal, Push, ThreadsTyped, UploadsNumbered,
     RemoverTyped, Removers, RemovalStages, AdmittedRemoval, PastDrain, Commits
<1>17. ASSUME PersistGrant PROVE FencesHeld'
  BY <1>17, ConstantsAssumption DEF PersistGrant, NoRemover, disk, metadata, git, barriers, fences,
     threads, Shape, FencesHeld, Holders, Removal, Push, ThreadsTyped, UploadsNumbered,
     RemoverTyped, Removers, RemovalStages, AdmittedRemoval, PastDrain, Commits
<1>18. ASSUME VerifyForRemoval PROVE FencesHeld'
  BY <1>18, ConstantsAssumption DEF VerifyForRemoval, NoRemover, disk, metadata, git, barriers,
     fences, threads, Shape, FencesHeld, Holders, Removal, Push, ThreadsTyped, UploadsNumbered,
     RemoverTyped, Removers, RemovalStages, AdmittedRemoval, PastDrain, Commits
<1>19. ASSUME CommitIntent PROVE FencesHeld'
  BY <1>19, ConstantsAssumption DEF CommitIntent, NoRemover, disk, metadata, git, barriers, fences,
     threads, Shape, FencesHeld, Holders, Removal, Push, ThreadsTyped, UploadsNumbered,
     RemoverTyped, Removers, RemovalStages, AdmittedRemoval, PastDrain, Commits
<1>20. ASSUME CloseDeviceBarrier PROVE FencesHeld'
  BY <1>20, ConstantsAssumption DEF CloseDeviceBarrier, disk, metadata, git, barriers, fences,
     threads, Shape, FencesHeld, Holders, Removal, Push, ThreadsTyped, UploadsNumbered,
     RemoverTyped, Removers, RemovalStages, AdmittedRemoval, PastDrain, Commits
<1>21. ASSUME DrainDevice PROVE FencesHeld'
  BY <1>21, ConstantsAssumption DEF DrainDevice, StopRemover, NoRemover, Release, Removal,
     AbortedSessions, disk, metadata, git, barriers, fences, threads, Shape, FencesHeld, Holders,
     Removal, Push, ThreadsTyped, UploadsNumbered, RemoverTyped, Removers, RemovalStages,
     AdmittedRemoval, PastDrain, Commits
<1>22. ASSUME AwaitProcessors PROVE FencesHeld'
  BY <1>22, ConstantsAssumption DEF AwaitProcessors, disk, metadata, git, barriers, fences,
     threads, Shape, FencesHeld, Holders, Removal, Push, ThreadsTyped, UploadsNumbered,
     RemoverTyped, Removers, RemovalStages, AdmittedRemoval, PastDrain, Commits
<1>23. ASSUME DrainDeviceLeases PROVE FencesHeld'
  BY <1>23, ConstantsAssumption DEF DrainDeviceLeases, disk, metadata, git, barriers, fences,
     threads, Shape, FencesHeld, Holders, Removal, Push, ThreadsTyped, UploadsNumbered,
     RemoverTyped, Removers, RemovalStages, AdmittedRemoval, PastDrain, Commits
<1>24. ASSUME DrainTimeout PROVE FencesHeld'
  BY <1>24, ConstantsAssumption DEF DrainTimeout, FailRemoval, StopRemover, NoRemover, Release,
     Removal, disk, metadata, git, barriers, fences, threads, Shape, FencesHeld, Holders, Removal,
     Push, ThreadsTyped, UploadsNumbered, RemoverTyped, Removers, RemovalStages, AdmittedRemoval,
     PastDrain, Commits
<1>25. ASSUME LockForRemoval PROVE FencesHeld'
  BY <1>25, ConstantsAssumption DEF LockForRemoval, FailRemoval, StopRemover, NoRemover, Release,
     Removal, disk, metadata, git, barriers, fences, threads, Shape, FencesHeld, Holders, Removal,
     Push, ThreadsTyped, UploadsNumbered, RemoverTyped, Removers, RemovalStages, AdmittedRemoval,
     PastDrain, Commits
<1>26. ASSUME DecideRemoval PROVE FencesHeld'
  BY <1>26, ConstantsAssumption DEF DecideRemoval, StopRemover, NoRemover, Release, Removal, disk,
     metadata, git, barriers, fences, threads, Shape, FencesHeld, Holders, Removal, Push,
     ThreadsTyped, UploadsNumbered, RemoverTyped, Removers, RemovalStages, AdmittedRemoval,
     PastDrain, Commits
<1>27. ASSUME DeleteRef PROVE FencesHeld'
  BY <1>27, ConstantsAssumption DEF DeleteRef, disk, metadata, git, barriers, fences, threads,
     Shape, FencesHeld, Holders, Removal, Push, ThreadsTyped, UploadsNumbered, RemoverTyped,
     Removers, RemovalStages, AdmittedRemoval, PastDrain, Commits
<1>28. ASSUME RecordRefDeleted PROVE FencesHeld'
  BY <1>28, ConstantsAssumption DEF RecordRefDeleted, StopRemover, NoRemover, Release, Removal,
     disk, metadata, git, barriers, fences, threads, Shape, FencesHeld, Holders, Removal, Push,
     ThreadsTyped, UploadsNumbered, RemoverTyped, Removers, RemovalStages, AdmittedRemoval,
     PastDrain, Commits
<1>29. ASSUME AdmitCleanup PROVE FencesHeld'
  BY <1>29, ConstantsAssumption, SMTT(30) DEF AdmitCleanup, FailRemoval, StopRemover, NoRemover, Release,
     Removal, disk, metadata, git, barriers, fences, threads, Shape, FencesHeld, Holders, Removal,
     Push, ThreadsTyped, UploadsNumbered, RemoverTyped, Removers, RemovalStages, AdmittedRemoval,
     PastDrain, Commits
<1>30. ASSUME EraseDeviceResidue PROVE FencesHeld'
  BY <1>30, ConstantsAssumption DEF EraseDeviceResidue, StopRemover, NoRemover, Release, Removal,
     disk, metadata, git, barriers, fences, threads, Shape, FencesHeld, Holders, Removal, Push,
     ThreadsTyped, UploadsNumbered, RemoverTyped, Removers, RemovalStages, AdmittedRemoval,
     PastDrain, Commits
<1>31. ASSUME CompleteRemoval PROVE FencesHeld'
  BY <1>31, ConstantsAssumption DEF CompleteRemoval, StopRemover, NoRemover, Release, Removal,
     disk, metadata, git, barriers, fences, threads, Shape, FencesHeld, Holders, Removal, Push,
     ThreadsTyped, UploadsNumbered, RemoverTyped, Removers, RemovalStages, AdmittedRemoval,
     PastDrain, Commits
<1>32. ASSUME RemovalFails PROVE FencesHeld'
  BY <1>32, ConstantsAssumption DEF RemovalFails, FailRemoval, Fault, StopRemover, NoRemover,
     Release, Removal, disk, metadata, git, barriers, fences, threads, Shape, FencesHeld, Holders,
     Removal, Push, ThreadsTyped, UploadsNumbered, RemoverTyped, Removers, RemovalStages,
     AdmittedRemoval, PastDrain, Commits
<1>33. ASSUME Crash PROVE FencesHeld'
  BY <1>33, ConstantsAssumption DEF Crash, Fault, NoRemover, disk, metadata, git, barriers, fences,
     threads, Shape, FencesHeld, Holders, Removal, Push, ThreadsTyped, UploadsNumbered,
     RemoverTyped, Removers, RemovalStages, AdmittedRemoval, PastDrain, Commits
<1>34. ASSUME Startup PROVE FencesHeld'
  <2>1. active = {} /\ lock = None /\ UNCHANGED <<active, lock, request>> /\ \A r \in Requests : request[r] = "idle"
    BY <1>34 DEF Startup, Shape, DownIdle, FencesHeld
  <2>2. leases' = {c \in Commits : Resumed(c)}
    BY <1>34 DEF Startup, Push
  <2>3. \A c \in Commits : processor'[c] = IF Resumed(c) THEN "start" ELSE "none"
    BY <1>34 DEF Startup
  <2>4. remover'.at \in {"idle", "drain"}
    BY <1>34 DEF Startup, NoRemover
  <2> QED BY <2>1, <2>2, <2>3, <2>4, ConstantsAssumption
          DEF FencesHeld, Holders, Push, Removal, AdmittedRemoval, Commits
<1>35. ASSUME UNCHANGED <<active, leases, lock, request, processor, remover>> PROVE FencesHeld'
  BY <1>35 DEF Shape, FencesHeld, Holders, Removal, Push, ThreadsTyped, UploadsNumbered,
     RemoverTyped, Removers, RemovalStages, AdmittedRemoval, PastDrain, Commits
<1> QED
  BY <1>1, <1>2, <1>3, <1>4, <1>5, <1>6, <1>7, <1>8, <1>9, <1>10, <1>11, <1>12, <1>13, <1>14,
     <1>15, <1>16, <1>17, <1>18, <1>19, <1>20, <1>21, <1>22, <1>23, <1>24, <1>25, <1>26, <1>27,
     <1>28, <1>29, <1>30, <1>31, <1>32, <1>33, <1>34, <1>35
  DEF Next, RequestStep, ProcessorStep, RemoverStep, WorkerStep, vars, disk, metadata, git,
     barriers, fences, threads, Revoke, Resolve, BeginDeletion, CommitDeletion,
     CommitDeletionFails, StartDeletion, DrainVault, AwaitVaultProcessors, WaitForDrain,
     EraseVaultResidue, EnterErasure, EraseGit, EnterFinalizing, FinalizeDb, WorkerFails,
     ExpireReceipt, Serve

\* A stopped server has stopped.
LEMMA DownIdleStep ==
  ASSUME Shape, [Next]_vars PROVE DownIdle'
<1>1. ASSUME NEW r \in Requests, Authenticate(r) PROVE DownIdle'
  BY <1>1 DEF Authenticate, disk, metadata, git, barriers, fences, threads, Shape, DownIdle,
     FencesHeld, ThreadsTyped, RemoverTyped, Removers
<1>2. ASSUME NEW r \in Requests, TryAcquireDeviceLease(r) PROVE DownIdle'
  BY <1>2 DEF TryAcquireDeviceLease, Finish, Release, disk, metadata, git, barriers, fences,
     threads, Shape, DownIdle, FencesHeld, ThreadsTyped, RemoverTyped, Removers
<1>3. ASSUME NEW r \in Requests, AcquireDeviceLease(r) PROVE DownIdle'
  BY <1>3 DEF AcquireDeviceLease, Finish, Release, disk, metadata, git, barriers, fences, threads,
     Shape, DownIdle, FencesHeld, ThreadsTyped, RemoverTyped, Removers
<1>4. ASSUME NEW r \in Requests, AskAdmission(r) PROVE DownIdle'
  BY <1>4 DEF AskAdmission, Finish, Release, disk, metadata, git, barriers, fences, threads, Shape,
     DownIdle, FencesHeld, ThreadsTyped, RemoverTyped, Removers
<1>5. ASSUME NEW r \in Requests, TakeAdmission(r) PROVE DownIdle'
  BY <1>5 DEF TakeAdmission, Finish, Release, disk, metadata, git, barriers, fences, threads,
     Shape, DownIdle, FencesHeld, ThreadsTyped, RemoverTyped, Removers
<1>6. ASSUME NEW r \in Requests, HandleCreate(r) PROVE DownIdle'
  BY <1>6 DEF HandleCreate, Finish, Release, disk, metadata, git, barriers, fences, threads, Shape,
     DownIdle, FencesHeld, ThreadsTyped, RemoverTyped, Removers
<1>7. ASSUME NEW r \in Requests, HandleFinalize(r) PROVE DownIdle'
  BY <1>7 DEF HandleFinalize, Push, disk, metadata, git, barriers, fences, threads, Shape,
     DownIdle, FencesHeld, ThreadsTyped, RemoverTyped, Removers
<1>8. ASSUME NEW r \in Requests, HandleOther(r) PROVE DownIdle'
  BY <1>8 DEF HandleOther, Finish, Release, disk, metadata, git, barriers, fences, threads, Shape,
     DownIdle, FencesHeld, ThreadsTyped, RemoverTyped, Removers
<1>9. ASSUME NEW c \in Commits, ProcessorBegin(c) PROVE DownIdle'
  BY <1>9 DEF ProcessorBegin, Exit, Release, Push, disk, metadata, git, barriers, fences, threads,
     Shape, DownIdle, FencesHeld, ThreadsTyped, RemoverTyped, Removers
<1>10. ASSUME NEW c \in Commits, ProcessorAdmit(c) PROVE DownIdle'
  BY <1>10 DEF ProcessorAdmit, Exit, Release, Push, disk, metadata, git, barriers, fences, threads,
     Shape, DownIdle, FencesHeld, ThreadsTyped, RemoverTyped, Removers
<1>11. ASSUME NEW c \in Commits, ProcessorLock(c) PROVE DownIdle'
  BY <1>11 DEF ProcessorLock, Exit, Release, Push, disk, metadata, git, barriers, fences, threads,
     Shape, DownIdle, FencesHeld, ThreadsTyped, RemoverTyped, Removers
<1>12. ASSUME NEW c \in Commits, ProcessorPublish(c) PROVE DownIdle'
  BY <1>12 DEF ProcessorPublish, ReleaseAdmission, Push, disk, metadata, git, barriers, fences,
     threads, Shape, DownIdle, FencesHeld, ThreadsTyped, RemoverTyped, Removers
<1>13. ASSUME NEW c \in Commits, ProcessorMerge(c) PROVE DownIdle'
  BY <1>13 DEF ProcessorMerge, ReleaseAdmission, Push, disk, metadata, git, barriers, fences,
     threads, Shape, DownIdle, FencesHeld, ThreadsTyped, RemoverTyped, Removers
<1>14. ASSUME NEW c \in Commits, ProcessorRecord(c) PROVE DownIdle'
  BY <1>14 DEF ProcessorRecord, Exit, Release, Push, disk, metadata, git, barriers, fences,
     threads, Shape, DownIdle, FencesHeld, ThreadsTyped, RemoverTyped, Removers
<1>15. ASSUME NEW c \in Commits, ProcessorFails(c) PROVE DownIdle'
  BY <1>15 DEF ProcessorFails, ReleaseAdmission, Push, Fault, disk, metadata, git, barriers,
     fences, threads, Shape, DownIdle, FencesHeld, ThreadsTyped, RemoverTyped, Removers
<1>16. ASSUME SelectForRemoval PROVE DownIdle'
  BY <1>16 DEF SelectForRemoval, disk, metadata, git, barriers, fences, threads, Shape, DownIdle,
     FencesHeld, ThreadsTyped, RemoverTyped, Removers
<1>17. ASSUME PersistGrant PROVE DownIdle'
  BY <1>17 DEF PersistGrant, NoRemover, disk, metadata, git, barriers, fences, threads, Shape,
     DownIdle, FencesHeld, ThreadsTyped, RemoverTyped, Removers
<1>18. ASSUME VerifyForRemoval PROVE DownIdle'
  BY <1>18 DEF VerifyForRemoval, NoRemover, disk, metadata, git, barriers, fences, threads, Shape,
     DownIdle, FencesHeld, ThreadsTyped, RemoverTyped, Removers
<1>19. ASSUME CommitIntent PROVE DownIdle'
  BY <1>19 DEF CommitIntent, NoRemover, disk, metadata, git, barriers, fences, threads, Shape,
     DownIdle, FencesHeld, ThreadsTyped, RemoverTyped, Removers
<1>20. ASSUME CloseDeviceBarrier PROVE DownIdle'
  BY <1>20 DEF CloseDeviceBarrier, disk, metadata, git, barriers, fences, threads, Shape, DownIdle,
     FencesHeld, ThreadsTyped, RemoverTyped, Removers
<1>21. ASSUME DrainDevice PROVE DownIdle'
  BY <1>21 DEF DrainDevice, StopRemover, NoRemover, Release, Removal, AbortedSessions, disk,
     metadata, git, barriers, fences, threads, Shape, DownIdle, FencesHeld, ThreadsTyped,
     RemoverTyped, Removers
<1>22. ASSUME AwaitProcessors PROVE DownIdle'
  BY <1>22 DEF AwaitProcessors, disk, metadata, git, barriers, fences, threads, Shape, DownIdle,
     FencesHeld, ThreadsTyped, RemoverTyped, Removers
<1>23. ASSUME DrainDeviceLeases PROVE DownIdle'
  BY <1>23 DEF DrainDeviceLeases, disk, metadata, git, barriers, fences, threads, Shape, DownIdle,
     FencesHeld, ThreadsTyped, RemoverTyped, Removers
<1>24. ASSUME DrainTimeout PROVE DownIdle'
  BY <1>24 DEF DrainTimeout, FailRemoval, StopRemover, NoRemover, Release, Removal, disk, metadata,
     git, barriers, fences, threads, Shape, DownIdle, FencesHeld, ThreadsTyped, RemoverTyped,
     Removers
<1>25. ASSUME LockForRemoval PROVE DownIdle'
  BY <1>25 DEF LockForRemoval, FailRemoval, StopRemover, NoRemover, Release, Removal, disk,
     metadata, git, barriers, fences, threads, Shape, DownIdle, FencesHeld, ThreadsTyped,
     RemoverTyped, Removers
<1>26. ASSUME DecideRemoval PROVE DownIdle'
  BY <1>26 DEF DecideRemoval, StopRemover, NoRemover, Release, Removal, disk, metadata, git,
     barriers, fences, threads, Shape, DownIdle, FencesHeld, ThreadsTyped, RemoverTyped, Removers
<1>27. ASSUME DeleteRef PROVE DownIdle'
  BY <1>27 DEF DeleteRef, disk, metadata, git, barriers, fences, threads, Shape, DownIdle,
     FencesHeld, ThreadsTyped, RemoverTyped, Removers
<1>28. ASSUME RecordRefDeleted PROVE DownIdle'
  BY <1>28 DEF RecordRefDeleted, StopRemover, NoRemover, Release, Removal, disk, metadata, git,
     barriers, fences, threads, Shape, DownIdle, FencesHeld, ThreadsTyped, RemoverTyped, Removers
<1>29. ASSUME AdmitCleanup PROVE DownIdle'
  BY <1>29 DEF AdmitCleanup, FailRemoval, StopRemover, NoRemover, Release, Removal, disk, metadata,
     git, barriers, fences, threads, Shape, DownIdle, FencesHeld, ThreadsTyped, RemoverTyped,
     Removers
<1>30. ASSUME EraseDeviceResidue PROVE DownIdle'
  BY <1>30 DEF EraseDeviceResidue, StopRemover, NoRemover, Release, Removal, disk, metadata, git,
     barriers, fences, threads, Shape, DownIdle, FencesHeld, ThreadsTyped, RemoverTyped, Removers
<1>31. ASSUME CompleteRemoval PROVE DownIdle'
  BY <1>31 DEF CompleteRemoval, StopRemover, NoRemover, Release, Removal, disk, metadata, git,
     barriers, fences, threads, Shape, DownIdle, FencesHeld, ThreadsTyped, RemoverTyped, Removers
<1>32. ASSUME RemovalFails PROVE DownIdle'
  BY <1>32 DEF RemovalFails, FailRemoval, Fault, StopRemover, NoRemover, Release, Removal, disk,
     metadata, git, barriers, fences, threads, Shape, DownIdle, FencesHeld, ThreadsTyped,
     RemoverTyped, Removers
<1>33. ASSUME BeginDeletion PROVE DownIdle'
  BY <1>33 DEF BeginDeletion, disk, metadata, git, barriers, fences, threads, Shape, DownIdle,
     FencesHeld, ThreadsTyped, RemoverTyped, Removers
<1>34. ASSUME CommitDeletion PROVE DownIdle'
  BY <1>34 DEF CommitDeletion, disk, metadata, git, barriers, fences, threads, Shape, DownIdle,
     FencesHeld, ThreadsTyped, RemoverTyped, Removers
<1>35. ASSUME CommitDeletionFails PROVE DownIdle'
  BY <1>35 DEF CommitDeletionFails, Fault, disk, metadata, git, barriers, fences, threads, Shape,
     DownIdle, FencesHeld, ThreadsTyped, RemoverTyped, Removers
<1>36. ASSUME StartDeletion PROVE DownIdle'
  BY <1>36 DEF StartDeletion, disk, metadata, git, barriers, fences, threads, Shape, DownIdle,
     FencesHeld, ThreadsTyped, RemoverTyped, Removers
<1>37. ASSUME DrainVault PROVE DownIdle'
  BY <1>37 DEF DrainVault, AbortedSessions, disk, metadata, git, barriers, fences, threads, Shape,
     DownIdle, FencesHeld, ThreadsTyped, RemoverTyped, Removers
<1>38. ASSUME AwaitVaultProcessors PROVE DownIdle'
  BY <1>38 DEF AwaitVaultProcessors, disk, metadata, git, barriers, fences, threads, Shape,
     DownIdle, FencesHeld, ThreadsTyped, RemoverTyped, Removers
<1>39. ASSUME WaitForDrain PROVE DownIdle'
  BY <1>39 DEF WaitForDrain, disk, metadata, git, barriers, fences, threads, Shape, DownIdle,
     FencesHeld, ThreadsTyped, RemoverTyped, Removers
<1>40. ASSUME EraseVaultResidue PROVE DownIdle'
  BY <1>40 DEF EraseVaultResidue, disk, metadata, git, barriers, fences, threads, Shape, DownIdle,
     FencesHeld, ThreadsTyped, RemoverTyped, Removers
<1>41. ASSUME EnterErasure PROVE DownIdle'
  BY <1>41 DEF EnterErasure, disk, metadata, git, barriers, fences, threads, Shape, DownIdle,
     FencesHeld, ThreadsTyped, RemoverTyped, Removers
<1>42. ASSUME EraseGit PROVE DownIdle'
  BY <1>42 DEF EraseGit, disk, metadata, git, barriers, fences, threads, Shape, DownIdle,
     FencesHeld, ThreadsTyped, RemoverTyped, Removers
<1>43. ASSUME EnterFinalizing PROVE DownIdle'
  BY <1>43 DEF EnterFinalizing, disk, metadata, git, barriers, fences, threads, Shape, DownIdle,
     FencesHeld, ThreadsTyped, RemoverTyped, Removers
<1>44. ASSUME FinalizeDb PROVE DownIdle'
  BY <1>44 DEF FinalizeDb, disk, metadata, git, barriers, fences, threads, Shape, DownIdle,
     FencesHeld, ThreadsTyped, RemoverTyped, Removers
<1>45. ASSUME WorkerFails PROVE DownIdle'
  BY <1>45 DEF WorkerFails, Fault, disk, metadata, git, barriers, fences, threads, Shape, DownIdle,
     FencesHeld, ThreadsTyped, RemoverTyped, Removers
<1>46. ASSUME Crash PROVE DownIdle'
  BY <1>46 DEF Crash, Fault, NoRemover, disk, metadata, git, barriers, fences, threads, Shape,
     DownIdle, FencesHeld, ThreadsTyped, RemoverTyped, Removers
<1>47. ASSUME Startup PROVE DownIdle'
  BY <1>47 DEF Startup, NoRemover, Push, Resumed, disk, metadata, git, barriers, fences, threads,
     Shape, DownIdle, FencesHeld, ThreadsTyped, RemoverTyped, Removers
<1>48. ASSUME Serve PROVE DownIdle'
  BY <1>48 DEF Serve, disk, metadata, git, barriers, fences, threads, Shape, DownIdle, FencesHeld,
     ThreadsTyped, RemoverTyped, Removers
<1>49. ASSUME UNCHANGED <<mode, active, leases, remover, deleter, worker, request, processor>> PROVE DownIdle'
  BY <1>49 DEF Shape, DownIdle, FencesHeld, ThreadsTyped, RemoverTyped, Removers
<1> QED
  BY <1>1, <1>2, <1>3, <1>4, <1>5, <1>6, <1>7, <1>8, <1>9, <1>10, <1>11, <1>12, <1>13, <1>14,
     <1>15, <1>16, <1>17, <1>18, <1>19, <1>20, <1>21, <1>22, <1>23, <1>24, <1>25, <1>26, <1>27,
     <1>28, <1>29, <1>30, <1>31, <1>32, <1>33, <1>34, <1>35, <1>36, <1>37, <1>38, <1>39, <1>40,
     <1>41, <1>42, <1>43, <1>44, <1>45, <1>46, <1>47, <1>48, <1>49
  DEF Next, RequestStep, ProcessorStep, RemoverStep, WorkerStep, vars, disk, metadata, git,
     barriers, fences, threads, Revoke, Resolve, ExpireReceipt

\* Row, job, barrier and worker go on telling one story.
LEMMA DeletionAgreesStep ==
  ASSUME DeletionInv, [Next]_vars PROVE DeletionAgrees'
<1>1. ASSUME BeginDeletion PROVE DeletionAgrees'
  BY <1>1, ConstantsAssumption DEF BeginDeletion, disk, metadata, git, barriers, fences, threads,
     DeletionInv, Shape, DeletionAgrees, DurablyClosed, DownIdle, RowsTyped, ThreadsTyped,
     DeletionPhases
<1>2. ASSUME CommitDeletion PROVE DeletionAgrees'
  BY <1>2, ConstantsAssumption DEF CommitDeletion, disk, metadata, git, barriers, fences, threads,
     DeletionInv, Shape, DeletionAgrees, DurablyClosed, DownIdle, RowsTyped, ThreadsTyped,
     DeletionPhases
<1>3. ASSUME CommitDeletionFails PROVE DeletionAgrees'
  BY <1>3, ConstantsAssumption DEF CommitDeletionFails, Fault, disk, metadata, git, barriers,
     fences, threads, DeletionInv, Shape, DeletionAgrees, DurablyClosed, DownIdle, RowsTyped,
     ThreadsTyped, DeletionPhases
<1>4. ASSUME StartDeletion PROVE DeletionAgrees'
  BY <1>4, ConstantsAssumption DEF StartDeletion, disk, metadata, git, barriers, fences, threads,
     DeletionInv, Shape, DeletionAgrees, DurablyClosed, DownIdle, RowsTyped, ThreadsTyped,
     DeletionPhases
<1>5. ASSUME DrainVault PROVE DeletionAgrees'
  BY <1>5, ConstantsAssumption DEF DrainVault, AbortedSessions, disk, metadata, git, barriers,
     fences, threads, DeletionInv, Shape, DeletionAgrees, DurablyClosed, DownIdle, RowsTyped,
     ThreadsTyped, DeletionPhases
<1>6. ASSUME AwaitVaultProcessors PROVE DeletionAgrees'
  BY <1>6, ConstantsAssumption DEF AwaitVaultProcessors, disk, metadata, git, barriers, fences,
     threads, DeletionInv, Shape, DeletionAgrees, DurablyClosed, DownIdle, RowsTyped, ThreadsTyped,
     DeletionPhases
<1>7. ASSUME WaitForDrain PROVE DeletionAgrees'
  BY <1>7, ConstantsAssumption DEF WaitForDrain, disk, metadata, git, barriers, fences, threads,
     DeletionInv, Shape, DeletionAgrees, DurablyClosed, DownIdle, RowsTyped, ThreadsTyped,
     DeletionPhases
<1>8. ASSUME EraseVaultResidue PROVE DeletionAgrees'
  BY <1>8, ConstantsAssumption DEF EraseVaultResidue, disk, metadata, git, barriers, fences,
     threads, DeletionInv, Shape, DeletionAgrees, DurablyClosed, DownIdle, RowsTyped, ThreadsTyped,
     DeletionPhases
<1>9. ASSUME EnterErasure PROVE DeletionAgrees'
  BY <1>9, ConstantsAssumption DEF EnterErasure, disk, metadata, git, barriers, fences, threads,
     DeletionInv, Shape, DeletionAgrees, DurablyClosed, DownIdle, RowsTyped, ThreadsTyped,
     DeletionPhases
<1>10. ASSUME EraseGit PROVE DeletionAgrees'
  BY <1>10, ConstantsAssumption DEF EraseGit, disk, metadata, git, barriers, fences, threads,
     DeletionInv, Shape, DeletionAgrees, DurablyClosed, DownIdle, RowsTyped, ThreadsTyped,
     DeletionPhases
<1>11. ASSUME EnterFinalizing PROVE DeletionAgrees'
  BY <1>11, ConstantsAssumption DEF EnterFinalizing, disk, metadata, git, barriers, fences,
     threads, DeletionInv, Shape, DeletionAgrees, DurablyClosed, DownIdle, RowsTyped, ThreadsTyped,
     DeletionPhases
<1>12. ASSUME FinalizeDb PROVE DeletionAgrees'
  BY <1>12, ConstantsAssumption DEF FinalizeDb, disk, metadata, git, barriers, fences, threads,
     DeletionInv, Shape, DeletionAgrees, DurablyClosed, DownIdle, RowsTyped, ThreadsTyped,
     DeletionPhases
<1>13. ASSUME WorkerFails PROVE DeletionAgrees'
  BY <1>13, ConstantsAssumption DEF WorkerFails, Fault, disk, metadata, git, barriers, fences,
     threads, DeletionInv, Shape, DeletionAgrees, DurablyClosed, DownIdle, RowsTyped, ThreadsTyped,
     DeletionPhases
<1>14. ASSUME ExpireReceipt PROVE DeletionAgrees'
  BY <1>14, ConstantsAssumption DEF ExpireReceipt, disk, metadata, git, barriers, fences, threads,
     DeletionInv, Shape, DeletionAgrees, DurablyClosed, DownIdle, RowsTyped, ThreadsTyped,
     DeletionPhases
<1>15. ASSUME Crash PROVE DeletionAgrees'
  BY <1>15, ConstantsAssumption DEF Crash, Fault, NoRemover, disk, metadata, git, barriers, fences,
     threads, DeletionInv, Shape, DeletionAgrees, DurablyClosed, DownIdle, RowsTyped, ThreadsTyped,
     DeletionPhases
<1>16. ASSUME Startup PROVE DeletionAgrees'
  BY <1>16, ConstantsAssumption DEF Startup, NoRemover, Push, Resumed, disk, metadata, git,
     barriers, fences, threads, DeletionInv, Shape, DeletionAgrees, DurablyClosed, DownIdle,
     RowsTyped, ThreadsTyped, DeletionPhases
<1>17. ASSUME Serve PROVE DeletionAgrees'
  BY <1>17, ConstantsAssumption DEF Serve, disk, metadata, git, barriers, fences, threads,
     DeletionInv, Shape, DeletionAgrees, DurablyClosed, DownIdle, RowsTyped, ThreadsTyped,
     DeletionPhases
<1>18. ASSUME UNCHANGED <<vaultRow, deletion, repo, worker, deleter, closing, mode>> PROVE DeletionAgrees'
  BY <1>18 DEF DeletionInv, Shape, DeletionAgrees, DurablyClosed, DownIdle, RowsTyped,
     ThreadsTyped, DeletionPhases
<1> QED
  BY <1>1, <1>2, <1>3, <1>4, <1>5, <1>6, <1>7, <1>8, <1>9, <1>10, <1>11, <1>12, <1>13, <1>14,
     <1>15, <1>16, <1>17, <1>18
  DEF Next, RequestStep, ProcessorStep, RemoverStep, WorkerStep, vars, disk, metadata, git,
     barriers, fences, threads, Authenticate, TryAcquireDeviceLease, AcquireDeviceLease,
     AskAdmission, TakeAdmission, HandleCreate, HandleFinalize, HandleOther, ProcessorBegin,
     ProcessorAdmit, ProcessorLock, ProcessorPublish, ProcessorMerge, ProcessorRecord,
     ProcessorFails, Revoke, Resolve, SelectForRemoval, PersistGrant, VerifyForRemoval,
     CommitIntent, CloseDeviceBarrier, DrainDevice, AwaitProcessors, DrainDeviceLeases,
     DrainTimeout, LockForRemoval, DecideRemoval, DeleteRef, RecordRefDeleted, AdmitCleanup,
     EraseDeviceResidue, CompleteRemoval, RemovalFails

\* While the barrier of a running server is open, no deletion is under way.
LEMMA OpenBarrier ==
  ASSUME DeletionInv, ~closing, mode # "down"
  PROVE  deletion = None /\ worker = "none"
BY DEF DeletionInv, DeletionAgrees, DurablyClosed

\* What was drained stays drained.
LEMMA DrainedStep ==
  ASSUME DeletionInv, [Next]_vars PROVE Drained'
<1>1. ASSUME NEW r \in Requests, TryAcquireDeviceLease(r) PROVE Drained'
  BY <1>1, ConstantsAssumption DEF TryAcquireDeviceLease, Finish, Release, disk, metadata, git,
     barriers, fences, threads, DeletionInv, Shape, DeletionAgrees, Drained, DurablyClosed,
     DownIdle, FencesHeld, ThreadsTyped, UploadsNumbered, Holders, Removal, Push
<1>2. ASSUME NEW r \in Requests, AcquireDeviceLease(r) PROVE Drained'
  BY <1>2, ConstantsAssumption DEF AcquireDeviceLease, Finish, Release, disk, metadata, git,
     barriers, fences, threads, DeletionInv, Shape, DeletionAgrees, Drained, DurablyClosed,
     DownIdle, FencesHeld, ThreadsTyped, UploadsNumbered, Holders, Removal, Push
<1>3. ASSUME NEW r \in Requests, AskAdmission(r) PROVE Drained'
  BY <1>3, ConstantsAssumption DEF AskAdmission, Finish, Release, disk, metadata, git, barriers,
     fences, threads, DeletionInv, Shape, DeletionAgrees, Drained, DurablyClosed, DownIdle,
     FencesHeld, ThreadsTyped, UploadsNumbered, Holders, Removal, Push
<1>4. ASSUME NEW r \in Requests, TakeAdmission(r) PROVE Drained'
  <2>1. mode # "down"
    BY <1>4, ConstantsAssumption DEF TakeAdmission, DeletionInv, Shape, DownIdle
  <2>2. CASE closing
    BY <1>4, <2>2 DEF TakeAdmission, Finish, Release, fences, disk, metadata, DeletionInv, Drained
  <2>3. CASE ~closing
    BY <1>4, <2>1, <2>3, OpenBarrier, ConstantsAssumption
       DEF TakeAdmission, disk, metadata, Drained, DeletionPhases
  <2> QED BY <2>2, <2>3
<1>5. ASSUME NEW r \in Requests, HandleCreate(r) PROVE Drained'
  BY <1>5, ConstantsAssumption DEF HandleCreate, Finish, Release, disk, metadata, git, barriers,
     fences, threads, DeletionInv, Shape, DeletionAgrees, Drained, DurablyClosed, DownIdle,
     FencesHeld, ThreadsTyped, UploadsNumbered, Holders, Removal, Push
<1>6. ASSUME NEW r \in Requests, HandleFinalize(r) PROVE Drained'
  BY <1>6, ConstantsAssumption DEF HandleFinalize, Push, disk, metadata, git, barriers, fences,
     threads, DeletionInv, Shape, DeletionAgrees, Drained, DurablyClosed, DownIdle, FencesHeld,
     ThreadsTyped, UploadsNumbered, Holders, Removal, Push
<1>7. ASSUME NEW r \in Requests, HandleOther(r) PROVE Drained'
  BY <1>7, ConstantsAssumption DEF HandleOther, Finish, Release, disk, metadata, git, barriers,
     fences, threads, DeletionInv, Shape, DeletionAgrees, Drained, DurablyClosed, DownIdle,
     FencesHeld, ThreadsTyped, UploadsNumbered, Holders, Removal, Push
<1>8. ASSUME NEW c \in Commits, ProcessorBegin(c) PROVE Drained'
  BY <1>8, ConstantsAssumption DEF ProcessorBegin, Exit, Release, Push, disk, metadata, git,
     barriers, fences, threads, DeletionInv, Shape, DeletionAgrees, Drained, DurablyClosed,
     DownIdle, FencesHeld, ThreadsTyped, UploadsNumbered, Holders, Removal, Push
<1>9. ASSUME NEW c \in Commits, ProcessorAdmit(c) PROVE Drained'
  BY <1>9, ConstantsAssumption DEF ProcessorAdmit, Exit, Release, Push, disk, metadata, git,
     barriers, fences, threads, DeletionInv, Shape, DeletionAgrees, Drained, DurablyClosed,
     DownIdle, FencesHeld, ThreadsTyped, UploadsNumbered, Holders, Removal, Push
<1>10. ASSUME NEW c \in Commits, ProcessorLock(c) PROVE Drained'
  BY <1>10, ConstantsAssumption DEF ProcessorLock, Exit, Release, Push, disk, metadata, git,
     barriers, fences, threads, DeletionInv, Shape, DeletionAgrees, Drained, DurablyClosed,
     DownIdle, FencesHeld, ThreadsTyped, UploadsNumbered, Holders, Removal, Push
<1>11. ASSUME NEW c \in Commits, ProcessorPublish(c) PROVE Drained'
  BY <1>11, ConstantsAssumption DEF ProcessorPublish, ReleaseAdmission, Push, disk, metadata, git,
     barriers, fences, threads, DeletionInv, Shape, DeletionAgrees, Drained, DurablyClosed,
     DownIdle, FencesHeld, ThreadsTyped, UploadsNumbered, Holders, Removal, Push
<1>12. ASSUME NEW c \in Commits, ProcessorMerge(c) PROVE Drained'
  BY <1>12, ConstantsAssumption DEF ProcessorMerge, ReleaseAdmission, Push, disk, metadata, git,
     barriers, fences, threads, DeletionInv, Shape, DeletionAgrees, Drained, DurablyClosed,
     DownIdle, FencesHeld, ThreadsTyped, UploadsNumbered, Holders, Removal, Push
<1>13. ASSUME NEW c \in Commits, ProcessorRecord(c) PROVE Drained'
  BY <1>13, ConstantsAssumption DEF ProcessorRecord, Exit, Release, Push, disk, metadata, git,
     barriers, fences, threads, DeletionInv, Shape, DeletionAgrees, Drained, DurablyClosed,
     DownIdle, FencesHeld, ThreadsTyped, UploadsNumbered, Holders, Removal, Push
<1>14. ASSUME NEW c \in Commits, ProcessorFails(c) PROVE Drained'
  BY <1>14, ConstantsAssumption DEF ProcessorFails, ReleaseAdmission, Push, Fault, disk, metadata,
     git, barriers, fences, threads, DeletionInv, Shape, DeletionAgrees, Drained, DurablyClosed,
     DownIdle, FencesHeld, ThreadsTyped, UploadsNumbered, Holders, Removal, Push
<1>15. ASSUME DrainDevice PROVE Drained'
  <2>1. \A c \in Commits : session[c] = None => session'[c] = None
    BY <1>15, ConstantsAssumption
       DEF DrainDevice, AbortedSessions, Unfinished, DeletionInv, Shape, UploadsNumbered, UploadStates
  <2> QED BY <1>15, <2>1, ConstantsAssumption
          DEF DrainDevice, StopRemover, Release, fences, DeletionInv, DeletionAgrees, Drained
<1>16. ASSUME DrainTimeout PROVE Drained'
  BY <1>16, ConstantsAssumption DEF DrainTimeout, FailRemoval, StopRemover, NoRemover, Release,
     Removal, disk, metadata, git, barriers, fences, threads, DeletionInv, Shape, DeletionAgrees,
     Drained, DurablyClosed, DownIdle, FencesHeld, ThreadsTyped, UploadsNumbered, Holders, Removal,
     Push
<1>17. ASSUME LockForRemoval PROVE Drained'
  <2>1. mode # "down"
    BY <1>17, ConstantsAssumption DEF LockForRemoval, DeletionInv, Shape, DownIdle
  <2>2. CASE closing
    BY <1>17, <2>2 DEF LockForRemoval, FailRemoval, StopRemover, Release, fences, disk, metadata, DeletionInv, Drained
  <2>3. CASE ~closing
    BY <1>17, <2>1, <2>3, OpenBarrier, ConstantsAssumption
       DEF LockForRemoval, disk, metadata, Drained, DeletionPhases
  <2> QED BY <2>2, <2>3
<1>18. ASSUME DecideRemoval PROVE Drained'
  BY <1>18, ConstantsAssumption DEF DecideRemoval, StopRemover, NoRemover, Release, Removal, disk,
     metadata, git, barriers, fences, threads, DeletionInv, Shape, DeletionAgrees, Drained,
     DurablyClosed, DownIdle, FencesHeld, ThreadsTyped, UploadsNumbered, Holders, Removal, Push
<1>19. ASSUME RecordRefDeleted PROVE Drained'
  BY <1>19, ConstantsAssumption DEF RecordRefDeleted, StopRemover, NoRemover, Release, Removal,
     disk, metadata, git, barriers, fences, threads, DeletionInv, Shape, DeletionAgrees, Drained,
     DurablyClosed, DownIdle, FencesHeld, ThreadsTyped, UploadsNumbered, Holders, Removal, Push
<1>20. ASSUME AdmitCleanup PROVE Drained'
  <2>1. mode # "down"
    BY <1>20, ConstantsAssumption DEF AdmitCleanup, DeletionInv, Shape, DownIdle
  <2>2. CASE closing
    BY <1>20, <2>2 DEF AdmitCleanup, FailRemoval, StopRemover, Release, fences, disk, metadata, DeletionInv, Drained
  <2>3. CASE ~closing
    BY <1>20, <2>1, <2>3, OpenBarrier, ConstantsAssumption
       DEF AdmitCleanup, disk, metadata, Drained, DeletionPhases
  <2> QED BY <2>2, <2>3
<1>21. ASSUME EraseDeviceResidue PROVE Drained'
  BY <1>21, ConstantsAssumption DEF EraseDeviceResidue, StopRemover, NoRemover, Release, Removal,
     disk, metadata, git, barriers, fences, threads, DeletionInv, Shape, DeletionAgrees, Drained,
     DurablyClosed, DownIdle, FencesHeld, ThreadsTyped, UploadsNumbered, Holders, Removal, Push
<1>22. ASSUME CompleteRemoval PROVE Drained'
  BY <1>22, ConstantsAssumption DEF CompleteRemoval, StopRemover, NoRemover, Release, Removal,
     disk, metadata, git, barriers, fences, threads, DeletionInv, Shape, DeletionAgrees, Drained,
     DurablyClosed, DownIdle, FencesHeld, ThreadsTyped, UploadsNumbered, Holders, Removal, Push
<1>23. ASSUME RemovalFails PROVE Drained'
  BY <1>23, ConstantsAssumption DEF RemovalFails, FailRemoval, Fault, StopRemover, NoRemover,
     Release, Removal, disk, metadata, git, barriers, fences, threads, DeletionInv, Shape,
     DeletionAgrees, Drained, DurablyClosed, DownIdle, FencesHeld, ThreadsTyped, UploadsNumbered,
     Holders, Removal, Push
<1>24. ASSUME CommitDeletion PROVE Drained'
  BY <1>24, ConstantsAssumption DEF CommitDeletion, disk, metadata, git, barriers, fences, threads,
     DeletionInv, Shape, DeletionAgrees, Drained, DurablyClosed, DownIdle, FencesHeld,
     ThreadsTyped, UploadsNumbered, Holders, Removal, Push
<1>25. ASSUME StartDeletion PROVE Drained'
  BY <1>25, ConstantsAssumption DEF StartDeletion, disk, metadata, git, barriers, fences, threads,
     DeletionInv, Shape, DeletionAgrees, Drained, DurablyClosed, DownIdle, FencesHeld,
     ThreadsTyped, UploadsNumbered, Holders, Removal, Push
<1>26. ASSUME DrainVault PROVE Drained'
  <2>1. \A c \in Commits : session[c] = None => session'[c] = None
    BY <1>26, ConstantsAssumption
       DEF DrainVault, AbortedSessions, Unfinished, DeletionInv, Shape, UploadsNumbered, UploadStates
  <2> QED BY <1>26, <2>1, ConstantsAssumption
          DEF DrainVault, StopRemover, Release, fences, DeletionInv, DeletionAgrees, Drained
<1>27. ASSUME AwaitVaultProcessors PROVE Drained'
  BY <1>27, ConstantsAssumption DEF AwaitVaultProcessors, disk, metadata, git, barriers, fences,
     threads, DeletionInv, Shape, DeletionAgrees, Drained, DurablyClosed, DownIdle, FencesHeld,
     ThreadsTyped, UploadsNumbered, Holders, Removal, Push
<1>28. ASSUME WaitForDrain PROVE Drained'
  BY <1>28, ConstantsAssumption DEF WaitForDrain, disk, metadata, git, barriers, fences, threads,
     DeletionInv, Shape, DeletionAgrees, Drained, DurablyClosed, DownIdle, FencesHeld,
     ThreadsTyped, UploadsNumbered, Holders, Removal, Push
<1>29. ASSUME EraseVaultResidue PROVE Drained'
  BY <1>29, ConstantsAssumption DEF EraseVaultResidue, disk, metadata, git, barriers, fences,
     threads, DeletionInv, Shape, DeletionAgrees, Drained, DurablyClosed, DownIdle, FencesHeld,
     ThreadsTyped, UploadsNumbered, Holders, Removal, Push
<1>30. ASSUME EnterErasure PROVE Drained'
  BY <1>30, ConstantsAssumption DEF EnterErasure, disk, metadata, git, barriers, fences, threads,
     DeletionInv, Shape, DeletionAgrees, Drained, DurablyClosed, DownIdle, FencesHeld,
     ThreadsTyped, UploadsNumbered, Holders, Removal, Push
<1>31. ASSUME EraseGit PROVE Drained'
  BY <1>31, ConstantsAssumption DEF EraseGit, disk, metadata, git, barriers, fences, threads,
     DeletionInv, Shape, DeletionAgrees, Drained, DurablyClosed, DownIdle, FencesHeld,
     ThreadsTyped, UploadsNumbered, Holders, Removal, Push
<1>32. ASSUME EnterFinalizing PROVE Drained'
  BY <1>32, ConstantsAssumption DEF EnterFinalizing, disk, metadata, git, barriers, fences,
     threads, DeletionInv, Shape, DeletionAgrees, Drained, DurablyClosed, DownIdle, FencesHeld,
     ThreadsTyped, UploadsNumbered, Holders, Removal, Push
<1>33. ASSUME FinalizeDb PROVE Drained'
  BY <1>33, ConstantsAssumption DEF FinalizeDb, disk, metadata, git, barriers, fences, threads,
     DeletionInv, Shape, DeletionAgrees, Drained, DurablyClosed, DownIdle, FencesHeld,
     ThreadsTyped, UploadsNumbered, Holders, Removal, Push
<1>34. ASSUME WorkerFails PROVE Drained'
  BY <1>34, ConstantsAssumption DEF WorkerFails, Fault, disk, metadata, git, barriers, fences,
     threads, DeletionInv, Shape, DeletionAgrees, Drained, DurablyClosed, DownIdle, FencesHeld,
     ThreadsTyped, UploadsNumbered, Holders, Removal, Push
<1>35. ASSUME ExpireReceipt PROVE Drained'
  BY <1>35, ConstantsAssumption DEF ExpireReceipt, disk, metadata, git, barriers, fences, threads,
     DeletionInv, Shape, DeletionAgrees, Drained, DurablyClosed, DownIdle, FencesHeld,
     ThreadsTyped, UploadsNumbered, Holders, Removal, Push
<1>36. ASSUME Crash PROVE Drained'
  BY <1>36, ConstantsAssumption DEF Crash, Fault, NoRemover, disk, metadata, git, barriers, fences,
     threads, DeletionInv, Shape, DeletionAgrees, Drained, DurablyClosed, DownIdle, FencesHeld,
     ThreadsTyped, UploadsNumbered, Holders, Removal, Push
<1>37. ASSUME Startup PROVE Drained'
  BY <1>37, ConstantsAssumption DEF Startup, NoRemover, Push, Resumed, disk, metadata, git,
     barriers, fences, threads, DeletionInv, Shape, DeletionAgrees, Drained, DurablyClosed,
     DownIdle, FencesHeld, ThreadsTyped, UploadsNumbered, Holders, Removal, Push
<1>38. ASSUME UNCHANGED <<worker, processor, active, session, deletion>> PROVE Drained'
  BY <1>38 DEF DeletionInv, Shape, DeletionAgrees, Drained, DurablyClosed, DownIdle, FencesHeld,
     ThreadsTyped, UploadsNumbered, Holders, Removal, Push
<1> QED
  BY <1>1, <1>2, <1>3, <1>4, <1>5, <1>6, <1>7, <1>8, <1>9, <1>10, <1>11, <1>12, <1>13, <1>14,
     <1>15, <1>16, <1>17, <1>18, <1>19, <1>20, <1>21, <1>22, <1>23, <1>24, <1>25, <1>26, <1>27,
     <1>28, <1>29, <1>30, <1>31, <1>32, <1>33, <1>34, <1>35, <1>36, <1>37, <1>38
  DEF Next, RequestStep, ProcessorStep, RemoverStep, WorkerStep, vars, disk, metadata, git,
     barriers, fences, threads, Authenticate, Revoke, Resolve, SelectForRemoval, PersistGrant,
     VerifyForRemoval, CommitIntent, CloseDeviceBarrier, AwaitProcessors, DrainDeviceLeases,
     DeleteRef, BeginDeletion, CommitDeletionFails, Serve

\* Only revoked devices are removed.
LEMMA RemovalOfRevokedStep ==
  ASSUME RemovalInv, [Next]_vars PROVE RemovalOfRevoked'
<1>1. ASSUME Revoke PROVE RemovalOfRevoked'
  BY <1>1, ConstantsAssumption DEF Revoke, disk, metadata, git, barriers, fences, threads,
     RemovalInv, DeletionInv, Shape, RowsTyped, DeletionAgrees, RemovalOfRevoked, RemovalInQuiet,
     DownIdle, RemoverTyped, Removers
<1>2. ASSUME SelectForRemoval PROVE RemovalOfRevoked'
  BY <1>2, ConstantsAssumption DEF SelectForRemoval, disk, metadata, git, barriers, fences,
     threads, RemovalInv, DeletionInv, Shape, RowsTyped, DeletionAgrees, RemovalOfRevoked,
     RemovalInQuiet, DownIdle, RemoverTyped, Removers
<1>3. ASSUME PersistGrant PROVE RemovalOfRevoked'
  BY <1>3, ConstantsAssumption DEF PersistGrant, NoRemover, disk, metadata, git, barriers, fences,
     threads, RemovalInv, DeletionInv, Shape, RowsTyped, DeletionAgrees, RemovalOfRevoked,
     RemovalInQuiet, DownIdle, RemoverTyped, Removers
<1>4. ASSUME VerifyForRemoval PROVE RemovalOfRevoked'
  BY <1>4, ConstantsAssumption DEF VerifyForRemoval, NoRemover, disk, metadata, git, barriers,
     fences, threads, RemovalInv, DeletionInv, Shape, RowsTyped, DeletionAgrees, RemovalOfRevoked,
     RemovalInQuiet, DownIdle, RemoverTyped, Removers
<1>5. ASSUME CommitIntent PROVE RemovalOfRevoked'
  BY <1>5, ConstantsAssumption DEF CommitIntent, NoRemover, disk, metadata, git, barriers, fences,
     threads, RemovalInv, DeletionInv, Shape, RowsTyped, DeletionAgrees, RemovalOfRevoked,
     RemovalInQuiet, DownIdle, RemoverTyped, Removers
<1>6. ASSUME CloseDeviceBarrier PROVE RemovalOfRevoked'
  BY <1>6, ConstantsAssumption DEF CloseDeviceBarrier, disk, metadata, git, barriers, fences,
     threads, RemovalInv, DeletionInv, Shape, RowsTyped, DeletionAgrees, RemovalOfRevoked,
     RemovalInQuiet, DownIdle, RemoverTyped, Removers
<1>7. ASSUME DrainDevice PROVE RemovalOfRevoked'
  BY <1>7, ConstantsAssumption DEF DrainDevice, StopRemover, NoRemover, Release, Removal,
     AbortedSessions, disk, metadata, git, barriers, fences, threads, RemovalInv, DeletionInv,
     Shape, RowsTyped, DeletionAgrees, RemovalOfRevoked, RemovalInQuiet, DownIdle, RemoverTyped,
     Removers
<1>8. ASSUME AwaitProcessors PROVE RemovalOfRevoked'
  BY <1>8, ConstantsAssumption DEF AwaitProcessors, disk, metadata, git, barriers, fences, threads,
     RemovalInv, DeletionInv, Shape, RowsTyped, DeletionAgrees, RemovalOfRevoked, RemovalInQuiet,
     DownIdle, RemoverTyped, Removers
<1>9. ASSUME DrainDeviceLeases PROVE RemovalOfRevoked'
  BY <1>9, ConstantsAssumption DEF DrainDeviceLeases, disk, metadata, git, barriers, fences,
     threads, RemovalInv, DeletionInv, Shape, RowsTyped, DeletionAgrees, RemovalOfRevoked,
     RemovalInQuiet, DownIdle, RemoverTyped, Removers
<1>10. ASSUME DrainTimeout PROVE RemovalOfRevoked'
  BY <1>10, ConstantsAssumption DEF DrainTimeout, FailRemoval, StopRemover, NoRemover, Release,
     Removal, disk, metadata, git, barriers, fences, threads, RemovalInv, DeletionInv, Shape,
     RowsTyped, DeletionAgrees, RemovalOfRevoked, RemovalInQuiet, DownIdle, RemoverTyped, Removers
<1>11. ASSUME LockForRemoval PROVE RemovalOfRevoked'
  BY <1>11, ConstantsAssumption DEF LockForRemoval, FailRemoval, StopRemover, NoRemover, Release,
     Removal, disk, metadata, git, barriers, fences, threads, RemovalInv, DeletionInv, Shape,
     RowsTyped, DeletionAgrees, RemovalOfRevoked, RemovalInQuiet, DownIdle, RemoverTyped, Removers
<1>12. ASSUME DecideRemoval PROVE RemovalOfRevoked'
  <2>1. UNCHANGED <<vaultRow, device>> /\ remover.at # "idle"
    BY <1>12 DEF DecideRemoval
  <2>2. removal' # None => removal # None
    BY <1>12 DEF DecideRemoval, Superseded
  <2> QED BY <2>1, <2>2 DEF RemovalInv, RemovalOfRevoked
<1>13. ASSUME DeleteRef PROVE RemovalOfRevoked'
  BY <1>13, ConstantsAssumption DEF DeleteRef, disk, metadata, git, barriers, fences, threads,
     RemovalInv, DeletionInv, Shape, RowsTyped, DeletionAgrees, RemovalOfRevoked, RemovalInQuiet,
     DownIdle, RemoverTyped, Removers
<1>14. ASSUME RecordRefDeleted PROVE RemovalOfRevoked'
  BY <1>14, ConstantsAssumption DEF RecordRefDeleted, StopRemover, NoRemover, Release, Removal,
     disk, metadata, git, barriers, fences, threads, RemovalInv, DeletionInv, Shape, RowsTyped,
     DeletionAgrees, RemovalOfRevoked, RemovalInQuiet, DownIdle, RemoverTyped, Removers
<1>15. ASSUME AdmitCleanup PROVE RemovalOfRevoked'
  BY <1>15, ConstantsAssumption DEF AdmitCleanup, FailRemoval, StopRemover, NoRemover, Release,
     Removal, disk, metadata, git, barriers, fences, threads, RemovalInv, DeletionInv, Shape,
     RowsTyped, DeletionAgrees, RemovalOfRevoked, RemovalInQuiet, DownIdle, RemoverTyped, Removers
<1>16. ASSUME EraseDeviceResidue PROVE RemovalOfRevoked'
  BY <1>16, ConstantsAssumption DEF EraseDeviceResidue, StopRemover, NoRemover, Release, Removal,
     disk, metadata, git, barriers, fences, threads, RemovalInv, DeletionInv, Shape, RowsTyped,
     DeletionAgrees, RemovalOfRevoked, RemovalInQuiet, DownIdle, RemoverTyped, Removers
<1>17. ASSUME CompleteRemoval PROVE RemovalOfRevoked'
  BY <1>17, ConstantsAssumption DEF CompleteRemoval, StopRemover, NoRemover, Release, Removal,
     disk, metadata, git, barriers, fences, threads, RemovalInv, DeletionInv, Shape, RowsTyped,
     DeletionAgrees, RemovalOfRevoked, RemovalInQuiet, DownIdle, RemoverTyped, Removers
<1>18. ASSUME RemovalFails PROVE RemovalOfRevoked'
  BY <1>18, ConstantsAssumption DEF RemovalFails, FailRemoval, Fault, StopRemover, NoRemover,
     Release, Removal, disk, metadata, git, barriers, fences, threads, RemovalInv, DeletionInv,
     Shape, RowsTyped, DeletionAgrees, RemovalOfRevoked, RemovalInQuiet, DownIdle, RemoverTyped,
     Removers
<1>19. ASSUME CommitDeletion PROVE RemovalOfRevoked'
  BY <1>19, ConstantsAssumption DEF CommitDeletion, disk, metadata, git, barriers, fences, threads,
     RemovalInv, DeletionInv, Shape, RowsTyped, DeletionAgrees, RemovalOfRevoked, RemovalInQuiet,
     DownIdle, RemoverTyped, Removers
<1>20. ASSUME FinalizeDb PROVE RemovalOfRevoked'
  BY <1>20, ConstantsAssumption DEF FinalizeDb, disk, metadata, git, barriers, fences, threads,
     RemovalInv, DeletionInv, Shape, RowsTyped, DeletionAgrees, RemovalOfRevoked, RemovalInQuiet,
     DownIdle, RemoverTyped, Removers
<1>21. ASSUME Crash PROVE RemovalOfRevoked'
  BY <1>21, ConstantsAssumption DEF Crash, Fault, NoRemover, disk, metadata, git, barriers, fences,
     threads, RemovalInv, DeletionInv, Shape, RowsTyped, DeletionAgrees, RemovalOfRevoked,
     RemovalInQuiet, DownIdle, RemoverTyped, Removers
<1>22. ASSUME Startup PROVE RemovalOfRevoked'
  BY <1>22, ConstantsAssumption DEF Startup, NoRemover, Push, Resumed, disk, metadata, git,
     barriers, fences, threads, RemovalInv, DeletionInv, Shape, RowsTyped, DeletionAgrees,
     RemovalOfRevoked, RemovalInQuiet, DownIdle, RemoverTyped, Removers
<1>23. ASSUME UNCHANGED <<removal, remover, vaultRow, device>> PROVE RemovalOfRevoked'
  BY <1>23 DEF RemovalInv, DeletionInv, Shape, RowsTyped, DeletionAgrees, RemovalOfRevoked,
     RemovalInQuiet, DownIdle, RemoverTyped, Removers
<1> QED
  BY <1>1, <1>2, <1>3, <1>4, <1>5, <1>6, <1>7, <1>8, <1>9, <1>10, <1>11, <1>12, <1>13, <1>14,
     <1>15, <1>16, <1>17, <1>18, <1>19, <1>20, <1>21, <1>22, <1>23
  DEF Next, RequestStep, ProcessorStep, RemoverStep, WorkerStep, vars, disk, metadata, git,
     barriers, fences, threads, Authenticate, TryAcquireDeviceLease, AcquireDeviceLease,
     AskAdmission, TakeAdmission, HandleCreate, HandleFinalize, HandleOther, ProcessorBegin,
     ProcessorAdmit, ProcessorLock, ProcessorPublish, ProcessorMerge, ProcessorRecord,
     ProcessorFails, Resolve, BeginDeletion, CommitDeletionFails, StartDeletion, DrainVault,
     AwaitVaultProcessors, WaitForDrain, EraseVaultResidue, EnterErasure, EraseGit,
     EnterFinalizing, WorkerFails, ExpireReceipt, Serve

\* removal.
LEMMA RemovalInQuietStep ==
  ASSUME RemovalInv, [Next]_vars PROVE RemovalInQuiet'
<1>1. ASSUME NEW r \in Requests, Authenticate(r) PROVE RemovalInQuiet'
  BY <1>1, ConstantsAssumption DEF Authenticate, disk, metadata, git, barriers, fences, threads,
     RemovalInv, DeletionInv, Shape, RowsTyped, Jobs, UploadsNumbered, ThreadsTyped, RemoverTyped,
     Removers, FencesHeld, DeletionAgrees, RemovalOfRevoked, RemovalInQuiet, Quiet, PastDrain,
     DownIdle
<1>2. ASSUME NEW r \in Requests, TryAcquireDeviceLease(r) PROVE RemovalInQuiet'
  BY <1>2, ConstantsAssumption DEF TryAcquireDeviceLease, Finish, Release, disk, metadata, git,
     barriers, fences, threads, RemovalInv, DeletionInv, Shape, RowsTyped, Jobs, UploadsNumbered,
     ThreadsTyped, RemoverTyped, Removers, FencesHeld, DeletionAgrees, RemovalOfRevoked,
     RemovalInQuiet, Quiet, PastDrain, DownIdle
<1>3. ASSUME NEW r \in Requests, AcquireDeviceLease(r) PROVE RemovalInQuiet'
  BY <1>3, ConstantsAssumption DEF AcquireDeviceLease, Finish, Release, disk, metadata, git,
     barriers, fences, threads, RemovalInv, DeletionInv, Shape, RowsTyped, Jobs, UploadsNumbered,
     ThreadsTyped, RemoverTyped, Removers, FencesHeld, DeletionAgrees, RemovalOfRevoked,
     RemovalInQuiet, Quiet, PastDrain, DownIdle
<1>4. ASSUME NEW r \in Requests, AskAdmission(r) PROVE RemovalInQuiet'
  BY <1>4, ConstantsAssumption DEF AskAdmission, Finish, Release, disk, metadata, git, barriers,
     fences, threads, RemovalInv, DeletionInv, Shape, RowsTyped, Jobs, UploadsNumbered,
     ThreadsTyped, RemoverTyped, Removers, FencesHeld, DeletionAgrees, RemovalOfRevoked,
     RemovalInQuiet, Quiet, PastDrain, DownIdle
<1>5. ASSUME NEW r \in Requests, TakeAdmission(r) PROVE RemovalInQuiet'
  BY <1>5, ConstantsAssumption DEF TakeAdmission, Finish, Release, disk, metadata, git, barriers,
     fences, threads, RemovalInv, DeletionInv, Shape, RowsTyped, Jobs, UploadsNumbered,
     ThreadsTyped, RemoverTyped, Removers, FencesHeld, DeletionAgrees, RemovalOfRevoked,
     RemovalInQuiet, Quiet, PastDrain, DownIdle
<1>6. ASSUME NEW r \in Requests, HandleCreate(r) PROVE RemovalInQuiet'
  BY <1>6, ConstantsAssumption DEF HandleCreate, Finish, Release, disk, metadata, git, barriers,
     fences, threads, RemovalInv, DeletionInv, Shape, RowsTyped, Jobs, UploadsNumbered,
     ThreadsTyped, RemoverTyped, Removers, FencesHeld, DeletionAgrees, RemovalOfRevoked,
     RemovalInQuiet, Quiet, PastDrain, DownIdle
<1>7. ASSUME NEW r \in Requests, HandleFinalize(r) PROVE RemovalInQuiet'
  BY <1>7, ConstantsAssumption DEF HandleFinalize, Push, disk, metadata, git, barriers, fences,
     threads, RemovalInv, DeletionInv, Shape, RowsTyped, Jobs, UploadsNumbered, ThreadsTyped,
     RemoverTyped, Removers, FencesHeld, DeletionAgrees, RemovalOfRevoked, RemovalInQuiet, Quiet,
     PastDrain, DownIdle
<1>8. ASSUME NEW r \in Requests, HandleOther(r) PROVE RemovalInQuiet'
  BY <1>8, ConstantsAssumption DEF HandleOther, Finish, Release, disk, metadata, git, barriers,
     fences, threads, RemovalInv, DeletionInv, Shape, RowsTyped, Jobs, UploadsNumbered,
     ThreadsTyped, RemoverTyped, Removers, FencesHeld, DeletionAgrees, RemovalOfRevoked,
     RemovalInQuiet, Quiet, PastDrain, DownIdle
<1>9. ASSUME NEW c \in Commits, ProcessorBegin(c) PROVE RemovalInQuiet'
  BY <1>9, ConstantsAssumption DEF ProcessorBegin, Exit, Release, Push, disk, metadata, git,
     barriers, fences, threads, RemovalInv, DeletionInv, Shape, RowsTyped, Jobs, UploadsNumbered,
     ThreadsTyped, RemoverTyped, Removers, FencesHeld, DeletionAgrees, RemovalOfRevoked,
     RemovalInQuiet, Quiet, PastDrain, DownIdle
<1>10. ASSUME NEW c \in Commits, ProcessorAdmit(c) PROVE RemovalInQuiet'
  BY <1>10, ConstantsAssumption DEF ProcessorAdmit, Exit, Release, Push, disk, metadata, git,
     barriers, fences, threads, RemovalInv, DeletionInv, Shape, RowsTyped, Jobs, UploadsNumbered,
     ThreadsTyped, RemoverTyped, Removers, FencesHeld, DeletionAgrees, RemovalOfRevoked,
     RemovalInQuiet, Quiet, PastDrain, DownIdle
<1>11. ASSUME NEW c \in Commits, ProcessorLock(c) PROVE RemovalInQuiet'
  BY <1>11, ConstantsAssumption DEF ProcessorLock, Exit, Release, Push, disk, metadata, git,
     barriers, fences, threads, RemovalInv, DeletionInv, Shape, RowsTyped, Jobs, UploadsNumbered,
     ThreadsTyped, RemoverTyped, Removers, FencesHeld, DeletionAgrees, RemovalOfRevoked,
     RemovalInQuiet, Quiet, PastDrain, DownIdle
<1>12. ASSUME NEW c \in Commits, ProcessorPublish(c) PROVE RemovalInQuiet'
  BY <1>12, ConstantsAssumption DEF ProcessorPublish, ReleaseAdmission, Push, disk, metadata, git,
     barriers, fences, threads, RemovalInv, DeletionInv, Shape, RowsTyped, Jobs, UploadsNumbered,
     ThreadsTyped, RemoverTyped, Removers, FencesHeld, DeletionAgrees, RemovalOfRevoked,
     RemovalInQuiet, Quiet, PastDrain, DownIdle
<1>13. ASSUME NEW c \in Commits, ProcessorMerge(c) PROVE RemovalInQuiet'
  BY <1>13, ConstantsAssumption DEF ProcessorMerge, ReleaseAdmission, Push, disk, metadata, git,
     barriers, fences, threads, RemovalInv, DeletionInv, Shape, RowsTyped, Jobs, UploadsNumbered,
     ThreadsTyped, RemoverTyped, Removers, FencesHeld, DeletionAgrees, RemovalOfRevoked,
     RemovalInQuiet, Quiet, PastDrain, DownIdle
<1>14. ASSUME NEW c \in Commits, ProcessorRecord(c) PROVE RemovalInQuiet'
  BY <1>14, ConstantsAssumption DEF ProcessorRecord, Exit, Release, Push, disk, metadata, git,
     barriers, fences, threads, RemovalInv, DeletionInv, Shape, RowsTyped, Jobs, UploadsNumbered,
     ThreadsTyped, RemoverTyped, Removers, FencesHeld, DeletionAgrees, RemovalOfRevoked,
     RemovalInQuiet, Quiet, PastDrain, DownIdle
<1>15. ASSUME NEW c \in Commits, ProcessorFails(c) PROVE RemovalInQuiet'
  BY <1>15, ConstantsAssumption DEF ProcessorFails, ReleaseAdmission, Push, Fault, disk, metadata,
     git, barriers, fences, threads, RemovalInv, DeletionInv, Shape, RowsTyped, Jobs,
     UploadsNumbered, ThreadsTyped, RemoverTyped, Removers, FencesHeld, DeletionAgrees,
     RemovalOfRevoked, RemovalInQuiet, Quiet, PastDrain, DownIdle
<1>16. ASSUME Revoke PROVE RemovalInQuiet'
  BY <1>16, ConstantsAssumption DEF Revoke, disk, metadata, git, barriers, fences, threads,
     RemovalInv, DeletionInv, Shape, RowsTyped, Jobs, UploadsNumbered, ThreadsTyped, RemoverTyped,
     Removers, FencesHeld, DeletionAgrees, RemovalOfRevoked, RemovalInQuiet, Quiet, PastDrain,
     DownIdle
<1>17. ASSUME Resolve PROVE RemovalInQuiet'
  BY <1>17, ConstantsAssumption DEF Resolve, disk, metadata, git, barriers, fences, threads,
     RemovalInv, DeletionInv, Shape, RowsTyped, Jobs, UploadsNumbered, ThreadsTyped, RemoverTyped,
     Removers, FencesHeld, DeletionAgrees, RemovalOfRevoked, RemovalInQuiet, Quiet, PastDrain,
     DownIdle
<1>18. ASSUME SelectForRemoval PROVE RemovalInQuiet'
  BY <1>18, ConstantsAssumption DEF SelectForRemoval, disk, metadata, git, barriers, fences,
     threads, RemovalInv, DeletionInv, Shape, RowsTyped, Jobs, UploadsNumbered, ThreadsTyped,
     RemoverTyped, Removers, FencesHeld, DeletionAgrees, RemovalOfRevoked, RemovalInQuiet, Quiet,
     PastDrain, DownIdle
<1>19. ASSUME PersistGrant PROVE RemovalInQuiet'
  BY <1>19, ConstantsAssumption DEF PersistGrant, NoRemover, disk, metadata, git, barriers, fences,
     threads, RemovalInv, DeletionInv, Shape, RowsTyped, Jobs, UploadsNumbered, ThreadsTyped,
     RemoverTyped, Removers, FencesHeld, DeletionAgrees, RemovalOfRevoked, RemovalInQuiet, Quiet,
     PastDrain, DownIdle
<1>20. ASSUME VerifyForRemoval PROVE RemovalInQuiet'
  BY <1>20, ConstantsAssumption DEF VerifyForRemoval, NoRemover, disk, metadata, git, barriers,
     fences, threads, RemovalInv, DeletionInv, Shape, RowsTyped, Jobs, UploadsNumbered,
     ThreadsTyped, RemoverTyped, Removers, FencesHeld, DeletionAgrees, RemovalOfRevoked,
     RemovalInQuiet, Quiet, PastDrain, DownIdle
<1>21. ASSUME CommitIntent PROVE RemovalInQuiet'
  <2>1. UNCHANGED <<vaultRow, device, conflict, ref, session, request, processor>>
    BY <1>21 DEF CommitIntent, git
  <2>2. remover'.at \in {"idle", "close"}
    BY <1>21 DEF CommitIntent, NoRemover
  <2>3. removal' # None /\ removal'.phase # "intent" => removal # None /\ removal.phase # "intent"
    <3>1. CASE removal = None
      BY <1>21, <3>1 DEF CommitIntent
    <3>2. CASE removal # None
      BY <1>21, <3>2 DEF CommitIntent, RemovalInv, DeletionInv, Shape, RowsTyped, Jobs
    <3> QED BY <3>1, <3>2
  <2>4. ~(device = "gone" /\ vaultRow = "active")
    BY <1>21 DEF CommitIntent, RemovalInv, RemovalInQuiet
  <2> QED BY <2>1, <2>2, <2>3, <2>4 DEF RemovalInv, RemovalInQuiet, Quiet, PastDrain
<1>22. ASSUME CloseDeviceBarrier PROVE RemovalInQuiet'
  BY <1>22, ConstantsAssumption DEF CloseDeviceBarrier, disk, metadata, git, barriers, fences,
     threads, RemovalInv, DeletionInv, Shape, RowsTyped, Jobs, UploadsNumbered, ThreadsTyped,
     RemoverTyped, Removers, FencesHeld, DeletionAgrees, RemovalOfRevoked, RemovalInQuiet, Quiet,
     PastDrain, DownIdle
<1>23. ASSUME DrainDevice PROVE RemovalInQuiet'
  BY <1>23, ConstantsAssumption DEF DrainDevice, StopRemover, NoRemover, Release, Removal,
     AbortedSessions, disk, metadata, git, barriers, fences, threads, RemovalInv, DeletionInv,
     Shape, RowsTyped, Jobs, UploadsNumbered, ThreadsTyped, RemoverTyped, Removers, FencesHeld,
     DeletionAgrees, RemovalOfRevoked, RemovalInQuiet, Quiet, PastDrain, DownIdle, Unfinished
<1>24. ASSUME AwaitProcessors PROVE RemovalInQuiet'
  BY <1>24, ConstantsAssumption DEF AwaitProcessors, disk, metadata, git, barriers, fences,
     threads, RemovalInv, DeletionInv, Shape, RowsTyped, Jobs, UploadsNumbered, ThreadsTyped,
     RemoverTyped, Removers, FencesHeld, DeletionAgrees, RemovalOfRevoked, RemovalInQuiet, Quiet,
     PastDrain, DownIdle
<1>25. ASSUME DrainDeviceLeases PROVE RemovalInQuiet'
  BY <1>25, ConstantsAssumption DEF DrainDeviceLeases, disk, metadata, git, barriers, fences,
     threads, RemovalInv, DeletionInv, Shape, RowsTyped, Jobs, UploadsNumbered, ThreadsTyped,
     RemoverTyped, Removers, FencesHeld, DeletionAgrees, RemovalOfRevoked, RemovalInQuiet, Quiet,
     PastDrain, DownIdle
<1>26. ASSUME DrainTimeout PROVE RemovalInQuiet'
  BY <1>26, ConstantsAssumption DEF DrainTimeout, FailRemoval, StopRemover, NoRemover, Release,
     Removal, disk, metadata, git, barriers, fences, threads, RemovalInv, DeletionInv, Shape,
     RowsTyped, Jobs, UploadsNumbered, ThreadsTyped, RemoverTyped, Removers, FencesHeld,
     DeletionAgrees, RemovalOfRevoked, RemovalInQuiet, Quiet, PastDrain, DownIdle
<1>27. ASSUME LockForRemoval PROVE RemovalInQuiet'
  BY <1>27, ConstantsAssumption DEF LockForRemoval, FailRemoval, StopRemover, NoRemover, Release,
     Removal, disk, metadata, git, barriers, fences, threads, RemovalInv, DeletionInv, Shape,
     RowsTyped, Jobs, UploadsNumbered, ThreadsTyped, RemoverTyped, Removers, FencesHeld,
     DeletionAgrees, RemovalOfRevoked, RemovalInQuiet, Quiet, PastDrain, DownIdle
<1>28. ASSUME DecideRemoval PROVE RemovalInQuiet'
  <2>1. UNCHANGED <<vaultRow, device, conflict, ref, session, request, processor>>
    BY <1>28 DEF DecideRemoval, git
  <2>2. Quiet /\ ~(device = "gone" /\ vaultRow = "active")
    BY <1>28 DEF DecideRemoval, RemovalInv, RemovalInQuiet, PastDrain
  <2>3. CASE Superseded
    BY <1>28, <2>1, <2>2, <2>3 DEF DecideRemoval, StopRemover, NoRemover, RemovalInv, RemovalInQuiet, Quiet, PastDrain
  <2>4. CASE ~Superseded /\ Decide = "cleanup"
    <3>1. remover'.at = "admit"
      BY <1>28, <2>4 DEF DecideRemoval, RemovalInv, DeletionInv, Shape, RemoverTyped, Removers
    <3>2. ref = 0 /\ conflict = 0
      BY <2>4 DEF Decide, Rebound, OpenWork, Superseded, RemovalInv, RemovalInQuiet, DeletionInv, Shape,
                  RowsTyped, Jobs
    <3> QED BY <2>1, <2>2, <3>1, <3>2 DEF RemovalInQuiet, Quiet, PastDrain
  <2>5. CASE ~Superseded /\ Decide \notin {"owner", "cleanup"}
    <3>1. remover'.at = "delete"
      BY <1>28, <2>5 DEF DecideRemoval, RemovalInv, DeletionInv, Shape, RemoverTyped, Removers
    <3>2. conflict = 0
      BY <2>5 DEF Decide, Rebound, OpenWork, Superseded, RemovalInv, RemovalInQuiet, DeletionInv, Shape,
                  RowsTyped, Jobs
    <3> QED BY <2>1, <2>2, <3>1, <3>2 DEF RemovalInQuiet, Quiet, PastDrain
  <2>6. CASE ~Superseded /\ Decide = "owner"
    <3>1. removal' = [(IF ref = 0 THEN removal ELSE Rebound) EXCEPT !.failed = "owner"] /\ remover' = NoRemover
      BY <1>28, <2>6 DEF DecideRemoval, StopRemover
    <3>2. removal \in Jobs /\ removal # None
      BY <2>6 DEF Superseded, RemovalInv, DeletionInv, Shape, RowsTyped
    <3>3. removal'.phase \in {removal.phase, "intent"}
      BY <3>1, <3>2 DEF Rebound, Jobs
    <3> QED BY <2>1, <2>2, <3>1, <3>2, <3>3
            DEF NoRemover, RemovalInv, RemovalInQuiet, Quiet, PastDrain
  <2> QED BY <2>3, <2>4, <2>5, <2>6
<1>29. ASSUME DeleteRef PROVE RemovalInQuiet'
  BY <1>29, ConstantsAssumption DEF DeleteRef, disk, metadata, git, barriers, fences, threads,
     RemovalInv, DeletionInv, Shape, RowsTyped, Jobs, UploadsNumbered, ThreadsTyped, RemoverTyped,
     Removers, FencesHeld, DeletionAgrees, RemovalOfRevoked, RemovalInQuiet, Quiet, PastDrain,
     DownIdle
<1>30. ASSUME RecordRefDeleted PROVE RemovalInQuiet'
  BY <1>30, ConstantsAssumption DEF RecordRefDeleted, StopRemover, NoRemover, Release, Removal,
     disk, metadata, git, barriers, fences, threads, RemovalInv, DeletionInv, Shape, RowsTyped,
     Jobs, UploadsNumbered, ThreadsTyped, RemoverTyped, Removers, FencesHeld, DeletionAgrees,
     RemovalOfRevoked, RemovalInQuiet, Quiet, PastDrain, DownIdle
<1>31. ASSUME AdmitCleanup PROVE RemovalInQuiet'
  BY <1>31, ConstantsAssumption DEF AdmitCleanup, FailRemoval, StopRemover, NoRemover, Release,
     Removal, disk, metadata, git, barriers, fences, threads, RemovalInv, DeletionInv, Shape,
     RowsTyped, Jobs, UploadsNumbered, ThreadsTyped, RemoverTyped, Removers, FencesHeld,
     DeletionAgrees, RemovalOfRevoked, RemovalInQuiet, Quiet, PastDrain, DownIdle
<1>32. ASSUME EraseDeviceResidue PROVE RemovalInQuiet'
  BY <1>32, ConstantsAssumption DEF EraseDeviceResidue, StopRemover, NoRemover, Release, Removal,
     disk, metadata, git, barriers, fences, threads, RemovalInv, DeletionInv, Shape, RowsTyped,
     Jobs, UploadsNumbered, ThreadsTyped, RemoverTyped, Removers, FencesHeld, DeletionAgrees,
     RemovalOfRevoked, RemovalInQuiet, Quiet, PastDrain, DownIdle
<1>33. ASSUME CompleteRemoval PROVE RemovalInQuiet'
  BY <1>33, ConstantsAssumption DEF CompleteRemoval, StopRemover, NoRemover, Release, Removal,
     disk, metadata, git, barriers, fences, threads, RemovalInv, DeletionInv, Shape, RowsTyped,
     Jobs, UploadsNumbered, ThreadsTyped, RemoverTyped, Removers, FencesHeld, DeletionAgrees,
     RemovalOfRevoked, RemovalInQuiet, Quiet, PastDrain, DownIdle
<1>34. ASSUME RemovalFails PROVE RemovalInQuiet'
  BY <1>34, ConstantsAssumption DEF RemovalFails, FailRemoval, Fault, StopRemover, NoRemover,
     Release, Removal, disk, metadata, git, barriers, fences, threads, RemovalInv, DeletionInv,
     Shape, RowsTyped, Jobs, UploadsNumbered, ThreadsTyped, RemoverTyped, Removers, FencesHeld,
     DeletionAgrees, RemovalOfRevoked, RemovalInQuiet, Quiet, PastDrain, DownIdle
<1>35. ASSUME CommitDeletion PROVE RemovalInQuiet'
  BY <1>35, ConstantsAssumption DEF CommitDeletion, disk, metadata, git, barriers, fences, threads,
     RemovalInv, DeletionInv, Shape, RowsTyped, Jobs, UploadsNumbered, ThreadsTyped, RemoverTyped,
     Removers, FencesHeld, DeletionAgrees, RemovalOfRevoked, RemovalInQuiet, Quiet, PastDrain,
     DownIdle
<1>36. ASSUME DrainVault PROVE RemovalInQuiet'
  <2>1. vaultRow = "deleting" /\ UNCHANGED <<remover, device, request, processor, removal, conflict, ref, vaultRow>>
    BY <1>36 DEF DrainVault, git, RemovalInv, DeletionInv, DeletionAgrees
  <2>2. \A c \in Commits : session[c] = None => session'[c] = None
    BY <1>36, ConstantsAssumption DEF DrainVault, AbortedSessions, Unfinished, UploadStates
  <2> QED BY <2>1, <2>2 DEF RemovalInv, RemovalInQuiet, Quiet
<1>37. ASSUME EraseVaultResidue PROVE RemovalInQuiet'
  BY <1>37, ConstantsAssumption DEF EraseVaultResidue, disk, metadata, git, barriers, fences,
     threads, RemovalInv, DeletionInv, Shape, RowsTyped, Jobs, UploadsNumbered, ThreadsTyped,
     RemoverTyped, Removers, FencesHeld, DeletionAgrees, RemovalOfRevoked, RemovalInQuiet, Quiet,
     PastDrain, DownIdle
<1>38. ASSUME EraseGit PROVE RemovalInQuiet'
  BY <1>38, ConstantsAssumption DEF EraseGit, disk, metadata, git, barriers, fences, threads,
     RemovalInv, DeletionInv, Shape, RowsTyped, Jobs, UploadsNumbered, ThreadsTyped, RemoverTyped,
     Removers, FencesHeld, DeletionAgrees, RemovalOfRevoked, RemovalInQuiet, Quiet, PastDrain,
     DownIdle
<1>39. ASSUME FinalizeDb PROVE RemovalInQuiet'
  BY <1>39, ConstantsAssumption DEF FinalizeDb, disk, metadata, git, barriers, fences, threads,
     RemovalInv, DeletionInv, Shape, RowsTyped, Jobs, UploadsNumbered, ThreadsTyped, RemoverTyped,
     Removers, FencesHeld, DeletionAgrees, RemovalOfRevoked, RemovalInQuiet, Quiet, PastDrain,
     DownIdle
<1>40. ASSUME Crash PROVE RemovalInQuiet'
  BY <1>40, ConstantsAssumption DEF Crash, Fault, NoRemover, disk, metadata, git, barriers, fences,
     threads, RemovalInv, DeletionInv, Shape, RowsTyped, Jobs, UploadsNumbered, ThreadsTyped,
     RemoverTyped, Removers, FencesHeld, DeletionAgrees, RemovalOfRevoked, RemovalInQuiet, Quiet,
     PastDrain, DownIdle
<1>41. ASSUME Startup PROVE RemovalInQuiet'
  BY <1>41, ConstantsAssumption DEF Startup, NoRemover, Push, Resumed, disk, metadata, git,
     barriers, fences, threads, RemovalInv, DeletionInv, Shape, RowsTyped, Jobs, UploadsNumbered,
     ThreadsTyped, RemoverTyped, Removers, FencesHeld, DeletionAgrees, RemovalOfRevoked,
     RemovalInQuiet, Quiet, PastDrain, DownIdle
<1>42. ASSUME Serve PROVE RemovalInQuiet'
  BY <1>42, ConstantsAssumption DEF Serve, disk, metadata, git, barriers, fences, threads,
     RemovalInv, DeletionInv, Shape, RowsTyped, Jobs, UploadsNumbered, ThreadsTyped, RemoverTyped,
     Removers, FencesHeld, DeletionAgrees, RemovalOfRevoked, RemovalInQuiet, Quiet, PastDrain,
     DownIdle
<1>43. ASSUME UNCHANGED <<remover, device, request, processor, removal, conflict, ref, session, vaultRow>> PROVE RemovalInQuiet'
  BY <1>43 DEF RemovalInv, DeletionInv, Shape, RowsTyped, Jobs, UploadsNumbered, ThreadsTyped,
     RemoverTyped, Removers, FencesHeld, DeletionAgrees, RemovalOfRevoked, RemovalInQuiet, Quiet,
     PastDrain, DownIdle
<1> QED
  BY <1>1, <1>2, <1>3, <1>4, <1>5, <1>6, <1>7, <1>8, <1>9, <1>10, <1>11, <1>12, <1>13, <1>14,
     <1>15, <1>16, <1>17, <1>18, <1>19, <1>20, <1>21, <1>22, <1>23, <1>24, <1>25, <1>26, <1>27,
     <1>28, <1>29, <1>30, <1>31, <1>32, <1>33, <1>34, <1>35, <1>36, <1>37, <1>38, <1>39, <1>40,
     <1>41, <1>42, <1>43
  DEF Next, RequestStep, ProcessorStep, RemoverStep, WorkerStep, vars, disk, metadata, git,
     barriers, fences, threads, BeginDeletion, CommitDeletionFails, StartDeletion,
     AwaitVaultProcessors, WaitForDrain, EnterErasure, EnterFinalizing, WorkerFails, ExpireReceipt

\* grant.
LEMMA CoveredOrGrantedStep ==
  ASSUME GrantInv, [Next]_vars PROVE CoveredOrGranted'
<1>1. ASSUME NEW r \in Requests, HandleCreate(r) PROVE CoveredOrGranted'
  BY <1>1, ConstantsAssumption DEF HandleCreate, Finish, Release, disk, metadata, git, barriers,
     fences, threads, GrantInv, RemovalInv, DeletionInv, Shape, RowsTyped, Jobs, GitTyped,
     UploadsNumbered, ThreadsTyped, RemoverTyped, Removers, DeletionAgrees, RemovalOfRevoked,
     RemovalInQuiet, Quiet, PastDrain, CoveredOrGranted, Staged
<1>2. ASSUME NEW r \in Requests, HandleFinalize(r) PROVE CoveredOrGranted'
  BY <1>2, ConstantsAssumption DEF HandleFinalize, Push, disk, metadata, git, barriers, fences,
     threads, GrantInv, RemovalInv, DeletionInv, Shape, RowsTyped, Jobs, GitTyped, UploadsNumbered,
     ThreadsTyped, RemoverTyped, Removers, DeletionAgrees, RemovalOfRevoked, RemovalInQuiet, Quiet,
     PastDrain, CoveredOrGranted, Staged
<1>3. ASSUME NEW c \in Commits, ProcessorPublish(c) PROVE CoveredOrGranted'
  BY <1>3, ConstantsAssumption DEF ProcessorPublish, ReleaseAdmission, Push, disk, metadata, git,
     barriers, fences, threads, GrantInv, RemovalInv, DeletionInv, Shape, RowsTyped, Jobs,
     GitTyped, UploadsNumbered, ThreadsTyped, RemoverTyped, Removers, DeletionAgrees,
     RemovalOfRevoked, RemovalInQuiet, Quiet, PastDrain, CoveredOrGranted, Staged
<1>4. ASSUME NEW c \in Commits, ProcessorMerge(c) PROVE CoveredOrGranted'
  BY <1>4, ConstantsAssumption DEF ProcessorMerge, ReleaseAdmission, Push, disk, metadata, git,
     barriers, fences, threads, GrantInv, RemovalInv, DeletionInv, Shape, RowsTyped, Jobs,
     GitTyped, UploadsNumbered, ThreadsTyped, RemoverTyped, Removers, DeletionAgrees,
     RemovalOfRevoked, RemovalInQuiet, Quiet, PastDrain, CoveredOrGranted, Staged
<1>5. ASSUME NEW c \in Commits, ProcessorRecord(c) PROVE CoveredOrGranted'
  BY <1>5, ConstantsAssumption DEF ProcessorRecord, Exit, Release, Push, disk, metadata, git,
     barriers, fences, threads, GrantInv, RemovalInv, DeletionInv, Shape, RowsTyped, Jobs,
     GitTyped, UploadsNumbered, ThreadsTyped, RemoverTyped, Removers, DeletionAgrees,
     RemovalOfRevoked, RemovalInQuiet, Quiet, PastDrain, CoveredOrGranted, Staged
<1>6. ASSUME Resolve PROVE CoveredOrGranted'
  BY <1>6, ConstantsAssumption DEF Resolve, disk, metadata, git, barriers, fences, threads,
     GrantInv, RemovalInv, DeletionInv, Shape, RowsTyped, Jobs, GitTyped, UploadsNumbered,
     ThreadsTyped, RemoverTyped, Removers, DeletionAgrees, RemovalOfRevoked, RemovalInQuiet, Quiet,
     PastDrain, CoveredOrGranted, Staged
<1>7. ASSUME SelectForRemoval PROVE CoveredOrGranted'
  BY <1>7, ConstantsAssumption DEF SelectForRemoval, disk, metadata, git, barriers, fences,
     threads, GrantInv, RemovalInv, DeletionInv, Shape, RowsTyped, Jobs, GitTyped, UploadsNumbered,
     ThreadsTyped, RemoverTyped, Removers, DeletionAgrees, RemovalOfRevoked, RemovalInQuiet, Quiet,
     PastDrain, CoveredOrGranted, Staged
<1>8. ASSUME PersistGrant PROVE CoveredOrGranted'
  BY <1>8, ConstantsAssumption DEF PersistGrant, NoRemover, disk, metadata, git, barriers, fences,
     threads, GrantInv, RemovalInv, DeletionInv, Shape, RowsTyped, Jobs, GitTyped, UploadsNumbered,
     ThreadsTyped, RemoverTyped, Removers, DeletionAgrees, RemovalOfRevoked, RemovalInQuiet, Quiet,
     PastDrain, CoveredOrGranted, Staged
<1>9. ASSUME VerifyForRemoval PROVE CoveredOrGranted'
  BY <1>9, ConstantsAssumption DEF VerifyForRemoval, NoRemover, disk, metadata, git, barriers,
     fences, threads, GrantInv, RemovalInv, DeletionInv, Shape, RowsTyped, Jobs, GitTyped,
     UploadsNumbered, ThreadsTyped, RemoverTyped, Removers, DeletionAgrees, RemovalOfRevoked,
     RemovalInQuiet, Quiet, PastDrain, CoveredOrGranted, Staged
<1>10. ASSUME CommitIntent PROVE CoveredOrGranted'
  <2>1. remover'.at \in {"idle", "close"} /\ UNCHANGED granted
    BY <1>10 DEF CommitIntent, NoRemover
  <2>2. granted = remover.grant
    BY <1>10 DEF CommitIntent, GrantInv, CoveredOrGranted
  <2>3. removal' = removal \/ removal'.discard = remover.grant
    <3>1. CASE removal = None
      BY <1>10, <3>1 DEF CommitIntent
    <3>2. CASE removal # None
      BY <1>10, <3>2 DEF CommitIntent, GrantInv, RemovalInv, DeletionInv, Shape, RowsTyped, Jobs
    <3> QED BY <3>1, <3>2
  <2> QED BY <2>1, <2>2, <2>3 DEF GrantInv, CoveredOrGranted
<1>11. ASSUME CloseDeviceBarrier PROVE CoveredOrGranted'
  BY <1>11, ConstantsAssumption DEF CloseDeviceBarrier, disk, metadata, git, barriers, fences,
     threads, GrantInv, RemovalInv, DeletionInv, Shape, RowsTyped, Jobs, GitTyped, UploadsNumbered,
     ThreadsTyped, RemoverTyped, Removers, DeletionAgrees, RemovalOfRevoked, RemovalInQuiet, Quiet,
     PastDrain, CoveredOrGranted, Staged
<1>12. ASSUME DrainDevice PROVE CoveredOrGranted'
  BY <1>12, ConstantsAssumption DEF DrainDevice, StopRemover, NoRemover, Release, Removal,
     AbortedSessions, disk, metadata, git, barriers, fences, threads, GrantInv, RemovalInv,
     DeletionInv, Shape, RowsTyped, Jobs, GitTyped, UploadsNumbered, ThreadsTyped, RemoverTyped,
     Removers, DeletionAgrees, RemovalOfRevoked, RemovalInQuiet, Quiet, PastDrain,
     CoveredOrGranted, Staged
<1>13. ASSUME AwaitProcessors PROVE CoveredOrGranted'
  BY <1>13, ConstantsAssumption DEF AwaitProcessors, disk, metadata, git, barriers, fences,
     threads, GrantInv, RemovalInv, DeletionInv, Shape, RowsTyped, Jobs, GitTyped, UploadsNumbered,
     ThreadsTyped, RemoverTyped, Removers, DeletionAgrees, RemovalOfRevoked, RemovalInQuiet, Quiet,
     PastDrain, CoveredOrGranted, Staged
<1>14. ASSUME DrainDeviceLeases PROVE CoveredOrGranted'
  BY <1>14, ConstantsAssumption DEF DrainDeviceLeases, disk, metadata, git, barriers, fences,
     threads, GrantInv, RemovalInv, DeletionInv, Shape, RowsTyped, Jobs, GitTyped, UploadsNumbered,
     ThreadsTyped, RemoverTyped, Removers, DeletionAgrees, RemovalOfRevoked, RemovalInQuiet, Quiet,
     PastDrain, CoveredOrGranted, Staged
<1>15. ASSUME DrainTimeout PROVE CoveredOrGranted'
  BY <1>15, ConstantsAssumption DEF DrainTimeout, FailRemoval, StopRemover, NoRemover, Release,
     Removal, disk, metadata, git, barriers, fences, threads, GrantInv, RemovalInv, DeletionInv,
     Shape, RowsTyped, Jobs, GitTyped, UploadsNumbered, ThreadsTyped, RemoverTyped, Removers,
     DeletionAgrees, RemovalOfRevoked, RemovalInQuiet, Quiet, PastDrain, CoveredOrGranted, Staged
<1>16. ASSUME LockForRemoval PROVE CoveredOrGranted'
  BY <1>16, ConstantsAssumption DEF LockForRemoval, FailRemoval, StopRemover, NoRemover, Release,
     Removal, disk, metadata, git, barriers, fences, threads, GrantInv, RemovalInv, DeletionInv,
     Shape, RowsTyped, Jobs, GitTyped, UploadsNumbered, ThreadsTyped, RemoverTyped, Removers,
     DeletionAgrees, RemovalOfRevoked, RemovalInQuiet, Quiet, PastDrain, CoveredOrGranted, Staged
<1>17. ASSUME DecideRemoval PROVE CoveredOrGranted'
  <2>1. UNCHANGED <<vaultRow, ref, main, session, granted>>
    BY <1>17 DEF DecideRemoval, git
  <2>2. CASE Superseded
    BY <1>17, <2>1, <2>2 DEF DecideRemoval, StopRemover, NoRemover, GrantInv, CoveredOrGranted
  <2>3. CASE ~Superseded
    <3>1. removal \in Jobs /\ removal # None
      BY <2>3 DEF Superseded, GrantInv, RemovalInv, DeletionInv, Shape, RowsTyped
    <3>2. Rebound \in Jobs /\ Rebound.discard = removal.discard
      BY <3>1 DEF Rebound, Jobs, GrantInv, RemovalInv, DeletionInv, Shape, GitTyped
    <3>3. removal'.discard = removal.discard
      BY <1>17, <2>3, <3>1, <3>2 DEF DecideRemoval, Jobs
    <3>4. removal.discard => granted
      BY <3>1 DEF GrantInv, CoveredOrGranted
    <3>5. Decide # "owner" => Covered(removal.discard, main)
      BY DEF Decide, Covered
    <3>6. remover'.at = "idle" \/ (Decide # "owner" /\ remover'.at \in {"admit", "delete"})
      BY <1>17, <2>3 DEF DecideRemoval, StopRemover, NoRemover, GrantInv, RemovalInv, DeletionInv, Shape,
                      RemoverTyped, Removers
    <3> QED BY <2>1, <3>3, <3>4, <3>5, <3>6 DEF CoveredOrGranted, Covered, Staged
  <2> QED BY <2>2, <2>3
<1>18. ASSUME DeleteRef PROVE CoveredOrGranted'
  BY <1>18, ConstantsAssumption DEF DeleteRef, disk, metadata, git, barriers, fences, threads,
     GrantInv, RemovalInv, DeletionInv, Shape, RowsTyped, Jobs, GitTyped, UploadsNumbered,
     ThreadsTyped, RemoverTyped, Removers, DeletionAgrees, RemovalOfRevoked, RemovalInQuiet, Quiet,
     PastDrain, CoveredOrGranted, Staged
<1>19. ASSUME RecordRefDeleted PROVE CoveredOrGranted'
  BY <1>19, ConstantsAssumption DEF RecordRefDeleted, StopRemover, NoRemover, Release, Removal,
     disk, metadata, git, barriers, fences, threads, GrantInv, RemovalInv, DeletionInv, Shape,
     RowsTyped, Jobs, GitTyped, UploadsNumbered, ThreadsTyped, RemoverTyped, Removers,
     DeletionAgrees, RemovalOfRevoked, RemovalInQuiet, Quiet, PastDrain, CoveredOrGranted, Staged
<1>20. ASSUME AdmitCleanup PROVE CoveredOrGranted'
  BY <1>20, ConstantsAssumption DEF AdmitCleanup, FailRemoval, StopRemover, NoRemover, Release,
     Removal, disk, metadata, git, barriers, fences, threads, GrantInv, RemovalInv, DeletionInv,
     Shape, RowsTyped, Jobs, GitTyped, UploadsNumbered, ThreadsTyped, RemoverTyped, Removers,
     DeletionAgrees, RemovalOfRevoked, RemovalInQuiet, Quiet, PastDrain, CoveredOrGranted, Staged
<1>21. ASSUME EraseDeviceResidue PROVE CoveredOrGranted'
  BY <1>21, ConstantsAssumption DEF EraseDeviceResidue, StopRemover, NoRemover, Release, Removal,
     disk, metadata, git, barriers, fences, threads, GrantInv, RemovalInv, DeletionInv, Shape,
     RowsTyped, Jobs, GitTyped, UploadsNumbered, ThreadsTyped, RemoverTyped, Removers,
     DeletionAgrees, RemovalOfRevoked, RemovalInQuiet, Quiet, PastDrain, CoveredOrGranted, Staged
<1>22. ASSUME CompleteRemoval PROVE CoveredOrGranted'
  BY <1>22, ConstantsAssumption DEF CompleteRemoval, StopRemover, NoRemover, Release, Removal,
     disk, metadata, git, barriers, fences, threads, GrantInv, RemovalInv, DeletionInv, Shape,
     RowsTyped, Jobs, GitTyped, UploadsNumbered, ThreadsTyped, RemoverTyped, Removers,
     DeletionAgrees, RemovalOfRevoked, RemovalInQuiet, Quiet, PastDrain, CoveredOrGranted, Staged
<1>23. ASSUME RemovalFails PROVE CoveredOrGranted'
  BY <1>23, ConstantsAssumption DEF RemovalFails, FailRemoval, Fault, StopRemover, NoRemover,
     Release, Removal, disk, metadata, git, barriers, fences, threads, GrantInv, RemovalInv,
     DeletionInv, Shape, RowsTyped, Jobs, GitTyped, UploadsNumbered, ThreadsTyped, RemoverTyped,
     Removers, DeletionAgrees, RemovalOfRevoked, RemovalInQuiet, Quiet, PastDrain,
     CoveredOrGranted, Staged
<1>24. ASSUME CommitDeletion PROVE CoveredOrGranted'
  BY <1>24, ConstantsAssumption DEF CommitDeletion, disk, metadata, git, barriers, fences, threads,
     GrantInv, RemovalInv, DeletionInv, Shape, RowsTyped, Jobs, GitTyped, UploadsNumbered,
     ThreadsTyped, RemoverTyped, Removers, DeletionAgrees, RemovalOfRevoked, RemovalInQuiet, Quiet,
     PastDrain, CoveredOrGranted, Staged
<1>25. ASSUME DrainVault PROVE CoveredOrGranted'
  BY <1>25, ConstantsAssumption DEF DrainVault, AbortedSessions, disk, metadata, git, barriers,
     fences, threads, GrantInv, RemovalInv, DeletionInv, Shape, RowsTyped, Jobs, GitTyped,
     UploadsNumbered, ThreadsTyped, RemoverTyped, Removers, DeletionAgrees, RemovalOfRevoked,
     RemovalInQuiet, Quiet, PastDrain, CoveredOrGranted, Staged
<1>26. ASSUME EraseVaultResidue PROVE CoveredOrGranted'
  BY <1>26, ConstantsAssumption DEF EraseVaultResidue, disk, metadata, git, barriers, fences,
     threads, GrantInv, RemovalInv, DeletionInv, Shape, RowsTyped, Jobs, GitTyped, UploadsNumbered,
     ThreadsTyped, RemoverTyped, Removers, DeletionAgrees, RemovalOfRevoked, RemovalInQuiet, Quiet,
     PastDrain, CoveredOrGranted, Staged
<1>27. ASSUME EraseGit PROVE CoveredOrGranted'
  BY <1>27, ConstantsAssumption DEF EraseGit, disk, metadata, git, barriers, fences, threads,
     GrantInv, RemovalInv, DeletionInv, Shape, RowsTyped, Jobs, GitTyped, UploadsNumbered,
     ThreadsTyped, RemoverTyped, Removers, DeletionAgrees, RemovalOfRevoked, RemovalInQuiet, Quiet,
     PastDrain, CoveredOrGranted, Staged
<1>28. ASSUME FinalizeDb PROVE CoveredOrGranted'
  BY <1>28, ConstantsAssumption DEF FinalizeDb, disk, metadata, git, barriers, fences, threads,
     GrantInv, RemovalInv, DeletionInv, Shape, RowsTyped, Jobs, GitTyped, UploadsNumbered,
     ThreadsTyped, RemoverTyped, Removers, DeletionAgrees, RemovalOfRevoked, RemovalInQuiet, Quiet,
     PastDrain, CoveredOrGranted, Staged
<1>29. ASSUME Crash PROVE CoveredOrGranted'
  BY <1>29, ConstantsAssumption DEF Crash, Fault, NoRemover, disk, metadata, git, barriers, fences,
     threads, GrantInv, RemovalInv, DeletionInv, Shape, RowsTyped, Jobs, GitTyped, UploadsNumbered,
     ThreadsTyped, RemoverTyped, Removers, DeletionAgrees, RemovalOfRevoked, RemovalInQuiet, Quiet,
     PastDrain, CoveredOrGranted, Staged
<1>30. ASSUME Startup PROVE CoveredOrGranted'
  BY <1>30, ConstantsAssumption DEF Startup, NoRemover, Push, Resumed, disk, metadata, git,
     barriers, fences, threads, GrantInv, RemovalInv, DeletionInv, Shape, RowsTyped, Jobs,
     GitTyped, UploadsNumbered, ThreadsTyped, RemoverTyped, Removers, DeletionAgrees,
     RemovalOfRevoked, RemovalInQuiet, Quiet, PastDrain, CoveredOrGranted, Staged
<1>31. ASSUME Serve PROVE CoveredOrGranted'
  BY <1>31, ConstantsAssumption DEF Serve, disk, metadata, git, barriers, fences, threads,
     GrantInv, RemovalInv, DeletionInv, Shape, RowsTyped, Jobs, GitTyped, UploadsNumbered,
     ThreadsTyped, RemoverTyped, Removers, DeletionAgrees, RemovalOfRevoked, RemovalInQuiet, Quiet,
     PastDrain, CoveredOrGranted, Staged
<1>32. ASSUME UNCHANGED <<remover, removal, granted, vaultRow, ref, main, session>> PROVE CoveredOrGranted'
  BY <1>32 DEF GrantInv, RemovalInv, DeletionInv, Shape, RowsTyped, Jobs, GitTyped,
     UploadsNumbered, ThreadsTyped, RemoverTyped, Removers, DeletionAgrees, RemovalOfRevoked,
     RemovalInQuiet, Quiet, PastDrain, CoveredOrGranted, Staged
<1> QED
  BY <1>1, <1>2, <1>3, <1>4, <1>5, <1>6, <1>7, <1>8, <1>9, <1>10, <1>11, <1>12, <1>13, <1>14,
     <1>15, <1>16, <1>17, <1>18, <1>19, <1>20, <1>21, <1>22, <1>23, <1>24, <1>25, <1>26, <1>27,
     <1>28, <1>29, <1>30, <1>31, <1>32
  DEF Next, RequestStep, ProcessorStep, RemoverStep, WorkerStep, vars, disk, metadata, git,
     barriers, fences, threads, Authenticate, TryAcquireDeviceLease, AcquireDeviceLease,
     AskAdmission, TakeAdmission, HandleOther, ProcessorBegin, ProcessorAdmit, ProcessorLock,
     ProcessorFails, Revoke, BeginDeletion, CommitDeletionFails, StartDeletion,
     AwaitVaultProcessors, WaitForDrain, EnterErasure, EnterFinalizing, WorkerFails, ExpireReceipt

-----------------------------------------------------------------------------
(* The theorems *)

\* A vault with its first device paired.
LEMMA GrantInit == Init => GrantInv
<1> SUFFICES ASSUME Init PROVE GrantInv
  OBVIOUS
<1>1. RowsTyped /\ GitTyped
  BY ConstantsAssumption DEF Init, RowsTyped, GitTyped
<1>2. UploadsNumbered /\ ThreadsTyped
  BY ConstantsAssumption DEF Init, UploadsNumbered, ThreadsTyped, UploadStates
<1>3. RemoverTyped
  <2>1. 0 \in 0..MaxCommits
    BY ConstantsAssumption
  <2> QED BY <2>1 DEF Init, RemoverTyped, Removers, RemovalStages, NoRemover
<1>4. FencesHeld /\ DownIdle
  BY DEF Init, FencesHeld, DownIdle, NoRemover, AdmittedRemoval
<1>5. DeletionAgrees /\ Drained
  BY ConstantsAssumption DEF Init, DeletionAgrees, Drained, DurablyClosed, DeletionPhases
<1>6. RemovalOfRevoked /\ RemovalInQuiet /\ CoveredOrGranted
  BY DEF Init, RemovalOfRevoked, RemovalInQuiet, CoveredOrGranted, NoRemover, PastDrain
<1> QED BY <1>1, <1>2, <1>3, <1>4, <1>5, <1>6 DEF GrantInv, RemovalInv, DeletionInv, Shape

\* Every step of every thread keeps the invariant.
LEMMA GrantStep == GrantInv /\ [Next]_vars => GrantInv'
<1> SUFFICES ASSUME GrantInv, [Next]_vars PROVE GrantInv'
  OBVIOUS
<1>1. Shape /\ DeletionInv /\ RemovalInv
  BY DEF GrantInv, RemovalInv, DeletionInv
<1>2. RowsTyped' /\ GitTyped' /\ UploadsNumbered' /\ ThreadsTyped' /\ RemoverTyped'
  BY <1>1, RowsTypedStep, GitTypedStep, UploadsNumberedStep, ThreadsTypedStep, RemoverTypedStep
<1>3. FencesHeld' /\ DownIdle' /\ DeletionAgrees' /\ Drained'
  BY <1>1, FencesHeldStep, DownIdleStep, DeletionAgreesStep, DrainedStep
<1>4. RemovalOfRevoked' /\ RemovalInQuiet' /\ CoveredOrGranted'
  BY <1>1, RemovalOfRevokedStep, RemovalInQuietStep, CoveredOrGrantedStep
<1> QED BY <1>2, <1>3, <1>4 DEF GrantInv, RemovalInv, DeletionInv, Shape

\* The invariant holds in every reachable state.
LEMMA GrantAlways == Spec => []GrantInv
BY GrantInit, GrantStep, PTL DEF Spec

\* Rows, uploads, fences and stages have their types; the vault lock is held only
\* inside an admission.
THEOREM TypeCorrect == Spec => []TypeOK
<1>1. GrantInv => TypeOK
  <2> SUFFICES ASSUME GrantInv PROVE TypeOK
    OBVIOUS
  <2>1. Shape
    BY DEF GrantInv, RemovalInv, DeletionInv
  <2>2. lock = None \/ lock \in active
    BY <2>1 DEF Shape, FencesHeld, AdmittedRemoval
  <2> QED BY <2>1, <2>2 DEF Shape, RowsTyped, GitTyped, UploadsNumbered, FencesHeld, TypeOK
<1> QED BY <1>1, GrantAlways, PTL

\* When a deletion erases the repository, nothing admitted is left running, and the vault
\* row outlives the repository: the barrier is closed before the intent is durable, read
\* again after the await of every admission, and restored before a restarted server works.
THEOREM ErasesInPeace == Spec => []ErasedInPeace
<1>1. GrantInv => ErasedInPeace
  <2> SUFFICES ASSUME GrantInv PROVE ErasedInPeace
    OBVIOUS
  <2>1. active = {} => lock = None
    BY DEF GrantInv, RemovalInv, DeletionInv, Shape, FencesHeld, AdmittedRemoval
  <2> QED BY <2>1 DEF GrantInv, RemovalInv, DeletionInv, DeletionAgrees, Drained, ErasedInPeace
<1> QED BY <1>1, GrantAlways, PTL

\* Nothing of a removed device is left or comes back: once its leases are drained, a request
\* that authenticated earlier fails the durable check that follows its lease.
THEOREM RemovalIsFinal == Spec => []RemovedIsRemoved
<1>1. GrantInv => RemovedIsRemoved
  BY DEF GrantInv, RemovalInv, RemovalInQuiet, Quiet, RemovedIsRemoved
<1> QED BY <1>1, GrantAlways, PTL

\* What DiscardedByGrant says of one commit.
KeptOrGranted(d) ==
  HeldCopy(d) /\ vaultRow' = "active" /\ d > main' /\ conflict' # d /\ session'[d] # "rejected" =>
    (d <= ref' \/ session'[d] # None) \/ granted

\* Only the deletion of the ref and the erasure of the uploads take copies away, and both
\* are covered by main or granted.
LEMMA KeptOrGrantedStep ==
  ASSUME GrantInv, NEW d \in Commits, [Next]_vars PROVE KeptOrGranted(d)
<1>1. ASSUME NEW r \in Requests, HandleCreate(r) PROVE KeptOrGranted(d)
  BY <1>1, ConstantsAssumption DEF HandleCreate, Finish, Release, disk, metadata, git, barriers,
     fences, threads, KeptOrGranted, HeldCopy, GrantInv, RemovalInv, DeletionInv, Shape,
     DeletionAgrees, RemovalOfRevoked, RemovalInQuiet, CoveredOrGranted, Staged, GitTyped,
     UploadsNumbered, UploadStates, Commits, RowsTyped
<1>2. ASSUME NEW r \in Requests, HandleFinalize(r) PROVE KeptOrGranted(d)
  BY <1>2, ConstantsAssumption DEF HandleFinalize, Push, disk, metadata, git, barriers, fences,
     threads, KeptOrGranted, HeldCopy, GrantInv, RemovalInv, DeletionInv, Shape, DeletionAgrees,
     RemovalOfRevoked, RemovalInQuiet, CoveredOrGranted, Staged, GitTyped, UploadsNumbered,
     UploadStates, Commits, RowsTyped
<1>3. ASSUME NEW c \in Commits, ProcessorPublish(c) PROVE KeptOrGranted(d)
  BY <1>3, ConstantsAssumption DEF ProcessorPublish, ReleaseAdmission, Push, disk, metadata, git,
     barriers, fences, threads, KeptOrGranted, HeldCopy, GrantInv, RemovalInv, DeletionInv, Shape,
     DeletionAgrees, RemovalOfRevoked, RemovalInQuiet, CoveredOrGranted, Staged, GitTyped,
     UploadsNumbered, UploadStates, Commits, RowsTyped
<1>4. ASSUME NEW c \in Commits, ProcessorRecord(c) PROVE KeptOrGranted(d)
  BY <1>4, ConstantsAssumption DEF ProcessorRecord, Exit, Release, Push, disk, metadata, git,
     barriers, fences, threads, KeptOrGranted, HeldCopy, GrantInv, RemovalInv, DeletionInv, Shape,
     DeletionAgrees, RemovalOfRevoked, RemovalInQuiet, CoveredOrGranted, Staged, GitTyped,
     UploadsNumbered, UploadStates, Commits, RowsTyped
<1>5. ASSUME DrainDevice PROVE KeptOrGranted(d)
  BY <1>5, ConstantsAssumption DEF DrainDevice, StopRemover, NoRemover, Release, Removal,
     AbortedSessions, disk, metadata, git, barriers, fences, threads, KeptOrGranted, HeldCopy,
     GrantInv, RemovalInv, DeletionInv, Shape, DeletionAgrees, RemovalOfRevoked, RemovalInQuiet,
     CoveredOrGranted, Staged, GitTyped, UploadsNumbered, UploadStates, Commits, RowsTyped,
     Unfinished
<1>6. ASSUME DeleteRef PROVE KeptOrGranted(d)
  BY <1>6, ConstantsAssumption DEF DeleteRef, disk, metadata, git, barriers, fences, threads,
     KeptOrGranted, HeldCopy, GrantInv, RemovalInv, DeletionInv, Shape, DeletionAgrees,
     RemovalOfRevoked, RemovalInQuiet, CoveredOrGranted, Staged, GitTyped, UploadsNumbered,
     UploadStates, Commits, RowsTyped
<1>7. ASSUME EraseDeviceResidue PROVE KeptOrGranted(d)
  BY <1>7, ConstantsAssumption DEF EraseDeviceResidue, StopRemover, NoRemover, Release, Removal,
     disk, metadata, git, barriers, fences, threads, KeptOrGranted, HeldCopy, GrantInv, RemovalInv,
     DeletionInv, Shape, DeletionAgrees, RemovalOfRevoked, RemovalInQuiet, CoveredOrGranted,
     Staged, GitTyped, UploadsNumbered, UploadStates, Commits, RowsTyped
<1>8. ASSUME DrainVault PROVE KeptOrGranted(d)
  BY <1>8, ConstantsAssumption DEF DrainVault, AbortedSessions, disk, metadata, git, barriers,
     fences, threads, KeptOrGranted, HeldCopy, GrantInv, RemovalInv, DeletionInv, Shape,
     DeletionAgrees, RemovalOfRevoked, RemovalInQuiet, CoveredOrGranted, Staged, GitTyped,
     UploadsNumbered, UploadStates, Commits, RowsTyped, Unfinished
<1>9. ASSUME EraseVaultResidue PROVE KeptOrGranted(d)
  BY <1>9, ConstantsAssumption DEF EraseVaultResidue, disk, metadata, git, barriers, fences,
     threads, KeptOrGranted, HeldCopy, GrantInv, RemovalInv, DeletionInv, Shape, DeletionAgrees,
     RemovalOfRevoked, RemovalInQuiet, CoveredOrGranted, Staged, GitTyped, UploadsNumbered,
     UploadStates, Commits, RowsTyped
<1>10. ASSUME EraseGit PROVE KeptOrGranted(d)
  BY <1>10, ConstantsAssumption DEF EraseGit, disk, metadata, git, barriers, fences, threads,
     KeptOrGranted, HeldCopy, GrantInv, RemovalInv, DeletionInv, Shape, DeletionAgrees,
     RemovalOfRevoked, RemovalInQuiet, CoveredOrGranted, Staged, GitTyped, UploadsNumbered,
     UploadStates, Commits, RowsTyped
<1>11. ASSUME UNCHANGED <<ref, session>> PROVE KeptOrGranted(d)
  BY <1>11, ConstantsAssumption DEF KeptOrGranted, HeldCopy, UploadStates
<1> QED
  BY <1>1, <1>2, <1>3, <1>4, <1>5, <1>6, <1>7, <1>8, <1>9, <1>10, <1>11
  DEF Next, RequestStep, ProcessorStep, RemoverStep, WorkerStep, vars, disk, metadata, git,
     barriers, fences, threads, Authenticate, TryAcquireDeviceLease, AcquireDeviceLease,
     AskAdmission, TakeAdmission, HandleOther, ProcessorBegin, ProcessorAdmit, ProcessorLock,
     ProcessorMerge, ProcessorFails, Revoke, Resolve, SelectForRemoval, PersistGrant,
     VerifyForRemoval, CommitIntent, CloseDeviceBarrier, AwaitProcessors, DrainDeviceLeases,
     DrainTimeout, LockForRemoval, DecideRemoval, RecordRefDeleted, AdmitCleanup, CompleteRemoval,
     RemovalFails, BeginDeletion, CommitDeletion, CommitDeletionFails, StartDeletion,
     AwaitVaultProcessors, WaitForDrain, EnterErasure, EnterFinalizing, FinalizeDb, WorkerFails,
     ExpireReceipt, Crash, Startup, Serve

\* Removing a device destroys the only copy of unmerged work by the owner's word alone, also
\* when the removal is retried, superseded or resumed at startup.
THEOREM DiscardNeedsGrant == Spec => DiscardedByGrant
<1>1. GrantInv /\ [Next]_vars =>
        [\A c \in Commits :
           HeldCopy(c) /\ vaultRow' = "active" /\ c > main' /\ conflict' # c /\ session'[c] # "rejected" =>
             (c <= ref' \/ session'[c] # None) \/ granted]_vars
  BY KeptOrGrantedStep DEF KeptOrGranted
<1> QED BY <1>1, GrantAlways, PTL DEF Spec, DiscardedByGrant

=============================================================================
