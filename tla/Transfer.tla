------------------------------ MODULE Transfer ------------------------------
(***************************************************************************)
(* The resumable upload of a proposal: the plugin's upload queue, its      *)
(* immutable checkpoint and its handoff journal (obsidian-plugin/src/      *)
(* main.cjs), against the transfer sessions and detached processors of     *)
(* the server (src/server/chunkTransferService.ts).  One device of one     *)
(* vault is modelled.  Requests may be answered, time out and still be     *)
(* executed later, or get lost; either side may crash between any two      *)
(* durable writes; sessions expire; the server's Git or its session file   *)
(* may fail.  The integration itself (pushDeviceCommit, module             *)
(* SyncService) is one step that classifies the target against the device  *)
(* ref.                                                                    *)
(***************************************************************************)
EXTENDS Naturals, FiniteSets

CONSTANTS
  None,              \* no value: an absent file, no error, no answer yet
  MaxCommits,        \* bound: proposals the device commits
  Chunks,            \* the object groups of an upload plan
  Invalid,           \* proposals the server's validation refuses
  Transfers,         \* bound: transfer identifiers in use at a time
  MaxOpen,           \* MAX_OPEN_TRANSFERS_PER_DEVICE
  MaxFaults          \* bound: timeouts, early expiries, crashes and failed writes

Commits == 1..MaxCommits

NoCommit == 0

SessionStates == {"open", "processing", "completed", "rejected"}

\* What a finished transfer reports: the integration's status and the device ref.
Results == [status : {"merged", "noop", "conflicted", "invalid", "device_blocked", "transfer_unavailable"}, ref : 0..MaxCommits]

\* .obts/upload-transfer.json and the upload recovery journal.
Checkpoints == [commit : Commits, expected : 0..MaxCommits, transfer : Transfers \cup {None}]

Handoffs == [old : Commits, expected : 0..MaxCommits, transfer : Transfers \cup {None},
             successor : 0..MaxCommits, result : Results \cup {None}]

ASSUME ConstantsAssumption ==
  /\ MaxCommits \in Nat \ {0} /\ MaxOpen \in Nat \ {0}
  /\ Invalid \subseteq 1..MaxCommits
  /\ IsFiniteSet(Chunks) /\ Chunks # {} /\ IsFiniteSet(Transfers)
  /\ MaxFaults \in Nat
  /\ None \notin Transfers \cup SessionStates \cup {"review", "blocked"} \cup Results \cup Checkpoints \cup Handoffs

VARIABLES
  parent,      \* device Git: the parent of each commit made so far
  made,        \* device Git: how many commits exist
  queue,       \* .obts queue: pending_commit, expected_device_ref, status
  checkpoint,  \* .obts/upload-transfer.json
  journal,     \* the upload recovery journal: handoff of a replaced proposal
  error,       \* state.json last_error_code, as far as it gates a sync
  task,        \* memory of the running upload: stage, result, missing chunks, recovery flag
  net,         \* requests sent and not yet executed; live when awaited
  session,     \* session.json of each transfer
  processor,   \* the detached processors: stage and outcome in memory
  running,     \* the server process
  suspended,   \* transferUnavailable
  deviceRef, main, review,  \* the vault: device ref, commits in main, open conflict
  faults       \* how many faults there were

client == <<parent, made, queue, checkpoint, journal, error, task>>

server == <<session, processor, running, suspended>>

vault == <<deviceRef, main, review>>

vars == <<client, net, server, vault, faults>>

-----------------------------------------------------------------------------
(* Records *)

Idle == [stage |-> "idle", result |-> None, missing |-> {}, recovering |-> FALSE]

NoSession == [status |-> None]

NewSession(c, x) ==
  [status |-> "open", commit |-> c, expected |-> x, receipts |-> {}, result |-> None, stale |-> FALSE]

Sleeping == [stage |-> "none", outcome |-> None]

\* A commit and what it descends from: the least set with the commit and the
\* parent of each of its members.
Line(c) ==
  {d \in Commits : \A S \in SUBSET Commits :
     c \in S \cup {NoCommit} /\ (\A e \in S : parent[e] \in S \cup {NoCommit}) => d \in S}

Fault == faults < MaxFaults /\ faults' = faults + 1

-----------------------------------------------------------------------------
(* The device: the queue, its checkpoint and the handoff journal *)

\* createLocalCommit and the queue write that follows it: with an empty
\* queue the device's next edit becomes the pending commit.
QueueProposal ==
  /\ task = Idle /\ error = None /\ queue.commit = NoCommit
  /\ checkpoint = None /\ journal = None
  /\ made < MaxCommits
  /\ made' = made + 1
  /\ parent' = [parent EXCEPT ![made + 1] = made]
  /\ queue' = [commit |-> made + 1, expected |-> queue.expected, status |-> "queued_local"]
  /\ UNCHANGED <<checkpoint, journal, error, task, net, server, vault, faults>>

\* preserveUploadCheckpointHandoff: a queue write that replaces the pending
\* commit (a rebuild, a held continuation, a discarded proposal) first
\* publishes the journal that owns the checkpoint's proposal.
PublishHandoff(successor) ==
  journal' = [old |-> checkpoint.commit, expected |-> checkpoint.expected, transfer |-> checkpoint.transfer,
              successor |-> successor, result |-> None]

ReplaceProposal ==
  /\ task = Idle /\ error # "review"
  /\ queue.commit # NoCommit /\ checkpoint # None /\ journal = None
  /\ \/ /\ made < MaxCommits
        /\ \E p \in {queue.commit, parent[queue.commit]} : parent' = [parent EXCEPT ![made + 1] = p]
        /\ made' = made + 1
        /\ PublishHandoff(made + 1)
     \/ PublishHandoff(NoCommit) /\ UNCHANGED <<parent, made>>
  /\ task' = [Idle EXCEPT !.stage = "replace"]
  /\ UNCHANGED <<queue, checkpoint, error, net, server, vault, faults>>

\* The queue write itself.
ReplaceQueue ==
  /\ task.stage = "replace"
  /\ queue' = [queue EXCEPT !.commit = journal.successor, !.status = "queued_local"]
  /\ task' = Idle
  /\ UNCHANGED <<parent, made, checkpoint, journal, error, net, server, vault, faults>>

\* A sync: recoverUploadCheckpointIfNeeded resumes a handoff before anything
\* else; otherwise uploadQueuedCommit resumes the checkpoint of the pending
\* commit or prepares a new upload.  throwIfSyncBlocked stops a sync while
\* a review or a blocked device is known.
SyncUpload ==
  /\ task = Idle
  /\ \/ /\ journal # None
        /\ task' = [stage |-> IF journal.result # None THEN "settle_queue"
                              ELSE IF journal.transfer # None THEN "get" ELSE "create",
                    result |-> journal.result, missing |-> {}, recovering |-> TRUE]
     \/ /\ journal = None /\ error = None /\ queue.commit # NoCommit
        /\ task' = [Idle EXCEPT !.stage = IF checkpoint = None THEN "self"
                                          ELSE IF checkpoint.transfer # None THEN "get" ELSE "create"]
  /\ UNCHANGED <<parent, made, queue, checkpoint, journal, error, net, server, vault, faults>>

\* pushInChunks: the immutable attempt is saved before the first request.
\* attempt_id is a hash of the request, so it stands for the commit and the
\* expected device ref here.
WriteCheckpoint ==
  /\ task.stage = "plan"
  /\ checkpoint' = [commit |-> queue.commit, expected |-> queue.expected, transfer |-> None]
  /\ queue' = [queue EXCEPT !.status = "uploading"]
  /\ task' = [task EXCEPT !.stage = "create"]
  /\ UNCHANGED <<parent, made, journal, error, net, server, vault, faults>>

Awaiting == \E m \in net : m.live

Request(kind, t, k) ==
  [kind |-> kind, transfer |-> t, chunk |-> k, live |-> TRUE,
   commit |-> IF checkpoint = None THEN queue.commit ELSE checkpoint.commit,
   expected |-> IF checkpoint = None THEN queue.expected ELSE checkpoint.expected]

Send ==
  /\ task.stage \in {"self", "get", "create", "chunk", "finalize", "poll"}
  /\ ~Awaiting
  /\ \E k \in Chunks :
       /\ k \in (IF task.stage = "chunk" THEN task.missing ELSE {CHOOSE x \in Chunks : TRUE})
       /\ net' = net \cup {Request(task.stage, IF task.stage \in {"self", "create"} THEN None ELSE checkpoint.transfer, k)}
  /\ UNCHANGED <<client, server, vault, faults>>

\* The error path of an upload: the queue returns to queued_local, the
\* checkpoint and the journal stay.
Fail(code) ==
  /\ task' = Idle
  /\ queue' = IF task.recovering THEN queue ELSE [queue EXCEPT !.status = "queued_local"]
  /\ error' = code
  /\ UNCHANGED <<parent, made, journal>>

Continue(stage, result, missing) ==
  /\ task' = [task EXCEPT !.stage = stage, !.result = result, !.missing = missing]
  /\ UNCHANGED <<parent, made, queue, journal, error>>

Rejected(d) == Fail(IF d.result.status = "device_blocked" THEN "blocked" ELSE None)

\* What the client does with a transfer descriptor (uploadQueuedCommit,
\* pushInChunks, pollPushTransfer, reconcileUploadCheckpointHandoff).
Accept(kind, d) ==
  \/ /\ d.status = "completed"
     /\ Continue(IF task.recovering THEN "save_result" ELSE "remove_checkpoint", d.result, {})
  \/ d.status = "processing" /\ Continue("poll", None, {})
  \/ /\ d.status = "rejected"
     /\ IF kind = "get" /\ task.recovering THEN Continue("create", None, {}) ELSE Rejected(d)
  \/ /\ d.status = "open"
     /\ CASE kind = "get" -> Continue("create", None, {})
          [] kind = "poll" -> Continue("finalize", None, {})
          [] kind \in {"create", "chunk"} ->
               Continue(IF d.receipts = Chunks THEN "finalize" ELSE "chunk", None, Chunks \ d.receipts)

\* Mutant: a transfer the server no longer knows ends every retry.
ReplyGoneFails(kind, t, d) ==
  /\ checkpoint' = IF kind = "create" /\ d.status \notin {"gone", "refused"}
                   THEN [checkpoint EXCEPT !.transfer = t] ELSE checkpoint
  /\ IF d.status \in {"refused", "gone"} THEN Fail(None) ELSE Accept(kind, d)

\* The answer to the request the client waits for.  A missing or expired
\* transfer is no answer to a resumed upload, which creates it again; any
\* other refusal ends the upload.
Reply(kind, t, d) ==
  /\ checkpoint' = IF kind = "create" /\ d.status \notin {"gone", "refused"}
                   THEN [checkpoint EXCEPT !.transfer = t] ELSE checkpoint
  /\ CASE d.status = "refused" -> Fail(None)
       [] d.status = "gone" -> IF kind = "get" THEN Continue("create", None, {}) ELSE Fail(None)
       [] OTHER -> Accept(kind, d)

\* The checkpoint goes when the authoritative result is in memory
\* (uploadQueuedCommit), before the queue says so.
RemoveCheckpoint ==
  /\ task.stage = "remove_checkpoint"
  /\ checkpoint' = None
  /\ task' = [task EXCEPT !.stage = "settle_queue"]
  /\ UNCHANGED <<parent, made, queue, journal, error, net, server, vault, faults>>

\* A recovered result is saved in the journal first (phase "result").
SaveResult ==
  /\ task.stage = "save_result"
  /\ journal' = [journal EXCEPT !.result = task.result]
  /\ task' = [task EXCEPT !.stage = "settle_queue"]
  /\ UNCHANGED <<parent, made, queue, checkpoint, error, net, server, vault, faults>>

\* Mutant: a settled handoff empties the queue.
SettledWithoutSuccessor(result) ==
  [commit |-> IF result.status = "conflicted" /\ ~task.recovering THEN queue.commit ELSE NoCommit,
   expected |-> result.ref,
   status |-> IF result.status = "conflicted" THEN "conflicted" ELSE "idle"]

\* The queue after a result: an uploaded commit leaves it unless it is under
\* review; a handoff puts the saved successor in its place.
Settled(result) ==
  LET conflicted == result.status = "conflicted"
      next == IF task.recovering THEN journal.successor
              ELSE IF conflicted THEN queue.commit ELSE NoCommit
  IN [commit |-> next,
      expected |-> IF task.recovering \/ ~conflicted THEN result.ref ELSE queue.expected,
      status |-> IF task.recovering /\ next # NoCommit THEN "queued_local"
                 ELSE IF conflicted THEN "conflicted" ELSE "idle"]

SettleQueue ==
  /\ task.stage = "settle_queue"
  /\ queue' = Settled(task.result)
  /\ task' = [task EXCEPT !.stage = "settle_state"]
  /\ UNCHANGED <<parent, made, checkpoint, journal, error, net, server, vault, faults>>

SettleState ==
  /\ task.stage = "settle_state"
  /\ error' = IF task.result.status = "conflicted" THEN "review" ELSE None
  /\ task' = IF task.recovering THEN [task EXCEPT !.stage = "retire"] ELSE Idle
  /\ UNCHANGED <<parent, made, queue, checkpoint, journal, net, server, vault, faults>>

\* The handoff ends: the archive is written, then the checkpoint and last
\* the journal go.
RetireCheckpoint ==
  /\ task.stage = "retire"
  /\ checkpoint' = None
  /\ task' = [task EXCEPT !.stage = "retire_journal"]
  /\ UNCHANGED <<parent, made, queue, journal, error, net, server, vault, faults>>

RetireJournal ==
  /\ task.stage = "retire_journal"
  /\ journal' = None
  /\ task' = Idle
  /\ UNCHANGED <<parent, made, queue, checkpoint, error, net, server, vault, faults>>

\* The owner settled the review and the device has pulled the resolution
\* (reconcileDeviceBlocked, the resolution's apply): the reviewed proposal
\* leaves the queue, a saved successor stays.
PullResolution ==
  /\ task = Idle /\ error # None /\ review = NoCommit
  /\ error' = None
  /\ queue' = IF queue.status = "conflicted" THEN [commit |-> NoCommit, expected |-> deviceRef, status |-> "idle"] ELSE queue
  /\ UNCHANGED <<parent, made, checkpoint, journal, task, net, server, vault, faults>>

\* A request in flight when its client stops waiting is lost or executed
\* later; a late read changes nothing the next one would not.
Abandoned(m) ==
  \/ net' = net \ {m}
  \/ m.kind \in {"create", "chunk", "finalize"} /\ net' = (net \ {m}) \cup {[m EXCEPT !.live = FALSE]}

Timeout ==
  \E m \in net :
    /\ m.live /\ Fault
    /\ Abandoned(m)
    /\ Fail(None)
    /\ UNCHANGED <<checkpoint, server, vault>>

DeviceCrash ==
  /\ task # Idle /\ Fault
  /\ task' = Idle
  /\ IF Awaiting THEN \E m \in net : m.live /\ Abandoned(m) ELSE UNCHANGED net
  /\ UNCHANGED <<parent, made, queue, checkpoint, journal, error, server, vault>>

-----------------------------------------------------------------------------
(* The server: transfer sessions *)

Expired(t) == session[t].status \notin {None, "processing"} /\ session[t].stale

Held(t) == session[t].status # None /\ ~Expired(t)

Serving == running /\ ~suspended

\* startProcessing: one detached processor per transfer.
Started(t) == IF processor[t] = Sleeping THEN [processor EXCEPT ![t].stage = "run"] ELSE processor

\* The executed request leaves the network; a client that still waits for
\* it continues with the answer.
Answer(m, t, d) ==
  /\ net' = net \ {m}
  /\ IF m.live THEN Reply(m.kind, t, d) ELSE UNCHANGED client
  /\ UNCHANGED <<running, suspended, vault, faults>>

Refuse(m, how) == Answer(m, m.transfer, [status |-> how]) /\ UNCHANGED processor

\* requireSession: an expired session is removed when it is asked for.
Missing(m) ==
  /\ ~Held(m.transfer)
  /\ session' = [session EXCEPT ![m.transfer] = NoSession]
  /\ Refuse(m, "gone")

\* getDeviceSelf: the expected device ref of a new upload.
HandleSelf(m) ==
  /\ m.kind = "self" /\ running
  /\ net' = net \ {m}
  /\ IF m.live
     THEN /\ queue' = IF deviceRef \in Line(queue.commit) THEN [queue EXCEPT !.expected = deviceRef] ELSE queue
          /\ task' = [task EXCEPT !.stage = "plan"]
     ELSE UNCHANGED <<queue, task>>
  /\ UNCHANGED <<parent, made, checkpoint, journal, error, server, vault, faults>>

\* createPush after pruneExpired: the session of the attempt, or a new one
\* unless the device has too many that its ref does not cover.
Pruned == [t \in Transfers |-> IF Expired(t) THEN NoSession ELSE session[t]]

SameAttempt(m, s) == s.status # None /\ s.commit = m.commit /\ s.expected = m.expected

OpenTransfers == {t \in Transfers : /\ Pruned[t].status \in {"open", "processing"}
                                    /\ Pruned[t].commit \notin Line(deviceRef)}

TooManyOpen(m) ==
  /\ \A t \in Transfers : ~SameAttempt(m, Pruned[t])
  /\ Cardinality(OpenTransfers) >= MaxOpen

\* Identifiers are never used twice: a free one is one nobody remembers.
Remembered(t) ==
  \/ processor[t] # Sleeping
  \/ \E m \in net : m.transfer = t
  \/ checkpoint # None /\ checkpoint.transfer = t
  \/ journal # None /\ journal.transfer = t

Fresh(t) == session[t].status = None /\ ~Remembered(t)

HandleCreate(m) ==
  /\ m.kind = "create" /\ Serving
  /\ IF TooManyOpen(m) THEN session' = Pruned /\ Refuse(m, "refused")
     ELSE \/ \E t \in Transfers :
               /\ SameAttempt(m, Pruned[t])
               /\ session' = Pruned
               /\ Answer(m, t, Pruned[t])
          \/ \E t \in Transfers :
               /\ \A u \in Transfers : ~SameAttempt(m, Pruned[u])
               /\ Fresh(t) /\ t = CHOOSE u \in Transfers : Fresh(u)
               /\ session' = [Pruned EXCEPT ![t] = NewSession(m.commit, m.expected)]
               /\ Answer(m, t, NewSession(m.commit, m.expected))
  /\ UNCHANGED processor

\* getPush: polling restarts an interrupted processor.
HandleGet(m) ==
  /\ m.kind \in {"get", "poll"} /\ Serving
  /\ \/ Missing(m)
     \/ /\ Held(m.transfer)
        /\ processor' = IF session[m.transfer].status = "processing" THEN Started(m.transfer) ELSE processor
        /\ Answer(m, m.transfer, session[m.transfer])
        /\ UNCHANGED session

\* putChunk: idempotent by index, only while the transfer is open.
Received(m) == [session[m.transfer] EXCEPT !.receipts = @ \cup {m.chunk}, !.stale = FALSE]

HandleChunk(m) ==
  /\ m.kind = "chunk" /\ Serving
  /\ \/ Missing(m)
     \/ /\ Held(m.transfer) /\ session[m.transfer].status # "open"
        /\ Refuse(m, "refused") /\ UNCHANGED session
     \/ /\ Held(m.transfer) /\ session[m.transfer].status = "open"
        /\ session' = [session EXCEPT ![m.transfer] = Received(m)]
        /\ Answer(m, m.transfer, Received(m))
        /\ UNCHANGED processor

\* beginFinalizePush: a finished transfer repeats its result; a complete one
\* is processing from now on, and never expires while it is.
HandleFinalize(m) ==
  /\ m.kind = "finalize" /\ Serving
  /\ \/ Missing(m)
     \/ /\ Held(m.transfer)
        /\ LET s == session[m.transfer] IN
           IF s.status \in {"completed", "rejected"}
           THEN Answer(m, m.transfer, s) /\ UNCHANGED <<session, processor>>
           ELSE IF s.receipts # Chunks
           THEN Refuse(m, "refused") /\ UNCHANGED session
           ELSE /\ session' = [session EXCEPT ![m.transfer].status = "processing", ![m.transfer].stale = FALSE]
                /\ processor' = Started(m.transfer)
                /\ Answer(m, m.transfer, [s EXCEPT !.status = "processing"])

\* assertTransferAllowed: suspended storage answers nothing but 503.
HandleUnavailable(m) ==
  /\ running /\ suspended /\ m.kind # "self"
  /\ Refuse(m, "refused") /\ UNCHANGED session

\* transferTtlSeconds pass without a write to the session; a fault when the
\* device may still ask for its outcome.  One that nobody remembers is gone
\* with the next pruneExpired.
Expire(t) ==
  /\ session[t].status # None /\ ~session[t].stale
  /\ IF session[t].status = "rejected" \/ (session[t].status # "processing" /\ ~Remembered(t)) THEN UNCHANGED faults ELSE Fault
  /\ session' = [session EXCEPT ![t] = IF Remembered(t) \/ @.status = "processing" THEN [@ EXCEPT !.stale = TRUE] ELSE NoSession]
  /\ UNCHANGED <<client, net, processor, running, suspended, vault>>

-----------------------------------------------------------------------------
(* The server: detached processing *)

\* What integrateDeviceCommit makes of a target: the result and the vault it
\* leaves.  A merge succeeds or opens a review.
Outcome(status, ref, mains, rev) ==
  [result |-> [status |-> status, ref |-> ref], deviceRef |-> ref, main |-> mains, review |-> rev]

Merges(c, ref) ==
  {Outcome("merged", ref, main \cup Line(c), review), Outcome("conflicted", ref, main, c)}

\* Mutant: a device ref that holds the target is taken for its integration.
ExistingIsDone(c) ==
  {Outcome(IF review = c THEN "conflicted" ELSE "noop", deviceRef, main, review)}

\* finishExistingDeviceCommit: the device ref already holds the target.
Existing(c) ==
  IF review = c THEN {Outcome("conflicted", deviceRef, main, c)}
  ELSE IF c \in main THEN {Outcome("noop", deviceRef, main, review)}
  ELSE Merges(c, deviceRef)

Integrations(c) ==
  IF c = deviceRef THEN Existing(c)
  ELSE IF review # NoCommit THEN {Outcome("device_blocked", deviceRef, main, review)}
  ELSE IF c \in Invalid THEN {Outcome("invalid", deviceRef, main, review)}
  ELSE IF c \in Line(deviceRef) THEN Existing(c)
  ELSE IF deviceRef = NoCommit \/ deviceRef \in Line(c) THEN Merges(c, c)
  ELSE {Outcome("conflicted", deviceRef, main, c)}

\* processPush under the vault lock, outside every transfer lock.
Process(t) ==
  /\ running /\ processor[t].stage = "run"
  /\ IF session[t].status # "processing"
     THEN processor' = [processor EXCEPT ![t] = Sleeping] /\ UNCHANGED vault
     ELSE \E o \in Integrations(session[t].commit) :
            /\ processor' = [processor EXCEPT ![t] = [stage |-> "record", outcome |-> o.result]]
            /\ deviceRef' = o.deviceRef /\ main' = o.main /\ review' = o.review
  /\ UNCHANGED <<client, net, session, running, suspended, faults>>

\* A Git command fails on the way: before the device ref moved, or between
\* it and the merge.
MovedAtMost(c) ==
  /\ deviceRef' \in {deviceRef} \cup {o.deviceRef : o \in Integrations(c)}
  /\ UNCHANGED <<main, review>>

ProcessFails(t) ==
  /\ running /\ processor[t].stage = "run" /\ session[t].status = "processing" /\ Fault
  /\ MovedAtMost(session[t].commit)
  /\ processor' = [processor EXCEPT ![t] = [stage |-> "record", outcome |-> [status |-> "git_error"]]]
  /\ UNCHANGED <<client, net, session, running, suspended>>

\* The repository's durability gate trips: pushDeviceCommit reports it as
\* the AuthError transfer_unavailable, and every transfer is refused.
ProcessUnsynced(t) ==
  /\ running /\ processor[t].stage = "run" /\ session[t].status = "processing" /\ Fault
  /\ MovedAtMost(session[t].commit)
  /\ processor' = [processor EXCEPT ![t] = [stage |-> "record", outcome |-> [status |-> "transfer_unavailable", ref |-> NoCommit]]]
  /\ suspended' = TRUE
  /\ UNCHANGED <<client, net, session, running>>

\* Mutant: a failed Git command rejects the transfer.
RecordedGitRejects(s, outcome) ==
  CASE s.status # "processing" -> s
    [] outcome.status \in {"merged", "noop", "conflicted"} -> [s EXCEPT !.status = "completed", !.result = outcome]
    [] OTHER -> [s EXCEPT !.status = "rejected", !.result = outcome]

\* The session after processing, written under its lock and only while it is
\* still processing: an accepted result completes it, a refusal rejects it,
\* a failed Git command leaves it to be retried.
Recorded(s, outcome) ==
  CASE s.status # "processing" -> s
    [] outcome.status = "git_error" -> s
    [] outcome.status \in {"merged", "noop", "conflicted"} -> [s EXCEPT !.status = "completed", !.result = outcome]
    [] OTHER -> [s EXCEPT !.status = "rejected", !.result = outcome]

RecordOutcome(t) ==
  /\ running /\ processor[t].stage = "record"
  /\ session' = [session EXCEPT ![t] = Recorded(@, processor[t].outcome)]
  /\ processor' = [processor EXCEPT ![t] = IF session'[t].status = "processing" THEN [Sleeping EXCEPT !.stage = "run"] ELSE Sleeping]
  /\ UNCHANGED <<client, net, running, suspended, vault, faults>>

\* writeSession fails, before or after the rename: storage is suspended; the
\* processor's own error path may go on or give up.
RecordFails(t) ==
  /\ running /\ processor[t].stage = "record" /\ Fault
  /\ session' \in {session, [session EXCEPT ![t] = Recorded(@, processor[t].outcome)]}
  /\ processor' \in {[processor EXCEPT ![t] = p] : p \in {Sleeping, [Sleeping EXCEPT !.stage = "run"]}}
  /\ suspended' = TRUE
  /\ UNCHANGED <<client, net, running, vault>>

\* The process dies with every request and processor it had.
Stopped ==
  /\ running' = FALSE /\ suspended' = FALSE
  /\ processor' = [t \in Transfers |-> Sleeping]
  /\ net' = {}
  /\ IF Awaiting THEN Fail(None) ELSE UNCHANGED <<parent, made, queue, journal, error, task>>
  /\ UNCHANGED <<checkpoint, session, vault>>

ServerCrash == running /\ Fault /\ Stopped

\* An operator restarts a server whose storage is suspended.
OperatorRestart == running /\ suspended /\ Stopped /\ UNCHANGED faults

\* initialize: processing sessions are resumed.
ServerStart ==
  /\ ~running /\ running' = TRUE
  /\ processor' = [t \in Transfers |-> IF session[t].status = "processing" THEN [Sleeping EXCEPT !.stage = "run"] ELSE Sleeping]
  /\ UNCHANGED <<client, net, session, suspended, vault, faults>>

\* A request that finds no server.
Unreachable ==
  /\ ~running
  /\ \E m \in net : m.live /\ net' = net \ {m}
  /\ Fail(None)
  /\ UNCHANGED <<checkpoint, server, vault, faults>>

\* The owner resolves the open conflict: the reviewed commit becomes part of
\* main.
ResolveReview ==
  /\ running /\ review # NoCommit
  /\ main' = main \cup Line(review) /\ review' = NoCommit
  /\ UNCHANGED <<client, net, server, deviceRef, faults>>

-----------------------------------------------------------------------------
Init ==
  /\ parent = [c \in Commits |-> NoCommit] /\ made = 0
  /\ queue = [commit |-> NoCommit, expected |-> NoCommit, status |-> "idle"]
  /\ checkpoint = None /\ journal = None /\ error = None /\ task = Idle
  /\ net = {}
  /\ session = [t \in Transfers |-> NoSession]
  /\ processor = [t \in Transfers |-> Sleeping]
  /\ running = TRUE /\ suspended = FALSE
  /\ deviceRef = NoCommit /\ main = {} /\ review = NoCommit
  /\ faults = 0

ClientStep ==
  \/ SyncUpload \/ WriteCheckpoint \/ Send \/ ReplaceQueue
  \/ RemoveCheckpoint \/ SaveResult \/ SettleQueue \/ SettleState \/ RetireCheckpoint \/ RetireJournal

Handle(m) ==
  HandleSelf(m) \/ HandleCreate(m) \/ HandleGet(m) \/ HandleChunk(m) \/ HandleFinalize(m) \/ HandleUnavailable(m)

ServerStep == (\E m \in net : Handle(m)) \/ (\E t \in Transfers : Process(t) \/ RecordOutcome(t))

Next ==
  \/ QueueProposal \/ ReplaceProposal \/ ClientStep \/ PullResolution
  \/ Timeout \/ DeviceCrash
  \/ \E m \in net : Handle(m)
  \/ \E t \in Transfers :
       Expire(t) \/ Process(t) \/ ProcessFails(t) \/ ProcessUnsynced(t) \/ RecordOutcome(t) \/ RecordFails(t)
  \/ ServerCrash \/ OperatorRestart \/ ServerStart \/ Unreachable \/ ResolveReview

Spec == Init /\ [][Next]_vars

\* The plugin retries its sync, the server executes requests and its
\* processors run, a stopped or suspended server is started again, sessions
\* reach their deadline, and the owner settles reviews the device then pulls.
FairSpec ==
  /\ Spec
  /\ WF_vars(ClientStep) /\ WF_vars(PullResolution) /\ WF_vars(Unreachable)
  /\ WF_vars(\E m \in net : m.live /\ Handle(m)) /\ WF_vars(\E m \in net : ~m.live /\ Handle(m))
  /\ \A t \in Transfers : WF_vars(Process(t)) /\ WF_vars(RecordOutcome(t)) /\ WF_vars(Expire(t))
  /\ WF_vars(ServerStart) /\ WF_vars(OperatorRestart) /\ WF_vars(ResolveReview)

-----------------------------------------------------------------------------
(* Properties *)

\* Types of the queue, the checkpoint and handoff files, the upload in
\* progress, the session records and the processors.
TypeOK ==
  /\ made \in 0..MaxCommits /\ parent \in [Commits -> 0..MaxCommits]
  /\ queue \in [commit : 0..made, expected : 0..made, status : {"idle", "queued_local", "uploading", "conflicted"}]
  /\ checkpoint # None => checkpoint \in [commit : 1..made, expected : 0..made, transfer : Transfers \cup {None}]
  /\ journal # None => journal \in [old : 1..made, expected : 0..made, transfer : Transfers \cup {None},
                                    successor : 0..made, result : Results \cup {None}]
  /\ error \in {None, "review", "blocked"}
  /\ \A t \in Transfers :
       session[t] = NoSession \/
       /\ session[t].status \in {"open", "processing", "completed", "rejected"}
       /\ session[t].receipts \subseteq Chunks
       /\ session[t].status \in {"processing", "completed", "rejected"} => session[t].receipts = Chunks
       /\ session[t].status \in {"completed", "rejected"} <=> session[t].result \in Results
  /\ {deviceRef, review} \subseteq 0..made /\ main \subseteq 1..made

\* A proposal leaves the device's queue, checkpoint and journal only when
\* the server has merged it or holds it for review: no crash between the
\* queue, checkpoint and journal writes, lost answer, expired session or
\* replaced proposal loses one.
NothingDropped ==
  \A c \in 1..made :
    \/ c \in main \cup {review, queue.commit}
    \/ journal # None /\ c \in {journal.old, journal.successor}

\* A transfer reported as completed tells the truth about the vault for as
\* long as it is kept, also after its processing was interrupted, repeated
\* or raced by a late request.
CompletedIsTrue ==
  \A t \in Transfers :
    session[t].status = "completed" =>
      IF session[t].result.status = "conflicted" THEN session[t].commit \in main \cup {review}
      ELSE session[t].commit \in main

\* A valid pending proposal is eventually delivered and leaves the queue,
\* although requests are lost, sessions expire, both sides crash and the
\* server's storage fails; only a handoff that waits for a proposal the
\* server refuses may hold its successor back.
QueueDrains ==
  \A c \in Commits \ Invalid :
    queue.commit = c ~> (queue.commit # c \/ (journal # None /\ journal.old \in Invalid))

=============================================================================
