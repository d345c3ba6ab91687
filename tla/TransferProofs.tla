--------------------------- MODULE TransferProofs ---------------------------
(***************************************************************************)
(* Proofs about Transfer, for any number of proposals, chunks, transfers   *)
(* and faults.                                                             *)
(***************************************************************************)
EXTENDS Transfer, TLAPS

\* Stages of an upload that name a transfer, and all that send requests.
Fetching == {"get", "chunk", "finalize", "poll"}

Asking == {"self", "create"} \cup Fetching

Stages == {"idle", "replace", "plan", "save_result", "remove_checkpoint", "settle_queue",
           "settle_state", "retire", "retire_journal"} \cup Asking

Queues == [commit : 0..MaxCommits, expected : 0..MaxCommits,
           status : {"idle", "queued_local", "uploading", "conflicted"}]

Tasks == [stage : Stages, result : Results \cup {None}, missing : SUBSET Chunks, recovering : BOOLEAN]

Requests == [kind : Asking, transfer : Transfers \cup {None}, chunk : Chunks, live : BOOLEAN,
             commit : 0..MaxCommits, expected : 0..MaxCommits]

Sessions == [status : SessionStates, commit : Commits, expected : 0..MaxCommits,
             receipts : SUBSET Chunks, result : Results \cup {None}, stale : BOOLEAN]

GitError == [status |-> "git_error"]

Processors == [stage : {"none", "run", "record"}, outcome : Results \cup {None, GitError}]

ClientTyped ==
  /\ made \in 0..MaxCommits /\ parent \in [Commits -> 0..MaxCommits]
  /\ queue \in Queues /\ checkpoint \in Checkpoints \cup {None} /\ journal \in Handoffs \cup {None}
  /\ error \in {None, "review", "blocked"} /\ task \in Tasks

ServerTyped ==
  /\ net \subseteq Requests
  /\ session \in [Transfers -> Sessions \cup {NoSession}]
  /\ processor \in [Transfers -> Processors]

VaultTyped == deviceRef \in 0..MaxCommits /\ main \subseteq Commits /\ review \in 0..MaxCommits

\* No file, request, session or ref names a commit that was not made.
ClientNumbered ==
  /\ \A c \in 1..made : parent[c] <= made
  /\ queue.commit <= made /\ queue.expected <= made
  /\ checkpoint # None => checkpoint.commit <= made /\ checkpoint.expected <= made
  /\ journal # None =>
       /\ journal.old <= made /\ journal.expected <= made /\ journal.successor <= made
       /\ journal.result # None => journal.result.ref <= made
  /\ task.result # None => task.result.ref <= made

NetNumbered == \A m \in net : m.commit <= made /\ m.expected <= made

SessionsNumbered ==
  \A t \in Transfers :
    /\ session[t] # NoSession =>
         /\ session[t].commit <= made
         /\ session[t].result # None => session[t].result.ref <= made
    /\ processor[t].outcome \in Results => processor[t].outcome.ref <= made

VaultNumbered == deviceRef <= made /\ review <= made /\ \A c \in main : c <= made

Numbered == ClientNumbered /\ NetNumbered /\ SessionsNumbered /\ VaultNumbered

\* Only a complete transfer is processed, only a finished one has a result, and a
\* processor with an outcome works on a session that waits for it.
SessionsWhole ==
  \A t \in Transfers :
    /\ session[t] # NoSession =>
         /\ session[t].status # "open" => session[t].receipts = Chunks
         /\ (session[t].status \in {"completed", "rejected"}) = (session[t].result # None)
    /\ processor[t].stage = "record" => session[t].status = "processing" /\ processor[t].outcome \in Results \cup {GitError}
    /\ processor[t].stage # "record" => processor[t].outcome = None

\* The client awaits one request, made from its checkpoint.
OneAwaited ==
  /\ \A m, n \in net : m.live /\ n.live => m = n
  /\ \A m \in net : m.live =>
       /\ m.kind = task.stage
       /\ m.kind # "self" => m.commit = checkpoint.commit
       /\ m.kind \in Fetching => m.transfer = checkpoint.transfer
  /\ \A m \in net : /\ m.kind \in Fetching => m.transfer \in Transfers
                    /\ m.kind = "create" => m.commit \in Commits
  /\ task.stage \in Fetching => checkpoint # None /\ checkpoint.transfer # None
  /\ task.stage = "create" => checkpoint # None
  /\ task.stage \in {"self", "plan"} => checkpoint = None /\ ~task.recovering

\* What the stage of the upload says about the queue, the checkpoint and the journal.
StageAgrees ==
  /\ task.recovering => journal # None
  /\ ~task.recovering /\ task.stage \in Asking \cup {"plan", "remove_checkpoint", "settle_queue"} =>
       journal = None /\ queue.commit # NoCommit
  /\ task.recovering /\ task.stage \in Asking \cup {"save_result"} => journal.result = None
  /\ task.recovering /\ task.stage \in {"settle_queue", "settle_state", "retire", "retire_journal"} =>
       journal.result # None
  /\ task.recovering /\ task.stage \in {"settle_state", "retire", "retire_journal"} =>
       queue.commit = journal.successor
  /\ task.stage = "replace" => journal # None /\ journal.result = None /\ queue.commit = journal.old
  /\ task.stage \in {"save_result", "retire", "retire_journal"} => task.recovering
  /\ task.stage \in {"remove_checkpoint", "replace", "idle"} => ~task.recovering
  /\ task.stage = "retire_journal" => checkpoint = None
  /\ task.stage = "settle_queue" /\ ~task.recovering => checkpoint = None
  /\ task.stage \in {"save_result", "remove_checkpoint", "settle_queue"} => task.result # None

\* The files of the device, as a restart finds them: without a journal the checkpoint is
\* the queue's proposal; a journal owns it and names what the queue holds.
FilesAgree ==
  /\ journal = None /\ checkpoint # None =>
       checkpoint.commit = queue.commit /\ queue.status # "conflicted"
  /\ journal # None => queue.commit \in {journal.old, journal.successor}
  /\ journal # None /\ queue.status = "conflicted" => queue.commit = NoCommit
  /\ journal # None /\ checkpoint # None => checkpoint.commit = journal.old
  /\ journal # None /\ journal.result = None =>
       checkpoint # None /\ (journal.transfer # None => checkpoint.transfer # None)

Shape == /\ ClientTyped /\ ServerTyped /\ VaultTyped /\ Numbered /\ SessionsWhole
         /\ OneAwaited /\ StageAgrees /\ FilesAgree

\* The checkpoint's transfer carries the checkpoint's proposal.
OwnSession ==
  checkpoint # None /\ checkpoint.transfer # None /\ session[checkpoint.transfer] # NoSession =>
    session[checkpoint.transfer].commit = checkpoint.commit

\* What the server has taken over from the device.
Handled(c) == c \in main \cup {review}

\* The proposal the device is working on.
Pending == IF journal # None THEN journal.old ELSE queue.commit

\* A proposal that the server may still integrate is the pending one or taken over.
OnlyPending ==
  /\ \A t \in Transfers :
       session[t] # NoSession => Handled(session[t].commit) \/ session[t].commit = Pending
  /\ \A m \in net : m.kind = "create" => Handled(m.commit) \/ m.commit = Pending
  /\ Handled(deviceRef) \/ deviceRef \in {NoCommit, Pending}

\* A device ref whose merge was interrupted is not caught behind another review.
ReviewIsLast == deviceRef \in main \cup {NoCommit, review} \/ review \in main \cup {NoCommit}

\* A processor's outcome is true of the vault.
OutcomeIsTrue ==
  \A t \in Transfers : processor[t].stage = "record" =>
    /\ processor[t].outcome.status \in {"merged", "noop"} => session[t].commit \in main
    /\ processor[t].outcome.status = "conflicted" => Handled(session[t].commit)

\* The device gives a proposal up only when the server has taken it over.
GivenUpHandled ==
  /\ task.stage \in {"save_result", "remove_checkpoint", "settle_queue"} => Handled(Pending)
  /\ journal # None /\ journal.result # None => Handled(journal.old)
  /\ queue.status = "conflicted" => queue.commit = NoCommit \/ Handled(queue.commit)

UploadInv == /\ Shape /\ OwnSession /\ OnlyPending /\ ReviewIsLast
             /\ OutcomeIsTrue /\ CompletedIsTrue /\ GivenUpHandled

-----------------------------------------------------------------------------
\* What an answer other than getDeviceSelf's does to the client that awaits it: the
\* upload ends, goes on, or has a completed transfer of its own proposal.
Replied ==
  /\ UNCHANGED <<parent, made, journal>>
  /\ task.stage \in Asking \ {"self"}
  /\ \/ checkpoint' = checkpoint
     \/ /\ task.stage = "create"
        /\ \E t \in Transfers : /\ checkpoint' = [checkpoint EXCEPT !.transfer = t]
                                /\ session'[t] # NoSession /\ session'[t].commit = checkpoint.commit
  /\ \/ /\ task' = Idle /\ error' \in {None, "blocked"}
        /\ queue' = IF task.recovering THEN queue ELSE [queue EXCEPT !.status = "queued_local"]
     \/ /\ \E s \in {"create", "poll", "finalize", "chunk"}, M \in SUBSET Chunks :
             /\ task' = [task EXCEPT !.stage = s, !.result = None, !.missing = M]
             /\ s # "create" => checkpoint'.transfer # None
        /\ UNCHANGED <<queue, error>>
     \/ /\ \E t \in Transfers :
             /\ session[t] # NoSession /\ session[t].status = "completed" /\ session[t].commit = checkpoint.commit
             /\ task' = [task EXCEPT !.stage = IF task.recovering THEN "save_result" ELSE "remove_checkpoint",
                                     !.result = session[t].result, !.missing = {}]
        /\ UNCHANGED <<queue, error>>

\* What executing a request does to the session and the processor of a transfer.
Served(m, t) ==
  /\ \/ session'[t] = session[t]
     \/ session'[t] = NoSession /\ session[t].status # "processing"
     \/ /\ m.kind = "create" /\ Fresh(t)
        /\ session'[t] = NewSession(m.commit, m.expected)
     \/ /\ session[t] # NoSession /\ session[t].status = "open"
        /\ \E R \in SUBSET Chunks : session'[t] = [session[t] EXCEPT !.receipts = R, !.stale = FALSE]
     \/ /\ session[t] # NoSession /\ session[t].status \in {"open", "processing"}
        /\ session[t].receipts = Chunks
        /\ session'[t] = [session[t] EXCEPT !.status = "processing", !.stale = FALSE]
  /\ processor'[t] = processor[t] \/ (processor[t] = Sleeping /\ processor'[t] = [Sleeping EXCEPT !.stage = "run"])

Answered(m) ==
  /\ m.kind # "self"
  /\ IF m.live THEN Replied ELSE UNCHANGED client
  /\ \A t \in Transfers : Served(m, t)
  /\ session' = [t \in Transfers |-> session'[t]] /\ processor' = [t \in Transfers |-> processor'[t]]
  /\ net' = net \ {m}
  /\ UNCHANGED <<running, suspended, vault, faults>>

\* The steps of the specification, with the answered requests by their effect.
Step ==
  \/ QueueProposal \/ ReplaceProposal \/ ClientStep \/ PullResolution \/ Timeout \/ DeviceCrash
  \/ \E m \in net : HandleSelf(m) \/ Answered(m)
  \/ \E t \in Transfers :
       Expire(t) \/ Process(t) \/ ProcessFails(t) \/ ProcessUnsynced(t) \/ RecordOutcome(t) \/ RecordFails(t)
  \/ ServerCrash \/ OperatorRestart \/ ServerStart \/ Unreachable \/ ResolveReview
  \/ UNCHANGED vars

\* What the integration of a commit does to the vault.
Integrates(c, o) ==
  \/ /\ o.deviceRef = deviceRef /\ o.main = main /\ o.review = review
     /\ o.result.status \in {"noop", "conflicted", "device_blocked", "invalid"}
     /\ o.result.status = "noop" => c \in main
     /\ o.result.status = "conflicted" => c = review
  \/ /\ o.result.status = "merged" /\ o.main = main \cup Line(c) /\ o.review = review
     /\ o.deviceRef = deviceRef \/ (o.deviceRef = c /\ review = NoCommit)
  \/ /\ o.result.status = "conflicted" /\ o.main = main /\ o.review = c
     /\ o.deviceRef = deviceRef \/ o.deviceRef = c
     /\ review = NoCommit \/ (c = deviceRef /\ c \notin main /\ c # review)

\* A processor without an outcome.
Resting == {Sleeping, [Sleeping EXCEPT !.stage = "run"]}

\* Whoever stops waiting leaves no request behind that it would still await.
Unawaited ==
  \A n \in net' : /\ n \in Requests /\ ~n.live
                  /\ \E m \in net : /\ n.kind = m.kind /\ n.commit = m.commit
                                    /\ n.expected = m.expected /\ n.transfer = m.transfer

-----------------------------------------------------------------------------
\* A commit is on its own line, and a line holds only commits that were made.
LEMMA LineHolds == ASSUME NEW c \in Commits PROVE c \in Line(c)
BY DEF Line, Commits, NoCommit

LEMMA LineMade ==
  ASSUME Shape, NEW c \in 1..made PROVE Line(c) \subseteq 1..made
<1>1. made \in 0..MaxCommits /\ MaxCommits \in Nat
  BY ConstantsAssumption DEF Shape, ClientTyped
<1> DEFINE S == 1..made
<1>2. S \subseteq Commits
  BY <1>1 DEF Commits
<1>3. ASSUME NEW e \in S PROVE parent[e] \in S \cup {NoCommit}
  <2>1. parent[e] \in 0..MaxCommits /\ parent[e] <= made
    BY <1>2, <1>3 DEF Shape, ClientTyped, Numbered, ClientNumbered
  <2> QED BY <1>1, <2>1 DEF NoCommit
<1> QED BY <1>2, <1>3 DEF Line

LEMMA LineCommits == ASSUME NEW c PROVE Line(c) \subseteq Commits
BY DEF Line

LEMMA CommitRange == Commits \subseteq 0..MaxCommits /\ NoCommit \in 0..MaxCommits /\ NoCommit \notin Commits
BY ConstantsAssumption DEF Commits, NoCommit

\* A session is one of the records the server writes.
LEMMA SessionKinds ==
  ASSUME Shape, NEW t \in Transfers
  PROVE  /\ session[t] \in Sessions \cup {NoSession}
         /\ NoSession.status = None
         /\ session[t] = NoSession <=> session[t].status = None
         /\ session[t] # NoSession => session[t] \in Sessions /\ session[t].status \in SessionStates
<1>1. NoSession.status = None
  BY DEF NoSession
<1> QED BY <1>1, ConstantsAssumption DEF Shape, ServerTyped, Sessions

LEMMA IntegrationCases ==
  ASSUME NEW c \in Commits, NEW o \in Integrations(c)
  PROVE  /\ Integrates(c, o)
         /\ o.result = [status |-> o.result.status, ref |-> o.deviceRef]
<1>1. ASSUME NEW ref, o \in Merges(c, ref), ref = deviceRef \/ (ref = c /\ review = NoCommit),
             review = NoCommit \/ (c = deviceRef /\ c \notin main /\ c # review)
      PROVE  Integrates(c, o) /\ o.result = [status |-> o.result.status, ref |-> o.deviceRef]
  <2>1. CASE o = Outcome("merged", ref, main \cup Line(c), review)
    BY <1>1, <2>1 DEF Outcome, Integrates
  <2>2. CASE o = Outcome("conflicted", ref, main, c)
    BY <1>1, <2>2 DEF Outcome, Integrates
  <2> QED BY <1>1, <2>1, <2>2 DEF Merges
<1>2. ASSUME o \in Existing(c), c = deviceRef \/ review = NoCommit
      PROVE  Integrates(c, o) /\ o.result = [status |-> o.result.status, ref |-> o.deviceRef]
  <2>1. CASE review = c
    BY <1>2, <2>1 DEF Existing, Outcome, Integrates
  <2>2. CASE review # c /\ c \in main
    BY <1>2, <2>2 DEF Existing, Outcome, Integrates
  <2>3. CASE review # c /\ c \notin main
    BY <1>1, <1>2, <2>3 DEF Existing
  <2> QED BY <2>1, <2>2, <2>3
<1>3. CASE c = deviceRef
  BY <1>2, <1>3 DEF Integrations
<1>4. CASE c # deviceRef /\ review # NoCommit
  BY <1>4 DEF Integrations, Outcome, Integrates
<1>5. CASE c # deviceRef /\ review = NoCommit /\ c \in Invalid
  BY <1>5 DEF Integrations, Outcome, Integrates
<1>6. CASE c # deviceRef /\ review = NoCommit /\ c \notin Invalid /\ c \in Line(deviceRef)
  BY <1>2, <1>6 DEF Integrations
<1>7. CASE /\ c # deviceRef /\ review = NoCommit /\ c \notin Invalid /\ c \notin Line(deviceRef)
           /\ deviceRef = NoCommit \/ deviceRef \in Line(c)
  BY <1>1, <1>7 DEF Integrations
<1>8. CASE /\ c # deviceRef /\ review = NoCommit /\ c \notin Invalid /\ c \notin Line(deviceRef)
           /\ ~(deviceRef = NoCommit \/ deviceRef \in Line(c))
  BY <1>8 DEF Integrations, Outcome, Integrates
<1> QED BY <1>3, <1>4, <1>5, <1>6, <1>7, <1>8

\* What an awaited answer does.
LEMMA ReplyEffect ==
  ASSUME Shape, NEW m \in net, m.live, m.kind # "self", NEW t, NEW d, Reply(m.kind, t, d),
         \/ d.status \in {"gone", "refused"}
         \/ /\ t \in Transfers /\ d \in Sessions
            /\ m.kind = "create" => session'[t] # NoSession /\ session'[t].commit = checkpoint.commit
            /\ m.kind = "finalize" => d.status # "open"
            /\ d.status = "completed" => session[t] = d /\ d.commit = checkpoint.commit
  PROVE  Replied
<1>1. /\ m.kind = task.stage /\ m.kind \in Asking \ {"self"} /\ task \in Tasks
      /\ checkpoint # None /\ checkpoint \in Checkpoints
      /\ m.kind \in Fetching => checkpoint.transfer # None
  BY DEF Shape, OneAwaited, ServerTyped, ClientTyped, Requests, Asking
<1>2. \/ checkpoint' = checkpoint
      \/ /\ m.kind = "create" /\ d.status \notin {"gone", "refused"}
         /\ t \in Transfers /\ checkpoint' = [checkpoint EXCEPT !.transfer = t]
  BY DEF Reply
<1>3. ASSUME NEW code \in {None, "blocked"}, Fail(code) PROVE Replied
  BY <1>1, <1>2, <1>3 DEF Fail, Replied
<1>4. ASSUME NEW s \in {"create", "poll", "finalize", "chunk"}, NEW M \in SUBSET Chunks,
             Continue(s, None, M), s # "create" => checkpoint'.transfer # None
      PROVE  Replied
  BY <1>1, <1>2, <1>4 DEF Continue, Replied
<1>5. CASE d.status = "refused"
  BY <1>3, <1>5 DEF Reply
<1>6. CASE d.status = "gone"
  <2>1. (m.kind = "get" /\ Continue("create", None, {})) \/ Fail(None)
    BY <1>6 DEF Reply
  <2> QED BY <1>3, <1>4, <2>1
<1>7. CASE d.status \notin {"gone", "refused"}
  <2>1. /\ Accept(m.kind, d) /\ t \in Transfers /\ d \in Sessions
    BY <1>7 DEF Reply
  <2>2. checkpoint'.transfer # None
    <3>1. CASE m.kind = "create"
      <4>1. checkpoint' = [checkpoint EXCEPT !.transfer = t]
        BY <1>7, <3>1 DEF Reply
      <4> QED BY <1>1, <2>1, <4>1, ConstantsAssumption DEF Checkpoints
    <3>2. CASE m.kind # "create"
      BY <1>1, <1>2, <3>2 DEF Asking
    <3> QED BY <3>1, <3>2
  <2>3. CASE d.status = "completed"
    <3>1. Continue(IF task.recovering THEN "save_result" ELSE "remove_checkpoint", d.result, {})
      BY <2>1, <2>3 DEF Accept
    <3>2. session[t] = d /\ d.commit = checkpoint.commit
      BY <1>7, <2>3
    <3>3. session[t] # NoSession
      BY <2>1, <2>3, <3>2, ConstantsAssumption DEF NoSession, SessionStates
    <3> QED BY <1>1, <1>2, <1>7, <2>1, <2>3, <3>1, <3>2, <3>3 DEF Continue, Replied
  <2>4. CASE d.status = "processing"
    BY <1>4, <2>1, <2>2, <2>4 DEF Accept
  <2>5. CASE d.status = "rejected"
    <3>1. (m.kind = "get" /\ Continue("create", None, {})) \/ Rejected(d)
      BY <2>1, <2>5 DEF Accept
    <3>2. CASE Rejected(d)
      BY <1>3, <3>2 DEF Rejected
    <3> QED BY <1>4, <3>1, <3>2
  <2>6. CASE d.status = "open"
    <3>1. m.kind \in {"get", "poll", "create", "chunk"}
      BY <1>1, <1>7, <2>6 DEF Asking, Fetching
    <3>2. CASE m.kind = "get"
      BY <1>4, <2>1, <2>6, <3>2 DEF Accept
    <3>3. CASE m.kind = "poll"
      BY <1>4, <2>1, <2>2, <2>6, <3>3 DEF Accept
    <3>4. CASE m.kind \in {"create", "chunk"}
      <4>1. \E s \in {"finalize", "chunk"} : Continue(s, None, Chunks \ d.receipts)
        BY <2>1, <2>6, <3>4 DEF Accept
      <4> QED BY <1>4, <2>2, <4>1
    <3> QED BY <3>1, <3>2, <3>3, <3>4
  <2> QED BY <2>1, <2>3, <2>4, <2>5, <2>6 DEF Sessions, SessionStates
<1> QED BY <1>5, <1>6, <1>7

\* A request that is refused, or whose transfer is gone, leaves no mark but pruned sessions.
LEMMA RefuseEffect ==
  ASSUME Shape, NEW m \in net, m.kind # "self", NEW how \in {"gone", "refused"}, Refuse(m, how),
         \A t \in Transfers : session'[t] = session[t] \/ (session'[t] = NoSession /\ session[t].status # "processing"),
         session' = [t \in Transfers |-> session'[t]]
  PROVE  Answered(m)
<1>1. m.live => Replied
  BY ReplyEffect DEF Refuse, Answer
<1>2. processor' = [t \in Transfers |-> processor'[t]]
  BY DEF Refuse, Shape, ServerTyped
<1>3. \A t \in Transfers : Served(m, t)
  BY DEF Refuse, Served
<1> QED BY <1>1, <1>2, <1>3 DEF Answered, Refuse, Answer

LEMMA MissingEffect ==
  ASSUME Shape, NEW m \in net, m.kind \in Fetching, Missing(m) PROVE Answered(m)
<1>1. m.transfer \in Transfers /\ session \in [Transfers -> Sessions \cup {NoSession}]
  BY DEF Shape, OneAwaited, ServerTyped
<1>2. session[m.transfer].status # "processing"
  BY ConstantsAssumption DEF Missing, Held, Expired, SessionStates
<1> QED BY <1>1, <1>2, RefuseEffect DEF Missing, Fetching

LEMMA PrunedKinds ==
  ASSUME Shape, NEW t \in Transfers
  PROVE  Pruned[t] = session[t] \/ (Pruned[t] = NoSession /\ session[t].status # "processing")
BY DEF Pruned, Expired

LEMMA CreateEffect ==
  ASSUME Shape, NEW m \in net, HandleCreate(m) PROVE Answered(m)
<1>1. m.kind = "create" /\ UNCHANGED processor /\ m \in Requests
  BY DEF HandleCreate, Shape, ServerTyped
<1>2. processor' = [t \in Transfers |-> processor'[t]]
  BY <1>1 DEF Shape, ServerTyped
<1>3. Pruned = [t \in Transfers |-> Pruned[t]]
  BY DEF Pruned
<1>4. m.live => m.commit = checkpoint.commit
  BY <1>1 DEF Shape, OneAwaited
<1>5. CASE TooManyOpen(m)
  BY <1>1, <1>3, <1>5, PrunedKinds, RefuseEffect DEF HandleCreate
<1>6. ASSUME NEW t \in Transfers, SameAttempt(m, Pruned[t]), session' = Pruned, Answer(m, t, Pruned[t])
      PROVE  Answered(m)
  <2>1. Pruned[t].status # None /\ Pruned[t].commit = m.commit
    BY <1>6 DEF SameAttempt
  <2>2. Pruned[t] = session[t] /\ session[t] # NoSession /\ session[t] \in Sessions
    BY <2>1, PrunedKinds, SessionKinds
  <2>3. m.live => Replied
    BY <1>1, <1>4, <1>6, <2>1, <2>2, ReplyEffect DEF Answer
  <2>4. \A u \in Transfers : Served(m, u)
    BY <1>1, <1>6, PrunedKinds DEF Served
  <2> QED BY <1>1, <1>2, <1>3, <1>6, <2>3, <2>4 DEF Answered, Answer
<1>7. ASSUME NEW t \in Transfers, Fresh(t), session' = [Pruned EXCEPT ![t] = NewSession(m.commit, m.expected)],
             Answer(m, t, NewSession(m.commit, m.expected))
      PROVE  Answered(m)
  <2>1. session'[t] = NewSession(m.commit, m.expected)
    BY <1>3, <1>7
  <2>2. NewSession(m.commit, m.expected) \in Sessions
    BY <1>1 DEF NewSession, Sessions, SessionStates, Requests, Shape, OneAwaited
  <2>3. NewSession(m.commit, m.expected) # NoSession
    BY ConstantsAssumption DEF NewSession, NoSession, SessionStates
  <2>4. NewSession(m.commit, m.expected).commit = m.commit /\ NewSession(m.commit, m.expected).status = "open"
    BY DEF NewSession
  <2>5. m.live => Replied
    BY <1>1, <1>4, <1>7, <2>1, <2>2, <2>3, <2>4, ReplyEffect DEF Answer
  <2>6. \A u \in Transfers : Served(m, u)
    BY <1>1, <1>3, <1>7, <2>1, PrunedKinds DEF Served
  <2>7. session' = [u \in Transfers |-> session'[u]]
    BY <1>3, <1>7
  <2> QED BY <1>1, <1>2, <1>7, <2>5, <2>6, <2>7 DEF Answered, Answer
<1> QED BY <1>5, <1>6, <1>7 DEF HandleCreate

LEMMA GetEffect ==
  ASSUME Shape, OwnSession, NEW m \in net, HandleGet(m) PROVE Answered(m)
<1>1. m.kind \in {"get", "poll"} /\ m.kind \in Fetching /\ m.transfer \in Transfers /\ m \in Requests
  BY DEF HandleGet, Shape, OneAwaited, ServerTyped, Fetching
<1>2. CASE Missing(m)
  BY <1>1, <1>2, MissingEffect
<1>3. CASE ~Missing(m)
  <2> DEFINE t == m.transfer
  <2>1. /\ Held(t) /\ Answer(m, t, session[t]) /\ UNCHANGED session
        /\ processor' = IF session[t].status = "processing" THEN Started(t) ELSE processor
    BY <1>3 DEF HandleGet
  <2>2. session[t] # NoSession /\ session[t] \in Sessions
    BY <1>1, <2>1, SessionKinds DEF Held
  <2>3. m.live => session[t].commit = checkpoint.commit
    BY <1>1, <2>2, ConstantsAssumption DEF Shape, OneAwaited, OwnSession, Fetching
  <2>4. m.live => Replied
    BY <1>1, <2>1, <2>2, <2>3, ReplyEffect DEF Answer
  <2>5. processor' = [u \in Transfers |-> processor'[u]] /\ session' = [u \in Transfers |-> session'[u]]
    BY <1>1, <2>1 DEF Started, Shape, ServerTyped
  <2>6. \A u \in Transfers : Served(m, u)
    BY <1>1, <2>1 DEF Served, Started, Sleeping, Shape, ServerTyped
  <2> QED BY <1>1, <2>1, <2>4, <2>5, <2>6 DEF Answered, Answer
<1> QED BY <1>2, <1>3

LEMMA ChunkEffect ==
  ASSUME Shape, OwnSession, NEW m \in net, HandleChunk(m) PROVE Answered(m)
<1>1. m.kind = "chunk" /\ m.kind \in Fetching /\ m.transfer \in Transfers /\ m \in Requests
  BY DEF HandleChunk, Shape, OneAwaited, ServerTyped, Fetching
<1>2. CASE Missing(m)
  BY <1>1, <1>2, MissingEffect
<1>3. CASE Refuse(m, "refused") /\ UNCHANGED session
  BY <1>1, <1>3, RefuseEffect DEF Shape, ServerTyped
<1>4. CASE ~Missing(m) /\ ~(Refuse(m, "refused") /\ UNCHANGED session)
  <2> DEFINE t == m.transfer
  <2>1. /\ Held(t) /\ session[t].status = "open" /\ Answer(m, t, Received(m))
        /\ session' = [session EXCEPT ![t] = Received(m)] /\ UNCHANGED processor
    BY <1>4 DEF HandleChunk
  <2>2. session[t] # NoSession /\ session[t] \in Sessions
    BY <1>1, <2>1, SessionKinds DEF Held
  <2>3. /\ Received(m) \in Sessions /\ Received(m).status = "open"
        /\ \E R \in SUBSET Chunks : Received(m) = [session[t] EXCEPT !.receipts = R, !.stale = FALSE]
    <3> DEFINE R == session[t].receipts \cup {m.chunk}
    <3>1. R \in SUBSET Chunks
      BY <1>1, <2>2 DEF Requests, Sessions
    <3>2. Received(m) = [session[t] EXCEPT !.receipts = R, !.stale = FALSE]
      BY DEF Received
    <3> HIDE DEF R
    <3>3. Received(m) \in Sessions /\ Received(m).status = "open"
      BY <2>1, <2>2, <3>1, <3>2 DEF Sessions
    <3> QED BY <3>1, <3>2, <3>3
  <2>4. m.live => Replied
    BY <1>1, <2>1, <2>3, ReplyEffect DEF Answer
  <2>5. processor' = [u \in Transfers |-> processor'[u]] /\ session' = [u \in Transfers |-> session'[u]]
    BY <1>1, <2>1 DEF Shape, ServerTyped
  <2>6. \A u \in Transfers : Served(m, u)
    BY <1>1, <2>1, <2>2, <2>3 DEF Served, Shape, ServerTyped
  <2> QED BY <1>1, <2>1, <2>4, <2>5, <2>6 DEF Answered, Answer
<1> QED BY <1>2, <1>3, <1>4

LEMMA FinalizeEffect ==
  ASSUME Shape, OwnSession, NEW m \in net, HandleFinalize(m) PROVE Answered(m)
<1>1. m.kind = "finalize" /\ m.kind \in Fetching /\ m.transfer \in Transfers /\ m \in Requests
  BY DEF HandleFinalize, Shape, OneAwaited, ServerTyped, Fetching
<1>2. CASE Missing(m)
  BY <1>1, <1>2, MissingEffect
<1>3. CASE ~Missing(m)
  <2> DEFINE t == m.transfer
             s == session[m.transfer]
  <2>1. Held(t)
    BY <1>3 DEF HandleFinalize
  <2>2. s # NoSession /\ s \in Sessions
    BY <1>1, <2>1, SessionKinds DEF Held
  <2>3. m.live => s.commit = checkpoint.commit
    BY <1>1, <2>2, ConstantsAssumption DEF Shape, OneAwaited, OwnSession, Fetching
  <2>4. CASE s.status \in {"completed", "rejected"}
    <3>1. Answer(m, t, s) /\ UNCHANGED <<session, processor>>
      BY <1>3, <2>4 DEF HandleFinalize
    <3>2. m.live => Replied
      BY <1>1, <2>2, <2>3, <2>4, <3>1, ReplyEffect DEF Answer
    <3>3. processor' = [u \in Transfers |-> processor'[u]] /\ session' = [u \in Transfers |-> session'[u]]
      BY <3>1 DEF Shape, ServerTyped
    <3>4. \A u \in Transfers : Served(m, u)
      BY <3>1 DEF Served
    <3> QED BY <1>1, <3>1, <3>2, <3>3, <3>4 DEF Answered, Answer
  <2>5. CASE s.status \notin {"completed", "rejected"} /\ s.receipts # Chunks
    <3>1. Refuse(m, "refused") /\ UNCHANGED session
      BY <1>3, <2>5 DEF HandleFinalize
    <3> QED BY <1>1, <3>1, RefuseEffect DEF Shape, ServerTyped
  <2>6. CASE s.status \notin {"completed", "rejected"} /\ s.receipts = Chunks
    <3>1. /\ session' = [session EXCEPT ![t].status = "processing", ![t].stale = FALSE]
          /\ processor' = Started(t) /\ Answer(m, t, [s EXCEPT !.status = "processing"])
      BY <1>3, <2>6 DEF HandleFinalize
    <3>2. [s EXCEPT !.status = "processing"] \in Sessions /\ [s EXCEPT !.status = "processing"].status = "processing"
      BY <2>2 DEF Sessions, SessionStates
    <3>3. m.live => Replied
      BY <1>1, <3>1, <3>2, ReplyEffect DEF Answer
    <3>4. processor' = [u \in Transfers |-> processor'[u]] /\ session' = [u \in Transfers |-> session'[u]]
      BY <1>1, <3>1 DEF Started, Shape, ServerTyped
    <3>5. \A u \in Transfers : processor'[u] = processor[u] \/ (processor[u] = Sleeping /\ processor'[u] = [Sleeping EXCEPT !.stage = "run"])
      BY <1>1, <3>1 DEF Started, Shape, ServerTyped
    <3>6. \A u \in Transfers : u # t => session'[u] = session[u]
      BY <1>1, <3>1 DEF Shape, ServerTyped
    <3>7. session'[t] = [s EXCEPT !.status = "processing", !.stale = FALSE]
      BY <1>1, <2>2, <3>1 DEF Shape, ServerTyped, Sessions
    <3>8. s.status \in {"open", "processing"}
      BY <2>2, <2>6 DEF Sessions, SessionStates
    <3>9. \A u \in Transfers : Served(m, u)
      BY <1>1, <2>2, <2>6, <3>5, <3>6, <3>7, <3>8 DEF Served
    <3> QED BY <1>1, <3>1, <3>3, <3>4, <3>9 DEF Answered, Answer
  <2> QED BY <2>4, <2>5, <2>6
<1> QED BY <1>2, <1>3

\* Every step is one of those the proofs consider.
LEMMA Steps == ASSUME Shape, OwnSession, [Next]_vars PROVE Step
<1>1. ASSUME NEW m \in net, HandleUnavailable(m) PROVE Answered(m)
  BY <1>1, RefuseEffect DEF HandleUnavailable, Shape, ServerTyped
<1> QED BY <1>1, CreateEffect, GetEffect, ChunkEffect, FinalizeEffect DEF Next, Handle, Step

\* Processing a transfer integrates its commit.
LEMMA ProcessEffect ==
  ASSUME Shape, NEW t \in Transfers, Process(t)
  PROVE  \/ /\ session[t].status # "processing" /\ UNCHANGED vault
            /\ processor' = [processor EXCEPT ![t] = Sleeping]
         \/ /\ session[t].status = "processing" /\ session[t] # NoSession
            /\ session[t].commit \in Commits
            /\ \E o : /\ Integrates(session[t].commit, o) /\ o.result \in Results
                      /\ o.result.ref \in {deviceRef, session[t].commit}
                      /\ deviceRef' = o.deviceRef /\ main' = o.main /\ review' = o.review
                      /\ processor' = [processor EXCEPT ![t] = [stage |-> "record", outcome |-> o.result]]
<1>1. CASE session[t].status # "processing"
  BY <1>1 DEF Process
<1>2. CASE session[t].status = "processing"
  <2>1. session[t] # NoSession /\ session[t].commit \in Commits /\ session[t].commit \in 0..MaxCommits
    BY <1>2, SessionKinds, ConstantsAssumption DEF Sessions, Commits, SessionStates
  <2>2. PICK o \in Integrations(session[t].commit) :
             /\ deviceRef' = o.deviceRef /\ main' = o.main /\ review' = o.review
             /\ processor' = [processor EXCEPT ![t] = [stage |-> "record", outcome |-> o.result]]
    BY <1>2 DEF Process
  <2>3. Integrates(session[t].commit, o) /\ o.result = [status |-> o.result.status, ref |-> o.deviceRef]
    BY <2>1, IntegrationCases
  <2>4. o.deviceRef \in {deviceRef, session[t].commit}
    BY <2>3 DEF Integrates
  <2>5. o.result.status \in {"merged", "noop", "conflicted", "invalid", "device_blocked"}
    BY <2>3 DEF Integrates
  <2>6. o.result \in Results /\ o.result.ref = o.deviceRef
    <3>1. o.deviceRef \in 0..MaxCommits
      BY <2>1, <2>4 DEF Shape, VaultTyped
    <3> QED BY <2>3, <2>5, <3>1 DEF Results
  <2> QED BY <1>2, <2>1, <2>2, <2>3, <2>4, <2>6
<1> QED BY <1>1, <1>2

\* An interrupted integration moves at most the device ref.
LEMMA MovedCases ==
  ASSUME NEW c \in Commits, MovedAtMost(c)
  PROVE  /\ UNCHANGED <<main, review>>
         /\ deviceRef' = deviceRef \/ (deviceRef' = c /\ review = NoCommit)
<1>1. CASE deviceRef' = deviceRef
  BY <1>1 DEF MovedAtMost
<1>2. CASE deviceRef' # deviceRef
  <2>1. PICK o \in Integrations(c) : deviceRef' = o.deviceRef
    BY <1>2 DEF MovedAtMost
  <2>2. Integrates(c, o)
    BY IntegrationCases
  <2> QED BY <1>2, <2>1, <2>2 DEF Integrates, MovedAtMost
<1> QED BY <1>1, <1>2

\* What recording an outcome, or failing to, does.
LEMMA RecordedKinds ==
  ASSUME Shape, NEW t \in Transfers, processor[t].stage = "record"
  PROVE  LET r == Recorded(session[t], processor[t].outcome) IN
         /\ session[t] # NoSession /\ session[t].status = "processing"
         /\ r \in Sessions /\ r # NoSession /\ r.commit = session[t].commit
         /\ r.expected = session[t].expected /\ r.receipts = session[t].receipts
         /\ \/ r = session[t]
            \/ /\ r.status \in {"completed", "rejected"} /\ r.result = processor[t].outcome
               /\ r.result \in Results /\ r.result # None
               /\ r.status = "completed" => r.result.status \in {"merged", "noop", "conflicted"}
<1> DEFINE r == Recorded(session[t], processor[t].outcome)
           out == processor[t].outcome
<1>1. session[t] # NoSession /\ session[t].status = "processing" /\ session[t] \in Sessions
  BY SessionKinds, ConstantsAssumption DEF Shape, SessionsWhole, SessionStates
<1>2. out \in Results \cup {GitError}
  BY DEF Shape, SessionsWhole, ServerTyped, Processors
<1>3. CASE out = GitError
  <2>1. out.status = "git_error"
    BY <1>3 DEF GitError
  <2>2. r = session[t]
    BY <1>1, <2>1 DEF Recorded
  <2> QED BY <1>1, <2>2
<1>4. CASE out \in Results
  <2>1. out.status # "git_error" /\ out # None
    BY <1>4, ConstantsAssumption DEF Results
  <2>2. CASE out.status \in {"merged", "noop", "conflicted"}
    <3>1. r = [session[t] EXCEPT !.status = "completed", !.result = out]
      BY <1>1, <2>1, <2>2 DEF Recorded
    <3> HIDE DEF r
    <3>2. /\ r \in Sessions /\ r.status = "completed" /\ r.result = out /\ r.commit = session[t].commit
          /\ r.expected = session[t].expected /\ r.receipts = session[t].receipts
      BY <1>1, <1>4, <3>1 DEF Sessions, SessionStates
    <3>3. r # NoSession
      BY <3>2, ConstantsAssumption DEF NoSession, SessionStates
    <3> QED BY <1>1, <1>4, <2>1, <2>2, <3>2, <3>3 DEF r
  <2>3. CASE out.status \notin {"merged", "noop", "conflicted"}
    <3>1. r = [session[t] EXCEPT !.status = "rejected", !.result = out]
      BY <1>1, <2>1, <2>3 DEF Recorded
    <3> HIDE DEF r
    <3>2. /\ r \in Sessions /\ r.status = "rejected" /\ r.result = out /\ r.commit = session[t].commit
          /\ r.expected = session[t].expected /\ r.receipts = session[t].receipts
      BY <1>1, <1>4, <3>1 DEF Sessions, SessionStates
    <3>3. r # NoSession
      BY <3>2, ConstantsAssumption DEF NoSession, SessionStates
    <3> QED BY <1>1, <1>4, <2>1, <3>2, <3>3 DEF r
  <2> QED BY <2>2, <2>3
<1> QED BY <1>2, <1>3, <1>4

LEMMA RestingKinds ==
  \A p \in Resting : p \in Processors /\ p.stage \in {"none", "run"} /\ p.outcome = None
BY DEF Resting, Sleeping, Processors

LEMMA RecordEffect ==
  ASSUME Shape, NEW t \in Transfers, RecordOutcome(t) \/ RecordFails(t)
  PROVE  /\ processor[t].stage = "record" /\ UNCHANGED <<client, net, vault>>
         /\ session' = session \/ session' = [session EXCEPT ![t] = Recorded(session[t], processor[t].outcome)]
         /\ \E p \in Resting : processor' = [processor EXCEPT ![t] = p]
<1>1. CASE RecordOutcome(t)
  BY <1>1 DEF RecordOutcome, Resting
<1>2. CASE RecordFails(t)
  BY <1>2 DEF RecordFails, Resting
<1> QED BY <1>1, <1>2

\* What a transfer's expiry leaves of its session.
LEMMA ExpireEffect ==
  ASSUME Shape, NEW t \in Transfers, Expire(t)
  PROVE  /\ session[t] # NoSession
         /\ \/ session' = [session EXCEPT ![t] = NoSession] /\ session[t].status # "processing"
            \/ session' = [session EXCEPT ![t] = [session[t] EXCEPT !.stale = TRUE]]
<1>1. session[t] # NoSession
  BY SessionKinds DEF Expire
<1> QED BY <1>1 DEF Expire

LEMMA AbandonedEffect ==
  ASSUME Shape, NEW m \in net, m.live, Abandoned(m) PROVE Unawaited
<1>1. \A n \in net \ {m} : n \in Requests /\ ~n.live
  BY DEF Shape, ServerTyped, OneAwaited
<1>2. m \in Requests
  BY DEF Shape, ServerTyped
<1> DEFINE a == [m EXCEPT !.live = FALSE]
<1>3. /\ a \in Requests /\ ~a.live /\ a.kind = m.kind /\ a.commit = m.commit
      /\ a.expected = m.expected /\ a.transfer = m.transfer
  BY <1>2 DEF Requests
<1>4. net' = net \ {m} \/ net' = (net \ {m}) \cup {a}
  BY DEF Abandoned
<1> HIDE DEF a
<1> QED BY <1>1, <1>3, <1>4 DEF Unawaited

LEMMA StoppedWaiting ==
  ASSUME Shape, Timeout \/ DeviceCrash \/ ServerCrash \/ OperatorRestart \/ Unreachable PROVE Unawaited
<1>1. CASE Timeout
  BY <1>1, AbandonedEffect DEF Timeout
<1>2. CASE DeviceCrash
  BY <1>2, AbandonedEffect DEF DeviceCrash, Awaiting, Unawaited, Shape, ServerTyped
<1>3. CASE ServerCrash \/ OperatorRestart
  BY <1>3 DEF ServerCrash, OperatorRestart, Stopped, Unawaited
<1>4. CASE Unreachable
  BY <1>4 DEF Unreachable, Unawaited, Shape, ServerTyped, OneAwaited
<1> QED BY <1>1, <1>2, <1>3, <1>4

\* The effect of an answer, by the fields that the invariants speak of.
LEMMA RepliedEffect ==
  ASSUME Shape, Replied
  PROVE  /\ UNCHANGED <<parent, made, journal>>
         /\ task.stage \in Asking \ {"self"}
         /\ checkpoint # None /\ checkpoint' # None
         /\ checkpoint'.commit = checkpoint.commit /\ checkpoint'.expected = checkpoint.expected
         /\ checkpoint.transfer # None => checkpoint'.transfer # None
         /\ queue'.commit = queue.commit /\ queue'.expected = queue.expected
         /\ queue'.status \in {queue.status, "queued_local"}
         /\ \/ task'.stage = "idle" /\ task'.result = None /\ task'.recovering = FALSE
            \/ /\ task'.stage \in {"create", "poll", "finalize", "chunk"} /\ task'.result = None
               /\ task'.recovering = task.recovering
               /\ task'.stage # "create" => checkpoint'.transfer # None
            \/ /\ task'.stage = IF task.recovering THEN "save_result" ELSE "remove_checkpoint"
               /\ task'.recovering = task.recovering
               /\ \E t \in Transfers : /\ session[t] # NoSession /\ session[t].status = "completed"
                                       /\ session[t].commit = checkpoint.commit
                                       /\ task'.result = session[t].result
<1>1. task.stage \in Asking \ {"self"} /\ UNCHANGED <<parent, made, journal>>
  BY DEF Replied
<1>2. checkpoint # None /\ checkpoint \in Checkpoints /\ queue \in Queues /\ task \in Tasks
  BY <1>1 DEF Asking, Shape, OneAwaited, ClientTyped
<1>3. /\ checkpoint' \in Checkpoints /\ checkpoint'.commit = checkpoint.commit
      /\ checkpoint'.expected = checkpoint.expected
      /\ checkpoint.transfer # None => checkpoint'.transfer # None
  BY <1>2, ConstantsAssumption DEF Replied, Checkpoints
<1>4. checkpoint' # None
  BY <1>3, ConstantsAssumption
<1>5. /\ queue'.commit = queue.commit /\ queue'.expected = queue.expected
      /\ queue'.status \in {queue.status, "queued_local"}
  BY <1>2 DEF Replied, Queues
<1>6. CASE task' = Idle
  BY <1>1, <1>2, <1>3, <1>4, <1>5, <1>6 DEF Idle
<1>7. ASSUME NEW s, NEW r, NEW M, task' = [task EXCEPT !.stage = s, !.result = r, !.missing = M]
      PROVE  task'.stage = s /\ task'.result = r /\ task'.recovering = task.recovering
  BY <1>2, <1>7 DEF Tasks
<1>8. ASSUME NEW s \in {"create", "poll", "finalize", "chunk"}, NEW M \in SUBSET Chunks,
             task' = [task EXCEPT !.stage = s, !.result = None, !.missing = M],
             s # "create" => checkpoint'.transfer # None
      PROVE  /\ task'.stage \in {"create", "poll", "finalize", "chunk"} /\ task'.result = None
             /\ task'.recovering = task.recovering
             /\ task'.stage # "create" => checkpoint'.transfer # None
  <2>1. task'.stage = s /\ task'.result = None /\ task'.recovering = task.recovering
    BY <1>7, <1>8
  <2> QED BY <1>8, <2>1
<1>9. ASSUME NEW t \in Transfers, session[t] # NoSession, session[t].status = "completed",
             session[t].commit = checkpoint.commit,
             task' = [task EXCEPT !.stage = IF task.recovering THEN "save_result" ELSE "remove_checkpoint",
                                  !.result = session[t].result, !.missing = {}]
      PROVE  /\ task'.stage = IF task.recovering THEN "save_result" ELSE "remove_checkpoint"
             /\ task'.recovering = task.recovering
             /\ \E u \in Transfers : /\ session[u] # NoSession /\ session[u].status = "completed"
                                     /\ session[u].commit = checkpoint.commit
                                     /\ task'.result = session[u].result
  <2>1. /\ task'.stage = (IF task.recovering THEN "save_result" ELSE "remove_checkpoint")
        /\ task'.result = session[t].result /\ task'.recovering = task.recovering
    BY <1>7, <1>9
  <2> QED BY <1>9, <2>1
<1>10. CASE \E s \in {"create", "poll", "finalize", "chunk"}, M \in SUBSET Chunks :
              /\ task' = [task EXCEPT !.stage = s, !.result = None, !.missing = M]
              /\ s # "create" => checkpoint'.transfer # None
  BY <1>1, <1>2, <1>3, <1>4, <1>5, <1>8, <1>10
<1>11. CASE \E t \in Transfers :
              /\ session[t] # NoSession /\ session[t].status = "completed" /\ session[t].commit = checkpoint.commit
              /\ task' = [task EXCEPT !.stage = IF task.recovering THEN "save_result" ELSE "remove_checkpoint",
                                      !.result = session[t].result, !.missing = {}]
  BY <1>1, <1>2, <1>3, <1>4, <1>5, <1>9, <1>11
<1> QED BY <1>6, <1>10, <1>11 DEF Replied


\* Idle is a task, and stages change nothing else.
LEMMA TaskKinds ==
  ASSUME Shape
  PROVE  /\ Idle \in Tasks
         /\ \A s \in Stages : [task EXCEPT !.stage = s] \in Tasks /\ [Idle EXCEPT !.stage = s] \in Tasks
<1>1. Idle \in Tasks
  BY DEF Idle, Tasks, Stages
<1> QED BY <1>1 DEF Shape, ClientTyped, Tasks

\* A published handoff names the proposal of the checkpoint, and a new one or none.
LEMMA HandoffEffect ==
  ASSUME Shape, ReplaceProposal
  PROVE  /\ journal' \in Handoffs /\ journal' # None /\ journal'.result = None
         /\ journal'.old = checkpoint.commit /\ journal'.expected = checkpoint.expected
         /\ journal'.transfer = checkpoint.transfer
         /\ made' \in 0..MaxCommits /\ parent' \in [Commits -> 0..MaxCommits]
         /\ \/ journal'.successor = NoCommit /\ UNCHANGED <<parent, made>>
            \/ /\ made' = made + 1 /\ journal'.successor = made + 1
               /\ parent'[made + 1] \in {queue.commit, parent[queue.commit]}
               /\ \A c \in 1..made : parent'[c] = parent[c]
<1>1. queue \in Queues /\ queue.commit \in Commits /\ checkpoint \in Checkpoints
  BY DEF ReplaceProposal, Shape, ClientTyped, Queues, Commits, NoCommit
<1>2. ASSUME NEW s \in 0..MaxCommits, PublishHandoff(s)
      PROVE  /\ journal' \in Handoffs /\ journal' # None /\ journal'.result = None /\ journal'.successor = s
             /\ journal'.old = checkpoint.commit /\ journal'.expected = checkpoint.expected
             /\ journal'.transfer = checkpoint.transfer
  <2>1. journal' \in Handoffs
    BY <1>1, <1>2 DEF PublishHandoff, Handoffs, Checkpoints
  <2> QED BY <1>2, <2>1, ConstantsAssumption DEF PublishHandoff
<1>3. CASE PublishHandoff(NoCommit) /\ UNCHANGED <<parent, made>>
  BY <1>2, <1>3, CommitRange DEF Shape, ClientTyped
<1>4. CASE /\ made < MaxCommits /\ made' = made + 1 /\ PublishHandoff(made + 1)
           /\ \E p \in {queue.commit, parent[queue.commit]} : parent' = [parent EXCEPT ![made + 1] = p]
  <2>1. made + 1 \in Commits /\ made + 1 \in 0..MaxCommits /\ \A c \in 1..made : c # made + 1 /\ c \in Commits
    BY <1>4, ConstantsAssumption DEF Shape, ClientTyped, Commits
  <2>2. parent' \in [Commits -> 0..MaxCommits]
    BY <1>1, <1>4, <2>1 DEF Shape, ClientTyped, Queues
  <2>3. parent'[made + 1] \in {queue.commit, parent[queue.commit]} /\ \A c \in 1..made : parent'[c] = parent[c]
    BY <1>4, <2>1 DEF Shape, ClientTyped
  <2> QED BY <1>2, <1>4, <2>1, <2>2, <2>3
<1> QED BY <1>3, <1>4 DEF ReplaceProposal

\* The device's files and memory keep their types.
LEMMA ClientTypedStep ==
  ASSUME Shape, Step PROVE ClientTyped'
<1>1. ASSUME QueueProposal PROVE ClientTyped'
  <2>1. made + 1 \in Commits /\ made + 1 \in 0..MaxCommits /\ made \in 0..MaxCommits
    BY <1>1, ConstantsAssumption DEF QueueProposal, Shape, ClientTyped, Commits
  <2> QED BY <1>1, <2>1 DEF QueueProposal, Shape, ClientTyped, Queues
<1>2. ASSUME ReplaceProposal PROVE ClientTyped'
  BY <1>2, HandoffEffect, TaskKinds DEF ReplaceProposal, Shape, ClientTyped, Stages
<1>3. ASSUME SyncUpload PROVE ClientTyped'
  <2>1. task' \in Tasks
    <3>1. CASE journal # None /\ task' = [stage |-> IF journal.result # None THEN "settle_queue"
                              ELSE IF journal.transfer # None THEN "get" ELSE "create",
                    result |-> journal.result, missing |-> {}, recovering |-> TRUE]
      BY <3>1 DEF Shape, ClientTyped, Handoffs, Tasks, Stages, Asking, Fetching
    <3>2. CASE task' = [Idle EXCEPT !.stage = IF checkpoint = None THEN "self"
                                          ELSE IF checkpoint.transfer # None THEN "get" ELSE "create"]
      BY <3>2, TaskKinds DEF Stages, Asking, Fetching
    <3> QED BY <1>3, <3>1, <3>2 DEF SyncUpload
  <2> QED BY <1>3, <2>1 DEF SyncUpload, Shape, ClientTyped
<1>4. ASSUME WriteCheckpoint PROVE ClientTyped'
  <2>1. queue.commit \in Commits
    BY <1>4 DEF WriteCheckpoint, Shape, StageAgrees, OneAwaited, ClientTyped, Queues, Commits, NoCommit
  <2>2. checkpoint' \in Checkpoints /\ queue' \in Queues
    BY <1>4, <2>1 DEF WriteCheckpoint, Checkpoints, Queues, Shape, ClientTyped
  <2> QED BY <1>4, <2>2, TaskKinds DEF WriteCheckpoint, Shape, ClientTyped, Stages, Asking
<1>5. ASSUME ReplaceQueue PROVE ClientTyped'
  <2>1. journal \in Handoffs
    BY <1>5 DEF ReplaceQueue, Shape, StageAgrees, ClientTyped
  <2>2. queue' \in Queues
    BY <1>5, <2>1 DEF ReplaceQueue, Handoffs, Queues, Shape, ClientTyped
  <2> QED BY <1>5, <2>2, TaskKinds DEF ReplaceQueue, Shape, ClientTyped
<1>6. ASSUME RemoveCheckpoint PROVE ClientTyped'
  BY <1>6, ConstantsAssumption, TaskKinds DEF RemoveCheckpoint, client, server, vault, Shape,
     ClientTyped, ServerTyped, VaultTyped, Queues, Checkpoints, Handoffs, Commits, NoCommit,
     Stages, Asking, Fetching
<1>7. ASSUME SaveResult PROVE ClientTyped'
  <2>1. task.result # None /\ task.result \in Results /\ journal \in Handoffs
    BY <1>7 DEF SaveResult, Shape, ClientTyped, StageAgrees, Tasks
  <2>2. journal' \in Handoffs
    BY <1>7, <2>1 DEF SaveResult, Handoffs
  <2> QED BY <1>7, <2>2, TaskKinds DEF SaveResult, Shape, ClientTyped, Stages
<1>8. ASSUME SettleQueue PROVE ClientTyped'
  <2>1. task.result # None /\ task.result \in Results
    BY <1>8 DEF SettleQueue, Shape, ClientTyped, StageAgrees, Tasks
  <2>2. task.recovering => journal \in Handoffs
    BY DEF Shape, ClientTyped, StageAgrees
  <2>3. 0 \in 0..MaxCommits
    BY ConstantsAssumption
  <2>4. Settled(task.result) \in Queues
    BY <2>1, <2>2, <2>3 DEF Settled, Queues, Results, Handoffs, Shape, ClientTyped, NoCommit
  <2> QED BY <1>8, <2>4, TaskKinds DEF SettleQueue, Shape, ClientTyped, Stages
<1>9. ASSUME SettleState PROVE ClientTyped'
  BY <1>9, ConstantsAssumption, TaskKinds DEF SettleState, client, server, vault, Shape,
     ClientTyped, ServerTyped, VaultTyped, Queues, Checkpoints, Handoffs, Commits, NoCommit,
     Stages, Asking, Fetching
<1>10. ASSUME RetireCheckpoint PROVE ClientTyped'
  BY <1>10, ConstantsAssumption, TaskKinds DEF RetireCheckpoint, client, server, vault, Shape,
     ClientTyped, ServerTyped, VaultTyped, Queues, Checkpoints, Handoffs, Commits, NoCommit,
     Stages, Asking, Fetching
<1>11. ASSUME RetireJournal PROVE ClientTyped'
  BY <1>11, ConstantsAssumption, TaskKinds DEF RetireJournal, client, server, vault, Shape,
     ClientTyped, ServerTyped, VaultTyped, Queues, Checkpoints, Handoffs, Commits, NoCommit,
     Stages, Asking, Fetching
<1>12. ASSUME PullResolution PROVE ClientTyped'
  BY <1>12, ConstantsAssumption, TaskKinds DEF PullResolution, client, server, vault, Shape,
     ClientTyped, ServerTyped, VaultTyped, Queues, Checkpoints, Handoffs, Commits, NoCommit,
     Stages, Asking, Fetching
<1>13. ASSUME Timeout PROVE ClientTyped'
  BY <1>13, ConstantsAssumption, TaskKinds, ZenonT(40) DEF Timeout, Fail, Fault, Abandoned, client, server,
     vault, Shape, ClientTyped, ServerTyped, VaultTyped, Queues, Checkpoints, Handoffs, Commits,
     NoCommit, Stages, Asking, Fetching
<1>14. ASSUME DeviceCrash PROVE ClientTyped'
  BY <1>14, ConstantsAssumption, TaskKinds DEF DeviceCrash, Fault, Abandoned, Awaiting, client,
     server, vault, Shape, ClientTyped, ServerTyped, VaultTyped, Queues, Checkpoints, Handoffs,
     Commits, NoCommit, Stages, Asking, Fetching
<1>15. ASSUME NEW m \in net, HandleSelf(m) PROVE ClientTyped'
  <2>1. queue' \in Queues
    BY <1>15 DEF HandleSelf, Queues, Shape, ClientTyped, VaultTyped
  <2>2. task' \in Tasks
    BY <1>15, TaskKinds DEF HandleSelf, Shape, ClientTyped, Stages
  <2> QED BY <1>15, <2>1, <2>2 DEF HandleSelf, Shape, ClientTyped
<1>16. ASSUME NEW m \in net, Answered(m) PROVE ClientTyped'
  <2>1. CASE UNCHANGED client
    BY <2>1 DEF client, Shape, ClientTyped
  <2>2. CASE Replied
    <3>1. task.stage # "self" /\ checkpoint \in Checkpoints
      BY <2>2 DEF Replied, Shape, OneAwaited, ClientTyped, Asking
    <3>2. checkpoint' \in Checkpoints
      BY <2>2, <3>1 DEF Replied, Checkpoints
    <3>3. queue' \in Queues /\ error' \in {None, "review", "blocked"}
      BY <2>2 DEF Replied, Shape, ClientTyped, Queues
    <3>4. ASSUME NEW t \in Transfers, session[t] # NoSession PROVE session[t].result \in Results \cup {None}
      BY <3>4, SessionKinds DEF Sessions
    <3>5. task' \in Tasks
      <4>1. ASSUME NEW s \in Stages, NEW r \in Results \cup {None}, NEW M \in SUBSET Chunks
            PROVE  [task EXCEPT !.stage = s, !.result = r, !.missing = M] \in Tasks
        BY DEF Shape, ClientTyped, Tasks
      <4>2. CASE task' = Idle
        BY <4>2, TaskKinds
      <4>3. CASE \E s \in {"create", "poll", "finalize", "chunk"}, M \in SUBSET Chunks :
                   task' = [task EXCEPT !.stage = s, !.result = None, !.missing = M]
        <5>1. PICK s \in {"create", "poll", "finalize", "chunk"}, M \in SUBSET Chunks :
                   task' = [task EXCEPT !.stage = s, !.result = None, !.missing = M]
          BY <4>3
        <5>2. s \in Stages
          BY DEF Stages, Asking, Fetching
        <5> QED BY <4>1, <5>1, <5>2
      <4>4. CASE \E t \in Transfers :
                   /\ session[t] # NoSession
                   /\ task' = [task EXCEPT !.stage = IF task.recovering THEN "save_result" ELSE "remove_checkpoint",
                                     !.result = session[t].result, !.missing = {}]
        <5>1. PICK t \in Transfers :
                   /\ session[t] # NoSession
                   /\ task' = [task EXCEPT !.stage = IF task.recovering THEN "save_result" ELSE "remove_checkpoint",
                                     !.result = session[t].result, !.missing = {}]
          BY <4>4
        <5>2. session[t].result \in Results \cup {None}
          BY <3>4, <5>1
        <5>3. (IF task.recovering THEN "save_result" ELSE "remove_checkpoint") \in Stages
          BY DEF Stages
        <5> QED BY <4>1, <5>1, <5>2, <5>3
      <4> QED BY <2>2, <4>2, <4>3, <4>4 DEF Replied
    <3> QED BY <2>2, <3>2, <3>3, <3>5 DEF Replied, Shape, ClientTyped
  <2> QED BY <1>16, <2>1, <2>2 DEF Answered
<1>17. ASSUME ServerCrash PROVE ClientTyped'
  BY <1>17, ConstantsAssumption, TaskKinds DEF ServerCrash, Stopped, Fault, Fail, Awaiting, client,
     server, vault, Shape, ClientTyped, ServerTyped, VaultTyped, Queues, Checkpoints, Handoffs,
     Commits, NoCommit, Stages, Asking, Fetching
<1>18. ASSUME OperatorRestart PROVE ClientTyped'
  BY <1>18, ConstantsAssumption, TaskKinds DEF OperatorRestart, Stopped, Fail, Awaiting, client,
     server, vault, Shape, ClientTyped, ServerTyped, VaultTyped, Queues, Checkpoints, Handoffs,
     Commits, NoCommit, Stages, Asking, Fetching
<1>19. ASSUME Unreachable PROVE ClientTyped'
  BY <1>19, ConstantsAssumption, TaskKinds DEF Unreachable, Fail, client, server, vault, Shape,
     ClientTyped, ServerTyped, VaultTyped, Queues, Checkpoints, Handoffs, Commits, NoCommit,
     Stages, Asking, Fetching
<1>20. ASSUME UNCHANGED <<parent, made, queue, checkpoint, journal, error, task>> PROVE ClientTyped'
  BY <1>20 DEF Shape, ClientTyped, ServerTyped, VaultTyped, Queues, Checkpoints, Handoffs, Commits,
     NoCommit, Stages, Asking, Fetching
<1> QED
  BY <1>1, <1>2, <1>3, <1>4, <1>5, <1>6, <1>7, <1>8, <1>9, <1>10, <1>11, <1>12, <1>13, <1>14,
     <1>15, <1>16, <1>17, <1>18, <1>19, <1>20
  DEF Step, ClientStep, Stopped, Fail, Replied, MovedAtMost, vars, client, server, vault, Send,
     Expire, Process, ProcessFails, ProcessUnsynced, RecordOutcome, RecordFails, ServerStart,
     ResolveReview

\* The vault keeps its types.
LEMMA VaultTypedStep ==
  ASSUME Shape, Step PROVE VaultTyped'
<1>1. ASSUME NEW t \in Transfers, Process(t) PROVE VaultTyped'
  <2>1. CASE /\ session[t].status # "processing" /\ UNCHANGED vault
             /\ processor' = [processor EXCEPT ![t] = Sleeping]
    BY <2>1 DEF vault, Shape, VaultTyped
  <2>2. CASE session[t].status = "processing"
    <3>1. session[t] # NoSession /\ session[t].commit \in Commits
      BY <1>1, <2>2, ProcessEffect
    <3>2. PICK o : /\ Integrates(session[t].commit, o) /\ o.result \in Results
                   /\ o.result.ref \in {deviceRef, session[t].commit}
                   /\ deviceRef' = o.deviceRef /\ main' = o.main /\ review' = o.review
                   /\ processor' = [processor EXCEPT ![t] = [stage |-> "record", outcome |-> o.result]]
      BY <1>1, <2>2, ProcessEffect
    <3> QED BY <3>1, <3>2, LineCommits, CommitRange DEF Integrates, Shape, VaultTyped
  <2> QED BY <1>1, <2>1, <2>2, ProcessEffect
<1>2. ASSUME NEW t \in Transfers, ProcessFails(t) PROVE VaultTyped'
  <2>1. session[t].commit \in Commits /\ session[t].commit \in 0..MaxCommits
    BY <1>2, SessionKinds, ConstantsAssumption DEF ProcessFails, Sessions, Commits, SessionStates
  <2> QED BY <1>2, <2>1, MovedCases DEF ProcessFails, Shape, VaultTyped
<1>3. ASSUME NEW t \in Transfers, ProcessUnsynced(t) PROVE VaultTyped'
  <2>1. session[t].commit \in Commits /\ session[t].commit \in 0..MaxCommits
    BY <1>3, SessionKinds, ConstantsAssumption DEF ProcessUnsynced, Sessions, Commits, SessionStates
  <2> QED BY <1>3, <2>1, MovedCases DEF ProcessUnsynced, Shape, VaultTyped
<1>4. ASSUME ResolveReview PROVE VaultTyped'
  <2>1. 0 \in 0..MaxCommits
    BY ConstantsAssumption
  <2> QED BY <1>4, <2>1, LineCommits DEF ResolveReview, Shape, VaultTyped, NoCommit
<1>5. ASSUME UNCHANGED <<deviceRef, main, review>> PROVE VaultTyped'
  BY <1>5 DEF Shape, VaultTyped, ServerTyped
<1> QED
  BY <1>1, <1>2, <1>3, <1>4, <1>5
  DEF Step, ClientStep, Stopped, Fail, Replied, MovedAtMost, vars, client, server, vault,
     QueueProposal, ReplaceProposal, SyncUpload, WriteCheckpoint, Send, ReplaceQueue,
     RemoveCheckpoint, SaveResult, SettleQueue, SettleState, RetireCheckpoint, RetireJournal,
     PullResolution, Timeout, DeviceCrash, HandleSelf, Answered, Expire, RecordOutcome,
     RecordFails, ServerCrash, OperatorRestart, ServerStart, Unreachable

\* Requests, sessions and processors keep their types.
LEMMA ServerTypedStep ==
  ASSUME Shape, Step PROVE ServerTyped'
<1>1. ASSUME Send PROVE ServerTyped'
  <2>1. PICK k \in Chunks : net' = net \cup {Request(task.stage, IF task.stage \in {"self", "create"} THEN None ELSE checkpoint.transfer, k)}
    BY <1>1 DEF Send
  <2>2. task.stage \in Asking
    BY <1>1 DEF Send, Asking, Fetching
  <2>3. checkpoint # None => checkpoint \in Checkpoints
    BY DEF Shape, ClientTyped
  <2>4. task.stage \notin {"self", "create"} => checkpoint # None /\ checkpoint.transfer \in Transfers
    BY <2>2, <2>3 DEF Asking, Shape, OneAwaited, Checkpoints
  <2>5. Request(task.stage, IF task.stage \in {"self", "create"} THEN None ELSE checkpoint.transfer, k) \in Requests
    BY <2>2, <2>3, <2>4, CommitRange DEF Request, Requests, Checkpoints, Shape, ClientTyped, Queues
  <2> QED BY <1>1, <2>1, <2>5 DEF Send, server, Shape, ServerTyped
<1>2. ASSUME Timeout PROVE ServerTyped'
  BY <1>2, StoppedWaiting DEF Timeout, server, Unawaited, Shape, ServerTyped
<1>3. ASSUME DeviceCrash PROVE ServerTyped'
  BY <1>3, StoppedWaiting DEF DeviceCrash, server, Unawaited, Shape, ServerTyped
<1>4. ASSUME NEW m \in net, HandleSelf(m) PROVE ServerTyped'
  BY <1>4, ConstantsAssumption DEF HandleSelf, client, server, vault, Shape, ServerTyped
<1>5. ASSUME NEW m \in net, Answered(m) PROVE ServerTyped'
  <2>1. net' \subseteq Requests
    BY <1>5 DEF Answered, Shape, ServerTyped
  <2>2. ASSUME NEW t \in Transfers PROVE session'[t] \in Sessions \cup {NoSession} /\ processor'[t] \in Processors
    <3>1. Served(m, t) /\ (m.kind = "create" => m.commit \in Commits) /\ m \in Requests
      BY <1>5 DEF Answered, Shape, ServerTyped, OneAwaited
    <3>2. session[t] # NoSession => session[t] \in Sessions
      BY SessionKinds
    <3>3. processor'[t] \in Processors
      BY <3>1 DEF Served, Sleeping, Processors, Shape, ServerTyped
    <3>4. m.kind = "create" => NewSession(m.commit, m.expected) \in Sessions
      BY <3>1 DEF NewSession, Sessions, SessionStates, Requests
    <3>5. session'[t] \in Sessions \cup {NoSession}
      BY <3>1, <3>2, <3>4, SessionKinds DEF Served, Sessions, SessionStates
    <3> QED BY <3>3, <3>5
  <2>3. session' \in [Transfers -> Sessions \cup {NoSession}] /\ processor' \in [Transfers -> Processors]
    <3>1. session' = [t \in Transfers |-> session'[t]] /\ processor' = [t \in Transfers |-> processor'[t]]
      BY <1>5 DEF Answered
    <3> QED BY <2>2, <3>1
  <2> QED BY <2>1, <2>3 DEF ServerTyped
<1>6. ASSUME NEW t \in Transfers, Expire(t) PROVE ServerTyped'
  <2>1. session[t] \in Sessions
    BY <1>6, ExpireEffect, SessionKinds
  <2>2. [session[t] EXCEPT !.stale = TRUE] \in Sessions
    BY <2>1 DEF Sessions
  <2> QED BY <1>6, <2>2, ExpireEffect DEF Expire, Shape, ServerTyped
<1>7. ASSUME NEW t \in Transfers, Process(t) PROVE ServerTyped'
  <2>1. CASE /\ session[t].status # "processing" /\ UNCHANGED vault
             /\ processor' = [processor EXCEPT ![t] = Sleeping]
    BY <1>7, <2>1 DEF Process, Sleeping, Processors, Shape, ServerTyped
  <2>2. CASE session[t].status = "processing"
    <3>1. session[t] # NoSession /\ session[t].commit \in Commits
      BY <1>7, <2>2, ProcessEffect
    <3>2. PICK o : /\ Integrates(session[t].commit, o) /\ o.result \in Results
                   /\ o.result.ref \in {deviceRef, session[t].commit}
                   /\ deviceRef' = o.deviceRef /\ main' = o.main /\ review' = o.review
                   /\ processor' = [processor EXCEPT ![t] = [stage |-> "record", outcome |-> o.result]]
      BY <1>7, <2>2, ProcessEffect
    <3> QED BY <1>7, <3>1, <3>2 DEF Process, Processors, Shape, ServerTyped
  <2> QED BY <1>7, <2>1, <2>2, ProcessEffect
<1>8. ASSUME NEW t \in Transfers, ProcessFails(t) PROVE ServerTyped'
  <2>1. [stage |-> "record", outcome |-> [status |-> "git_error"]] \in Processors
    BY CommitRange DEF Processors, GitError, Results
  <2> QED BY <1>8, <2>1 DEF ProcessFails, client, Shape, ServerTyped
<1>9. ASSUME NEW t \in Transfers, ProcessUnsynced(t) PROVE ServerTyped'
  <2>1. [stage |-> "record", outcome |-> [status |-> "transfer_unavailable", ref |-> NoCommit]] \in Processors
    BY CommitRange DEF Processors, GitError, Results
  <2> QED BY <1>9, <2>1 DEF ProcessUnsynced, client, Shape, ServerTyped
<1>10. ASSUME NEW t \in Transfers, RecordOutcome(t) PROVE ServerTyped'
  <2> DEFINE r == Recorded(session[t], processor[t].outcome)
  <2>1. processor[t].stage = "record" /\ UNCHANGED <<client, net, vault>>
    BY <1>10, RecordEffect
  <2>2. PICK p \in Resting : processor' = [processor EXCEPT ![t] = p]
    BY <1>10, RecordEffect
  <2>3. p \in Processors /\ p.stage \in {"none", "run"} /\ p.outcome = None /\ None \notin Results
    BY RestingKinds, ConstantsAssumption
  <2>4. CASE session' = session
    BY <2>1, <2>2, <2>3, <2>4 DEF Shape, ServerTyped
  <2>5. CASE session' = [session EXCEPT ![t] = r]
    <3> HIDE DEF r
    <3>1. /\ session[t] # NoSession /\ session[t].status = "processing"
          /\ r \in Sessions /\ r # NoSession /\ r.commit = session[t].commit
          /\ r.expected = session[t].expected /\ r.receipts = session[t].receipts
      BY <2>1, RecordedKinds DEF r
    <3>2. \/ r = session[t]
          \/ /\ r.status \in {"completed", "rejected"} /\ r.result = processor[t].outcome
             /\ r.result \in Results /\ r.result # None
             /\ r.status = "completed" => r.result.status \in {"merged", "noop", "conflicted"}
      BY <2>1, RecordedKinds DEF r
    <3> QED BY <2>1, <2>2, <2>3, <2>5, <3>1, <3>2 DEF Shape, ServerTyped
  <2> QED BY <1>10, <2>4, <2>5, RecordEffect DEF r
<1>11. ASSUME NEW t \in Transfers, RecordFails(t) PROVE ServerTyped'
  <2> DEFINE r == Recorded(session[t], processor[t].outcome)
  <2>1. processor[t].stage = "record" /\ UNCHANGED <<client, net, vault>>
    BY <1>11, RecordEffect
  <2>2. PICK p \in Resting : processor' = [processor EXCEPT ![t] = p]
    BY <1>11, RecordEffect
  <2>3. p \in Processors /\ p.stage \in {"none", "run"} /\ p.outcome = None /\ None \notin Results
    BY RestingKinds, ConstantsAssumption
  <2>4. CASE session' = session
    BY <2>1, <2>2, <2>3, <2>4 DEF Shape, ServerTyped
  <2>5. CASE session' = [session EXCEPT ![t] = r]
    <3> HIDE DEF r
    <3>1. /\ session[t] # NoSession /\ session[t].status = "processing"
          /\ r \in Sessions /\ r # NoSession /\ r.commit = session[t].commit
          /\ r.expected = session[t].expected /\ r.receipts = session[t].receipts
      BY <2>1, RecordedKinds DEF r
    <3>2. \/ r = session[t]
          \/ /\ r.status \in {"completed", "rejected"} /\ r.result = processor[t].outcome
             /\ r.result \in Results /\ r.result # None
             /\ r.status = "completed" => r.result.status \in {"merged", "noop", "conflicted"}
      BY <2>1, RecordedKinds DEF r
    <3> QED BY <2>1, <2>2, <2>3, <2>5, <3>1, <3>2 DEF Shape, ServerTyped
  <2> QED BY <1>11, <2>4, <2>5, RecordEffect DEF r
<1>12. ASSUME ServerCrash PROVE ServerTyped'
  BY <1>12, ConstantsAssumption DEF ServerCrash, Stopped, Fault, Fail, Awaiting, client, server,
     vault, Shape, ServerTyped, Sleeping, Processors
<1>13. ASSUME OperatorRestart PROVE ServerTyped'
  BY <1>13, ConstantsAssumption DEF OperatorRestart, Stopped, Fail, Awaiting, client, server,
     vault, Shape, ServerTyped, Sleeping, Processors
<1>14. ASSUME ServerStart PROVE ServerTyped'
  BY <1>14 DEF ServerStart, Sleeping, Processors, Shape, ServerTyped
<1>15. ASSUME Unreachable PROVE ServerTyped'
  BY <1>15, ConstantsAssumption DEF Unreachable, Fail, client, server, vault, Shape, ServerTyped
<1>16. ASSUME UNCHANGED <<net, session, processor>> PROVE ServerTyped'
  BY <1>16 DEF Shape, ServerTyped
<1> QED
  BY <1>1, <1>2, <1>3, <1>4, <1>5, <1>6, <1>7, <1>8, <1>9, <1>10, <1>11, <1>12, <1>13, <1>14,
     <1>15, <1>16
  DEF Step, ClientStep, Stopped, Fail, Replied, MovedAtMost, vars, client, server, vault,
     QueueProposal, ReplaceProposal, SyncUpload, WriteCheckpoint, ReplaceQueue, RemoveCheckpoint,
     SaveResult, SettleQueue, SettleState, RetireCheckpoint, RetireJournal, PullResolution,
     ResolveReview

\* Sessions stay whole.
LEMMA SessionsWholeStep ==
  ASSUME Shape, Step PROVE SessionsWhole'
<1>1. ASSUME NEW m \in net, Answered(m) PROVE SessionsWhole'
  <2> SUFFICES ASSUME NEW t \in Transfers
       PROVE  /\ session'[t] # NoSession =>
                   /\ session'[t].status # "open" => session'[t].receipts = Chunks
                   /\ (session'[t].status \in {"completed", "rejected"}) = (session'[t].result # None)
              /\ processor'[t].stage = "record" => session'[t].status = "processing" /\ processor'[t].outcome \in Results \cup {GitError}
              /\ processor'[t].stage # "record" => processor'[t].outcome = None
    BY DEF SessionsWhole
  <2>1. Served(m, t)
    BY <1>1 DEF Answered
  <2>2. /\ session[t] # NoSession =>
             /\ session[t] \in Sessions
             /\ session[t].status # "open" => session[t].receipts = Chunks
             /\ (session[t].status \in {"completed", "rejected"}) = (session[t].result # None)
        /\ processor[t].stage = "record" => session[t].status = "processing" /\ processor[t].outcome \in Results \cup {GitError}
        /\ processor[t].stage # "record" => processor[t].outcome = None
    BY SessionKinds DEF Shape, SessionsWhole
  <2>3. \/ processor'[t] = processor[t]
        \/ processor[t].stage # "record" /\ processor'[t].stage = "run" /\ processor'[t].outcome = None
    <3>1. CASE processor[t] = Sleeping /\ processor'[t] = [Sleeping EXCEPT !.stage = "run"]
      BY <3>1 DEF Sleeping
    <3> QED BY <2>1, <3>1 DEF Served
  <2>4. CASE session'[t] = session[t]
    BY <2>2, <2>3, <2>4
  <2>5. CASE session'[t] = NoSession /\ session[t].status # "processing"
    BY <2>2, <2>3, <2>5
  <2>6. CASE m.kind = "create" /\ Fresh(t) /\ session'[t] = NewSession(m.commit, m.expected)
    <3>1. processor[t].stage # "record"
      BY <2>6 DEF Fresh, Remembered, Sleeping
    <3> QED BY <2>2, <2>3, <2>6, <3>1 DEF NewSession
  <2>7. CASE /\ session[t] # NoSession /\ session[t].status = "open"
             /\ \E R \in SUBSET Chunks : session'[t] = [session[t] EXCEPT !.receipts = R, !.stale = FALSE]
    BY <2>2, <2>3, <2>7 DEF Sessions
  <2>8. CASE /\ session[t] # NoSession /\ session[t].status \in {"open", "processing"}
             /\ session[t].receipts = Chunks
             /\ session'[t] = [session[t] EXCEPT !.status = "processing", !.stale = FALSE]
    BY <2>2, <2>3, <2>8 DEF Sessions
  <2> QED BY <2>1, <2>4, <2>5, <2>6, <2>7, <2>8 DEF Served
<1>2. ASSUME NEW t \in Transfers, Expire(t) PROVE SessionsWhole'
  <2>1. session[t] \in Sessions
    BY <1>2, ExpireEffect, SessionKinds
  <2>2. UNCHANGED processor
    BY <1>2 DEF Expire
  <2>3. CASE session' = [session EXCEPT ![t] = NoSession] /\ session[t].status # "processing"
    BY <2>2, <2>3 DEF Shape, SessionsWhole, ServerTyped
  <2>4. CASE session' = [session EXCEPT ![t] = [session[t] EXCEPT !.stale = TRUE]]
    <3> DEFINE s == [session[t] EXCEPT !.stale = TRUE]
    <3>1. /\ s.status = session[t].status /\ s.receipts = session[t].receipts /\ s.result = session[t].result
          /\ session[t] # NoSession
      BY <1>2, <2>1, ExpireEffect DEF Sessions
    <3>2. session' = [session EXCEPT ![t] = s]
      BY <2>4
    <3> HIDE DEF s
    <3> QED BY <2>2, <3>1, <3>2 DEF Shape, SessionsWhole, ServerTyped
  <2> QED BY <1>2, <2>3, <2>4, ExpireEffect
<1>3. ASSUME NEW t \in Transfers, Process(t) PROVE SessionsWhole'
  <2>1. CASE /\ session[t].status # "processing" /\ UNCHANGED vault
             /\ processor' = [processor EXCEPT ![t] = Sleeping]
    BY <1>3, <2>1 DEF Process, Sleeping, Shape, ServerTyped, SessionsWhole
  <2>2. CASE session[t].status = "processing"
    <3>1. session[t] # NoSession /\ session[t].commit \in Commits
      BY <1>3, <2>2, ProcessEffect
    <3>2. PICK o : /\ Integrates(session[t].commit, o) /\ o.result \in Results
                   /\ o.result.ref \in {deviceRef, session[t].commit}
                   /\ deviceRef' = o.deviceRef /\ main' = o.main /\ review' = o.review
                   /\ processor' = [processor EXCEPT ![t] = [stage |-> "record", outcome |-> o.result]]
      BY <1>3, <2>2, ProcessEffect
    <3> QED BY <1>3, <2>2, <3>1, <3>2, ConstantsAssumption DEF Process, Shape, ServerTyped, SessionsWhole
  <2> QED BY <1>3, <2>1, <2>2, ProcessEffect
<1>4. ASSUME NEW t \in Transfers, ProcessFails(t) PROVE SessionsWhole'
  <2>1. [status |-> "git_error"] \in Results \cup {GitError}
    BY CommitRange DEF Results, GitError
  <2> QED BY <1>4, <2>1 DEF ProcessFails, client, Shape, ServerTyped, SessionsWhole
<1>5. ASSUME NEW t \in Transfers, ProcessUnsynced(t) PROVE SessionsWhole'
  <2>1. [status |-> "transfer_unavailable", ref |-> NoCommit] \in Results \cup {GitError}
    BY CommitRange DEF Results, GitError
  <2> QED BY <1>5, <2>1 DEF ProcessUnsynced, client, Shape, ServerTyped, SessionsWhole
<1>6. ASSUME NEW t \in Transfers, RecordOutcome(t) PROVE SessionsWhole'
  <2> DEFINE r == Recorded(session[t], processor[t].outcome)
  <2>1. processor[t].stage = "record" /\ UNCHANGED <<client, net, vault>>
    BY <1>6, RecordEffect
  <2>2. PICK p \in Resting : processor' = [processor EXCEPT ![t] = p]
    BY <1>6, RecordEffect
  <2>3. p \in Processors /\ p.stage \in {"none", "run"} /\ p.outcome = None /\ None \notin Results
    BY RestingKinds, ConstantsAssumption
  <2>4. CASE session' = session
    BY <2>1, <2>2, <2>3, <2>4 DEF Shape, SessionsWhole, ServerTyped
  <2>5. CASE session' = [session EXCEPT ![t] = r]
    <3> HIDE DEF r
    <3>1. /\ session[t] # NoSession /\ session[t].status = "processing"
          /\ r \in Sessions /\ r # NoSession /\ r.commit = session[t].commit
          /\ r.expected = session[t].expected /\ r.receipts = session[t].receipts
      BY <2>1, RecordedKinds DEF r
    <3>2. \/ r = session[t]
          \/ /\ r.status \in {"completed", "rejected"} /\ r.result = processor[t].outcome
             /\ r.result \in Results /\ r.result # None
             /\ r.status = "completed" => r.result.status \in {"merged", "noop", "conflicted"}
      BY <2>1, RecordedKinds DEF r
    <3> QED BY <2>1, <2>2, <2>3, <2>5, <3>1, <3>2 DEF Shape, SessionsWhole, ServerTyped
  <2> QED BY <1>6, <2>4, <2>5, RecordEffect DEF r
<1>7. ASSUME NEW t \in Transfers, RecordFails(t) PROVE SessionsWhole'
  <2> DEFINE r == Recorded(session[t], processor[t].outcome)
  <2>1. processor[t].stage = "record" /\ UNCHANGED <<client, net, vault>>
    BY <1>7, RecordEffect
  <2>2. PICK p \in Resting : processor' = [processor EXCEPT ![t] = p]
    BY <1>7, RecordEffect
  <2>3. p \in Processors /\ p.stage \in {"none", "run"} /\ p.outcome = None /\ None \notin Results
    BY RestingKinds, ConstantsAssumption
  <2>4. CASE session' = session
    BY <2>1, <2>2, <2>3, <2>4 DEF Shape, SessionsWhole, ServerTyped
  <2>5. CASE session' = [session EXCEPT ![t] = r]
    <3> HIDE DEF r
    <3>1. /\ session[t] # NoSession /\ session[t].status = "processing"
          /\ r \in Sessions /\ r # NoSession /\ r.commit = session[t].commit
          /\ r.expected = session[t].expected /\ r.receipts = session[t].receipts
      BY <2>1, RecordedKinds DEF r
    <3>2. \/ r = session[t]
          \/ /\ r.status \in {"completed", "rejected"} /\ r.result = processor[t].outcome
             /\ r.result \in Results /\ r.result # None
             /\ r.status = "completed" => r.result.status \in {"merged", "noop", "conflicted"}
      BY <2>1, RecordedKinds DEF r
    <3> QED BY <2>1, <2>2, <2>3, <2>5, <3>1, <3>2 DEF Shape, SessionsWhole, ServerTyped
  <2> QED BY <1>7, <2>4, <2>5, RecordEffect DEF r
<1>8. ASSUME ServerCrash PROVE SessionsWhole'
  BY <1>8, ConstantsAssumption DEF ServerCrash, Stopped, Fault, Fail, Awaiting, client, server,
     vault, Shape, SessionsWhole, ServerTyped, Sleeping
<1>9. ASSUME OperatorRestart PROVE SessionsWhole'
  BY <1>9, ConstantsAssumption DEF OperatorRestart, Stopped, Fail, Awaiting, client, server, vault,
     Shape, SessionsWhole, ServerTyped, Sleeping
<1>10. ASSUME ServerStart PROVE SessionsWhole'
  BY <1>10, ConstantsAssumption DEF ServerStart, client, server, vault, Shape, SessionsWhole,
     ServerTyped, Sleeping
<1>11. ASSUME UNCHANGED <<session, processor>> PROVE SessionsWhole'
  BY <1>11 DEF Shape, SessionsWhole, ServerTyped
<1> QED
  BY <1>1, <1>2, <1>3, <1>4, <1>5, <1>6, <1>7, <1>8, <1>9, <1>10, <1>11
  DEF Step, ClientStep, Stopped, Fail, Replied, MovedAtMost, vars, client, server, vault,
     QueueProposal, ReplaceProposal, SyncUpload, WriteCheckpoint, Send, ReplaceQueue,
     RemoveCheckpoint, SaveResult, SettleQueue, SettleState, RetireCheckpoint, RetireJournal,
     PullResolution, Timeout, DeviceCrash, HandleSelf, Unreachable, ResolveReview

\* The stage alone changes.
LEMMA StageFields ==
  ASSUME Shape, NEW s
  PROVE  /\ [task EXCEPT !.stage = s].stage = s /\ [task EXCEPT !.stage = s].result = task.result
         /\ [task EXCEPT !.stage = s].recovering = task.recovering
         /\ [Idle EXCEPT !.stage = s].stage = s /\ [Idle EXCEPT !.stage = s].result = None
         /\ [Idle EXCEPT !.stage = s].recovering = FALSE
         /\ Idle.stage = "idle" /\ Idle.result = None /\ Idle.recovering = FALSE
BY DEF Shape, ClientTyped, Tasks, Idle

\* Stages go on agreeing with the files.
LEMMA StageAgreesStep ==
  ASSUME Shape, Step PROVE StageAgrees'
<1>1. ASSUME QueueProposal PROVE StageAgrees'
  <2>1. queue'.commit = made + 1 /\ made + 1 # NoCommit
    BY <1>1 DEF QueueProposal, NoCommit, Shape, ClientTyped
  <2> QED BY <1>1, <2>1, StageFields DEF QueueProposal, Shape, StageAgrees, Asking, Fetching
<1>2. ASSUME ReplaceProposal PROVE StageAgrees'
  <2>1. /\ task'.stage = "replace" /\ task'.recovering = FALSE /\ UNCHANGED <<queue, checkpoint>>
        /\ journal = None /\ checkpoint # None
    BY <1>2, StageFields DEF ReplaceProposal
  <2> QED BY <1>2, <2>1, HandoffEffect DEF Shape, StageAgrees, FilesAgree, Asking, Fetching
<1>3. ASSUME SyncUpload PROVE StageAgrees'
  <2>1. UNCHANGED <<queue, checkpoint, journal>> /\ task = Idle
    BY <1>3 DEF SyncUpload
  <2>2. CASE /\ journal # None
             /\ task' = [stage |-> IF journal.result # None THEN "settle_queue"
                                   ELSE IF journal.transfer # None THEN "get" ELSE "create",
                         result |-> journal.result, missing |-> {}, recovering |-> TRUE]
    BY <2>1, <2>2, ConstantsAssumption DEF Shape, StageAgrees, FilesAgree, OneAwaited, Asking, Fetching
  <2>3. CASE /\ journal = None /\ queue.commit # NoCommit
             /\ task' = [Idle EXCEPT !.stage = IF checkpoint = None THEN "self"
                                               ELSE IF checkpoint.transfer # None THEN "get" ELSE "create"]
    <3>1. /\ task'.stage = IF checkpoint = None THEN "self"
                           ELSE IF checkpoint.transfer # None THEN "get" ELSE "create"
          /\ task'.recovering = FALSE /\ task'.result = None
      BY <2>3 DEF Idle
    <3> QED BY <2>1, <2>3, <3>1, ConstantsAssumption DEF Shape, StageAgrees, FilesAgree, OneAwaited, Asking, Fetching
  <2> QED BY <1>3, <2>2, <2>3 DEF SyncUpload
<1>4. ASSUME WriteCheckpoint PROVE StageAgrees'
  BY <1>4, StageFields, ConstantsAssumption DEF WriteCheckpoint, client, server, vault, Shape,
     StageAgrees, FilesAgree, OneAwaited, ClientTyped, Asking, Fetching, NoCommit, Queues
<1>5. ASSUME ReplaceQueue PROVE StageAgrees'
  BY <1>5, StageFields, ConstantsAssumption DEF ReplaceQueue, client, server, vault, Shape,
     StageAgrees, FilesAgree, OneAwaited, ClientTyped, Asking, Fetching, NoCommit
<1>6. ASSUME RemoveCheckpoint PROVE StageAgrees'
  BY <1>6, StageFields, ConstantsAssumption DEF RemoveCheckpoint, client, server, vault, Shape,
     StageAgrees, FilesAgree, OneAwaited, ClientTyped, Asking, Fetching, NoCommit
<1>7. ASSUME SaveResult PROVE StageAgrees'
  <2>1. task.recovering /\ journal # None /\ journal \in Handoffs /\ task.result # None
    BY <1>7 DEF SaveResult, Shape, StageAgrees, ClientTyped
  <2>2. journal'.result = task.result /\ journal'.successor = journal.successor /\ journal' \in Handoffs
    BY <1>7, <2>1 DEF SaveResult, Handoffs, Shape, ClientTyped, Tasks
  <2>3. journal' # None /\ task'.stage = "settle_queue" /\ task'.recovering /\ task'.result # None
    BY <1>7, <2>1, <2>2, StageFields, ConstantsAssumption DEF SaveResult
  <2> QED BY <2>1, <2>2, <2>3 DEF StageAgrees, Asking, Fetching
<1>8. ASSUME SettleQueue PROVE StageAgrees'
  <2>1. /\ task'.stage = "settle_state" /\ task'.recovering = task.recovering /\ UNCHANGED <<journal, checkpoint>>
        /\ task.recovering => queue'.commit = journal.successor
    BY <1>8, StageFields DEF SettleQueue, Settled
  <2> QED BY <1>8, <2>1 DEF SettleQueue, Shape, StageAgrees, Asking, Fetching
<1>9. ASSUME SettleState PROVE StageAgrees'
  BY <1>9, StageFields, ConstantsAssumption, ZenonT(40) DEF SettleState, client, server, vault, Shape,
     StageAgrees, FilesAgree, OneAwaited, ClientTyped, Asking, Fetching, NoCommit
<1>10. ASSUME RetireCheckpoint PROVE StageAgrees'
  BY <1>10, StageFields, ConstantsAssumption DEF RetireCheckpoint, client, server, vault, Shape,
     StageAgrees, FilesAgree, OneAwaited, ClientTyped, Asking, Fetching, NoCommit
<1>11. ASSUME RetireJournal PROVE StageAgrees'
  BY <1>11, StageFields, ConstantsAssumption DEF RetireJournal, client, server, vault, Shape,
     StageAgrees, FilesAgree, OneAwaited, ClientTyped, Asking, Fetching, NoCommit
<1>12. ASSUME PullResolution PROVE StageAgrees'
  BY <1>12, StageFields, ConstantsAssumption DEF PullResolution, client, server, vault, Shape,
     StageAgrees, FilesAgree, OneAwaited, ClientTyped, Asking, Fetching, NoCommit, Queues, Idle
<1>13. ASSUME Timeout PROVE StageAgrees'
  BY <1>13, StageFields DEF Timeout, Stopped, Fail, Fault, client, Shape, StageAgrees, Asking,
     Fetching, ClientTyped, Queues
<1>14. ASSUME DeviceCrash PROVE StageAgrees'
  BY <1>14, StageFields DEF DeviceCrash, Stopped, Fail, Fault, client, Shape, StageAgrees, Asking,
     Fetching, ClientTyped, Queues
<1>15. ASSUME NEW m \in net, HandleSelf(m) PROVE StageAgrees'
  <2>1. queue'.commit = queue.commit
    BY <1>15 DEF HandleSelf, Shape, ClientTyped, Queues
  <2>2. CASE task' = task
    BY <1>15, <2>1, <2>2 DEF HandleSelf, Shape, StageAgrees
  <2>3. CASE m.live /\ task' = [task EXCEPT !.stage = "plan"]
    BY <1>15, <2>1, <2>3, StageFields DEF HandleSelf, Shape, StageAgrees, OneAwaited, Asking, Fetching
  <2> QED BY <1>15, <2>2, <2>3 DEF HandleSelf
<1>16. ASSUME NEW m \in net, Answered(m) PROVE StageAgrees'
  <2>1. CASE UNCHANGED client
    BY <1>16, <2>1 DEF Answered, client, Shape, StageAgrees, SessionsWhole, Asking, Fetching
  <2>2. CASE Replied
    BY <1>16, <2>2, RepliedEffect DEF Answered, Shape, StageAgrees, SessionsWhole, Asking, Fetching
  <2> QED BY <1>16, <2>1, <2>2 DEF Answered
<1>17. ASSUME ServerCrash PROVE StageAgrees'
  BY <1>17, StageFields DEF ServerCrash, Stopped, Fail, Fault, client, Shape, StageAgrees, Asking,
     Fetching, ClientTyped, Queues
<1>18. ASSUME OperatorRestart PROVE StageAgrees'
  BY <1>18, StageFields DEF OperatorRestart, Stopped, Fail, Fault, client, Shape, StageAgrees,
     Asking, Fetching, ClientTyped, Queues
<1>19. ASSUME Unreachable PROVE StageAgrees'
  BY <1>19, StageFields DEF Unreachable, Stopped, Fail, Fault, client, Shape, StageAgrees, Asking,
     Fetching, ClientTyped, Queues
<1>20. ASSUME UNCHANGED <<queue, checkpoint, journal, task>> PROVE StageAgrees'
  BY <1>20 DEF Shape, StageAgrees, FilesAgree, OneAwaited, ClientTyped, Asking, Fetching, NoCommit
<1> QED
  BY <1>1, <1>2, <1>3, <1>4, <1>5, <1>6, <1>7, <1>8, <1>9, <1>10, <1>11, <1>12, <1>13, <1>14,
     <1>15, <1>16, <1>17, <1>18, <1>19, <1>20
  DEF Step, ClientStep, Stopped, Fail, Replied, MovedAtMost, vars, client, server, vault, Send,
     Expire, Process, ProcessFails, ProcessUnsynced, RecordOutcome, RecordFails, ServerStart,
     ResolveReview

\* The files go on agreeing with each other.
LEMMA FilesAgreeStep ==
  ASSUME Shape, Step PROVE FilesAgree'
<1>1. ASSUME QueueProposal PROVE FilesAgree'
  BY <1>1, StageFields, ConstantsAssumption DEF QueueProposal, client, server, vault, Shape,
     FilesAgree, StageAgrees, ClientTyped, Queues, Checkpoints, Handoffs, NoCommit, Asking, Fetching
<1>2. ASSUME ReplaceProposal PROVE FilesAgree'
  <2>1. UNCHANGED <<queue, checkpoint>> /\ journal = None /\ checkpoint # None
    BY <1>2 DEF ReplaceProposal
  <2> QED BY <1>2, <2>1, HandoffEffect DEF Shape, FilesAgree
<1>3. ASSUME WriteCheckpoint PROVE FilesAgree'
  BY <1>3, StageFields, ConstantsAssumption DEF WriteCheckpoint, client, server, vault, Shape,
     FilesAgree, StageAgrees, ClientTyped, Queues, Checkpoints, Handoffs, NoCommit, Asking,
     Fetching, OneAwaited
<1>4. ASSUME ReplaceQueue PROVE FilesAgree'
  BY <1>4, StageFields, ConstantsAssumption DEF ReplaceQueue, client, server, vault, Shape,
     FilesAgree, StageAgrees, ClientTyped, Queues, Checkpoints, Handoffs, NoCommit, Asking, Fetching
<1>5. ASSUME RemoveCheckpoint PROVE FilesAgree'
  BY <1>5, StageFields, ConstantsAssumption DEF RemoveCheckpoint, client, server, vault, Shape,
     FilesAgree, StageAgrees, ClientTyped, Queues, Checkpoints, Handoffs, NoCommit, Asking, Fetching
<1>6. ASSUME SaveResult PROVE FilesAgree'
  <2>1. task.recovering /\ journal # None /\ journal \in Handoffs /\ task.result # None
    BY <1>6 DEF SaveResult, Shape, StageAgrees, ClientTyped
  <2>2. /\ journal'.result = task.result /\ journal'.successor = journal.successor /\ journal'.old = journal.old
        /\ journal'.transfer = journal.transfer /\ journal' \in Handoffs
    BY <1>6, <2>1 DEF SaveResult, Handoffs, Shape, ClientTyped, Tasks
  <2> QED BY <1>6, <2>1, <2>2, ConstantsAssumption DEF SaveResult, Shape, FilesAgree
<1>7. ASSUME SettleQueue PROVE FilesAgree'
  <2>1. /\ UNCHANGED <<journal, checkpoint>>
        /\ task.recovering => /\ queue'.commit = journal.successor
                              /\ queue'.status = "conflicted" => queue'.commit = NoCommit
    BY <1>7 DEF SettleQueue, Settled
  <2> QED BY <1>7, <2>1 DEF SettleQueue, Shape, StageAgrees, FilesAgree
<1>8. ASSUME RetireCheckpoint PROVE FilesAgree'
  BY <1>8, StageFields, ConstantsAssumption DEF RetireCheckpoint, client, server, vault, Shape,
     FilesAgree, StageAgrees, ClientTyped, Queues, Checkpoints, Handoffs, NoCommit, Asking, Fetching
<1>9. ASSUME RetireJournal PROVE FilesAgree'
  BY <1>9, StageFields, ConstantsAssumption DEF RetireJournal, client, server, vault, Shape,
     FilesAgree, StageAgrees, ClientTyped, Queues, Checkpoints, Handoffs, NoCommit, Asking, Fetching
<1>10. ASSUME PullResolution PROVE FilesAgree'
  BY <1>10, StageFields, ConstantsAssumption DEF PullResolution, client, server, vault, Shape,
     FilesAgree, StageAgrees, ClientTyped, Queues, Checkpoints, Handoffs, NoCommit, Asking, Fetching
<1>11. ASSUME Timeout PROVE FilesAgree'
  BY <1>11, StageFields, ConstantsAssumption DEF Timeout, Fail, Fault, Abandoned, client, server,
     vault, Shape, FilesAgree, StageAgrees, ClientTyped, Queues, Checkpoints, Handoffs, NoCommit,
     Asking, Fetching
<1>12. ASSUME NEW m \in net, HandleSelf(m) PROVE FilesAgree'
  <2>1. queue'.commit = queue.commit /\ queue'.status = queue.status
    BY <1>12 DEF HandleSelf, Shape, ClientTyped, Queues
  <2> QED BY <1>12, <2>1 DEF HandleSelf, Shape, FilesAgree
<1>13. ASSUME NEW m \in net, Answered(m) PROVE FilesAgree'
  <2>1. CASE UNCHANGED client
    BY <1>13, <2>1 DEF Answered, client, Shape, FilesAgree, StageAgrees, Asking, Fetching
  <2>2. CASE Replied
    BY <1>13, <2>2, RepliedEffect DEF Answered, Shape, FilesAgree, StageAgrees, Asking, Fetching
  <2> QED BY <1>13, <2>1, <2>2 DEF Answered
<1>14. ASSUME ServerCrash PROVE FilesAgree'
  BY <1>14, StageFields, ConstantsAssumption DEF ServerCrash, Stopped, Fault, Fail, Awaiting,
     client, server, vault, Shape, FilesAgree, StageAgrees, ClientTyped, Queues, Checkpoints,
     Handoffs, NoCommit, Asking, Fetching
<1>15. ASSUME OperatorRestart PROVE FilesAgree'
  BY <1>15, StageFields, ConstantsAssumption DEF OperatorRestart, Stopped, Fail, Awaiting, client,
     server, vault, Shape, FilesAgree, StageAgrees, ClientTyped, Queues, Checkpoints, Handoffs,
     NoCommit, Asking, Fetching
<1>16. ASSUME Unreachable PROVE FilesAgree'
  BY <1>16, StageFields, ConstantsAssumption DEF Unreachable, Fail, client, server, vault, Shape,
     FilesAgree, StageAgrees, ClientTyped, Queues, Checkpoints, Handoffs, NoCommit, Asking, Fetching
<1>17. ASSUME UNCHANGED <<queue, checkpoint, journal>> PROVE FilesAgree'
  BY <1>17 DEF Shape, FilesAgree, StageAgrees, ClientTyped, Queues, Checkpoints, Handoffs,
     NoCommit, Asking, Fetching
<1> QED
  BY <1>1, <1>2, <1>3, <1>4, <1>5, <1>6, <1>7, <1>8, <1>9, <1>10, <1>11, <1>12, <1>13, <1>14,
     <1>15, <1>16, <1>17
  DEF Step, ClientStep, Stopped, Fail, Replied, MovedAtMost, vars, client, server, vault,
     SyncUpload, Send, SettleState, DeviceCrash, Expire, Process, ProcessFails, ProcessUnsynced,
     RecordOutcome, RecordFails, ServerStart, ResolveReview

\* The client goes on awaiting one request.
LEMMA OneAwaitedStep ==
  ASSUME Shape, Step PROVE OneAwaited'
<1>1. ASSUME ReplaceProposal PROVE OneAwaited'
  <2>1. \A m \in net : ~m.live
    BY <1>1, StageFields DEF ReplaceProposal, Shape, OneAwaited, ServerTyped, Requests, Asking, Fetching
  <2> QED BY <1>1, <2>1, StageFields DEF ReplaceProposal, Shape, OneAwaited, Asking, Fetching
<1>2. ASSUME SyncUpload PROVE OneAwaited'
  <2>1. UNCHANGED <<queue, checkpoint, journal, net>> /\ task = Idle /\ task.stage = "idle"
    BY <1>2, StageFields DEF SyncUpload
  <2>2. CASE /\ journal # None
             /\ task' = [stage |-> IF journal.result # None THEN "settle_queue"
                                   ELSE IF journal.transfer # None THEN "get" ELSE "create",
                         result |-> journal.result, missing |-> {}, recovering |-> TRUE]
    BY <2>1, <2>2, ConstantsAssumption DEF Shape, StageAgrees, FilesAgree, OneAwaited, ServerTyped, Requests, Asking, Fetching
  <2>3. CASE /\ journal = None /\ queue.commit # NoCommit
             /\ task' = [Idle EXCEPT !.stage = IF checkpoint = None THEN "self"
                                               ELSE IF checkpoint.transfer # None THEN "get" ELSE "create"]
    <3>1. /\ task'.stage = IF checkpoint = None THEN "self"
                           ELSE IF checkpoint.transfer # None THEN "get" ELSE "create"
          /\ task'.recovering = FALSE /\ task'.result = None
      BY <2>3 DEF Idle
    <3> QED BY <2>1, <2>3, <3>1, ConstantsAssumption DEF Shape, StageAgrees, FilesAgree, OneAwaited, ServerTyped, Requests, Asking, Fetching
  <2> QED BY <1>2, <2>2, <2>3 DEF SyncUpload
<1>3. ASSUME WriteCheckpoint PROVE OneAwaited'
  <2>1. checkpoint' \in Checkpoints
    BY <1>3, ClientTypedStep, ConstantsAssumption DEF WriteCheckpoint, Checkpoints, Shape, ClientTyped, Queues, StageAgrees, OneAwaited, Commits, NoCommit
  <2>2. task'.stage = "create" /\ \A m \in net : ~m.live
    BY <1>3, StageFields DEF WriteCheckpoint, Shape, OneAwaited, ServerTyped, Requests, Asking, Fetching
  <2> QED BY <1>3, <2>1, <2>2, ConstantsAssumption DEF WriteCheckpoint, Shape, OneAwaited, Fetching
<1>4. ASSUME Send PROVE OneAwaited'
  <2> DEFINE t == IF task.stage \in {"self", "create"} THEN None ELSE checkpoint.transfer
  <2>1. PICK k \in Chunks : net' = net \cup {Request(task.stage, t, k)}
    BY <1>4 DEF Send
  <2>2. /\ task.stage \in Asking /\ UNCHANGED <<checkpoint, task>> /\ \A m \in net : ~m.live
    BY <1>4 DEF Send, client, Awaiting, Asking, Fetching
  <2>3. task.stage # "self" => checkpoint # None /\ checkpoint \in Checkpoints
    BY <2>2 DEF Asking, Shape, OneAwaited, ClientTyped
  <2>4. task.stage \in Fetching => checkpoint.transfer \in Transfers
    BY <2>3 DEF Fetching, Shape, OneAwaited, Checkpoints
  <2> DEFINE r == Request(task.stage, t, k)
  <2>5. /\ r.kind = task.stage /\ r.live /\ r.transfer = t
        /\ task.stage # "self" => r.commit = checkpoint.commit
    BY <2>3 DEF Request
  <2>6. task.stage \in Fetching => t = checkpoint.transfer
    BY DEF Fetching
  <2>7. task.stage = "create" => r.commit \in Commits
    BY <2>3, <2>5 DEF Checkpoints
  <2> HIDE DEF r, t
  <2> QED BY <2>1, <2>2, <2>4, <2>5, <2>6, <2>7 DEF r, Shape, OneAwaited
<1>5. ASSUME ReplaceQueue PROVE OneAwaited'
  <2>1. \A m \in net : ~m.live
    BY <1>5, StageFields DEF ReplaceQueue, Shape, OneAwaited, ServerTyped, Requests, Asking, Fetching
  <2> QED BY <1>5, <2>1, StageFields DEF ReplaceQueue, Shape, OneAwaited, Asking, Fetching
<1>6. ASSUME RemoveCheckpoint PROVE OneAwaited'
  <2>1. \A m \in net : ~m.live
    BY <1>6, StageFields DEF RemoveCheckpoint, Shape, OneAwaited, ServerTyped, Requests, Asking, Fetching
  <2> QED BY <1>6, <2>1, StageFields DEF RemoveCheckpoint, Shape, OneAwaited, Asking, Fetching
<1>7. ASSUME SaveResult PROVE OneAwaited'
  <2>1. \A m \in net : ~m.live
    BY <1>7, StageFields DEF SaveResult, Shape, OneAwaited, ServerTyped, Requests, Asking, Fetching
  <2> QED BY <1>7, <2>1, StageFields DEF SaveResult, Shape, OneAwaited, Asking, Fetching
<1>8. ASSUME SettleQueue PROVE OneAwaited'
  <2>1. \A m \in net : ~m.live
    BY <1>8, StageFields DEF SettleQueue, Shape, OneAwaited, ServerTyped, Requests, Asking, Fetching
  <2> QED BY <1>8, <2>1, StageFields DEF SettleQueue, Shape, OneAwaited, Asking, Fetching
<1>9. ASSUME SettleState PROVE OneAwaited'
  <2>1. \A m \in net : ~m.live
    BY <1>9, StageFields DEF SettleState, Shape, OneAwaited, ServerTyped, Requests, Asking, Fetching
  <2> QED BY <1>9, <2>1, StageFields, ZenonT(40) DEF SettleState, Shape, OneAwaited, Asking, Fetching
<1>10. ASSUME RetireCheckpoint PROVE OneAwaited'
  <2>1. \A m \in net : ~m.live
    BY <1>10, StageFields DEF RetireCheckpoint, Shape, OneAwaited, ServerTyped, Requests, Asking, Fetching
  <2> QED BY <1>10, <2>1, StageFields DEF RetireCheckpoint, Shape, OneAwaited, Asking, Fetching
<1>11. ASSUME RetireJournal PROVE OneAwaited'
  <2>1. \A m \in net : ~m.live
    BY <1>11, StageFields DEF RetireJournal, Shape, OneAwaited, ServerTyped, Requests, Asking, Fetching
  <2> QED BY <1>11, <2>1, StageFields DEF RetireJournal, Shape, OneAwaited, Asking, Fetching
<1>12. ASSUME Timeout PROVE OneAwaited'
  <2>1. Unawaited /\ UNCHANGED checkpoint /\ task'.stage = "idle"
    BY <1>12, StoppedWaiting, StageFields DEF Timeout, Fail
  <2> QED BY <2>1 DEF Unawaited, Shape, OneAwaited, Fetching
<1>13. ASSUME DeviceCrash PROVE OneAwaited'
  <2>1. Unawaited /\ UNCHANGED checkpoint /\ task'.stage = "idle"
    BY <1>13, StoppedWaiting, StageFields DEF DeviceCrash, Fail
  <2> QED BY <2>1 DEF Unawaited, Shape, OneAwaited, Fetching
<1>14. ASSUME NEW m \in net, HandleSelf(m) PROVE OneAwaited'
  <2>1. net' = net \ {m} /\ UNCHANGED checkpoint
    BY <1>14 DEF HandleSelf
  <2>2. CASE task' = task
    BY <2>1, <2>2 DEF Shape, OneAwaited
  <2>3. CASE m.live /\ task' = [task EXCEPT !.stage = "plan"]
    BY <1>14, <2>1, <2>3, StageFields DEF HandleSelf, Shape, OneAwaited, Asking, Fetching
  <2> QED BY <1>14, <2>2, <2>3 DEF HandleSelf
<1>15. ASSUME NEW m \in net, Answered(m) PROVE OneAwaited'
  <2>1. net' = net \ {m}
    BY <1>15 DEF Answered
  <2>2. CASE UNCHANGED client
    BY <2>1, <2>2 DEF client, Shape, OneAwaited
  <2>3. CASE m.live /\ Replied
    <3>1. \A n \in net' : n \in net /\ ~n.live
      BY <2>1, <2>3 DEF Shape, OneAwaited
    <3> QED BY <2>3, <3>1, RepliedEffect DEF Shape, OneAwaited, Fetching
  <2> QED BY <1>15, <2>2, <2>3 DEF Answered
<1>16. ASSUME ServerCrash PROVE OneAwaited'
  BY <1>16, StoppedWaiting, StageFields DEF ServerCrash, Stopped, Fail, Fault, Unawaited, Shape,
     OneAwaited, Asking, Fetching
<1>17. ASSUME OperatorRestart PROVE OneAwaited'
  BY <1>17, StoppedWaiting, StageFields DEF OperatorRestart, Stopped, Fail, Fault, Unawaited,
     Shape, OneAwaited, Asking, Fetching
<1>18. ASSUME Unreachable PROVE OneAwaited'
  BY <1>18, StoppedWaiting, StageFields DEF Unreachable, Stopped, Fail, Fault, Unawaited, Shape,
     OneAwaited, Asking, Fetching
<1>19. ASSUME UNCHANGED <<net, checkpoint, task>> PROVE OneAwaited'
  BY <1>19 DEF Shape, OneAwaited, ClientTyped, ServerTyped, Asking, Fetching
<1> QED
  BY <1>1, <1>2, <1>3, <1>4, <1>5, <1>6, <1>7, <1>8, <1>9, <1>10, <1>11, <1>12, <1>13, <1>14,
     <1>15, <1>16, <1>17, <1>18, <1>19
  DEF Step, ClientStep, Stopped, Fail, Replied, MovedAtMost, vars, client, server, vault,
     QueueProposal, PullResolution, Expire, Process, ProcessFails, ProcessUnsynced, RecordOutcome,
     RecordFails, ServerStart, ResolveReview

\* Requests name commits that were made.
LEMMA NetNumberedStep ==
  ASSUME Shape, Step PROVE NetNumbered'
<1>1. ASSUME QueueProposal PROVE NetNumbered'
  BY <1>1, ConstantsAssumption, CommitRange DEF QueueProposal, client, server, vault, Shape,
     Numbered, NetNumbered, ClientTyped, ServerTyped, Requests
<1>2. ASSUME ReplaceProposal PROVE NetNumbered'
  BY <1>2, HandoffEffect DEF ReplaceProposal, Shape, Numbered, NetNumbered, ClientTyped,
     ServerTyped, Requests
<1>3. ASSUME Send PROVE NetNumbered'
  <2> DEFINE t == IF task.stage \in {"self", "create"} THEN None ELSE checkpoint.transfer
  <2>1. PICK k \in Chunks : net' = net \cup {Request(task.stage, t, k)}
    BY <1>3 DEF Send
  <2>2. Request(task.stage, t, k).commit <= made /\ Request(task.stage, t, k).expected <= made
    BY DEF Request, Shape, Numbered, ClientNumbered
  <2> QED BY <1>3, <2>1, <2>2 DEF Send, client, Shape, Numbered, NetNumbered
<1>4. ASSUME Timeout PROVE NetNumbered'
  BY <1>4, StoppedWaiting DEF Timeout, Fail, Unawaited, Shape, Numbered, NetNumbered
<1>5. ASSUME DeviceCrash PROVE NetNumbered'
  BY <1>5, StoppedWaiting DEF DeviceCrash, Fail, Unawaited, Shape, Numbered, NetNumbered
<1>6. ASSUME NEW m \in net, HandleSelf(m) PROVE NetNumbered'
  BY <1>6, ConstantsAssumption DEF HandleSelf, client, server, vault, Shape, Numbered, NetNumbered,
     ClientTyped, ServerTyped, Requests
<1>7. ASSUME NEW m \in net, Answered(m) PROVE NetNumbered'
  BY <1>7, ConstantsAssumption, RepliedEffect, ZenonT(40) DEF Answered, Replied, client, server, vault, Shape,
     Numbered, NetNumbered, ClientTyped, ServerTyped, Requests
<1>8. ASSUME ServerCrash PROVE NetNumbered'
  BY <1>8, ConstantsAssumption DEF ServerCrash, Stopped, Fault, Fail, Awaiting, client, server,
     vault, Shape, Numbered, NetNumbered, ClientTyped, ServerTyped, Requests
<1>9. ASSUME OperatorRestart PROVE NetNumbered'
  BY <1>9, ConstantsAssumption DEF OperatorRestart, Stopped, Fail, Awaiting, client, server, vault,
     Shape, Numbered, NetNumbered, ClientTyped, ServerTyped, Requests
<1>10. ASSUME Unreachable PROVE NetNumbered'
  BY <1>10, ConstantsAssumption DEF Unreachable, Fail, client, server, vault, Shape, Numbered,
     NetNumbered, ClientTyped, ServerTyped, Requests
<1>11. ASSUME UNCHANGED <<made, net>> PROVE NetNumbered'
  BY <1>11 DEF Shape, Numbered, NetNumbered, ClientTyped, ServerTyped, Requests
<1> QED
  BY <1>1, <1>2, <1>3, <1>4, <1>5, <1>6, <1>7, <1>8, <1>9, <1>10, <1>11
  DEF Step, ClientStep, Stopped, Fail, Replied, MovedAtMost, vars, client, server, vault,
     SyncUpload, WriteCheckpoint, ReplaceQueue, RemoveCheckpoint, SaveResult, SettleQueue,
     SettleState, RetireCheckpoint, RetireJournal, PullResolution, Expire, Process, ProcessFails,
     ProcessUnsynced, RecordOutcome, RecordFails, ServerStart, ResolveReview

\* Sessions name commits that were made.
LEMMA SessionsNumberedStep ==
  ASSUME Shape, Step PROVE SessionsNumbered'
<1>1. ASSUME QueueProposal PROVE SessionsNumbered'
  <2>1. made' = made + 1 \/ made' = made
    BY <1>1, HandoffEffect DEF QueueProposal, Shape, ClientTyped
  <2>2. \A t \in Transfers : /\ session[t] # NoSession => session[t].commit \in Nat /\ (session[t].result # None => session[t].result.ref \in Nat)
                             /\ processor[t].outcome \in Results => processor[t].outcome.ref \in Nat
    BY SessionKinds, CommitRange, ConstantsAssumption DEF Sessions, Results, Commits
  <2>3. made \in Nat /\ made' \in Nat /\ UNCHANGED <<session, processor>>
    BY <1>1, <2>1 DEF QueueProposal, server, Shape, ClientTyped
  <2>5. ASSUME NEW t \in Transfers, session[t] # NoSession
        PROVE  session[t].commit <= made' /\ (session[t].result # None => session[t].result.ref <= made')
    <3>1. session[t].commit <= made /\ (session[t].result # None => session[t].result.ref <= made)
      BY <2>5 DEF Shape, Numbered, SessionsNumbered
    <3>2. session[t].commit \in Nat /\ (session[t].result # None => session[t].result.ref \in Nat)
      BY <2>2, <2>5
    <3> QED BY <2>1, <2>3, <3>1, <3>2
  <2>6. ASSUME NEW t \in Transfers, processor[t].outcome \in Results PROVE processor[t].outcome.ref <= made'
    <3>1. processor[t].outcome.ref \in Nat /\ processor[t].outcome.ref <= made
      BY <2>2, <2>6 DEF Shape, Numbered, SessionsNumbered
    <3> QED BY <2>1, <2>3, <3>1
  <2> QED BY <2>3, <2>5, <2>6 DEF SessionsNumbered
<1>2. ASSUME ReplaceProposal PROVE SessionsNumbered'
  <2>1. made' = made + 1 \/ made' = made
    BY <1>2, HandoffEffect DEF ReplaceProposal, Shape, ClientTyped
  <2>2. \A t \in Transfers : /\ session[t] # NoSession => session[t].commit \in Nat /\ (session[t].result # None => session[t].result.ref \in Nat)
                             /\ processor[t].outcome \in Results => processor[t].outcome.ref \in Nat
    BY SessionKinds, CommitRange, ConstantsAssumption DEF Sessions, Results, Commits
  <2>3. made \in Nat /\ made' \in Nat /\ UNCHANGED <<session, processor>>
    BY <1>2, <2>1 DEF ReplaceProposal, server, Shape, ClientTyped
  <2>5. ASSUME NEW t \in Transfers, session[t] # NoSession
        PROVE  session[t].commit <= made' /\ (session[t].result # None => session[t].result.ref <= made')
    <3>1. session[t].commit <= made /\ (session[t].result # None => session[t].result.ref <= made)
      BY <2>5 DEF Shape, Numbered, SessionsNumbered
    <3>2. session[t].commit \in Nat /\ (session[t].result # None => session[t].result.ref \in Nat)
      BY <2>2, <2>5
    <3> QED BY <2>1, <2>3, <3>1, <3>2
  <2>6. ASSUME NEW t \in Transfers, processor[t].outcome \in Results PROVE processor[t].outcome.ref <= made'
    <3>1. processor[t].outcome.ref \in Nat /\ processor[t].outcome.ref <= made
      BY <2>2, <2>6 DEF Shape, Numbered, SessionsNumbered
    <3> QED BY <2>1, <2>3, <3>1
  <2> QED BY <2>3, <2>5, <2>6 DEF SessionsNumbered
<1>3. ASSUME NEW m \in net, Answered(m) PROVE SessionsNumbered'
  <2>1. UNCHANGED made
    BY <1>3, RepliedEffect DEF Answered, client
  <2> SUFFICES ASSUME NEW t \in Transfers
       PROVE  /\ session'[t] # NoSession =>
                   /\ session'[t].commit <= made
                   /\ session'[t].result # None => session'[t].result.ref <= made
              /\ processor'[t].outcome \in Results => processor'[t].outcome.ref <= made
    BY <2>1 DEF SessionsNumbered
  <2>2. Served(m, t)
    BY <1>3 DEF Answered
  <2>3. processor'[t].outcome \in Results => processor'[t].outcome.ref <= made
    <3>1. CASE processor'[t] = processor[t]
      BY <3>1 DEF Shape, Numbered, SessionsNumbered
    <3>2. CASE processor'[t] = [Sleeping EXCEPT !.stage = "run"]
      BY <3>2, RestingKinds, ConstantsAssumption DEF Resting
    <3> QED BY <2>2, <3>1, <3>2 DEF Served
  <2>4. m.commit <= made /\ m.expected <= made
    BY DEF Shape, Numbered, NetNumbered
  <2>5. session[t] # NoSession => session[t] \in Sessions
    BY SessionKinds
  <2>6. session'[t] # NoSession =>
                   /\ session'[t].commit <= made
                   /\ session'[t].result # None => session'[t].result.ref <= made
    <3>1. CASE session'[t] = NewSession(m.commit, m.expected)
      BY <2>4, <3>1 DEF NewSession
    <3>2. CASE session[t] # NoSession /\ session'[t].commit = session[t].commit /\ session'[t].result = session[t].result
      BY <3>2 DEF Shape, Numbered, SessionsNumbered
    <3> QED BY <2>2, <2>5, <3>1, <3>2 DEF Served, Sessions
  <2> QED BY <2>3, <2>6
<1>4. ASSUME NEW t \in Transfers, Expire(t) PROVE SessionsNumbered'
  <2>1. session[t] \in Sessions
    BY <1>4, ExpireEffect, SessionKinds
  <2>2. UNCHANGED <<made, processor>>
    BY <1>4 DEF Expire, client
  <2>3. /\ [session[t] EXCEPT !.stale = TRUE].commit = session[t].commit
        /\ [session[t] EXCEPT !.stale = TRUE].result = session[t].result
    BY <2>1 DEF Sessions
  <2> QED BY <1>4, <2>2, <2>3, ExpireEffect DEF Shape, Numbered, SessionsNumbered, ServerTyped
<1>5. ASSUME NEW t \in Transfers, Process(t) PROVE SessionsNumbered'
  <2>1. CASE /\ session[t].status # "processing" /\ UNCHANGED vault
             /\ processor' = [processor EXCEPT ![t] = Sleeping]
    BY <1>5, <2>1, RestingKinds, ConstantsAssumption DEF Process, Resting, client, Shape, Numbered, SessionsNumbered, ServerTyped
  <2>2. CASE session[t].status = "processing"
    <3>1. session[t] # NoSession /\ session[t].commit \in Commits
      BY <1>5, <2>2, ProcessEffect
    <3>2. PICK o : /\ Integrates(session[t].commit, o) /\ o.result \in Results
                   /\ o.result.ref \in {deviceRef, session[t].commit}
                   /\ deviceRef' = o.deviceRef /\ main' = o.main /\ review' = o.review
                   /\ processor' = [processor EXCEPT ![t] = [stage |-> "record", outcome |-> o.result]]
      BY <1>5, <2>2, ProcessEffect
    <3> QED BY <1>5, <3>1, <3>2 DEF Process, client, Shape, Numbered, SessionsNumbered, VaultNumbered, ServerTyped
  <2> QED BY <1>5, <2>1, <2>2, ProcessEffect
<1>6. ASSUME NEW t \in Transfers, ProcessFails(t) PROVE SessionsNumbered'
  <2>1. [status |-> "git_error"] \notin Results
    BY DEF Results
  <2> QED BY <1>6, <2>1 DEF ProcessFails, client, Shape, Numbered, SessionsNumbered, ServerTyped
<1>7. ASSUME NEW t \in Transfers, ProcessUnsynced(t) PROVE SessionsNumbered'
  BY <1>7 DEF ProcessUnsynced, NoCommit, client, Shape, Numbered, SessionsNumbered, ServerTyped,
     ClientTyped
<1>8. ASSUME NEW t \in Transfers, RecordOutcome(t) PROVE SessionsNumbered'
  <2> DEFINE r == Recorded(session[t], processor[t].outcome)
  <2>1. processor[t].stage = "record" /\ UNCHANGED <<client, net, vault>>
    BY <1>8, RecordEffect
  <2>2. PICK p \in Resting : processor' = [processor EXCEPT ![t] = p]
    BY <1>8, RecordEffect
  <2>3. p \in Processors /\ p.stage \in {"none", "run"} /\ p.outcome = None /\ None \notin Results
    BY RestingKinds, ConstantsAssumption
  <2>4. CASE session' = session
    BY <2>1, <2>2, <2>3, <2>4 DEF client, Shape, Numbered, SessionsNumbered, ServerTyped, Resting, Results
  <2>5. CASE session' = [session EXCEPT ![t] = r]
    <3> HIDE DEF r
    <3>1. /\ session[t] # NoSession /\ session[t].status = "processing"
          /\ r \in Sessions /\ r # NoSession /\ r.commit = session[t].commit
          /\ r.expected = session[t].expected /\ r.receipts = session[t].receipts
      BY <2>1, RecordedKinds DEF r
    <3>2. \/ r = session[t]
          \/ /\ r.status \in {"completed", "rejected"} /\ r.result = processor[t].outcome
             /\ r.result \in Results /\ r.result # None
             /\ r.status = "completed" => r.result.status \in {"merged", "noop", "conflicted"}
      BY <2>1, RecordedKinds DEF r
    <3> QED BY <2>1, <2>2, <2>3, <2>5, <3>1, <3>2 DEF client, Shape, Numbered, SessionsNumbered, ServerTyped
  <2> QED BY <1>8, <2>4, <2>5, RecordEffect DEF r
<1>9. ASSUME NEW t \in Transfers, RecordFails(t) PROVE SessionsNumbered'
  <2> DEFINE r == Recorded(session[t], processor[t].outcome)
  <2>1. processor[t].stage = "record" /\ UNCHANGED <<client, net, vault>>
    BY <1>9, RecordEffect
  <2>2. PICK p \in Resting : processor' = [processor EXCEPT ![t] = p]
    BY <1>9, RecordEffect
  <2>3. p \in Processors /\ p.stage \in {"none", "run"} /\ p.outcome = None /\ None \notin Results
    BY RestingKinds, ConstantsAssumption
  <2>4. CASE session' = session
    BY <2>1, <2>2, <2>3, <2>4 DEF client, Shape, Numbered, SessionsNumbered, ServerTyped, Resting, Results
  <2>5. CASE session' = [session EXCEPT ![t] = r]
    <3> HIDE DEF r
    <3>1. /\ session[t] # NoSession /\ session[t].status = "processing"
          /\ r \in Sessions /\ r # NoSession /\ r.commit = session[t].commit
          /\ r.expected = session[t].expected /\ r.receipts = session[t].receipts
      BY <2>1, RecordedKinds DEF r
    <3>2. \/ r = session[t]
          \/ /\ r.status \in {"completed", "rejected"} /\ r.result = processor[t].outcome
             /\ r.result \in Results /\ r.result # None
             /\ r.status = "completed" => r.result.status \in {"merged", "noop", "conflicted"}
      BY <2>1, RecordedKinds DEF r
    <3> QED BY <2>1, <2>2, <2>3, <2>5, <3>1, <3>2 DEF client, Shape, Numbered, SessionsNumbered, ServerTyped
  <2> QED BY <1>9, <2>4, <2>5, RecordEffect DEF r
<1>10. ASSUME ServerCrash PROVE SessionsNumbered'
  BY <1>10, RestingKinds, ConstantsAssumption DEF ServerCrash, Stopped, Fail, client, Resting,
     Shape, Numbered, SessionsNumbered
<1>11. ASSUME OperatorRestart PROVE SessionsNumbered'
  BY <1>11, RestingKinds, ConstantsAssumption DEF OperatorRestart, Stopped, Fail, client, Resting,
     Shape, Numbered, SessionsNumbered
<1>12. ASSUME ServerStart PROVE SessionsNumbered'
  BY <1>12, RestingKinds, ConstantsAssumption DEF ServerStart, Stopped, Fail, client, Resting,
     Shape, Numbered, SessionsNumbered
<1>13. ASSUME UNCHANGED <<made, session, processor>> PROVE SessionsNumbered'
  BY <1>13 DEF Shape, Numbered, SessionsNumbered, ClientTyped, ServerTyped
<1> QED
  BY <1>1, <1>2, <1>3, <1>4, <1>5, <1>6, <1>7, <1>8, <1>9, <1>10, <1>11, <1>12, <1>13
  DEF Step, ClientStep, Stopped, Fail, Replied, MovedAtMost, vars, client, server, vault,
     SyncUpload, WriteCheckpoint, Send, ReplaceQueue, RemoveCheckpoint, SaveResult, SettleQueue,
     SettleState, RetireCheckpoint, RetireJournal, PullResolution, Timeout, DeviceCrash,
     HandleSelf, Unreachable, ResolveReview

\* Refs name commits that were made.
LEMMA VaultNumberedStep ==
  ASSUME Shape, Step PROVE VaultNumbered'
<1>1. ASSUME QueueProposal PROVE VaultNumbered'
  BY <1>1, ConstantsAssumption DEF QueueProposal, client, server, vault, Shape, Numbered,
     VaultNumbered, VaultTyped, ClientTyped, Commits
<1>2. ASSUME ReplaceProposal PROVE VaultNumbered'
  BY <1>2, HandoffEffect, ConstantsAssumption, SMTT(30) DEF ReplaceProposal, vault, Shape, Numbered,
     VaultNumbered, VaultTyped, ClientTyped, Commits
<1>3. ASSUME NEW t \in Transfers, Process(t) PROVE VaultNumbered'
  <2>1. CASE /\ session[t].status # "processing" /\ UNCHANGED vault
             /\ processor' = [processor EXCEPT ![t] = Sleeping]
    BY <1>3, <2>1 DEF Process, vault, client, Shape, Numbered, VaultNumbered
  <2>2. CASE session[t].status = "processing"
    <3>1. session[t] # NoSession /\ session[t].commit \in Commits
      BY <1>3, <2>2, ProcessEffect
    <3>2. PICK o : /\ Integrates(session[t].commit, o) /\ o.result \in Results
                   /\ o.result.ref \in {deviceRef, session[t].commit}
                   /\ deviceRef' = o.deviceRef /\ main' = o.main /\ review' = o.review
                   /\ processor' = [processor EXCEPT ![t] = [stage |-> "record", outcome |-> o.result]]
      BY <1>3, <2>2, ProcessEffect
    <3> QED
      <4>1. session[t].commit \in 1..made /\ UNCHANGED made
        BY <1>3, <3>1, <3>2 DEF Process, client, Shape, Numbered, SessionsNumbered, Commits, ClientTyped
      <4>2. Line(session[t].commit) \subseteq 1..made
        BY <4>1, LineMade
      <4> QED BY <3>1, <3>2, <4>1, <4>2 DEF Integrates, Shape, Numbered, VaultNumbered, ClientTyped
  <2> QED BY <1>3, <2>1, <2>2, ProcessEffect
<1>4. ASSUME NEW t \in Transfers, ProcessFails(t) PROVE VaultNumbered'
  <2>1. session[t].commit \in Commits /\ session[t] # NoSession
    BY <1>4, SessionKinds, ConstantsAssumption DEF ProcessFails, Sessions, SessionStates
  <2> QED BY <1>4, <2>1, MovedCases DEF ProcessFails, client, Shape, Numbered, VaultNumbered, SessionsNumbered
<1>5. ASSUME NEW t \in Transfers, ProcessUnsynced(t) PROVE VaultNumbered'
  <2>1. session[t].commit \in Commits /\ session[t] # NoSession
    BY <1>5, SessionKinds, ConstantsAssumption DEF ProcessUnsynced, Sessions, SessionStates
  <2> QED BY <1>5, <2>1, MovedCases DEF ProcessUnsynced, client, Shape, Numbered, VaultNumbered, SessionsNumbered
<1>6. ASSUME ResolveReview PROVE VaultNumbered'
  <2>1. review \in 1..made
    BY <1>6 DEF ResolveReview, NoCommit, Shape, Numbered, VaultNumbered, VaultTyped, ClientTyped
  <2>2. Line(review) \subseteq 1..made
    BY <2>1, LineMade
  <2> QED BY <1>6, <2>2 DEF ResolveReview, client, NoCommit, Shape, Numbered, VaultNumbered, ClientTyped
<1>7. ASSUME UNCHANGED <<made, deviceRef, main, review>> PROVE VaultNumbered'
  BY <1>7 DEF Shape, Numbered, VaultNumbered, VaultTyped, ClientTyped, Commits
<1> QED
  BY <1>1, <1>2, <1>3, <1>4, <1>5, <1>6, <1>7
  DEF Step, ClientStep, Stopped, Fail, Replied, MovedAtMost, vars, client, server, vault,
     SyncUpload, WriteCheckpoint, Send, ReplaceQueue, RemoveCheckpoint, SaveResult, SettleQueue,
     SettleState, RetireCheckpoint, RetireJournal, PullResolution, Timeout, DeviceCrash,
     HandleSelf, Answered, Expire, RecordOutcome, RecordFails, ServerCrash, OperatorRestart,
     ServerStart, Unreachable

\* The device names commits that were made.
LEMMA ClientNumberedStep ==
  ASSUME Shape, Step PROVE ClientNumbered'
<1>1. ASSUME QueueProposal PROVE ClientNumbered'
  <2>1. /\ made \in Nat /\ made' = made + 1 /\ made + 1 \in Commits /\ checkpoint' = None /\ journal' = None
        /\ parent' = [parent EXCEPT ![made + 1] = made] /\ task' = Idle
        /\ queue'.commit = made + 1 /\ queue'.expected = queue.expected
    BY <1>1, ConstantsAssumption DEF QueueProposal, Shape, ClientTyped, Commits
  <2>2. ASSUME NEW c \in 1..made' PROVE parent'[c] <= made'
    <3>1. c = made + 1 \/ c \in 1..made
      BY <2>1, <2>2
    <3>2. CASE c = made + 1
      BY <2>1, <3>2 DEF Shape, ClientTyped
    <3>3. CASE c \in 1..made
      <4>1. c \in Commits /\ parent[c] \in Nat /\ parent[c] <= made /\ c # made + 1
        BY <2>1, <3>3, ConstantsAssumption DEF Commits, Shape, ClientTyped, Numbered, ClientNumbered
      <4> QED BY <2>1, <4>1 DEF Shape, ClientTyped
    <3> QED BY <3>1, <3>2, <3>3
  <2>3. queue.expected \in Nat /\ queue.expected <= made
    BY ConstantsAssumption DEF Shape, Numbered, ClientNumbered, ClientTyped, Queues
  <2>4. queue'.commit <= made' /\ queue'.expected <= made'
    BY <2>1, <2>3
  <2>5. task'.result = None
    BY <2>1, StageFields
  <2> QED BY <2>1, <2>2, <2>4, <2>5 DEF ClientNumbered
<1>2. ASSUME ReplaceProposal PROVE ClientNumbered'
  <2>1. /\ made \in Nat /\ UNCHANGED <<queue, checkpoint>> /\ checkpoint # None
        /\ task'.result = None /\ queue \in Queues /\ checkpoint \in Checkpoints /\ queue.commit \in 1..made
    <3>1. UNCHANGED <<queue, checkpoint>> /\ checkpoint # None /\ queue.commit # 0 /\ task'.result = None
      BY <1>2, StageFields DEF ReplaceProposal, NoCommit
    <3>2. made \in Nat /\ queue \in Queues /\ checkpoint \in Checkpoints /\ queue.commit <= made
      BY <3>1 DEF Shape, ClientTyped, Numbered, ClientNumbered
    <3> QED BY <3>1, <3>2 DEF Queues
  <2>2. made' = made \/ made' = made + 1
    BY <1>2, HandoffEffect
  <2>3. /\ queue'.commit <= made' /\ queue'.expected <= made'
        /\ checkpoint'.commit <= made' /\ checkpoint'.expected <= made'
    BY <2>1, <2>2, ConstantsAssumption DEF Queues, Checkpoints, Commits, Shape, Numbered, ClientNumbered
  <2>4. journal'.old <= made' /\ journal'.expected <= made' /\ journal'.successor <= made' /\ journal'.result = None
    BY <1>2, <2>1, <2>2, <2>3, HandoffEffect DEF NoCommit
  <2>5. ASSUME NEW c \in 1..made' PROVE parent'[c] <= made'
    <3>1. CASE UNCHANGED <<parent, made>>
      BY <2>5, <3>1 DEF Shape, Numbered, ClientNumbered
    <3>2. CASE made' = made + 1 /\ parent'[made + 1] \in {queue.commit, parent[queue.commit]} /\ \A d \in 1..made : parent'[d] = parent[d]
      <4>1. ASSUME NEW d \in 1..made PROVE parent[d] <= made + 1
        <5>1. d \in Commits /\ parent[d] \in Nat /\ parent[d] <= made
          BY <2>1, ConstantsAssumption DEF Commits, Shape, ClientTyped, Numbered, ClientNumbered
        <5> QED BY <2>1, <5>1
      <4>2. c = made + 1 \/ c \in 1..made
        BY <2>1, <2>5, <3>2
      <4> QED BY <2>1, <3>2, <4>1, <4>2
    <3> QED BY <1>2, <3>1, <3>2, HandoffEffect
  <2> QED BY <2>1, <2>3, <2>4, <2>5 DEF ClientNumbered
<1>3. ASSUME SyncUpload PROVE ClientNumbered'
  <2>1. UNCHANGED <<parent, made, queue, checkpoint, journal>>
    BY <1>3 DEF SyncUpload
  <2>2. task'.result # None => journal # None /\ task'.result = journal.result
    <3>1. CASE journal # None /\ task' = [stage |-> IF journal.result # None THEN "settle_queue"
                              ELSE IF journal.transfer # None THEN "get" ELSE "create",
                    result |-> journal.result, missing |-> {}, recovering |-> TRUE]
      BY <3>1
    <3>2. CASE task' = [Idle EXCEPT !.stage = IF checkpoint = None THEN "self"
                                          ELSE IF checkpoint.transfer # None THEN "get" ELSE "create"]
      BY <3>2 DEF Idle
    <3> QED BY <1>3, <3>1, <3>2 DEF SyncUpload
  <2> QED BY <2>1, <2>2 DEF Shape, Numbered, ClientNumbered
<1>4. ASSUME WriteCheckpoint PROVE ClientNumbered'
  BY <1>4, StageFields DEF WriteCheckpoint, client, server, vault, Shape, Numbered, ClientNumbered,
     VaultNumbered, ClientTyped, Queues
<1>5. ASSUME ReplaceQueue PROVE ClientNumbered'
  <2>1. journal # None /\ queue'.commit = journal.successor /\ queue'.expected = queue.expected
    BY <1>5 DEF ReplaceQueue, Shape, StageAgrees, ClientTyped, Queues
  <2> QED BY <1>5, <2>1, StageFields DEF ReplaceQueue, Shape, Numbered, ClientNumbered
<1>6. ASSUME RemoveCheckpoint PROVE ClientNumbered'
  BY <1>6, StageFields DEF RemoveCheckpoint, client, server, vault, Shape, Numbered,
     ClientNumbered, VaultNumbered, ClientTyped, Queues
<1>7. ASSUME SaveResult PROVE ClientNumbered'
  <2>1. task.recovering /\ journal # None /\ journal \in Handoffs /\ task.result # None
    BY <1>7 DEF SaveResult, Shape, StageAgrees, ClientTyped
  <2>2. /\ journal'.result = task.result /\ journal'.successor = journal.successor /\ journal'.old = journal.old
        /\ journal'.expected = journal.expected
    BY <1>7, <2>1 DEF SaveResult, Handoffs
  <2> QED BY <1>7, <2>1, <2>2, StageFields DEF SaveResult, Shape, Numbered, ClientNumbered
<1>8. ASSUME SettleQueue PROVE ClientNumbered'
  <2>1. task.result # None /\ (task.recovering => journal # None)
    BY <1>8 DEF SettleQueue, Shape, StageAgrees
  <2>2. /\ queue'.commit \in {NoCommit, queue.commit} \/ (task.recovering /\ queue'.commit = journal.successor)
        /\ queue'.expected \in {task.result.ref, queue.expected}
    BY <1>8 DEF SettleQueue, Settled
  <2>3. NoCommit <= made
    BY DEF NoCommit, Shape, ClientTyped
  <2> QED BY <1>8, <2>1, <2>2, <2>3, StageFields DEF SettleQueue, Shape, Numbered, ClientNumbered
<1>9. ASSUME SettleState PROVE ClientNumbered'
  BY <1>9, StageFields DEF SettleState, client, server, vault, Shape, Numbered, ClientNumbered,
     VaultNumbered, ClientTyped, Queues
<1>10. ASSUME RetireCheckpoint PROVE ClientNumbered'
  BY <1>10, StageFields DEF RetireCheckpoint, client, server, vault, Shape, Numbered,
     ClientNumbered, VaultNumbered, ClientTyped, Queues
<1>11. ASSUME RetireJournal PROVE ClientNumbered'
  BY <1>11, StageFields DEF RetireJournal, client, server, vault, Shape, Numbered, ClientNumbered,
     VaultNumbered, ClientTyped, Queues
<1>12. ASSUME PullResolution PROVE ClientNumbered'
  <2>1. queue'.commit \in {NoCommit, queue.commit} /\ queue'.expected \in {deviceRef, queue.expected}
    BY <1>12 DEF PullResolution
  <2>2. NoCommit <= made
    BY DEF NoCommit, Shape, ClientTyped
  <2> QED BY <1>12, <2>1, <2>2 DEF PullResolution, Shape, Numbered, ClientNumbered, VaultNumbered
<1>13. ASSUME Timeout PROVE ClientNumbered'
  BY <1>13, StageFields, ZenonT(40) DEF Timeout, Fail, Fault, Abandoned, client, server, vault, Shape,
     Numbered, ClientNumbered, VaultNumbered, ClientTyped, Queues
<1>14. ASSUME DeviceCrash PROVE ClientNumbered'
  BY <1>14, StageFields DEF DeviceCrash, Fault, Abandoned, Awaiting, client, server, vault, Shape,
     Numbered, ClientNumbered, VaultNumbered, ClientTyped, Queues
<1>15. ASSUME NEW m \in net, HandleSelf(m) PROVE ClientNumbered'
  <2>1. queue'.commit = queue.commit /\ queue'.expected \in {queue.expected, deviceRef}
    BY <1>15 DEF HandleSelf, Shape, ClientTyped, Queues
  <2>2. task'.result = task.result
    <3>1. CASE task' = [task EXCEPT !.stage = "plan"]
      BY <3>1, StageFields
    <3> QED BY <1>15, <3>1 DEF HandleSelf
  <2> QED BY <1>15, <2>1, <2>2 DEF HandleSelf, Shape, Numbered, ClientNumbered, VaultNumbered
<1>16. ASSUME NEW m \in net, Answered(m) PROVE ClientNumbered'
  <2>1. CASE UNCHANGED client
    BY <2>1 DEF client, Shape, Numbered, ClientNumbered
  <2>2. CASE Replied
    <3>1. task'.result # None => task'.result.ref <= made
      BY <2>2, RepliedEffect DEF Shape, Numbered, SessionsNumbered
    <3> QED BY <2>2, <3>1, RepliedEffect DEF Shape, Numbered, ClientNumbered
  <2> QED BY <1>16, <2>1, <2>2 DEF Answered
<1>17. ASSUME ServerCrash PROVE ClientNumbered'
  BY <1>17, StageFields, ZenonT(40) DEF ServerCrash, Stopped, Fault, Fail, Awaiting, client, server, vault,
     Shape, Numbered, ClientNumbered, VaultNumbered, ClientTyped, Queues
<1>18. ASSUME OperatorRestart PROVE ClientNumbered'
  BY <1>18, StageFields, ZenonT(40) DEF OperatorRestart, Stopped, Fail, Awaiting, client, server, vault, Shape,
     Numbered, ClientNumbered, VaultNumbered, ClientTyped, Queues
<1>19. ASSUME Unreachable PROVE ClientNumbered'
  BY <1>19, StageFields DEF Unreachable, Fail, client, server, vault, Shape, Numbered,
     ClientNumbered, VaultNumbered, ClientTyped, Queues
<1>20. ASSUME UNCHANGED <<parent, made, queue, checkpoint, journal, task>> PROVE ClientNumbered'
  BY <1>20 DEF Shape, Numbered, ClientNumbered, VaultNumbered, ClientTyped, Queues
<1> QED
  BY <1>1, <1>2, <1>3, <1>4, <1>5, <1>6, <1>7, <1>8, <1>9, <1>10, <1>11, <1>12, <1>13, <1>14,
     <1>15, <1>16, <1>17, <1>18, <1>19, <1>20
  DEF Step, ClientStep, Stopped, Fail, Replied, MovedAtMost, vars, client, server, vault, Send,
     Expire, Process, ProcessFails, ProcessUnsynced, RecordOutcome, RecordFails, ServerStart,
     ResolveReview

\* The checkpoint's transfer goes on carrying its proposal.
LEMMA OwnSessionStep ==
  ASSUME Shape, OwnSession, Step PROVE OwnSession'
<1>1. ASSUME WriteCheckpoint PROVE OwnSession'
  BY <1>1, ConstantsAssumption DEF WriteCheckpoint, client, server, vault, Shape, OwnSession,
     ClientTyped, ServerTyped, Checkpoints
<1>2. ASSUME RemoveCheckpoint PROVE OwnSession'
  BY <1>2, ConstantsAssumption DEF RemoveCheckpoint, client, server, vault, Shape, OwnSession,
     ClientTyped, ServerTyped, Checkpoints
<1>3. ASSUME RetireCheckpoint PROVE OwnSession'
  BY <1>3, ConstantsAssumption DEF RetireCheckpoint, client, server, vault, Shape, OwnSession,
     ClientTyped, ServerTyped, Checkpoints
<1>4. ASSUME NEW m \in net, Answered(m) PROVE OwnSession'
  <2>1. ASSUME NEW t \in Transfers, checkpoint # None, checkpoint.transfer = t, session'[t] # NoSession
        PROVE  session'[t].commit = checkpoint.commit
    <3>1. Served(m, t)
      BY <1>4 DEF Answered
    <3>2. ~Fresh(t)
      BY <2>1 DEF Fresh, Remembered
    <3>3. session[t] # NoSession => session[t].commit = checkpoint.commit /\ session[t] \in Sessions
      BY <2>1, SessionKinds, ConstantsAssumption DEF OwnSession
    <3>4. session[t] # NoSession /\ session'[t].commit = session[t].commit
      BY <2>1, <3>1, <3>2, <3>3 DEF Served, Sessions
    <3> QED BY <3>3, <3>4
  <2>2. checkpoint # None => checkpoint.transfer \in Transfers \cup {None}
    BY DEF Shape, ClientTyped, Checkpoints
  <2>3. CASE checkpoint' = checkpoint
    BY <2>1, <2>2, <2>3 DEF OwnSession
  <2>4. CASE \E t \in Transfers : /\ checkpoint' = [checkpoint EXCEPT !.transfer = t] /\ Replied
                                  /\ session'[t] # NoSession /\ session'[t].commit = checkpoint.commit
    <3>1. checkpoint \in Checkpoints
      BY <2>4, RepliedEffect DEF Shape, ClientTyped
    <3> QED BY <2>4, <3>1 DEF OwnSession, Checkpoints
  <2> QED BY <1>4, <2>3, <2>4 DEF Answered, Replied, client
<1>5. ASSUME NEW t \in Transfers, Expire(t) PROVE OwnSession'
  <2>1. session[t] \in Sessions
    BY <1>5, ExpireEffect, SessionKinds
  <2>2. UNCHANGED checkpoint
    BY <1>5 DEF Expire, client
  <2>3. [session[t] EXCEPT !.stale = TRUE].commit = session[t].commit
    BY <2>1 DEF Sessions
  <2>4. CASE session' = [session EXCEPT ![t] = NoSession]
    BY <2>2, <2>4 DEF Shape, OwnSession, ServerTyped, ClientTyped, Checkpoints
  <2>5. CASE session' = [session EXCEPT ![t] = [session[t] EXCEPT !.stale = TRUE]]
    <3>1. session[t] # NoSession
      BY <1>5, ExpireEffect
    <3> QED BY <2>2, <2>3, <2>5, <3>1 DEF Shape, OwnSession, ServerTyped, ClientTyped, Checkpoints
  <2> QED BY <1>5, <2>4, <2>5, ExpireEffect
<1>6. ASSUME NEW t \in Transfers, RecordOutcome(t) PROVE OwnSession'
  <2> DEFINE r == Recorded(session[t], processor[t].outcome)
  <2>1. processor[t].stage = "record" /\ UNCHANGED <<client, net, vault>>
    BY <1>6, RecordEffect
  <2>2. PICK p \in Resting : processor' = [processor EXCEPT ![t] = p]
    BY <1>6, RecordEffect
  <2>3. p \in Processors /\ p.stage \in {"none", "run"} /\ p.outcome = None /\ None \notin Results
    BY RestingKinds, ConstantsAssumption
  <2>4. CASE session' = session
    BY <2>1, <2>2, <2>3, <2>4 DEF client, OwnSession
  <2>5. CASE session' = [session EXCEPT ![t] = r]
    <3> HIDE DEF r
    <3>1. /\ session[t] # NoSession /\ session[t].status = "processing"
          /\ r \in Sessions /\ r # NoSession /\ r.commit = session[t].commit
          /\ r.expected = session[t].expected /\ r.receipts = session[t].receipts
      BY <2>1, RecordedKinds DEF r
    <3>2. \/ r = session[t]
          \/ /\ r.status \in {"completed", "rejected"} /\ r.result = processor[t].outcome
             /\ r.result \in Results /\ r.result # None
             /\ r.status = "completed" => r.result.status \in {"merged", "noop", "conflicted"}
      BY <2>1, RecordedKinds DEF r
    <3> QED BY <2>1, <2>2, <2>3, <2>5, <3>1, <3>2 DEF client, OwnSession, Shape, ServerTyped, ClientTyped, Checkpoints
  <2> QED BY <1>6, <2>4, <2>5, RecordEffect DEF r
<1>7. ASSUME NEW t \in Transfers, RecordFails(t) PROVE OwnSession'
  <2> DEFINE r == Recorded(session[t], processor[t].outcome)
  <2>1. processor[t].stage = "record" /\ UNCHANGED <<client, net, vault>>
    BY <1>7, RecordEffect
  <2>2. PICK p \in Resting : processor' = [processor EXCEPT ![t] = p]
    BY <1>7, RecordEffect
  <2>3. p \in Processors /\ p.stage \in {"none", "run"} /\ p.outcome = None /\ None \notin Results
    BY RestingKinds, ConstantsAssumption
  <2>4. CASE session' = session
    BY <2>1, <2>2, <2>3, <2>4 DEF client, OwnSession
  <2>5. CASE session' = [session EXCEPT ![t] = r]
    <3> HIDE DEF r
    <3>1. /\ session[t] # NoSession /\ session[t].status = "processing"
          /\ r \in Sessions /\ r # NoSession /\ r.commit = session[t].commit
          /\ r.expected = session[t].expected /\ r.receipts = session[t].receipts
      BY <2>1, RecordedKinds DEF r
    <3>2. \/ r = session[t]
          \/ /\ r.status \in {"completed", "rejected"} /\ r.result = processor[t].outcome
             /\ r.result \in Results /\ r.result # None
             /\ r.status = "completed" => r.result.status \in {"merged", "noop", "conflicted"}
      BY <2>1, RecordedKinds DEF r
    <3> QED BY <2>1, <2>2, <2>3, <2>5, <3>1, <3>2 DEF client, OwnSession, Shape, ServerTyped, ClientTyped, Checkpoints
  <2> QED BY <1>7, <2>4, <2>5, RecordEffect DEF r
<1>8. ASSUME UNCHANGED <<checkpoint, session>> PROVE OwnSession'
  BY <1>8 DEF Shape, OwnSession, ClientTyped, ServerTyped, Checkpoints
<1> QED
  BY <1>1, <1>2, <1>3, <1>4, <1>5, <1>6, <1>7, <1>8
  DEF Step, ClientStep, Stopped, Fail, Replied, MovedAtMost, vars, client, server, vault,
     QueueProposal, ReplaceProposal, SyncUpload, Send, ReplaceQueue, SaveResult, SettleQueue,
     SettleState, RetireJournal, PullResolution, Timeout, DeviceCrash, HandleSelf, Process,
     ProcessFails, ProcessUnsynced, ServerCrash, OperatorRestart, ServerStart, Unreachable,
     ResolveReview

\* What the server has taken over stays with it.
LEMMA HandledStays ==
  ASSUME Shape, ReviewIsLast, NEW c \in Commits, Handled(c), Step PROVE Handled(c)'
<1>1. ASSUME NEW t \in Transfers, Process(t) PROVE Handled(c)'
  <2>1. CASE /\ session[t].status # "processing" /\ UNCHANGED vault
             /\ processor' = [processor EXCEPT ![t] = Sleeping]
    BY <2>1 DEF vault, Handled
  <2>2. CASE session[t].status = "processing"
    <3>1. session[t] # NoSession /\ session[t].commit \in Commits
      BY <1>1, <2>2, ProcessEffect
    <3>2. PICK o : /\ Integrates(session[t].commit, o) /\ o.result \in Results
                   /\ o.result.ref \in {deviceRef, session[t].commit}
                   /\ deviceRef' = o.deviceRef /\ main' = o.main /\ review' = o.review
                   /\ processor' = [processor EXCEPT ![t] = [stage |-> "record", outcome |-> o.result]]
      BY <1>1, <2>2, ProcessEffect
    <3> QED BY <3>1, <3>2, CommitRange DEF Integrates, Handled, ReviewIsLast
  <2> QED BY <1>1, <2>1, <2>2, ProcessEffect
<1>2. ASSUME ResolveReview PROVE Handled(c)'
  <2>1. c = review => c \in Line(review)
    BY LineHolds
  <2> QED BY <1>2, <2>1 DEF ResolveReview, Handled
<1>3. ASSUME UNCHANGED <<main, review>> PROVE Handled(c)'
  BY <1>3 DEF Shape, Handled
<1> QED
  BY <1>1, <1>2, <1>3
  DEF Step, ClientStep, Stopped, Fail, Replied, MovedAtMost, vars, client, server, vault,
     QueueProposal, ReplaceProposal, SyncUpload, WriteCheckpoint, Send, ReplaceQueue,
     RemoveCheckpoint, SaveResult, SettleQueue, SettleState, RetireCheckpoint, RetireJournal,
     PullResolution, Timeout, DeviceCrash, HandleSelf, Answered, Expire, ProcessFails,
     ProcessUnsynced, RecordOutcome, RecordFails, ServerCrash, OperatorRestart, ServerStart,
     Unreachable

\* Nothing leaves main.
LEMMA MainGrows ==
  ASSUME Shape, Step PROVE main \subseteq main'
<1>1. ASSUME NEW t \in Transfers, Process(t) PROVE main \subseteq main'
  <2>1. CASE /\ session[t].status # "processing" /\ UNCHANGED vault
             /\ processor' = [processor EXCEPT ![t] = Sleeping]
    BY <2>1 DEF vault
  <2>2. CASE session[t].status = "processing"
    <3>1. session[t] # NoSession /\ session[t].commit \in Commits
      BY <1>1, <2>2, ProcessEffect
    <3>2. PICK o : /\ Integrates(session[t].commit, o) /\ o.result \in Results
                   /\ o.result.ref \in {deviceRef, session[t].commit}
                   /\ deviceRef' = o.deviceRef /\ main' = o.main /\ review' = o.review
                   /\ processor' = [processor EXCEPT ![t] = [stage |-> "record", outcome |-> o.result]]
      BY <1>1, <2>2, ProcessEffect
    <3> QED BY <3>1, <3>2 DEF Integrates
  <2> QED BY <1>1, <2>1, <2>2, ProcessEffect
<1>2. ASSUME ResolveReview PROVE main \subseteq main'
  BY <1>2 DEF ResolveReview, client, server, vault, Shape
<1>3. ASSUME UNCHANGED main PROVE main \subseteq main'
  BY <1>3 DEF Shape
<1> QED
  BY <1>1, <1>2, <1>3
  DEF Step, ClientStep, Stopped, Fail, Replied, MovedAtMost, vars, client, server, vault,
     QueueProposal, ReplaceProposal, SyncUpload, WriteCheckpoint, Send, ReplaceQueue,
     RemoveCheckpoint, SaveResult, SettleQueue, SettleState, RetireCheckpoint, RetireJournal,
     PullResolution, Timeout, DeviceCrash, HandleSelf, Answered, Expire, ProcessFails,
     ProcessUnsynced, RecordOutcome, RecordFails, ServerCrash, OperatorRestart, ServerStart,
     Unreachable

\* An interrupted merge stays free of other reviews.
LEMMA ReviewIsLastStep ==
  ASSUME UploadInv, Step PROVE ReviewIsLast'
<1>1. ASSUME NEW t \in Transfers, Process(t) PROVE ReviewIsLast'
  <2>1. CASE /\ session[t].status # "processing" /\ UNCHANGED vault
             /\ processor' = [processor EXCEPT ![t] = Sleeping]
    BY <2>1 DEF vault, UploadInv, ReviewIsLast
  <2>2. CASE session[t].status = "processing"
    <3>1. session[t] # NoSession /\ session[t].commit \in Commits
      BY <1>1, <2>2, ProcessEffect DEF UploadInv
    <3>2. PICK o : /\ Integrates(session[t].commit, o) /\ o.result \in Results
                   /\ o.result.ref \in {deviceRef, session[t].commit}
                   /\ deviceRef' = o.deviceRef /\ main' = o.main /\ review' = o.review
                   /\ processor' = [processor EXCEPT ![t] = [stage |-> "record", outcome |-> o.result]]
      BY <1>1, <2>2, ProcessEffect DEF UploadInv
    <3> QED
      <4>1. session[t].commit \in Line(session[t].commit)
        BY <3>1, LineHolds
      <4> QED BY <3>1, <3>2, <4>1, CommitRange DEF Integrates, UploadInv, Shape, VaultTyped, OnlyPending, Handled, ReviewIsLast
  <2> QED BY <1>1, <2>1, <2>2, ProcessEffect DEF UploadInv
<1>2. ASSUME NEW t \in Transfers, ProcessFails(t) PROVE ReviewIsLast'
  <2>1. session[t].commit \in Commits
    BY <1>2, SessionKinds, ConstantsAssumption DEF ProcessFails, UploadInv, Sessions, SessionStates
  <2> QED BY <1>2, <2>1, MovedCases DEF ProcessFails, UploadInv, ReviewIsLast
<1>3. ASSUME NEW t \in Transfers, ProcessUnsynced(t) PROVE ReviewIsLast'
  <2>1. session[t].commit \in Commits
    BY <1>3, SessionKinds, ConstantsAssumption DEF ProcessUnsynced, UploadInv, Sessions, SessionStates
  <2> QED BY <1>3, <2>1, MovedCases DEF ProcessUnsynced, UploadInv, ReviewIsLast
<1>4. ASSUME ResolveReview PROVE ReviewIsLast'
  BY <1>4, ConstantsAssumption DEF ResolveReview, client, server, vault, UploadInv, ReviewIsLast
<1>5. ASSUME UNCHANGED <<deviceRef, main, review>> PROVE ReviewIsLast'
  BY <1>5 DEF UploadInv, ReviewIsLast
<1> QED
  BY <1>1, <1>2, <1>3, <1>4, <1>5
  DEF Step, ClientStep, Stopped, Fail, Replied, MovedAtMost, vars, client, server, vault,
     QueueProposal, ReplaceProposal, SyncUpload, WriteCheckpoint, Send, ReplaceQueue,
     RemoveCheckpoint, SaveResult, SettleQueue, SettleState, RetireCheckpoint, RetireJournal,
     PullResolution, Timeout, DeviceCrash, HandleSelf, Answered, Expire, RecordOutcome,
     RecordFails, ServerCrash, OperatorRestart, ServerStart, Unreachable

\* The pending proposal changes only when there was none or the server has it.
LEMMA PendingEffect ==
  ASSUME UploadInv, Step PROVE Pending' = Pending \/ Pending = NoCommit \/ Handled(Pending)
<1>1. ASSUME QueueProposal PROVE Pending' = Pending \/ Pending = NoCommit \/ Handled(Pending)
  BY <1>1, ConstantsAssumption DEF QueueProposal, client, server, vault, UploadInv, Shape,
     ClientTyped, Queues, Pending
<1>2. ASSUME ReplaceProposal PROVE Pending' = Pending \/ Pending = NoCommit \/ Handled(Pending)
  BY <1>2, HandoffEffect DEF ReplaceProposal, UploadInv, Shape, FilesAgree, Pending
<1>3. ASSUME WriteCheckpoint PROVE Pending' = Pending \/ Pending = NoCommit \/ Handled(Pending)
  BY <1>3, ConstantsAssumption DEF WriteCheckpoint, client, server, vault, UploadInv, Shape,
     ClientTyped, Queues, Pending, StageAgrees
<1>4. ASSUME ReplaceQueue PROVE Pending' = Pending \/ Pending = NoCommit \/ Handled(Pending)
  BY <1>4, ConstantsAssumption DEF ReplaceQueue, client, server, vault, UploadInv, Shape,
     ClientTyped, Queues, Pending, StageAgrees
<1>5. ASSUME SaveResult PROVE Pending' = Pending \/ Pending = NoCommit \/ Handled(Pending)
  <2>1. task.recovering /\ journal # None /\ journal \in Handoffs /\ task.result # None
    BY <1>5 DEF SaveResult, UploadInv, Shape, StageAgrees, ClientTyped
  <2>2. journal'.old = journal.old /\ journal' \in Handoffs
    BY <1>5, <2>1 DEF SaveResult, Handoffs, UploadInv, Shape, ClientTyped, Tasks
  <2> QED BY <2>1, <2>2, ConstantsAssumption DEF Pending
<1>6. ASSUME SettleQueue PROVE Pending' = Pending \/ Pending = NoCommit \/ Handled(Pending)
  <2>1. CASE task.recovering
    BY <1>6, <2>1 DEF SettleQueue, UploadInv, Shape, StageAgrees, Pending
  <2>2. CASE ~task.recovering
    BY <1>6, <2>2 DEF SettleQueue, UploadInv, GivenUpHandled
  <2> QED BY <2>1, <2>2
<1>7. ASSUME RetireJournal PROVE Pending' = Pending \/ Pending = NoCommit \/ Handled(Pending)
  BY <1>7, ConstantsAssumption DEF RetireJournal, client, server, vault, UploadInv, Shape,
     ClientTyped, Queues, Pending, GivenUpHandled, StageAgrees
<1>8. ASSUME PullResolution PROVE Pending' = Pending \/ Pending = NoCommit \/ Handled(Pending)
  BY <1>8, ConstantsAssumption DEF PullResolution, client, server, vault, UploadInv, Shape,
     ClientTyped, Queues, Pending, GivenUpHandled
<1>9. ASSUME Timeout PROVE Pending' = Pending \/ Pending = NoCommit \/ Handled(Pending)
  BY <1>9, ConstantsAssumption DEF Timeout, Fail, Fault, Abandoned, client, server, vault,
     UploadInv, Shape, ClientTyped, Queues, Pending
<1>10. ASSUME NEW m \in net, HandleSelf(m) PROVE Pending' = Pending \/ Pending = NoCommit \/ Handled(Pending)
  <2>1. queue'.commit = queue.commit
    BY <1>10 DEF HandleSelf, UploadInv, Shape, ClientTyped, Queues
  <2> QED BY <1>10, <2>1 DEF HandleSelf, Pending
<1>11. ASSUME NEW m \in net, Answered(m) PROVE Pending' = Pending \/ Pending = NoCommit \/ Handled(Pending)
  <2>1. CASE UNCHANGED client
    BY <2>1 DEF client, Pending
  <2>2. CASE Replied
    BY <2>2, RepliedEffect DEF Pending, UploadInv
  <2> QED BY <1>11, <2>1, <2>2 DEF Answered
<1>12. ASSUME ServerCrash PROVE Pending' = Pending \/ Pending = NoCommit \/ Handled(Pending)
  BY <1>12, ConstantsAssumption DEF ServerCrash, Stopped, Fault, Fail, Awaiting, client, server,
     vault, UploadInv, Shape, ClientTyped, Queues, Pending
<1>13. ASSUME OperatorRestart PROVE Pending' = Pending \/ Pending = NoCommit \/ Handled(Pending)
  BY <1>13, ConstantsAssumption DEF OperatorRestart, Stopped, Fail, Awaiting, client, server,
     vault, UploadInv, Shape, ClientTyped, Queues, Pending
<1>14. ASSUME Unreachable PROVE Pending' = Pending \/ Pending = NoCommit \/ Handled(Pending)
  BY <1>14, ConstantsAssumption DEF Unreachable, Fail, client, server, vault, UploadInv, Shape,
     ClientTyped, Queues, Pending
<1>15. ASSUME UNCHANGED <<queue, journal>> PROVE Pending' = Pending \/ Pending = NoCommit \/ Handled(Pending)
  BY <1>15 DEF UploadInv, Shape, ClientTyped, Queues, Pending
<1> QED
  BY <1>1, <1>2, <1>3, <1>4, <1>5, <1>6, <1>7, <1>8, <1>9, <1>10, <1>11, <1>12, <1>13, <1>14, <1>15
  DEF Step, ClientStep, Stopped, Fail, Replied, MovedAtMost, vars, client, server, vault,
     SyncUpload, Send, RemoveCheckpoint, SettleState, RetireCheckpoint, DeviceCrash, Expire,
     Process, ProcessFails, ProcessUnsynced, RecordOutcome, RecordFails, ServerStart, ResolveReview

\* A proposal that is pending or taken over stays one of the two.
LEMMA Carried ==
  ASSUME UploadInv, Step, NEW c \in Commits, Handled(c) \/ c = Pending
  PROVE  Handled(c)' \/ c = Pending'
<1>1. CASE Handled(c)
  BY <1>1, HandledStays DEF UploadInv
<1>2. CASE c = Pending /\ ~Handled(c)
  BY <1>2, PendingEffect, CommitRange
<1> QED BY <1>1, <1>2

\* Sessions are made from requests.
LEMMA SessionsOrigin ==
  ASSUME UploadInv, Step PROVE \A u \in Transfers : session'[u] # NoSession =>
           \/ session[u] # NoSession /\ session'[u].commit = session[u].commit
           \/ \E n \in net : n.kind = "create" /\ session'[u].commit = n.commit
<1>1. ASSUME NEW m \in net, Answered(m) PROVE \A u \in Transfers : session'[u] # NoSession =>
           \/ session[u] # NoSession /\ session'[u].commit = session[u].commit
           \/ \E n \in net : n.kind = "create" /\ session'[u].commit = n.commit
  <2> SUFFICES ASSUME NEW t \in Transfers, session'[t] # NoSession
       PROVE  \/ session[t] # NoSession /\ session'[t].commit = session[t].commit
              \/ \E n \in net : n.kind = "create" /\ session'[t].commit = n.commit
    OBVIOUS
  <2>1. Served(m, t)
    BY <1>1 DEF Answered
  <2>2. session[t] # NoSession => session[t] \in Sessions
    BY SessionKinds DEF UploadInv
  <2>3. CASE m.kind = "create" /\ session'[t] = NewSession(m.commit, m.expected)
    BY <2>3 DEF NewSession
  <2> QED BY <2>1, <2>2, <2>3 DEF Served, Sessions
<1>2. ASSUME NEW t \in Transfers, Expire(t) PROVE \A u \in Transfers : session'[u] # NoSession =>
           \/ session[u] # NoSession /\ session'[u].commit = session[u].commit
           \/ \E n \in net : n.kind = "create" /\ session'[u].commit = n.commit
  <2>1. session[t] # NoSession /\ session[t] \in Sessions
    BY <1>2, ExpireEffect, SessionKinds DEF UploadInv
  <2>2. [session[t] EXCEPT !.stale = TRUE].commit = session[t].commit
    BY <2>1 DEF Sessions
  <2> QED BY <1>2, <2>1, <2>2, ExpireEffect DEF UploadInv, Shape, ServerTyped
<1>3. ASSUME NEW t \in Transfers, RecordOutcome(t) PROVE \A u \in Transfers : session'[u] # NoSession =>
           \/ session[u] # NoSession /\ session'[u].commit = session[u].commit
           \/ \E n \in net : n.kind = "create" /\ session'[u].commit = n.commit
  <2> DEFINE r == Recorded(session[t], processor[t].outcome)
  <2>1. processor[t].stage = "record" /\ UNCHANGED <<client, net, vault>>
    BY <1>3, RecordEffect DEF UploadInv
  <2>2. PICK p \in Resting : processor' = [processor EXCEPT ![t] = p]
    BY <1>3, RecordEffect DEF UploadInv
  <2>3. p \in Processors /\ p.stage \in {"none", "run"} /\ p.outcome = None /\ None \notin Results
    BY RestingKinds, ConstantsAssumption
  <2>4. CASE session' = session
    BY <2>1, <2>2, <2>3, <2>4 DEF UploadInv
  <2>5. CASE session' = [session EXCEPT ![t] = r]
    <3> HIDE DEF r
    <3>1. /\ session[t] # NoSession /\ session[t].status = "processing"
          /\ r \in Sessions /\ r # NoSession /\ r.commit = session[t].commit
          /\ r.expected = session[t].expected /\ r.receipts = session[t].receipts
      BY <2>1, RecordedKinds DEF r, UploadInv
    <3>2. \/ r = session[t]
          \/ /\ r.status \in {"completed", "rejected"} /\ r.result = processor[t].outcome
             /\ r.result \in Results /\ r.result # None
             /\ r.status = "completed" => r.result.status \in {"merged", "noop", "conflicted"}
      BY <2>1, RecordedKinds DEF r, UploadInv
    <3> QED BY <2>1, <2>2, <2>3, <2>5, <3>1, <3>2 DEF UploadInv, Shape, ServerTyped
  <2> QED BY <1>3, <2>4, <2>5, RecordEffect DEF UploadInv, r
<1>4. ASSUME NEW t \in Transfers, RecordFails(t) PROVE \A u \in Transfers : session'[u] # NoSession =>
           \/ session[u] # NoSession /\ session'[u].commit = session[u].commit
           \/ \E n \in net : n.kind = "create" /\ session'[u].commit = n.commit
  <2> DEFINE r == Recorded(session[t], processor[t].outcome)
  <2>1. processor[t].stage = "record" /\ UNCHANGED <<client, net, vault>>
    BY <1>4, RecordEffect DEF UploadInv
  <2>2. PICK p \in Resting : processor' = [processor EXCEPT ![t] = p]
    BY <1>4, RecordEffect DEF UploadInv
  <2>3. p \in Processors /\ p.stage \in {"none", "run"} /\ p.outcome = None /\ None \notin Results
    BY RestingKinds, ConstantsAssumption
  <2>4. CASE session' = session
    BY <2>1, <2>2, <2>3, <2>4 DEF UploadInv
  <2>5. CASE session' = [session EXCEPT ![t] = r]
    <3> HIDE DEF r
    <3>1. /\ session[t] # NoSession /\ session[t].status = "processing"
          /\ r \in Sessions /\ r # NoSession /\ r.commit = session[t].commit
          /\ r.expected = session[t].expected /\ r.receipts = session[t].receipts
      BY <2>1, RecordedKinds DEF r, UploadInv
    <3>2. \/ r = session[t]
          \/ /\ r.status \in {"completed", "rejected"} /\ r.result = processor[t].outcome
             /\ r.result \in Results /\ r.result # None
             /\ r.status = "completed" => r.result.status \in {"merged", "noop", "conflicted"}
      BY <2>1, RecordedKinds DEF r, UploadInv
    <3> QED BY <2>1, <2>2, <2>3, <2>5, <3>1, <3>2 DEF UploadInv, Shape, ServerTyped
  <2> QED BY <1>4, <2>4, <2>5, RecordEffect DEF UploadInv, r
<1>5. ASSUME UNCHANGED session PROVE \A u \in Transfers : session'[u] # NoSession =>
           \/ session[u] # NoSession /\ session'[u].commit = session[u].commit
           \/ \E n \in net : n.kind = "create" /\ session'[u].commit = n.commit
  BY <1>5 DEF UploadInv
<1> QED
  BY <1>1, <1>2, <1>3, <1>4, <1>5
  DEF Step, ClientStep, Stopped, Fail, Replied, MovedAtMost, vars, client, server, vault,
     QueueProposal, ReplaceProposal, SyncUpload, WriteCheckpoint, Send, ReplaceQueue,
     RemoveCheckpoint, SaveResult, SettleQueue, SettleState, RetireCheckpoint, RetireJournal,
     PullResolution, Timeout, DeviceCrash, HandleSelf, Process, ProcessFails, ProcessUnsynced,
     ServerCrash, OperatorRestart, ServerStart, Unreachable, ResolveReview

\* Creations are requested for the checkpoint.
LEMMA NetOrigin ==
  ASSUME UploadInv, Step PROVE \A n \in net' : n.kind = "create" =>
           \/ \E q \in net : q.kind = "create" /\ n.commit = q.commit
           \/ checkpoint # None /\ n.commit = checkpoint.commit
<1>1. ASSUME Send PROVE \A n \in net' : n.kind = "create" =>
           \/ \E q \in net : q.kind = "create" /\ n.commit = q.commit
           \/ checkpoint # None /\ n.commit = checkpoint.commit
  <2> DEFINE t == IF task.stage \in {"self", "create"} THEN None ELSE checkpoint.transfer
  <2>1. PICK k \in Chunks : net' = net \cup {Request(task.stage, t, k)}
    BY <1>1 DEF Send
  <2>2. Request(task.stage, t, k).kind = "create" => checkpoint # None /\ Request(task.stage, t, k).commit = checkpoint.commit
    BY DEF Request, UploadInv, Shape, OneAwaited
  <2> QED BY <2>1, <2>2
<1>2. ASSUME Timeout PROVE \A n \in net' : n.kind = "create" =>
           \/ \E q \in net : q.kind = "create" /\ n.commit = q.commit
           \/ checkpoint # None /\ n.commit = checkpoint.commit
  BY <1>2, StoppedWaiting DEF UploadInv, Unawaited
<1>3. ASSUME DeviceCrash PROVE \A n \in net' : n.kind = "create" =>
           \/ \E q \in net : q.kind = "create" /\ n.commit = q.commit
           \/ checkpoint # None /\ n.commit = checkpoint.commit
  BY <1>3, StoppedWaiting DEF UploadInv, Unawaited
<1>4. ASSUME NEW m \in net, HandleSelf(m) PROVE \A n \in net' : n.kind = "create" =>
           \/ \E q \in net : q.kind = "create" /\ n.commit = q.commit
           \/ checkpoint # None /\ n.commit = checkpoint.commit
  BY <1>4 DEF HandleSelf, client, server, vault, UploadInv
<1>5. ASSUME NEW m \in net, Answered(m) PROVE \A n \in net' : n.kind = "create" =>
           \/ \E q \in net : q.kind = "create" /\ n.commit = q.commit
           \/ checkpoint # None /\ n.commit = checkpoint.commit
  BY <1>5 DEF Answered, Replied, client, server, vault, UploadInv
<1>6. ASSUME ServerCrash PROVE \A n \in net' : n.kind = "create" =>
           \/ \E q \in net : q.kind = "create" /\ n.commit = q.commit
           \/ checkpoint # None /\ n.commit = checkpoint.commit
  BY <1>6, StoppedWaiting DEF UploadInv, Unawaited
<1>7. ASSUME OperatorRestart PROVE \A n \in net' : n.kind = "create" =>
           \/ \E q \in net : q.kind = "create" /\ n.commit = q.commit
           \/ checkpoint # None /\ n.commit = checkpoint.commit
  BY <1>7, StoppedWaiting DEF UploadInv, Unawaited
<1>8. ASSUME Unreachable PROVE \A n \in net' : n.kind = "create" =>
           \/ \E q \in net : q.kind = "create" /\ n.commit = q.commit
           \/ checkpoint # None /\ n.commit = checkpoint.commit
  BY <1>8, StoppedWaiting DEF UploadInv, Unawaited
<1>9. ASSUME UNCHANGED net PROVE \A n \in net' : n.kind = "create" =>
           \/ \E q \in net : q.kind = "create" /\ n.commit = q.commit
           \/ checkpoint # None /\ n.commit = checkpoint.commit
  BY <1>9 DEF UploadInv
<1> QED
  BY <1>1, <1>2, <1>3, <1>4, <1>5, <1>6, <1>7, <1>8, <1>9
  DEF Step, ClientStep, Stopped, Fail, Replied, MovedAtMost, vars, client, server, vault,
     QueueProposal, ReplaceProposal, SyncUpload, WriteCheckpoint, ReplaceQueue, RemoveCheckpoint,
     SaveResult, SettleQueue, SettleState, RetireCheckpoint, RetireJournal, PullResolution, Expire,
     Process, ProcessFails, ProcessUnsynced, RecordOutcome, RecordFails, ServerStart, ResolveReview

\* The device ref moves to the commit of a transfer.
LEMMA RefOrigin ==
  ASSUME UploadInv, Step PROVE \/ deviceRef' = deviceRef
         \/ \E u \in Transfers : session[u] # NoSession /\ session[u].commit \in Commits /\ deviceRef' = session[u].commit
<1>1. ASSUME NEW t \in Transfers, Process(t) PROVE \/ deviceRef' = deviceRef
         \/ \E u \in Transfers : session[u] # NoSession /\ session[u].commit \in Commits /\ deviceRef' = session[u].commit
  <2>1. CASE /\ session[t].status # "processing" /\ UNCHANGED vault
             /\ processor' = [processor EXCEPT ![t] = Sleeping]
    BY <2>1 DEF vault
  <2>2. CASE session[t].status = "processing"
    <3>1. session[t] # NoSession /\ session[t].commit \in Commits
      BY <1>1, <2>2, ProcessEffect DEF UploadInv
    <3>2. PICK o : /\ Integrates(session[t].commit, o) /\ o.result \in Results
                   /\ o.result.ref \in {deviceRef, session[t].commit}
                   /\ deviceRef' = o.deviceRef /\ main' = o.main /\ review' = o.review
                   /\ processor' = [processor EXCEPT ![t] = [stage |-> "record", outcome |-> o.result]]
      BY <1>1, <2>2, ProcessEffect DEF UploadInv
    <3> QED BY <3>1, <3>2 DEF Integrates
  <2> QED BY <1>1, <2>1, <2>2, ProcessEffect DEF UploadInv
<1>2. ASSUME NEW t \in Transfers, ProcessFails(t) PROVE \/ deviceRef' = deviceRef
         \/ \E u \in Transfers : session[u] # NoSession /\ session[u].commit \in Commits /\ deviceRef' = session[u].commit
  <2>1. session[t].commit \in Commits /\ session[t] # NoSession
    BY <1>2, SessionKinds, ConstantsAssumption DEF ProcessFails, UploadInv, Sessions, SessionStates
  <2> QED BY <1>2, <2>1, MovedCases DEF ProcessFails
<1>3. ASSUME NEW t \in Transfers, ProcessUnsynced(t) PROVE \/ deviceRef' = deviceRef
         \/ \E u \in Transfers : session[u] # NoSession /\ session[u].commit \in Commits /\ deviceRef' = session[u].commit
  <2>1. session[t].commit \in Commits /\ session[t] # NoSession
    BY <1>3, SessionKinds, ConstantsAssumption DEF ProcessUnsynced, UploadInv, Sessions, SessionStates
  <2> QED BY <1>3, <2>1, MovedCases DEF ProcessUnsynced
<1>4. ASSUME UNCHANGED deviceRef PROVE \/ deviceRef' = deviceRef
         \/ \E u \in Transfers : session[u] # NoSession /\ session[u].commit \in Commits /\ deviceRef' = session[u].commit
  BY <1>4 DEF UploadInv
<1> QED
  BY <1>1, <1>2, <1>3, <1>4
  DEF Step, ClientStep, Stopped, Fail, Replied, MovedAtMost, vars, client, server, vault,
     QueueProposal, ReplaceProposal, SyncUpload, WriteCheckpoint, Send, ReplaceQueue,
     RemoveCheckpoint, SaveResult, SettleQueue, SettleState, RetireCheckpoint, RetireJournal,
     PullResolution, Timeout, DeviceCrash, HandleSelf, Answered, Expire, RecordOutcome,
     RecordFails, ServerCrash, OperatorRestart, ServerStart, Unreachable, ResolveReview

\* So everything the server may still integrate goes on being pending or taken over.
LEMMA OnlyPendingStep ==
  ASSUME UploadInv, Step PROVE OnlyPending'
<1>1. Shape /\ OnlyPending
  BY DEF UploadInv
<1>2. ASSUME NEW c \in Commits, Handled(c) \/ c = Pending PROVE c \in main' \cup {review'} \/ c = Pending'
  BY <1>2, Carried DEF Handled
<1>3. ASSUME NEW m \in net, m.kind = "create" PROVE m.commit \in main' \cup {review'} \/ m.commit = Pending'
  <2>1. m.commit \in Commits /\ (Handled(m.commit) \/ m.commit = Pending)
    BY <1>1, <1>3 DEF Shape, OneAwaited, OnlyPending
  <2> QED BY <1>2, <2>1
<1>4. ASSUME NEW t \in Transfers, session[t] # NoSession
      PROVE  session[t].commit \in main' \cup {review'} \/ session[t].commit = Pending'
  <2>1. session[t].commit \in Commits
    BY <1>1, <1>4, SessionKinds DEF Sessions
  <2>2. Handled(session[t].commit) \/ session[t].commit = Pending
    BY <1>1, <1>4 DEF OnlyPending
  <2> QED BY <1>2, <2>1, <2>2
<1>5. ASSUME NEW t \in Transfers, session'[t] # NoSession
      PROVE  session'[t].commit \in main' \cup {review'} \/ session'[t].commit = Pending'
  BY <1>3, <1>4, <1>5, SessionsOrigin
<1>6. checkpoint # None => checkpoint.commit \in main' \cup {review'} \/ checkpoint.commit = Pending'
  <2>1. checkpoint # None => checkpoint.commit \in Commits /\ checkpoint.commit = Pending
    BY <1>1 DEF Shape, ClientTyped, Checkpoints, FilesAgree, Pending
  <2> QED BY <1>2, <2>1
<1>7. ASSUME NEW n \in net', n.kind = "create" PROVE n.commit \in main' \cup {review'} \/ n.commit = Pending'
  BY <1>3, <1>6, <1>7, NetOrigin
<1>8. deviceRef' \in main' \cup {review'} \/ deviceRef' \in {NoCommit, Pending'}
  <2>1. CASE deviceRef' = deviceRef
    <3>1. deviceRef # NoCommit => deviceRef \in Commits /\ (Handled(deviceRef) \/ deviceRef = Pending)
      BY <1>1, ConstantsAssumption DEF Shape, VaultTyped, OnlyPending, Commits, NoCommit
    <3> QED BY <1>2, <2>1, <3>1
  <2>2. CASE \E u \in Transfers : session[u] # NoSession /\ session[u].commit \in Commits /\ deviceRef' = session[u].commit
    BY <1>4, <2>2
  <2> QED BY <2>1, <2>2, RefOrigin
<1>9. NoCommit' = NoCommit
  BY DEF NoCommit
<1> QED BY <1>5, <1>7, <1>8, <1>9 DEF OnlyPending, Handled

\* Completed transfers go on telling the truth.
LEMMA CompletedIsTrueStep ==
  ASSUME UploadInv, Step PROVE CompletedIsTrue'
<1>1. ASSUME NEW m \in net, Answered(m) PROVE CompletedIsTrue'
  <2> SUFFICES ASSUME NEW t \in Transfers, session'[t].status = "completed"
       PROVE  session'[t] = session[t]
    BY <1>1 DEF Answered, vault, UploadInv, CompletedIsTrue
  <2>1. Served(m, t)
    BY <1>1 DEF Answered
  <2>2. session[t] # NoSession => session[t] \in Sessions
    BY SessionKinds DEF UploadInv
  <2>3. NoSession.status # "completed" /\ NewSession(m.commit, m.expected).status # "completed"
    BY ConstantsAssumption DEF NoSession, NewSession, SessionStates
  <2> QED BY <2>1, <2>2, <2>3 DEF Served, Sessions
<1>2. ASSUME NEW t \in Transfers, Expire(t) PROVE CompletedIsTrue'
  <2>1. session[t] # NoSession /\ session[t] \in Sessions /\ UNCHANGED vault
    BY <1>2, ExpireEffect, SessionKinds DEF Expire, UploadInv
  <2>2. /\ [session[t] EXCEPT !.stale = TRUE].commit = session[t].commit
        /\ [session[t] EXCEPT !.stale = TRUE].status = session[t].status
        /\ [session[t] EXCEPT !.stale = TRUE].result = session[t].result
        /\ NoSession.status # "completed"
    BY <2>1, ConstantsAssumption DEF Sessions, NoSession, SessionStates
  <2>3. PICK w : /\ session' = [session EXCEPT ![t] = w]
                 /\ w.status = "completed" =>
                      w.commit = session[t].commit /\ w.status = session[t].status /\ w.result = session[t].result
    BY <1>2, <2>2, ExpireEffect DEF UploadInv
  <2>4. \A u \in Transfers : session'[u].status = "completed" =>
          /\ session'[u].commit = session[u].commit /\ session[u].status = "completed"
          /\ session'[u].result = session[u].result
    BY <2>3 DEF UploadInv, Shape, ServerTyped
  <2> QED BY <2>1, <2>4 DEF vault, UploadInv, CompletedIsTrue
<1>3. ASSUME NEW t \in Transfers, Process(t) PROVE CompletedIsTrue'
  <2> SUFFICES ASSUME NEW u \in Transfers, session[u].status = "completed"
       PROVE  IF session[u].result.status = "conflicted" THEN session[u].commit \in main' \cup {review'}
              ELSE session[u].commit \in main'
    BY <1>3 DEF Process, server, CompletedIsTrue
  <2>1. session[u].commit \in Commits
    BY SessionKinds, ConstantsAssumption DEF UploadInv, Sessions, SessionStates
  <2>2. \A c \in Commits : Handled(c) => c \in main' \cup {review'}
    BY HandledStays DEF UploadInv, Handled
  <2>3. main \subseteq main'
    BY MainGrows DEF UploadInv
  <2> QED BY <2>1, <2>2, <2>3 DEF UploadInv, CompletedIsTrue, Handled
<1>4. ASSUME NEW t \in Transfers, RecordOutcome(t) PROVE CompletedIsTrue'
  <2> DEFINE r == Recorded(session[t], processor[t].outcome)
  <2>1. processor[t].stage = "record" /\ UNCHANGED <<client, net, vault>>
    BY <1>4, RecordEffect DEF UploadInv
  <2>2. PICK p \in Resting : processor' = [processor EXCEPT ![t] = p]
    BY <1>4, RecordEffect DEF UploadInv
  <2>3. p \in Processors /\ p.stage \in {"none", "run"} /\ p.outcome = None /\ None \notin Results
    BY RestingKinds, ConstantsAssumption
  <2>4. CASE session' = session
    BY <2>1, <2>2, <2>3, <2>4 DEF vault, UploadInv, CompletedIsTrue
  <2>5. CASE session' = [session EXCEPT ![t] = r]
    <3> HIDE DEF r
    <3>1. /\ session[t] # NoSession /\ session[t].status = "processing"
          /\ r \in Sessions /\ r # NoSession /\ r.commit = session[t].commit
          /\ r.expected = session[t].expected /\ r.receipts = session[t].receipts
      BY <2>1, RecordedKinds DEF r, UploadInv
    <3>2. \/ r = session[t]
          \/ /\ r.status \in {"completed", "rejected"} /\ r.result = processor[t].outcome
             /\ r.result \in Results /\ r.result # None
             /\ r.status = "completed" => r.result.status \in {"merged", "noop", "conflicted"}
      BY <2>1, RecordedKinds DEF r, UploadInv
    <3> QED BY <2>1, <2>2, <2>3, <2>5, <3>1, <3>2 DEF vault, UploadInv, Shape, ServerTyped, CompletedIsTrue, OutcomeIsTrue, Handled
  <2> QED BY <1>4, <2>4, <2>5, RecordEffect DEF UploadInv, r
<1>5. ASSUME NEW t \in Transfers, RecordFails(t) PROVE CompletedIsTrue'
  <2> DEFINE r == Recorded(session[t], processor[t].outcome)
  <2>1. processor[t].stage = "record" /\ UNCHANGED <<client, net, vault>>
    BY <1>5, RecordEffect DEF UploadInv
  <2>2. PICK p \in Resting : processor' = [processor EXCEPT ![t] = p]
    BY <1>5, RecordEffect DEF UploadInv
  <2>3. p \in Processors /\ p.stage \in {"none", "run"} /\ p.outcome = None /\ None \notin Results
    BY RestingKinds, ConstantsAssumption
  <2>4. CASE session' = session
    BY <2>1, <2>2, <2>3, <2>4 DEF vault, UploadInv, CompletedIsTrue
  <2>5. CASE session' = [session EXCEPT ![t] = r]
    <3> HIDE DEF r
    <3>1. /\ session[t] # NoSession /\ session[t].status = "processing"
          /\ r \in Sessions /\ r # NoSession /\ r.commit = session[t].commit
          /\ r.expected = session[t].expected /\ r.receipts = session[t].receipts
      BY <2>1, RecordedKinds DEF r, UploadInv
    <3>2. \/ r = session[t]
          \/ /\ r.status \in {"completed", "rejected"} /\ r.result = processor[t].outcome
             /\ r.result \in Results /\ r.result # None
             /\ r.status = "completed" => r.result.status \in {"merged", "noop", "conflicted"}
      BY <2>1, RecordedKinds DEF r, UploadInv
    <3> QED BY <2>1, <2>2, <2>3, <2>5, <3>1, <3>2 DEF vault, UploadInv, Shape, ServerTyped, CompletedIsTrue, OutcomeIsTrue, Handled
  <2> QED BY <1>5, <2>4, <2>5, RecordEffect DEF UploadInv, r
<1>6. ASSUME ResolveReview PROVE CompletedIsTrue'
  <2> SUFFICES ASSUME NEW u \in Transfers, session[u].status = "completed"
       PROVE  IF session[u].result.status = "conflicted" THEN session[u].commit \in main' \cup {review'}
              ELSE session[u].commit \in main'
    BY <1>6 DEF ResolveReview, server, CompletedIsTrue
  <2>1. session[u].commit \in Commits
    BY SessionKinds, ConstantsAssumption DEF UploadInv, Sessions, SessionStates
  <2>2. \A c \in Commits : Handled(c) => c \in main' \cup {review'}
    BY HandledStays DEF UploadInv, Handled
  <2>3. main \subseteq main'
    BY MainGrows DEF UploadInv
  <2> QED BY <2>1, <2>2, <2>3 DEF UploadInv, CompletedIsTrue, Handled
<1>7. ASSUME UNCHANGED <<session, main, review>> PROVE CompletedIsTrue'
  BY <1>7 DEF UploadInv, CompletedIsTrue
<1> QED
  BY <1>1, <1>2, <1>3, <1>4, <1>5, <1>6, <1>7
  DEF Step, ClientStep, Stopped, Fail, Replied, MovedAtMost, vars, client, server, vault,
     QueueProposal, ReplaceProposal, SyncUpload, WriteCheckpoint, Send, ReplaceQueue,
     RemoveCheckpoint, SaveResult, SettleQueue, SettleState, RetireCheckpoint, RetireJournal,
     PullResolution, Timeout, DeviceCrash, HandleSelf, ProcessFails, ProcessUnsynced, ServerCrash,
     OperatorRestart, ServerStart, Unreachable

\* Outcomes go on telling the truth until they are recorded.
LEMMA OutcomeIsTrueStep ==
  ASSUME UploadInv, Step PROVE OutcomeIsTrue'
<1>1. ASSUME NEW m \in net, Answered(m) PROVE OutcomeIsTrue'
  <2> SUFFICES ASSUME NEW t \in Transfers, processor'[t].stage = "record"
       PROVE  processor'[t] = processor[t] /\ session'[t].commit = session[t].commit
    BY <1>1 DEF Answered, vault, UploadInv, OutcomeIsTrue, Handled
  <2>1. Served(m, t)
    BY <1>1 DEF Answered
  <2>2. processor'[t] = processor[t]
    BY <2>1, RestingKinds DEF Served, Resting
  <2>3. session[t].status = "processing" /\ ~Fresh(t)
    BY <2>2, ConstantsAssumption DEF UploadInv, Shape, SessionsWhole, Fresh, SessionStates
  <2>4. session[t] # NoSession /\ session[t] \in Sessions
    BY <2>3, SessionKinds, ConstantsAssumption DEF UploadInv, SessionStates
  <2> QED BY <2>1, <2>2, <2>3, <2>4 DEF Served, Sessions
<1>2. ASSUME NEW t \in Transfers, Expire(t) PROVE OutcomeIsTrue'
  <2>1. session[t] # NoSession /\ session[t] \in Sessions /\ UNCHANGED <<vault, processor>>
    BY <1>2, ExpireEffect, SessionKinds DEF Expire, UploadInv
  <2>2. [session[t] EXCEPT !.stale = TRUE].commit = session[t].commit
    BY <2>1 DEF Sessions
  <2>3. processor[t].stage = "record" => session[t].status = "processing"
    BY DEF UploadInv, Shape, SessionsWhole
  <2> QED BY <1>2, <2>1, <2>2, <2>3, ExpireEffect, ZenonT(40) DEF vault, UploadInv, Shape, ServerTyped, OutcomeIsTrue, Handled
<1>3. ASSUME NEW t \in Transfers, Process(t) PROVE OutcomeIsTrue'
  <2>1. UNCHANGED session /\ \A u \in Transfers : u # t => processor'[u] = processor[u]
    BY <1>3 DEF Process, UploadInv, Shape, ServerTyped
  <2>2. ASSUME NEW u \in Transfers, u # t, processor[u].stage = "record"
        PROVE  /\ processor[u].outcome.status \in {"merged", "noop"} => session[u].commit \in main'
               /\ processor[u].outcome.status = "conflicted" => session[u].commit \in main' \cup {review'}
    <3>1. session[u].commit \in Commits
      BY <2>2, SessionKinds, ConstantsAssumption DEF UploadInv, Shape, SessionsWhole, Sessions, SessionStates
    <3>2. \A c \in Commits : Handled(c) => c \in main' \cup {review'}
      BY HandledStays DEF UploadInv, Handled
    <3>3. main \subseteq main'
      BY MainGrows DEF UploadInv
    <3> QED BY <2>2, <3>1, <3>2, <3>3 DEF UploadInv, OutcomeIsTrue, Handled
  <2>3. ASSUME processor'[t].stage = "record"
        PROVE  /\ processor'[t].outcome.status \in {"merged", "noop"} => session[t].commit \in main'
               /\ processor'[t].outcome.status = "conflicted" => session[t].commit \in main' \cup {review'}
    <3>1. CASE processor' = [processor EXCEPT ![t] = Sleeping]
      BY <2>3, <3>1 DEF Sleeping, UploadInv, Shape, ServerTyped
    <3>2. CASE /\ session[t].commit \in Commits
               /\ \E o : /\ Integrates(session[t].commit, o)
                         /\ main' = o.main /\ review' = o.review
                         /\ processor' = [processor EXCEPT ![t] = [stage |-> "record", outcome |-> o.result]]
      <4>1. PICK o : /\ Integrates(session[t].commit, o)
                     /\ main' = o.main /\ review' = o.review
                     /\ processor' = [processor EXCEPT ![t] = [stage |-> "record", outcome |-> o.result]]
        BY <3>2
      <4>2. processor'[t].outcome = o.result
        BY <4>1 DEF UploadInv, Shape, ServerTyped
      <4>3. session[t].commit \in Line(session[t].commit)
        BY <3>2, LineHolds
      <4> QED BY <4>1, <4>2, <4>3 DEF Integrates
    <3> QED BY <1>3, <3>1, <3>2, ProcessEffect DEF UploadInv
  <2> QED BY <2>1, <2>2, <2>3 DEF OutcomeIsTrue, Handled
<1>4. ASSUME NEW t \in Transfers, ProcessFails(t) PROVE OutcomeIsTrue'
  <2>1. session[t].commit \in Commits
    BY <1>4, SessionKinds, ConstantsAssumption DEF ProcessFails, UploadInv, Sessions, SessionStates
  <2>2. UNCHANGED <<main, review, session>>
    BY <1>4, <2>1, MovedCases DEF ProcessFails
  <2>3. \A u \in Transfers : u # t => processor'[u] = processor[u]
    BY <1>4 DEF ProcessFails, UploadInv, Shape, ServerTyped
  <2>4. processor'[t].outcome.status \in {"git_error", "transfer_unavailable"}
    BY <1>4 DEF ProcessFails, UploadInv, Shape, ServerTyped
  <2> QED BY <2>2, <2>3, <2>4 DEF UploadInv, OutcomeIsTrue, Handled
<1>5. ASSUME NEW t \in Transfers, ProcessUnsynced(t) PROVE OutcomeIsTrue'
  <2>1. session[t].commit \in Commits
    BY <1>5, SessionKinds, ConstantsAssumption DEF ProcessUnsynced, UploadInv, Sessions, SessionStates
  <2>2. UNCHANGED <<main, review, session>>
    BY <1>5, <2>1, MovedCases DEF ProcessUnsynced
  <2>3. \A u \in Transfers : u # t => processor'[u] = processor[u]
    BY <1>5 DEF ProcessUnsynced, UploadInv, Shape, ServerTyped
  <2>4. processor'[t].outcome.status \in {"git_error", "transfer_unavailable"}
    BY <1>5 DEF ProcessUnsynced, UploadInv, Shape, ServerTyped
  <2> QED BY <2>2, <2>3, <2>4 DEF UploadInv, OutcomeIsTrue, Handled
<1>6. ASSUME NEW t \in Transfers, RecordOutcome(t) PROVE OutcomeIsTrue'
  <2> DEFINE r == Recorded(session[t], processor[t].outcome)
  <2>1. processor[t].stage = "record" /\ UNCHANGED <<client, net, vault>>
    BY <1>6, RecordEffect DEF UploadInv
  <2>2. PICK p \in Resting : processor' = [processor EXCEPT ![t] = p]
    BY <1>6, RecordEffect DEF UploadInv
  <2>3. p \in Processors /\ p.stage \in {"none", "run"} /\ p.outcome = None /\ None \notin Results
    BY RestingKinds, ConstantsAssumption
  <2>4. CASE session' = session
    BY <2>1, <2>2, <2>3, <2>4 DEF vault, UploadInv, Shape, ServerTyped, OutcomeIsTrue, Handled
  <2>5. CASE session' = [session EXCEPT ![t] = r]
    <3> HIDE DEF r
    <3>1. /\ session[t] # NoSession /\ session[t].status = "processing"
          /\ r \in Sessions /\ r # NoSession /\ r.commit = session[t].commit
          /\ r.expected = session[t].expected /\ r.receipts = session[t].receipts
      BY <2>1, RecordedKinds DEF r, UploadInv
    <3>2. \/ r = session[t]
          \/ /\ r.status \in {"completed", "rejected"} /\ r.result = processor[t].outcome
             /\ r.result \in Results /\ r.result # None
             /\ r.status = "completed" => r.result.status \in {"merged", "noop", "conflicted"}
      BY <2>1, RecordedKinds DEF r, UploadInv
    <3> QED BY <2>1, <2>2, <2>3, <2>5, <3>1, <3>2 DEF vault, UploadInv, Shape, ServerTyped, OutcomeIsTrue, Handled
  <2> QED BY <1>6, <2>4, <2>5, RecordEffect DEF UploadInv, r
<1>7. ASSUME NEW t \in Transfers, RecordFails(t) PROVE OutcomeIsTrue'
  <2> DEFINE r == Recorded(session[t], processor[t].outcome)
  <2>1. processor[t].stage = "record" /\ UNCHANGED <<client, net, vault>>
    BY <1>7, RecordEffect DEF UploadInv
  <2>2. PICK p \in Resting : processor' = [processor EXCEPT ![t] = p]
    BY <1>7, RecordEffect DEF UploadInv
  <2>3. p \in Processors /\ p.stage \in {"none", "run"} /\ p.outcome = None /\ None \notin Results
    BY RestingKinds, ConstantsAssumption
  <2>4. CASE session' = session
    BY <2>1, <2>2, <2>3, <2>4 DEF vault, UploadInv, Shape, ServerTyped, OutcomeIsTrue, Handled
  <2>5. CASE session' = [session EXCEPT ![t] = r]
    <3> HIDE DEF r
    <3>1. /\ session[t] # NoSession /\ session[t].status = "processing"
          /\ r \in Sessions /\ r # NoSession /\ r.commit = session[t].commit
          /\ r.expected = session[t].expected /\ r.receipts = session[t].receipts
      BY <2>1, RecordedKinds DEF r, UploadInv
    <3>2. \/ r = session[t]
          \/ /\ r.status \in {"completed", "rejected"} /\ r.result = processor[t].outcome
             /\ r.result \in Results /\ r.result # None
             /\ r.status = "completed" => r.result.status \in {"merged", "noop", "conflicted"}
      BY <2>1, RecordedKinds DEF r, UploadInv
    <3> QED BY <2>1, <2>2, <2>3, <2>5, <3>1, <3>2 DEF vault, UploadInv, Shape, ServerTyped, OutcomeIsTrue, Handled
  <2> QED BY <1>7, <2>4, <2>5, RecordEffect DEF UploadInv, r
<1>8. ASSUME ServerCrash PROVE OutcomeIsTrue'
  BY <1>8, RestingKinds DEF ServerCrash, Stopped, vault, Resting, Sleeping, OutcomeIsTrue, Handled
<1>9. ASSUME OperatorRestart PROVE OutcomeIsTrue'
  BY <1>9, RestingKinds DEF OperatorRestart, Stopped, vault, Resting, Sleeping, OutcomeIsTrue,
     Handled
<1>10. ASSUME ServerStart PROVE OutcomeIsTrue'
  BY <1>10, RestingKinds DEF ServerStart, Stopped, vault, Resting, Sleeping, OutcomeIsTrue, Handled
<1>11. ASSUME ResolveReview PROVE OutcomeIsTrue'
  <2> SUFFICES ASSUME NEW u \in Transfers, processor[u].stage = "record"
       PROVE  /\ processor[u].outcome.status \in {"merged", "noop"} => session[u].commit \in main'
              /\ processor[u].outcome.status = "conflicted" => session[u].commit \in main' \cup {review'}
    BY <1>11 DEF ResolveReview, server, OutcomeIsTrue, Handled
  <2>1. session[u].commit \in Commits
    BY SessionKinds, ConstantsAssumption DEF UploadInv, Shape, SessionsWhole, Sessions, SessionStates
  <2>2. \A c \in Commits : Handled(c) => c \in main' \cup {review'}
    BY HandledStays DEF UploadInv, Handled
  <2>3. main \subseteq main'
    BY MainGrows DEF UploadInv
  <2> QED BY <2>1, <2>2, <2>3 DEF UploadInv, OutcomeIsTrue, Handled
<1>12. ASSUME UNCHANGED <<session, processor, main, review>> PROVE OutcomeIsTrue'
  BY <1>12 DEF UploadInv, OutcomeIsTrue, Handled
<1> QED
  BY <1>1, <1>2, <1>3, <1>4, <1>5, <1>6, <1>7, <1>8, <1>9, <1>10, <1>11, <1>12
  DEF Step, ClientStep, Stopped, Fail, Replied, MovedAtMost, vars, client, server, vault,
     QueueProposal, ReplaceProposal, SyncUpload, WriteCheckpoint, Send, ReplaceQueue,
     RemoveCheckpoint, SaveResult, SettleQueue, SettleState, RetireCheckpoint, RetireJournal,
     PullResolution, Timeout, DeviceCrash, HandleSelf, Unreachable

\* What the device gives up stays taken over.
LEMMA GivenUpHandledStep ==
  ASSUME UploadInv, Step PROVE GivenUpHandled'
<1>1. ASSUME QueueProposal PROVE GivenUpHandled'
  BY <1>1, StageFields, ConstantsAssumption, CommitRange DEF QueueProposal, client, server, vault,
     UploadInv, Shape, ClientTyped, StageAgrees, FilesAgree, GivenUpHandled, Handled, Pending,
     Idle, Queues, Handoffs, Tasks
<1>2. ASSUME ReplaceProposal PROVE GivenUpHandled'
  <2>1. /\ journal' # None /\ journal'.result = None /\ task'.stage = "replace" /\ queue' = queue /\ UNCHANGED vault
        /\ queue.status # "conflicted"
    BY <1>2, HandoffEffect DEF ReplaceProposal, Idle, UploadInv, Shape, FilesAgree
  <2> QED BY <2>1 DEF GivenUpHandled
<1>3. ASSUME SyncUpload PROVE GivenUpHandled'
  BY <1>3, StageFields, ConstantsAssumption, CommitRange DEF SyncUpload, client, server, vault,
     UploadInv, Shape, ClientTyped, StageAgrees, FilesAgree, GivenUpHandled, Handled, Pending,
     Idle, Queues, Handoffs, Tasks
<1>4. ASSUME WriteCheckpoint PROVE GivenUpHandled'
  BY <1>4, StageFields, ConstantsAssumption, CommitRange DEF WriteCheckpoint, client, server,
     vault, UploadInv, Shape, ClientTyped, StageAgrees, FilesAgree, GivenUpHandled, Handled,
     Pending, Idle, Queues, Handoffs, Tasks
<1>5. ASSUME ReplaceQueue PROVE GivenUpHandled'
  <2>1. /\ journal' = journal /\ task'.stage = "idle" /\ UNCHANGED vault /\ queue'.status = "queued_local"
    BY <1>5 DEF ReplaceQueue, Idle, UploadInv, Shape, ClientTyped, Queues
  <2> QED BY <2>1 DEF UploadInv, GivenUpHandled, Handled, vault
<1>6. ASSUME RemoveCheckpoint PROVE GivenUpHandled'
  BY <1>6, StageFields, ConstantsAssumption, CommitRange DEF RemoveCheckpoint, client, server,
     vault, UploadInv, Shape, ClientTyped, StageAgrees, FilesAgree, GivenUpHandled, Handled,
     Pending, Idle, Queues, Handoffs, Tasks
<1>7. ASSUME SaveResult PROVE GivenUpHandled'
  <2>1. /\ journal # None /\ task.recovering /\ journal \in Handoffs
    BY <1>7, ConstantsAssumption DEF SaveResult, UploadInv, Shape, ClientTyped, StageAgrees
  <2>r. task.result \in Results \cup {None}
    BY DEF UploadInv, Shape, ClientTyped, Tasks
  <2>j. journal' \in Handoffs /\ journal'.old = journal.old /\ UNCHANGED <<vault, queue>>
    BY <1>7, <2>1, <2>r DEF SaveResult, Handoffs
  <2>2. journal' # None /\ journal'.old = journal.old /\ UNCHANGED <<vault, queue>>
    BY <2>j, ConstantsAssumption
  <2>3. Handled(journal.old)
    BY <1>7, <2>1 DEF SaveResult, UploadInv, GivenUpHandled, Pending
  <2> QED BY <2>2, <2>3 DEF vault, UploadInv, GivenUpHandled, Pending, Handled
<1>8. ASSUME SettleQueue PROVE GivenUpHandled'
  <2>1. /\ task'.stage = "settle_state" /\ UNCHANGED <<vault, journal>>
    BY <1>8, StageFields DEF SettleQueue, UploadInv
  <2>2. Handled(Pending)
    BY <1>8 DEF SettleQueue, UploadInv, GivenUpHandled
  <2>3. queue'.status = "conflicted" => queue'.commit = NoCommit \/ Handled(queue'.commit)
    <3>1. CASE task.recovering
      BY <1>8, <3>1 DEF SettleQueue, Settled
    <3>2. CASE ~task.recovering
      <4>1. journal = None
        BY <1>8, <3>2 DEF SettleQueue, UploadInv, Shape, StageAgrees
      <4> QED BY <1>8, <2>2, <3>2, <4>1 DEF SettleQueue, Settled, Pending
    <3> QED BY <3>1, <3>2
  <2> QED BY <2>1, <2>3 DEF vault, UploadInv, GivenUpHandled, Handled
<1>9. ASSUME SettleState PROVE GivenUpHandled'
  BY <1>9, StageFields, ConstantsAssumption, CommitRange DEF SettleState, client, server, vault,
     UploadInv, Shape, ClientTyped, StageAgrees, FilesAgree, GivenUpHandled, Handled, Pending,
     Idle, Queues, Handoffs, Tasks
<1>10. ASSUME RetireCheckpoint PROVE GivenUpHandled'
  BY <1>10, StageFields, ConstantsAssumption, CommitRange DEF RetireCheckpoint, client, server,
     vault, UploadInv, Shape, ClientTyped, StageAgrees, FilesAgree, GivenUpHandled, Handled,
     Pending, Idle, Queues, Handoffs, Tasks
<1>11. ASSUME RetireJournal PROVE GivenUpHandled'
  BY <1>11, StageFields, ConstantsAssumption, CommitRange DEF RetireJournal, client, server, vault,
     UploadInv, Shape, ClientTyped, StageAgrees, FilesAgree, GivenUpHandled, Handled, Pending,
     Idle, Queues, Handoffs, Tasks
<1>12. ASSUME PullResolution PROVE GivenUpHandled'
  BY <1>12, StageFields, ConstantsAssumption, CommitRange DEF PullResolution, client, server,
     vault, UploadInv, Shape, ClientTyped, StageAgrees, FilesAgree, GivenUpHandled, Handled,
     Pending, Idle, Queues, Handoffs, Tasks
<1>13. ASSUME Timeout PROVE GivenUpHandled'
  <2>1. UNCHANGED <<vault, journal>> /\ task'.stage = "idle"
    BY <1>13 DEF Timeout, Fail, Idle
  <2>2. queue'.commit = queue.commit /\ queue'.status \in {queue.status, "queued_local"}
    BY <1>13 DEF Timeout, Fail, UploadInv, Shape, ClientTyped, Queues
  <2> QED BY <2>1, <2>2 DEF vault, UploadInv, GivenUpHandled, Handled
<1>14. ASSUME DeviceCrash PROVE GivenUpHandled'
  BY <1>14, StageFields, ConstantsAssumption, CommitRange DEF DeviceCrash, Fault, Abandoned,
     Awaiting, client, server, vault, UploadInv, Shape, ClientTyped, StageAgrees, FilesAgree,
     GivenUpHandled, Handled, Pending, Idle, Queues, Handoffs, Tasks
<1>15. ASSUME NEW m \in net, HandleSelf(m) PROVE GivenUpHandled'
  <2>1. /\ queue'.commit = queue.commit /\ queue'.status = queue.status /\ UNCHANGED <<vault, journal>>
    BY <1>15 DEF HandleSelf, UploadInv, Shape, ClientTyped, Queues
  <2>2. task' = task \/ task'.stage = "plan"
    BY <1>15, StageFields DEF HandleSelf, UploadInv
  <2> QED BY <2>1, <2>2 DEF vault, UploadInv, GivenUpHandled, Handled, Pending
<1>16. ASSUME NEW m \in net, Answered(m) PROVE GivenUpHandled'
  <2>1. CASE ~m.live
    BY <1>16, <2>1 DEF Answered, client, vault, UploadInv, GivenUpHandled, Handled, Pending
  <2>2. CASE m.live
    <3>1. Replied /\ UNCHANGED <<vault, journal>>
      BY <1>16, <2>2 DEF Answered, Replied
    <3>2. /\ queue'.commit = queue.commit /\ queue'.status \in {queue.status, "queued_local"}
      BY <3>1 DEF Replied, UploadInv, Shape, ClientTyped, Queues
    <3>3. task'.stage \in {"save_result", "remove_checkpoint", "settle_queue"} => Handled(Pending)
      <4>1. CASE task' = Idle
        BY <4>1 DEF Idle
      <4>2. CASE \E s \in {"create", "poll", "finalize", "chunk"}, M \in SUBSET Chunks :
                   task' = [task EXCEPT !.stage = s, !.result = None, !.missing = M]
        BY <4>2 DEF UploadInv, Shape, ClientTyped, Tasks
      <4>3. CASE \E t \in Transfers :
                   session[t] # NoSession /\ session[t].status = "completed" /\ session[t].commit = checkpoint.commit
        <5>1. PICK t \in Transfers : session[t].status = "completed" /\ session[t].commit = checkpoint.commit
          BY <4>3
        <5>2. Handled(checkpoint.commit)
          BY <5>1 DEF UploadInv, CompletedIsTrue, Handled
        <5>3. checkpoint # None
          BY <3>1 DEF Replied, UploadInv, Shape, OneAwaited, Asking
        <5>4. checkpoint.commit = Pending
          BY <5>3 DEF UploadInv, Shape, FilesAgree, Pending
        <5> QED BY <5>2, <5>4
      <4> QED BY <3>1, <4>1, <4>2, <4>3 DEF Replied
    <3> QED BY <3>1, <3>2, <3>3 DEF vault, UploadInv, GivenUpHandled, Handled, Pending
  <2> QED BY <2>1, <2>2
<1>17. ASSUME NEW t \in Transfers, Process(t) PROVE GivenUpHandled'
  <2>1. UNCHANGED client
    BY <1>17 DEF Process
  <2>2. \A c \in Commits : Handled(c) => c \in main' \cup {review'}
    BY HandledStays DEF UploadInv, Handled
  <2>3. task.stage \in {"save_result", "remove_checkpoint", "settle_queue"} => Pending \in Commits
    BY ConstantsAssumption DEF UploadInv, Shape, ClientTyped, StageAgrees, Pending, Handoffs, Queues, Commits, NoCommit
  <2>4. journal # None => journal.old \in Commits
    BY DEF UploadInv, Shape, ClientTyped, Handoffs
  <2>5. queue.commit = NoCommit \/ queue.commit \in Commits
    BY ConstantsAssumption DEF UploadInv, Shape, ClientTyped, Queues, Commits, NoCommit
  <2>6. Pending' = Pending /\ UNCHANGED <<task, journal, queue>>
    BY <2>1 DEF client, Pending
  <2> QED BY <2>2, <2>3, <2>4, <2>5, <2>6 DEF UploadInv, GivenUpHandled, Handled
<1>18. ASSUME ServerCrash PROVE GivenUpHandled'
  <2>1. UNCHANGED <<vault, journal>> /\ (task'.stage = "idle" \/ task' = task)
    BY <1>18 DEF ServerCrash, Stopped, Fail, Idle
  <2>2. /\ queue'.commit = queue.commit /\ queue'.status \in {queue.status, "queued_local"}
    BY <1>18 DEF ServerCrash, Stopped, Fail, UploadInv, Shape, ClientTyped, Queues
  <2> QED BY <2>1, <2>2 DEF vault, UploadInv, GivenUpHandled, Handled, Pending
<1>19. ASSUME OperatorRestart PROVE GivenUpHandled'
  <2>1. UNCHANGED <<vault, journal>> /\ (task'.stage = "idle" \/ task' = task)
    BY <1>19 DEF OperatorRestart, Stopped, Fail, Idle
  <2>2. /\ queue'.commit = queue.commit /\ queue'.status \in {queue.status, "queued_local"}
    BY <1>19 DEF OperatorRestart, Stopped, Fail, UploadInv, Shape, ClientTyped, Queues
  <2> QED BY <2>1, <2>2 DEF vault, UploadInv, GivenUpHandled, Handled, Pending
<1>20. ASSUME Unreachable PROVE GivenUpHandled'
  <2>1. UNCHANGED <<vault, journal>> /\ task'.stage = "idle"
    BY <1>20 DEF Unreachable, Fail, Idle
  <2>2. queue'.commit = queue.commit /\ queue'.status \in {queue.status, "queued_local"}
    BY <1>20 DEF Unreachable, Fail, UploadInv, Shape, ClientTyped, Queues
  <2> QED BY <2>1, <2>2 DEF vault, UploadInv, GivenUpHandled, Handled
<1>21. ASSUME ResolveReview PROVE GivenUpHandled'
  <2>1. UNCHANGED client
    BY <1>21 DEF ResolveReview
  <2>2. \A c \in Commits : Handled(c) => c \in main' \cup {review'}
    BY HandledStays DEF UploadInv, Handled
  <2>3. task.stage \in {"save_result", "remove_checkpoint", "settle_queue"} => Pending \in Commits
    BY ConstantsAssumption DEF UploadInv, Shape, ClientTyped, StageAgrees, Pending, Handoffs, Queues, Commits, NoCommit
  <2>4. journal # None => journal.old \in Commits
    BY DEF UploadInv, Shape, ClientTyped, Handoffs
  <2>5. queue.commit = NoCommit \/ queue.commit \in Commits
    BY ConstantsAssumption DEF UploadInv, Shape, ClientTyped, Queues, Commits, NoCommit
  <2>6. Pending' = Pending /\ UNCHANGED <<task, journal, queue>>
    BY <2>1 DEF client, Pending
  <2> QED BY <2>2, <2>3, <2>4, <2>5, <2>6 DEF UploadInv, GivenUpHandled, Handled
<1>22. ASSUME UNCHANGED <<task, journal, queue, main, review>> PROVE GivenUpHandled'
  BY <1>22 DEF UploadInv, Shape, ClientTyped, StageAgrees, FilesAgree, GivenUpHandled, Handled,
     Pending, Idle, Queues, Handoffs, Tasks
<1> QED
  BY <1>1, <1>2, <1>3, <1>4, <1>5, <1>6, <1>7, <1>8, <1>9, <1>10, <1>11, <1>12, <1>13, <1>14,
     <1>15, <1>16, <1>17, <1>18, <1>19, <1>20, <1>21, <1>22
  DEF Step, ClientStep, Stopped, Fail, Replied, MovedAtMost, vars, client, server, vault, Send,
     Expire, ProcessFails, ProcessUnsynced, RecordOutcome, RecordFails, ServerStart

\* No proposal leaves the device before the server has taken it over.
LEMMA NothingDroppedStep ==
  ASSUME UploadInv, NothingDropped, Step PROVE NothingDropped'
<1>1. ASSUME QueueProposal PROVE NothingDropped'
  <2>1. made' = made + 1 /\ queue'.commit = made + 1 /\ queue.commit = NoCommit /\ UNCHANGED <<journal, vault>>
    BY <1>1 DEF QueueProposal
  <2>2. ASSUME NEW c \in 1..made' PROVE c \in 1..made \/ c = made + 1
    BY <2>1, ConstantsAssumption DEF UploadInv, Shape, ClientTyped
  <2>3. \A c \in 1..made : c # NoCommit
    BY DEF NoCommit
  <2> QED BY <2>1, <2>2, <2>3 DEF NothingDropped, vault
<1>2. ASSUME ReplaceProposal PROVE NothingDropped'
  <2>1. /\ journal' # None /\ journal'.old = queue.commit /\ journal = None /\ UNCHANGED <<queue, vault>>
    BY <1>2, HandoffEffect DEF ReplaceProposal, UploadInv, Shape, FilesAgree
  <2>2. made' = made \/ (made' = made + 1 /\ journal'.successor = made + 1)
    BY <1>2, HandoffEffect DEF ReplaceProposal, PublishHandoff, UploadInv
  <2>3. ASSUME NEW c \in 1..made' PROVE c \in 1..made \/ c = journal'.successor
    BY <2>2, ConstantsAssumption DEF UploadInv, Shape, ClientTyped
  <2> QED BY <2>1, <2>3 DEF NothingDropped, vault
<1>3. ASSUME WriteCheckpoint PROVE NothingDropped'
  <2>1. queue'.commit = queue.commit /\ UNCHANGED <<journal, made, vault>>
    BY <1>3 DEF WriteCheckpoint, UploadInv, Shape, ClientTyped, Queues
  <2> QED BY <2>1 DEF NothingDropped, vault
<1>4. ASSUME ReplaceQueue PROVE NothingDropped'
  <2>1. /\ journal # None /\ queue.commit = journal.old /\ UNCHANGED <<journal, made, vault>>
        /\ queue'.commit = journal.successor
    BY <1>4 DEF ReplaceQueue, UploadInv, Shape, ClientTyped, StageAgrees, Queues
  <2> QED BY <2>1 DEF NothingDropped, vault
<1>5. ASSUME SaveResult PROVE NothingDropped'
  <2>1. journal # None /\ journal \in Handoffs
    BY <1>5, ConstantsAssumption DEF SaveResult, UploadInv, Shape, ClientTyped, StageAgrees
  <2>r. task.result \in Results \cup {None}
    BY DEF UploadInv, Shape, ClientTyped, Tasks
  <2>j. /\ journal' \in Handoffs /\ journal'.old = journal.old /\ journal'.successor = journal.successor
        /\ UNCHANGED <<vault, queue, made>>
    BY <1>5, <2>1, <2>r DEF SaveResult, Handoffs
  <2>2. /\ journal' # None /\ journal'.old = journal.old /\ journal'.successor = journal.successor
        /\ UNCHANGED <<vault, queue, made>>
    BY <2>j, ConstantsAssumption
  <2> QED BY <2>1, <2>2 DEF vault, NothingDropped
<1>6. ASSUME SettleQueue PROVE NothingDropped'
  <2>1. Handled(Pending) /\ UNCHANGED <<journal, made, vault>>
    BY <1>6 DEF SettleQueue, UploadInv, GivenUpHandled
  <2>2. queue'.commit = Settled(task.result).commit
    BY <1>6 DEF SettleQueue
  <2>3. CASE task.recovering
    <3>1. journal # None /\ queue.commit \in {journal.old, journal.successor}
      BY <2>3 DEF UploadInv, Shape, StageAgrees, FilesAgree
    <3> QED BY <2>1, <3>1 DEF NothingDropped, vault
  <2>4. CASE ~task.recovering
    <3>1. journal = None
      BY <1>6, <2>4 DEF SettleQueue, UploadInv, Shape, StageAgrees
    <3>2. Handled(queue.commit)
      BY <2>1, <3>1 DEF Pending
    <3> QED BY <2>1, <3>1, <3>2 DEF NothingDropped, Handled, vault
  <2> QED BY <2>3, <2>4
<1>7. ASSUME RetireJournal PROVE NothingDropped'
  <2>1. journal # None /\ journal.result # None /\ queue.commit = journal.successor
    BY <1>7 DEF RetireJournal, UploadInv, Shape, StageAgrees
  <2>2. Handled(journal.old)
    BY <2>1 DEF UploadInv, GivenUpHandled
  <2> QED BY <1>7, <2>1, <2>2 DEF RetireJournal, vault, NothingDropped, Handled
<1>8. ASSUME PullResolution PROVE NothingDropped'
  <2>1. UNCHANGED <<journal, made, vault>>
    BY <1>8 DEF PullResolution
  <2>2. CASE queue.status # "conflicted"
    BY <1>8, <2>1, <2>2 DEF PullResolution, NothingDropped, vault
  <2>3. CASE queue.status = "conflicted"
    <3>1. queue.commit = NoCommit \/ Handled(queue.commit)
      BY <2>3 DEF UploadInv, GivenUpHandled
    <3>2. \A c \in 1..made : c # NoCommit
      BY DEF NoCommit
    <3> QED BY <2>1, <3>1, <3>2 DEF NothingDropped, Handled, vault
  <2> QED BY <2>2, <2>3
<1>9. ASSUME Timeout PROVE NothingDropped'
  <2>1. queue'.commit = queue.commit /\ UNCHANGED <<journal, made, vault>>
    BY <1>9 DEF Timeout, Stopped, Fail, Replied, UploadInv, Shape, ClientTyped, Queues, client
  <2> QED BY <2>1 DEF NothingDropped, vault
<1>10. ASSUME NEW m \in net, HandleSelf(m) PROVE NothingDropped'
  <2>1. queue'.commit = queue.commit /\ UNCHANGED <<journal, made, vault>>
    BY <1>10 DEF HandleSelf, UploadInv, Shape, ClientTyped, Queues
  <2> QED BY <2>1 DEF NothingDropped, vault
<1>11. ASSUME NEW m \in net, Answered(m) PROVE NothingDropped'
  <2>1. queue'.commit = queue.commit /\ UNCHANGED <<journal, made, vault>>
    <3>1. CASE ~m.live
      BY <1>11, <3>1 DEF Answered, client
    <3>2. CASE m.live
      BY <1>11, <3>2 DEF Answered, Replied, UploadInv, Shape, ClientTyped, Queues
    <3> QED BY <3>1, <3>2
  <2> QED BY <2>1 DEF NothingDropped, vault
<1>12. ASSUME NEW t \in Transfers, Process(t) PROVE NothingDropped'
  <2>1. UNCHANGED <<made, queue, journal>>
    BY <1>12 DEF Process, client
  <2>2. \A c \in Commits : Handled(c) => c \in main' \cup {review'}
    BY HandledStays DEF UploadInv, Handled
  <2>3. 1..made \subseteq Commits
    BY ConstantsAssumption DEF UploadInv, Shape, ClientTyped, Commits
  <2> QED BY <2>1, <2>2, <2>3 DEF NothingDropped, Handled
<1>13. ASSUME ServerCrash PROVE NothingDropped'
  <2>1. queue'.commit = queue.commit /\ UNCHANGED <<journal, made, vault>>
    BY <1>13 DEF ServerCrash, Stopped, Fail, Replied, UploadInv, Shape, ClientTyped, Queues, client
  <2> QED BY <2>1 DEF NothingDropped, vault
<1>14. ASSUME OperatorRestart PROVE NothingDropped'
  <2>1. queue'.commit = queue.commit /\ UNCHANGED <<journal, made, vault>>
    BY <1>14 DEF OperatorRestart, Stopped, Fail, Replied, UploadInv, Shape, ClientTyped, Queues, client
  <2> QED BY <2>1 DEF NothingDropped, vault
<1>15. ASSUME Unreachable PROVE NothingDropped'
  <2>1. queue'.commit = queue.commit /\ UNCHANGED <<journal, made, vault>>
    BY <1>15 DEF Unreachable, Stopped, Fail, Replied, UploadInv, Shape, ClientTyped, Queues, client
  <2> QED BY <2>1 DEF NothingDropped, vault
<1>16. ASSUME ResolveReview PROVE NothingDropped'
  <2>1. UNCHANGED <<made, queue, journal>>
    BY <1>16 DEF ResolveReview, client
  <2>2. \A c \in Commits : Handled(c) => c \in main' \cup {review'}
    BY HandledStays DEF UploadInv, Handled
  <2>3. 1..made \subseteq Commits
    BY ConstantsAssumption DEF UploadInv, Shape, ClientTyped, Commits
  <2> QED BY <2>1, <2>2, <2>3 DEF NothingDropped, Handled
<1>17. ASSUME UNCHANGED <<made, main, review, queue, journal>> PROVE NothingDropped'
  BY <1>17 DEF UploadInv, Shape, ClientTyped, StageAgrees, FilesAgree, NothingDropped, Handled,
     Pending, Queues, Handoffs
<1> QED
  BY <1>1, <1>2, <1>3, <1>4, <1>5, <1>6, <1>7, <1>8, <1>9, <1>10, <1>11, <1>12, <1>13, <1>14,
     <1>15, <1>16, <1>17
  DEF Step, ClientStep, Stopped, Fail, Replied, MovedAtMost, vars, client, server, vault,
     SyncUpload, Send, RemoveCheckpoint, SettleState, RetireCheckpoint, DeviceCrash, Expire,
     ProcessFails, ProcessUnsynced, RecordOutcome, RecordFails, ServerStart

-----------------------------------------------------------------------------
(* The theorems *)

LEMMA InitHolds == Init => UploadInv /\ NothingDropped
<1> SUFFICES ASSUME Init PROVE UploadInv /\ NothingDropped
  OBVIOUS
<1> USE ConstantsAssumption
<1>1. /\ 0 \in 0..MaxCommits /\ 1..0 = {} /\ NoCommit = 0
      /\ Idle.stage = "idle" /\ Idle.result = None /\ ~Idle.recovering
  BY DEF NoCommit, Idle
<1>2. Idle \in Tasks /\ Sleeping \in Processors /\ Sleeping.stage = "none" /\ Sleeping.outcome = None
  BY DEF Idle, Tasks, Stages, Sleeping, Processors
<1>3. ClientTyped
  BY <1>1, <1>2 DEF Init, ClientTyped, Commits, Queues
<1>4. ServerTyped /\ VaultTyped
  BY <1>1, <1>2 DEF Init, ServerTyped, VaultTyped
<1>5. None \notin Results /\ NoSession.status = None /\ None \notin SessionStates
  BY DEF NoSession
<1>6. Numbered
  BY <1>1, <1>2, <1>5 DEF Init, Numbered, ClientNumbered, NetNumbered, SessionsNumbered, VaultNumbered
<1>7. SessionsWhole
  BY <1>2, <1>5 DEF Init, SessionsWhole
<1>8. OneAwaited
  BY <1>1 DEF Init, OneAwaited, Asking, Fetching
<1>9. StageAgrees /\ FilesAgree
  BY <1>1 DEF Init, StageAgrees, FilesAgree, Asking, Fetching
<1>10. OwnSession /\ OnlyPending /\ ReviewIsLast
  BY DEF Init, OwnSession, OnlyPending, ReviewIsLast
<1>11. OutcomeIsTrue
  BY <1>2 DEF Init, OutcomeIsTrue
<1>12. CompletedIsTrue
  BY <1>5 DEF Init, CompletedIsTrue, SessionStates
<1>13. GivenUpHandled
  BY <1>1 DEF Init, GivenUpHandled
<1>14. NothingDropped
  BY <1>1 DEF Init, NothingDropped
<1> QED BY <1>3, <1>4, <1>6, <1>7, <1>8, <1>9, <1>10, <1>11, <1>12, <1>13, <1>14 DEF UploadInv, Shape

\* The inductive step.
LEMMA UploadInvStep == ASSUME UploadInv, [Next]_vars PROVE UploadInv' /\ Step
<1>1. Shape /\ OwnSession
  BY DEF UploadInv
<1>2. Step
  BY <1>1, Steps
<1>3. ClientTyped' /\ ServerTyped' /\ VaultTyped'
  BY <1>1, <1>2, ClientTypedStep, ServerTypedStep, VaultTypedStep
<1>4. Numbered'
  BY <1>1, <1>2, ClientNumberedStep, NetNumberedStep, SessionsNumberedStep, VaultNumberedStep DEF Numbered
<1>5. SessionsWhole' /\ OneAwaited' /\ StageAgrees' /\ FilesAgree'
  BY <1>1, <1>2, SessionsWholeStep, OneAwaitedStep, StageAgreesStep, FilesAgreeStep
<1>6. OwnSession'
  BY <1>1, <1>2, OwnSessionStep
<1>7. OnlyPending' /\ ReviewIsLast' /\ OutcomeIsTrue' /\ CompletedIsTrue' /\ GivenUpHandled'
  BY <1>2, OnlyPendingStep, ReviewIsLastStep, OutcomeIsTrueStep, CompletedIsTrueStep, GivenUpHandledStep
<1> QED BY <1>2, <1>3, <1>4, <1>5, <1>6, <1>7 DEF UploadInv, Shape

LEMMA UploadInvHolds == Spec => []UploadInv
<1>1. Init => UploadInv
  BY InitHolds
<1>2. UploadInv /\ [Next]_vars => UploadInv'
  BY UploadInvStep
<1> QED BY <1>1, <1>2, PTL DEF Spec

LEMMA ShapeTypes == Shape => TypeOK
<1> SUFFICES ASSUME Shape PROVE TypeOK
  OBVIOUS
<1> USE ConstantsAssumption
<1>1. made \in 0..MaxCommits /\ made \in Nat /\ parent \in [Commits -> 0..MaxCommits]
  BY DEF Shape, ClientTyped
<1>2. \A n \in 0..MaxCommits : n <= made => n \in 0..made
  BY <1>1
<1>3. \A n \in Commits : n <= made => n \in 1..made
  BY <1>1 DEF Commits
<1>4. queue \in [commit : 0..made, expected : 0..made, status : {"idle", "queued_local", "uploading", "conflicted"}]
  BY <1>2 DEF Shape, ClientTyped, Queues, Numbered, ClientNumbered
<1>5. checkpoint # None => checkpoint \in [commit : 1..made, expected : 0..made, transfer : Transfers \cup {None}]
  BY <1>2, <1>3 DEF Shape, ClientTyped, Checkpoints, Numbered, ClientNumbered
<1>6. journal # None => journal \in [old : 1..made, expected : 0..made, transfer : Transfers \cup {None},
                                     successor : 0..made, result : Results \cup {None}]
  BY <1>2, <1>3 DEF Shape, ClientTyped, Handoffs, Numbered, ClientNumbered
<1>7. error \in {None, "review", "blocked"}
  BY DEF Shape, ClientTyped
<1>8. ASSUME NEW t \in Transfers, session[t] # NoSession
      PROVE  /\ session[t].status \in {"open", "processing", "completed", "rejected"}
             /\ session[t].receipts \subseteq Chunks
             /\ session[t].status \in {"processing", "completed", "rejected"} => session[t].receipts = Chunks
             /\ session[t].status \in {"completed", "rejected"} <=> session[t].result \in Results
  <2>1. session[t] \in Sessions
    BY <1>8, SessionKinds
  <2> QED BY <1>8, <2>1 DEF Sessions, SessionStates, Shape, SessionsWhole
<1>9. {deviceRef, review} \subseteq 0..made /\ main \subseteq 1..made
  BY <1>2, <1>3 DEF Shape, VaultTyped, Numbered, VaultNumbered
<1> QED BY <1>1, <1>4, <1>5, <1>6, <1>7, <1>8, <1>9 DEF TypeOK

\* Type correctness: the queue, the checkpoint, the handoff journal, the transfer
\* sessions and the refs always have their types, and none names a commit the device has
\* not made.
THEOREM TypeCorrect == Spec => []TypeOK
<1>1. UploadInv => TypeOK
  BY ShapeTypes DEF UploadInv
<1> QED BY <1>1, UploadInvHolds, PTL

\* A transfer that getPush reports as completed is true of the vault, however often its
\* processing was interrupted and repeated.
THEOREM CompletedTellsTheTruth == Spec => []CompletedIsTrue
<1>1. UploadInv => CompletedIsTrue
  BY DEF UploadInv
<1> QED BY <1>1, UploadInvHolds, PTL

\* uploadQueuedCommit and reconcileUploadCheckpointHandoff never lose a proposal: it stays
\* in the queue or the journal until the server has merged it or holds it for review.
THEOREM NoProposalLost == Spec => []NothingDropped
<1>1. Init => NothingDropped
  BY InitHolds
<1>2. UploadInv /\ NothingDropped /\ [Next]_vars => NothingDropped'
  BY UploadInvStep, NothingDroppedStep
<1> QED BY <1>1, <1>2, UploadInvHolds, PTL DEF Spec


=============================================================================
