-------------------------- MODULE BridgeProjection --------------------------
(***************************************************************************)
(* The read projection of the Bridge (crates/obts-bridge/src): PostgreSQL  *)
(* rows derived from the visible files of its headless client, served to   *)
(* readers without waiting for synchronisation.  The actors are the        *)
(* maintenance tick of the headless client, which commits local edits and  *)
(* writes remote ones; an API reader; an API writer; the detached SQL task *)
(* that outlives a cancelled writer; the projection worker; and the        *)
(* embedding worker.  A file's revision is a hash of its bytes, so it is   *)
(* identified with the content.                                            *)
(***************************************************************************)
EXTENDS Naturals

CONSTANTS
  Paths,       \* the notes of the vault
  Contents,    \* what a note may say
  Absent,      \* no file, no row
  None,        \* no value
  Old,         \* what every note of the vault says at first
  Fresh,       \* notes that do not exist at first
  MaxEdits,    \* bound: changes of visible files
  MaxModels,   \* bound: embedding models configured over time
  MaxFaults    \* bound: crashes, cancellations, failed statements, overtakings

ASSUME ConstantsAssumption ==
  /\ Old \in Contents /\ Absent \notin Contents /\ None \notin Contents
  /\ Absent # None /\ Fresh \subseteq Paths
  /\ None \notin {"tick", "writer", "worker"} \cup [of : Contents, by : Nat]
  /\ {MaxEdits, MaxFaults} \subseteq Nat /\ MaxModels \in Nat \ {0}

VARIABLES
  file,      \* the visible files
  tree, head, line,   \* the client's local_head: its files, its id, its ancestors
  row,       \* vault_files, notes, and the tags, links and blocks of each note
  cursor,    \* the durable indexed_commit, or 0
  model,     \* embedding_schema: its epoch
  up,        \* the Bridge process is running
  wm,        \* FilesystemWatermark
  mutex,     \* holder of the headless process mutex
  plock,     \* holders of the projection lock
  sql,       \* the task holding read_refresh_lock
  tick, reader, writer, worker, embed,   \* where each actor is
  acked,     \* local writes acknowledged as applied to a ready view, until the file changes
  edits, faults

git == <<tree, head, line>>

database == <<row, cursor, model>>

locks == <<mutex, plock>>

bounds == <<edits, faults>>

vars == <<file, git, database, up, wm, locks, sql, tick, reader, writer, worker,
          embed, acked, bounds>>

Values == Contents \cup {Absent}

-----------------------------------------------------------------------------
(* Records *)

NoRow == [file |-> Absent, note |-> Absent, parts |-> Absent, complete |-> FALSE, vector |-> None]

NoMark ==
  [ready |-> FALSE, fresh |-> FALSE, indexed |-> 0, files |-> [p \in Paths |-> Absent],
   pending |-> [p \in Paths |-> None], unpublished |-> {}]

NoTask == [at |-> "idle", path |-> None, rev |-> None, by |-> None, ok |-> FALSE]

NoTick == [at |-> "idle", applied |-> FALSE]

NoRead == [at |-> "idle", path |-> None, note |-> None, parts |-> None]

NoWrite == [at |-> "idle", path |-> None, new |-> None]

NoWork == [at |-> "idle", full |-> FALSE, todo |-> {}, path |-> None]

NoToken == [at |-> "idle", path |-> None, rev |-> None, model |-> 0]

Fault == faults < MaxFaults /\ faults' = faults + 1

-----------------------------------------------------------------------------
(* The watermark.  Generations are only compared with the one the last       *)
(* projection began with: `fresh' says that none has begun since.            *)

\* mark_sync_pending
SyncPending(w) == [w EXCEPT !.fresh = FALSE]

\* mark_dirty
Dirty(w) == [w EXCEPT !.fresh = FALSE, !.ready = FALSE]

\* Mutant: the written path stays published while its rows are rewritten.
WrittenPublished(w, p, c) == [w EXCEPT !.fresh = FALSE, !.pending[p] = c]

\* The dirty marker of commit_visible_write.
Unpublished(w, p, c) ==
  [w EXCEPT !.fresh = FALSE, !.unpublished = @ \cup {p}, !.pending[p] = c]

\* is_read_available, is_index_current
ReadAvailable == wm.ready /\ wm.unpublished = {}

IndexCurrent == ReadAvailable /\ wm.fresh

\* What read_attested compares a body with, and the comparison.
Expected(p) == IF wm.pending[p] # None THEN wm.pending[p] ELSE wm.files[p]

Attested(p, rev) == file[p] = rev /\ Expected(p) = rev

\* sql_revisions: the revision of a completely projected file; None for a row that
\* is not complete.
SqlRevision(p) ==
  IF row[p].file = Absent THEN Absent
  ELSE IF row[p].complete /\ row[p].note = row[p].file THEN row[p].file ELSE None

\* What the caller was told stays promised while the view is ready.
Forget == acked' = [p \in Paths |-> None]

-----------------------------------------------------------------------------
Init ==
  /\ file = [p \in Paths |-> IF p \in Fresh THEN Absent ELSE Old]
  /\ tree = file /\ head = 1 /\ line = {1}
  /\ row = [p \in Paths |-> NoRow]
  /\ cursor = 0 /\ model = 1 /\ up = TRUE
  /\ wm = NoMark
  /\ mutex = None /\ plock = {}
  /\ sql = NoTask /\ tick = NoTick /\ reader = NoRead /\ writer = NoWrite
  /\ worker = NoWork /\ embed = NoToken
  /\ acked = [p \in Paths |-> None]
  /\ edits = 0 /\ faults = 0

-----------------------------------------------------------------------------
(* The headless client (module DeviceSync): a maintenance tick runs under the *)
(* process mutex, commits what the files show, and may write remote edits.    *)

Ticking == tick.at = "run" \/ (up /\ tick.at = "idle" /\ mutex = None)

TickWrite(p, c) ==
  /\ Ticking /\ edits < MaxEdits /\ c # file[p]
  /\ file' = [file EXCEPT ![p] = c]
  /\ edits' = edits + 1
  /\ tick' = [at |-> "run", applied |-> TRUE] /\ mutex' = "tick"
  /\ acked' = [acked EXCEPT ![p] = None]
  /\ UNCHANGED <<git, database, up, wm, plock, sql, reader, writer, worker, embed, faults>>

\* The local head follows the files; a rebuilt proposal leaves the old line.
TickEnd ==
  /\ Ticking
  /\ tree' = file
  /\ IF file = tree THEN UNCHANGED <<head, line>>
     ELSE head' = head + 1 /\ line' \in {line \cup {head'}, {1, head'}}
  /\ mutex' = None
  /\ tick' = [tick EXCEPT !.at = "report"]
  /\ UNCHANGED <<file, database, up, wm, plock, sql, reader, writer, worker, embed, acked, bounds>>

\* The child dies; its replacement recovers at its next tick.
TickFail ==
  /\ tick.at = "run" /\ Fault
  /\ tick' = NoTick /\ mutex' = None
  /\ UNCHANGED <<file, git, database, up, wm, plock, sql, reader, writer, worker, embed, acked, edits>>

\* Mutant: only a tick that wrote files counts.
ReportsApplied == tick.applied

\* The tick says that it wrote files, or reports a head that is not the projected one.
ReportsChange == tick.applied \/ head # wm.indexed

\* spawn_maintenance looks at the answer after the mutex is released.
TickReport ==
  /\ tick.at = "report"
  /\ wm' = IF ReportsChange THEN SyncPending(wm) ELSE wm
  /\ tick' = NoTick
  /\ UNCHANGED <<file, git, database, up, locks, sql, reader, writer, worker, embed, acked, bounds>>

-----------------------------------------------------------------------------
(* API reads hold the projection lock only, beside a running tick.            *)

\* sql_read_guard
ReadAdmit(p) ==
  /\ up /\ reader.at = "idle" /\ plock = {} /\ ReadAvailable
  /\ reader' = [NoRead EXCEPT !.at = "row", !.path = p]
  /\ plock' = {"reader"}
  /\ UNCHANGED <<file, git, database, up, wm, mutex, sql, tick, writer, worker, embed, acked, bounds>>

\* sql_metadata and sql_adjacent: the note and its tags and links.
ReadRow ==
  /\ reader.at = "row"
  /\ LET r == row[reader.path] IN
       IF r.note = Absent THEN reader' = NoRead /\ plock' = {}
       ELSE /\ reader' = [reader EXCEPT !.at = "body", !.note = r.note, !.parts = r.parts]
            /\ UNCHANGED plock
  /\ UNCHANGED <<file, git, database, up, wm, mutex, sql, tick, writer, worker, embed, acked, bounds>>

\* sql_body: an attested body is answered with what was read before it.
ReadBody ==
  /\ reader.at = "body"
  /\ wm' = IF Attested(reader.path, reader.note) THEN wm ELSE SyncPending(wm)
  /\ reader' = NoRead /\ plock' = {}
  /\ UNCHANGED <<file, git, database, up, mutex, sql, tick, writer, worker, embed, acked, bounds>>

\* The file cannot be read at all.
ReadFails ==
  /\ reader.at = "body" /\ Fault
  /\ reader' = NoRead /\ wm' = Dirty(wm) /\ Forget /\ plock' = {}
  /\ UNCHANGED <<file, git, database, up, mutex, sql, tick, writer, worker, embed, edits>>

-----------------------------------------------------------------------------
(* API writes take the process mutex and the projection lock, in this order,  *)
(* and keep both until they answer.                                           *)

WriteLocks == up /\ writer.at = "idle" /\ mutex = None /\ plock = {}

\* create_note needs a free path; sql_update a caller that knows the revision (base),
\* and, when the note has a row, the row to be of the attested source.
Prepared(p, base) ==
  IF base = None THEN file[p] = Absent
  ELSE /\ ReadAvailable /\ file[p] = base
       /\ row[p].file # Absent => Attested(p, row[p].file)

\* commit_visible_write: the replacement and its dirty marker are one step.
WriteVisible(p, base, c) ==
  /\ WriteLocks /\ Prepared(p, base) /\ edits < MaxEdits
  /\ file' = [file EXCEPT ![p] = c]
  /\ wm' = Unpublished(wm, p, c)
  /\ edits' = edits + 1
  /\ mutex' = "writer" /\ plock' = {"writer"}
  /\ writer' = [at |-> "finalize", path |-> p, new |-> c]
  /\ acked' = [acked EXCEPT ![p] = None]
  /\ UNCHANGED <<git, database, up, sql, tick, reader, worker, embed, faults>>

\* A refused update leaves nothing but the mark of a source that is not attested.
WriteRefused(p) ==
  /\ WriteLocks /\ ReadAvailable /\ row[p].file # Absent /\ ~Attested(p, row[p].file)
  /\ wm' = SyncPending(wm)
  /\ UNCHANGED <<file, git, database, up, locks, sql, tick, reader, writer, worker, embed, acked, bounds>>

\* finalize_prepared_write_inner: the projection is spawned as a task of its own.
WriteProject ==
  /\ writer.at = "finalize" /\ sql.at = "idle"
  /\ sql' = [NoTask EXCEPT !.at = "invalidate", !.path = writer.path, !.rev = writer.new, !.by = "writer"]
  /\ writer' = [writer EXCEPT !.at = "await"]
  /\ UNCHANGED <<file, git, database, up, wm, locks, tick, reader, worker, embed, acked, bounds>>

\* Mutant: a dropped request leaves the child process locked.
LeaksMutex == writer' = NoWrite /\ plock' = {} /\ UNCHANGED mutex

\* The guards of a request are released when its future ends or is dropped.
LetGo == writer' = NoWrite /\ mutex' = None /\ plock' = {}

\* finish_local_projection and the answer.
WriteFinish ==
  /\ writer.at = "await" /\ sql.at = "done"
  /\ IF sql.ok
     THEN /\ wm' = [wm EXCEPT !.unpublished = @ \ {writer.path}]
          /\ acked' = IF wm.ready THEN [acked EXCEPT ![writer.path] = writer.new] ELSE acked
     ELSE wm' = [wm EXCEPT !.ready = FALSE] /\ Forget
  /\ sql' = NoTask
  /\ LetGo
  /\ UNCHANGED <<file, git, database, up, tick, reader, worker, embed, bounds>>

\* The client disconnects or the deadline passes: the request's future is
\* dropped with its locks, and a spawned task runs on.
WriteCancel ==
  /\ writer.at # "idle" /\ Fault
  /\ sql' = IF writer.at # "await" THEN sql
            ELSE IF sql.at = "done" THEN NoTask ELSE [sql EXCEPT !.by = "detached"]
  /\ LetGo
  /\ UNCHANGED <<file, git, database, up, wm, tick, reader, worker, embed, acked, edits>>

-----------------------------------------------------------------------------
(* The SQL task: every statement commits on its own.                          *)

\* The task ends; nobody waits for a detached one.
Done(ok) ==
  sql' = IF sql.by = "detached" THEN NoTask ELSE [sql EXCEPT !.at = "done", !.ok = ok]

Deletes == sql.rev = Absent

\* The file row first says that the projection is not complete.
SqlInvalidate ==
  /\ sql.at = "invalidate"
  /\ row' = [row EXCEPT ![sql.path].complete = FALSE,
                        ![sql.path].file = IF Deletes THEN @ ELSE sql.rev]
  /\ sql' = [sql EXCEPT !.at = "note"]
  /\ UNCHANGED <<file, git, cursor, model, up, wm, locks, tick, reader, writer, worker, embed, acked, bounds>>

\* The note is replaced and loses the vector of another revision (also the
\* trigger bridge_note_generation); a deletion starts with tags, links and blocks.
SqlNote ==
  /\ sql.at = "note"
  /\ row' = IF Deletes THEN [row EXCEPT ![sql.path].parts = Absent]
            ELSE [row EXCEPT ![sql.path].note = sql.rev,
                             ![sql.path].vector = IF row[sql.path].note = sql.rev THEN @ ELSE None]
  /\ sql' = [sql EXCEPT !.at = "complete"]
  /\ UNCHANGED <<file, git, cursor, model, up, wm, locks, tick, reader, writer, worker, embed, acked, bounds>>

\* Tags, links and blocks, then the completion marker; or the rows go.
SqlComplete ==
  /\ sql.at = "complete"
  /\ row' = IF Deletes THEN [row EXCEPT ![sql.path] = NoRow]
            ELSE [row EXCEPT ![sql.path].parts = sql.rev, ![sql.path].complete = TRUE]
  /\ Done(TRUE)
  /\ UNCHANGED <<file, git, cursor, model, up, wm, locks, tick, reader, writer, worker, embed, acked, bounds>>

SqlFails ==
  /\ sql.at \in {"invalidate", "note", "complete"} /\ Fault
  /\ Done(FALSE)
  /\ UNCHANGED <<file, git, database, up, wm, locks, tick, reader, writer, worker, embed, acked, edits>>

-----------------------------------------------------------------------------
(* The projection worker *)

\* Mutant: the older manifest is taken at once.
NeverAwaits == FALSE

\* A local write that is readable and not yet in the client's head: wait for its
\* commit rather than rewrite rows against an older manifest.
AwaitsCommit ==
  \E p \in Paths \ wm.unpublished :
    /\ wm.ready /\ wm.pending[p] # None
    /\ wm.pending[p] # tree[p] /\ file[p] = wm.pending[p]

\* spawn_filesystem_worker: when the index is not current, or for the periodic audit.
\* The worker seldom overtakes the report of a tick.
WorkerLock(audit) ==
  /\ up /\ worker.at = "idle" /\ mutex = None /\ (audit \/ ~IndexCurrent)
  /\ IF audit \/ tick.at = "report" THEN Fault ELSE UNCHANGED faults
  /\ mutex' = "worker"
  /\ worker' = [NoWork EXCEPT !.at = "locked", !.full = audit]
  /\ UNCHANGED <<file, git, database, up, wm, plock, sql, tick, reader, writer, embed, acked, edits>>

\* synchronize_commit_projection up to begin_commit_projection.  The cursor decides
\* the mode: incremental from an ancestor, else (or without a manifest) a rebuild.
WorkerBegin ==
  /\ worker.at = "locked" /\ plock = {} /\ sql.at = "idle"
  /\ IF AwaitsCommit
     THEN worker' = NoWork /\ mutex' = None /\ UNCHANGED <<plock, wm>>
     ELSE /\ plock' = {"worker"}
          /\ wm' = [wm EXCEPT !.ready = FALSE, !.fresh = TRUE]
          /\ worker' = [worker EXCEPT !.at = "reconcile", !.todo = Paths,
                          !.full = @ \/ wm.indexed \notin line \/ \A p \in Paths : wm.files[p] = Absent]
          /\ UNCHANGED mutex
  /\ UNCHANGED <<file, git, database, up, sql, tick, reader, writer, embed, acked, bounds>>

\* record_projection_failure
GiveUp ==
  /\ worker' = NoWork /\ mutex' = None /\ plock' = {}
  /\ wm' = [wm EXCEPT !.ready = FALSE] /\ Forget

\* The manifest of the head: the mutex keeps it where it is.
Target(p) == tree[p]

\* The target changes this file, as the delta from the cursor says.
Changed(p) == wm.files[p] # Target(p)

\* reconcile_full_snapshot reads and verifies every file; reconcile_incremental_snapshot
\* those that changed and those whose rows need repair, but not a row beyond the manifest.
Verified(p) ==
  \/ file[p] = Target(p)
  \/ ~worker.full /\ ~Changed(p) /\ (SqlRevision(p) = Target(p) \/ Target(p) = Absent)

NeedsWrite(p) ==
  IF Target(p) = Absent THEN row[p].file # Absent
  ELSE worker.full \/ SqlRevision(p) # Target(p)

WorkerReconcile(p) ==
  /\ worker.at = "reconcile" /\ p \in worker.todo /\ Verified(p)
  /\ IF NeedsWrite(p)
     THEN /\ sql' = [NoTask EXCEPT !.at = "invalidate", !.path = p, !.rev = Target(p), !.by = "worker"]
          /\ worker' = [worker EXCEPT !.at = "await", !.path = p]
     ELSE worker' = [worker EXCEPT !.todo = @ \ {p}] /\ UNCHANGED sql
  /\ UNCHANGED <<file, git, database, up, wm, locks, tick, reader, writer, embed, acked, bounds>>

WorkerMismatch(p) ==
  /\ worker.at = "reconcile" /\ p \in worker.todo /\ ~Verified(p)
  /\ GiveUp
  /\ UNCHANGED <<file, git, database, up, sql, tick, reader, writer, embed, bounds>>

\* project_file, delete_filesystem_file
WorkerProjected ==
  /\ worker.at = "await" /\ sql.at = "done"
  /\ sql' = NoTask
  /\ IF sql.ok
     THEN /\ worker' = [worker EXCEPT !.at = "reconcile", !.todo = @ \ {worker.path}, !.path = None]
          /\ UNCHANGED <<wm, mutex, plock, acked>>
     ELSE GiveUp
  /\ UNCHANGED <<file, git, database, up, tick, reader, writer, embed, bounds>>

\* The rows are compared with the manifest; complete_commit_projection saves the
\* cursor if nothing was marked since the beginning.
WorkerSave ==
  /\ worker.at = "reconcile" /\ worker.todo = {}
  /\ IF wm.fresh /\ \A p \in Paths : SqlRevision(p) = Target(p)
     THEN /\ cursor' = head
          /\ worker' = [worker EXCEPT !.at = "publish"]
          /\ UNCHANGED <<wm, mutex, plock, acked>>
     ELSE GiveUp /\ UNCHANGED cursor
  /\ UNCHANGED <<file, git, row, model, up, sql, tick, reader, writer, embed, bounds>>

\* Then the watermark is published, or the cursor is taken back.
WorkerPublish ==
  /\ worker.at = "publish"
  /\ IF wm.fresh
     THEN /\ wm' = [NoMark EXCEPT !.ready = TRUE, !.fresh = TRUE, !.indexed = head,
                                  !.files = tree]
          /\ worker' = NoWork /\ mutex' = None /\ plock' = {}
          /\ UNCHANGED <<cursor, acked>>
     ELSE GiveUp /\ cursor' = wm.indexed
  /\ UNCHANGED <<file, git, row, model, up, sql, tick, reader, writer, embed, bounds>>

-----------------------------------------------------------------------------
(* The embedding worker *)

\* embedding_candidates, then capture_embedding_source under the locks; what is
\* sent is the attested body.
EmbedCapture(p) ==
  /\ up /\ embed.at = "idle" /\ row[p].complete /\ row[p].vector = None
  /\ mutex = None /\ plock \subseteq {"reader"} /\ IndexCurrent
  /\ IF Attested(p, row[p].note)
     THEN /\ embed' = [at |-> "provider", path |-> p, rev |-> file[p], model |-> model]
          /\ UNCHANGED wm
     ELSE wm' = SyncPending(wm) /\ UNCHANGED embed
  /\ UNCHANGED <<file, git, database, up, locks, sql, tick, reader, writer, worker, acked, bounds>>

\* Mutant: the vector goes to the note of that name.
MatchesById == row[embed.path].note # Absent

\* complete_embedding compares schema epoch and note revision under row locks.
Matches == model = embed.model /\ row[embed.path].note = embed.rev

\* The provider answers, or the transaction of a process that died commits.
EmbedComplete ==
  /\ embed.at \in {"provider", "late"}
  /\ row' = IF Matches THEN [row EXCEPT ![embed.path].vector = [of |-> embed.rev, by |-> embed.model]]
            ELSE row
  /\ embed' = NoToken
  /\ UNCHANGED <<file, git, cursor, model, up, wm, locks, sql, tick, reader, writer, worker, acked, bounds>>

\* The provider fails, or the transaction was never sent.
EmbedFails ==
  /\ embed.at \in {"provider", "late"}
  /\ embed' = NoToken
  /\ UNCHANGED <<file, git, database, up, wm, locks, sql, tick, reader, writer, worker, acked, bounds>>

-----------------------------------------------------------------------------
(* Restarts *)

Crash ==
  /\ up /\ Fault
  /\ up' = FALSE /\ wm' = NoMark
  /\ mutex' = None /\ plock' = {}
  /\ sql' = NoTask /\ tick' = NoTick /\ reader' = NoRead /\ writer' = NoWrite /\ worker' = NoWork
  /\ embed' = IF embed.at = "provider" THEN [embed EXCEPT !.at = "late"] ELSE NoToken
  /\ UNCHANGED <<file, git, database, acked, edits>>

\* ensure_embedding_schema resets every vector when the model changed, and the
\* watermark starts from the durable cursor.
Restart ==
  /\ ~up /\ up' = TRUE
  /\ wm' = [NoMark EXCEPT !.indexed = cursor]
  /\ \/ UNCHANGED <<model, row>>
     \/ /\ model < MaxModels /\ model' = model + 1
        /\ row' = [p \in Paths |-> [row[p] EXCEPT !.vector = None]]
  /\ UNCHANGED <<file, git, cursor, locks, sql, tick, reader, writer, worker, embed, acked, bounds>>

-----------------------------------------------------------------------------
Tick == TickEnd \/ TickFail \/ TickReport \/ \E p \in Paths, c \in Values : TickWrite(p, c)

Read == ReadRow \/ ReadBody \/ ReadFails \/ \E p \in Paths : ReadAdmit(p)

Write ==
  \/ WriteProject \/ WriteFinish \/ WriteCancel
  \/ \E p \in Paths : WriteRefused(p)
  \/ \E p \in Paths, base \in Contents \cup {None}, c \in Contents : WriteVisible(p, base, c)

Task == SqlInvalidate \/ SqlNote \/ SqlComplete \/ SqlFails

Reconcile == \E p \in Paths : WorkerReconcile(p) \/ WorkerMismatch(p)

Work ==
  \/ WorkerBegin \/ Reconcile \/ WorkerProjected \/ WorkerSave \/ WorkerPublish
  \/ \E audit \in BOOLEAN : WorkerLock(audit)

Embed == EmbedComplete \/ EmbedFails \/ \E p \in Paths : EmbedCapture(p)

Next == Tick \/ Read \/ Write \/ Task \/ Work \/ Embed \/ Crash \/ Restart

Spec == Init /\ [][Next]_vars

(* The workers run forever and a request runs to its end; tokio grants its  *)
(* mutexes in order, so who waits for one gets it.  Nothing is assumed of   *)
(* callers, of remote edits or of the embedding provider.                  *)
Fairness ==
  /\ SF_vars(TickEnd) /\ WF_vars(TickReport)
  /\ WF_vars(ReadRow) /\ WF_vars(ReadBody)
  /\ WF_vars(WriteProject) /\ WF_vars(WriteFinish)
  /\ WF_vars(SqlInvalidate) /\ WF_vars(SqlNote) /\ WF_vars(SqlComplete)
  /\ SF_vars(WorkerLock(FALSE)) /\ SF_vars(WorkerBegin) /\ WF_vars(Reconcile) /\ WF_vars(WorkerProjected)
  /\ WF_vars(WorkerSave) /\ WF_vars(WorkerPublish) /\ WF_vars(Restart)

FairSpec == Spec /\ Fairness

-----------------------------------------------------------------------------
(* Properties *)

\* Types, and locks held by the actors that are at work and no others.
TypeOK ==
  /\ {file, tree} \subseteq [Paths -> Values]
  /\ head \in 1..MaxEdits + 1 /\ line \subseteq 1..head /\ cursor \in 0..head
  /\ row \in [Paths -> [file : Values, note : Values, parts : Values, complete : BOOLEAN,
                        vector : {None} \cup [of : Contents, by : 1..MaxModels]]]
  /\ wm \in [ready : BOOLEAN, fresh : BOOLEAN, indexed : 0..head, files : [Paths -> Values],
             pending : [Paths -> Contents \cup {None}], unpublished : SUBSET Paths]
  /\ model \in 1..MaxModels /\ up \in BOOLEAN
  /\ mutex \in {None, "tick", "writer", "worker"}
  /\ (mutex = "writer") = (writer.at # "idle") /\ (mutex = "worker") = (worker.at # "idle")
  /\ plock = {"reader"} \/ (reader.at = "idle" /\ plock \in {{}, {"writer"}, {"worker"}})
  /\ acked \in [Paths -> Contents \cup {None}]
  /\ edits \in 0..MaxEdits /\ faults \in 0..MaxFaults

\* A read about to be answered is of one revision: the metadata, the tags and links,
\* and the attested body belong together, although the tick rewrites files beside it and the SQL task
\* of a cancelled request rewrites rows beside it (OBTS-BRG-READ-001).
ReadsAreCoherent ==
  reader.at = "body" /\ Attested(reader.path, reader.note) => reader.parts = reader.note

\* A write acknowledged as applied is what the next reads find, until the file changes,
\* although the worker projects a head that does not have it yet.  Excluded: writes of a
\* time when the view was not ready, or has not been since, or followed by another write.
OwnWriteReadable ==
  \A p \in Paths :
    acked[p] # None /\ ReadAvailable /\ plock \subseteq {"reader"} =>
      Attested(p, acked[p]) /\ SqlRevision(p) = acked[p] /\ row[p].parts = acked[p]

\* A vector belongs to the revision its note has now and to the configured model:
\* an answer that arrives late, also from a process that died, changes nothing newer.
VectorsMatch ==
  \A p \in Paths : row[p].vector # None =>
    row[p].vector = [of |-> row[p].note, by |-> model]

\* Once files stop changing (there are finitely many edits), what they show becomes
\* readable: refused, overtaken and failed projections, lost marks and restarts only
\* delay it.
IndexCatchesUp ==
  []<>(ReadAvailable /\ \A p \in Paths : row[p].note = file[p] /\ row[p].parts = file[p])

=============================================================================
