----------------------- MODULE BridgeProjectionProofs -----------------------
(***************************************************************************)
(* Proofs about BridgeProjection, for any set of notes and contents and    *)
(* any number of edits, embedding models and faults.                       *)
(***************************************************************************)
EXTENDS BridgeProjection, TLAPS

Rows ==
  [file : Values, note : Values, parts : Values, complete : BOOLEAN,
   vector : {None} \cup [of : Contents, by : 1..MaxModels]]

Marks ==
  [ready : BOOLEAN, fresh : BOOLEAN, indexed : Nat, files : [Paths -> Values],
   pending : [Paths -> Contents \cup {None}], unpublished : SUBSET Paths]

\* Files and what was promised of them.
FilesTyped ==
  /\ file \in [Paths -> Values] /\ tree \in [Paths -> Values]
  /\ acked \in [Paths -> Contents \cup {None}]

\* Every commit of the local head takes a changed file, and nothing names a later one.
HeadsCounted ==
  /\ edits \in 0..MaxEdits
  /\ head \in 1..edits + 1 /\ (file # tree => head <= edits)
  /\ line \subseteq 1..head /\ cursor \in 0..head /\ wm.indexed <= head

RowsTyped == row \in [Paths -> Rows]

MarkTyped == wm \in Marks

CountsTyped == model \in 1..MaxModels /\ up \in BOOLEAN /\ faults \in 0..MaxFaults

TickTyped == tick \in [at : {"idle", "run", "report"}, applied : BOOLEAN]

\* An actor at work knows its path and its revision.
ReaderTyped ==
  /\ reader \in [at : {"idle", "row", "body"}, path : Paths \cup {None},
                 note : Values \cup {None}, parts : Values \cup {None}]
  /\ reader.at # "idle" => reader.path \in Paths

WriterTyped ==
  /\ writer \in [at : {"idle", "finalize", "await"}, path : Paths \cup {None},
                 new : Contents \cup {None}]
  /\ writer.at # "idle" => writer.path \in Paths /\ writer.new \in Contents

WorkerTyped ==
  /\ worker \in [at : {"idle", "locked", "reconcile", "await", "publish"}, full : BOOLEAN,
                 todo : SUBSET Paths, path : Paths \cup {None}]
  /\ worker.at = "await" => worker.path \in Paths

TaskTyped ==
  /\ sql \in [at : {"idle", "invalidate", "note", "complete", "done"}, path : Paths \cup {None},
              rev : Values \cup {None}, by : {None, "writer", "worker", "detached"}, ok : BOOLEAN]
  /\ sql.at # "idle" => sql.path \in Paths /\ sql.rev \in Values

EmbedTyped ==
  /\ embed \in [at : {"idle", "provider", "late"}, path : Paths \cup {None},
                rev : Contents \cup {None}, model : 0..MaxModels]
  /\ embed.at # "idle" => embed.path \in Paths /\ embed.rev \in Contents /\ embed.model # 0

\* The worker holds the projection lock and has taken the view away.
Projecting == worker.at \in {"reconcile", "await", "publish"}

\* Who holds which lock.
LocksHeld ==
  /\ mutex \in {None, "tick", "writer", "worker"}
  /\ plock \in {{}, {"reader"}, {"writer"}, {"worker"}}
  /\ (mutex = "tick") = (tick.at = "run")
  /\ (mutex = "writer") = (writer.at # "idle")
  /\ (mutex = "worker") = (worker.at # "idle")
  /\ (plock = {"reader"}) = (reader.at # "idle")
  /\ (plock = {"writer"}) = (writer.at # "idle")
  /\ (plock = {"worker"}) = Projecting
  /\ ~up => mutex = None /\ plock = {} /\ sql.at = "idle"

\* One SQL task at a time, run for the writer, for the worker, or for nobody.
TaskOwned ==
  /\ writer.at = "await" =>
       sql.at # "idle" /\ sql.by = "writer" /\ sql.path = writer.path /\ sql.rev = writer.new
  /\ worker.at = "await" => sql.at # "idle" /\ sql.by = "worker" /\ sql.path = worker.path
  /\ sql.at # "idle" =>
       \/ sql.by = "writer" /\ writer.at = "await"
       \/ sql.by = "worker" /\ worker.at = "await"
       \/ sql.by = "detached" /\ sql.at # "done" /\ ~Projecting

\* Rows that say of themselves that they are complete are, and a path without a file
\* row has no note.
RowsStaged ==
  /\ \A p \in Paths :
       /\ row[p].complete =>
            row[p].file \in Contents /\ row[p].note = row[p].file /\ row[p].parts = row[p].file
       /\ row[p].file = Absent => row[p].note = Absent /\ row[p].parts = Absent
  /\ sql.at \in {"note", "complete"} =>
       ~row[sql.path].complete /\ (sql.rev # Absent => row[sql.path].file = sql.rev)
  /\ sql.at = "complete" /\ sql.rev # Absent => row[sql.path].note = sql.rev
  /\ sql.at = "done" /\ sql.ok => SqlRevision(sql.path) = sql.rev

Typed ==
  /\ FilesTyped /\ HeadsCounted /\ RowsTyped /\ MarkTyped /\ CountsTyped
  /\ TickTyped /\ ReaderTyped /\ WriterTyped /\ WorkerTyped /\ TaskTyped /\ EmbedTyped

Shape == Typed /\ LocksHeld /\ TaskOwned /\ RowsStaged

\* A path in a ready view is settled: rows change only under paths that are not
\* published, or while the view is taken away.
ViewSettled ==
  /\ wm.ready => \A p \in Paths \ wm.unpublished : SqlRevision(p) # None
  /\ Projecting => ~wm.ready
  /\ sql.at # "idle" /\ sql.by \in {"writer", "detached"} => sql.path \in wm.unpublished
  /\ writer.at # "idle" => writer.path \in wm.unpublished
  /\ reader.at # "idle" => ReadAvailable
  /\ reader.at = "body" => reader.parts = reader.note
  /\ worker.at = "publish" => \A p \in Paths : SqlRevision(p) = tree[p]

\* What was acknowledged is in the file and in the published view, or the worker
\* is bound to find it in the manifest before it publishes again.
AckedKept ==
  /\ writer.at # "idle" => file[writer.path] = writer.new /\ wm.pending[writer.path] = writer.new
  /\ worker.at = "publish" => worker.todo = {}
  /\ \A p \in Paths : acked[p] # None =>
       /\ file[p] = acked[p] /\ p \notin wm.unpublished
       /\ wm.ready => Expected(p) = acked[p] /\ SqlRevision(p) = acked[p]
       /\ ~wm.ready /\ ~Projecting => \A q \in Paths : wm.files[q] = Absent
       /\ Projecting => worker.full \/ tree[p] = acked[p] \/ wm.files[p] = acked[p]
       /\ Projecting /\ p \notin worker.todo => tree[p] = acked[p]
       /\ worker.at = "await" /\ p = worker.path => tree[p] = acked[p]

ServedInv == Shape /\ ViewSettled /\ AckedKept

-----------------------------------------------------------------------------
(* One lemma for each part of the invariant: the actions that change its     *)
(* variables, one by one, and then all the others together.                 *)

\* Files and promises keep their types.
LEMMA FilesTypedStep ==
  ASSUME Typed, [Next]_vars PROVE FilesTyped'
<1>1. ASSUME NEW p \in Paths, NEW c \in Values, TickWrite(p, c) PROVE FilesTyped'
  BY <1>1, ConstantsAssumption DEF TickWrite, Ticking, git, database, locks, bounds, Typed,
     FilesTyped, WriterTyped, Values
<1>2. ASSUME TickEnd PROVE FilesTyped'
  BY <1>2, ConstantsAssumption DEF TickEnd, Ticking, git, database, locks, bounds, Typed,
     FilesTyped, WriterTyped, Values
<1>3. ASSUME ReadFails PROVE FilesTyped'
  BY <1>3, ConstantsAssumption DEF ReadFails, NoRead, Dirty, Forget, Fault, git, database, locks,
     bounds, Typed, FilesTyped, WriterTyped, Values
<1>4. ASSUME NEW p \in Paths, NEW base \in Contents \cup {None}, NEW c \in Contents, WriteVisible(p, base, c) PROVE FilesTyped'
  BY <1>4, ConstantsAssumption DEF WriteVisible, WriteLocks, Unpublished, git, database, locks,
     bounds, Typed, FilesTyped, WriterTyped, Values
<1>5. ASSUME WriteFinish PROVE FilesTyped'
  BY <1>5, ConstantsAssumption DEF WriteFinish, Forget, NoTask, LetGo, NoWrite, git, database,
     locks, bounds, Typed, FilesTyped, WriterTyped, Values
<1>6. ASSUME NEW p \in Paths, WorkerMismatch(p) PROVE FilesTyped'
  BY <1>6, ConstantsAssumption DEF WorkerMismatch, GiveUp, Forget, NoWork, git, database, locks,
     bounds, Typed, FilesTyped, WriterTyped, Values
<1>7. ASSUME WorkerProjected PROVE FilesTyped'
  BY <1>7, ConstantsAssumption DEF WorkerProjected, GiveUp, Forget, NoTask, NoWork, git, database,
     locks, bounds, Typed, FilesTyped, WriterTyped, Values
<1>8. ASSUME WorkerSave PROVE FilesTyped'
  BY <1>8, ConstantsAssumption DEF WorkerSave, GiveUp, Forget, NoWork, git, database, locks,
     bounds, Typed, FilesTyped, WriterTyped, Values
<1>9. ASSUME WorkerPublish PROVE FilesTyped'
  BY <1>9, ConstantsAssumption DEF WorkerPublish, GiveUp, Forget, NoMark, NoWork, git, database,
     locks, bounds, Typed, FilesTyped, WriterTyped, Values
<1>10. ASSUME UNCHANGED <<file, tree, acked>> PROVE FilesTyped'
  BY <1>10 DEF Typed, FilesTyped, WriterTyped, Values
<1> QED
  BY <1>1, <1>2, <1>3, <1>4, <1>5, <1>6, <1>7, <1>8, <1>9, <1>10
  DEF Next, Tick, Read, Write, Task, Work, Reconcile, Embed, vars, git, database, locks, bounds,
     TickFail, TickReport, ReadAdmit, ReadRow, ReadBody, WriteRefused, WriteProject, WriteCancel,
     SqlInvalidate, SqlNote, SqlComplete, SqlFails, WorkerLock, WorkerBegin, WorkerReconcile,
     EmbedCapture, EmbedComplete, EmbedFails, Crash, Restart

\* Commits stay counted by the edits they take.
LEMMA HeadsCountedStep ==
  ASSUME Typed, [Next]_vars PROVE HeadsCounted'
<1>1. ASSUME NEW p \in Paths, NEW c \in Values, TickWrite(p, c) PROVE HeadsCounted'
  BY <1>1, ConstantsAssumption DEF TickWrite, Ticking, git, database, locks, bounds, Typed,
     HeadsCounted, MarkTyped, Marks, FilesTyped
<1>2. ASSUME TickEnd PROVE HeadsCounted'
  BY <1>2, ConstantsAssumption DEF TickEnd, Ticking, git, database, locks, bounds, Typed,
     HeadsCounted, MarkTyped, Marks, FilesTyped
<1>3. ASSUME TickReport PROVE HeadsCounted'
  BY <1>3, ConstantsAssumption DEF TickReport, SyncPending, NoTick, git, database, locks, bounds,
     Typed, HeadsCounted, MarkTyped, Marks, FilesTyped
<1>4. ASSUME ReadBody PROVE HeadsCounted'
  BY <1>4, ConstantsAssumption DEF ReadBody, NoRead, SyncPending, git, database, locks, bounds,
     Typed, HeadsCounted, MarkTyped, Marks, FilesTyped
<1>5. ASSUME ReadFails PROVE HeadsCounted'
  BY <1>5, ConstantsAssumption DEF ReadFails, NoRead, Dirty, Forget, Fault, git, database, locks,
     bounds, Typed, HeadsCounted, MarkTyped, Marks, FilesTyped
<1>6. ASSUME NEW p \in Paths, NEW base \in Contents \cup {None}, NEW c \in Contents, WriteVisible(p, base, c) PROVE HeadsCounted'
  BY <1>6, ConstantsAssumption DEF WriteVisible, WriteLocks, Unpublished, git, database, locks,
     bounds, Typed, HeadsCounted, MarkTyped, Marks, FilesTyped
<1>7. ASSUME NEW p \in Paths, WriteRefused(p) PROVE HeadsCounted'
  BY <1>7, ConstantsAssumption DEF WriteRefused, SyncPending, git, database, locks, bounds, Typed,
     HeadsCounted, MarkTyped, Marks, FilesTyped
<1>8. ASSUME WriteFinish PROVE HeadsCounted'
  BY <1>8, ConstantsAssumption DEF WriteFinish, Forget, NoTask, LetGo, NoWrite, git, database,
     locks, bounds, Typed, HeadsCounted, MarkTyped, Marks, FilesTyped
<1>9. ASSUME WorkerBegin PROVE HeadsCounted'
  BY <1>9, ConstantsAssumption DEF WorkerBegin, NoWork, git, database, locks, bounds, Typed,
     HeadsCounted, MarkTyped, Marks, FilesTyped
<1>10. ASSUME NEW p \in Paths, WorkerMismatch(p) PROVE HeadsCounted'
  BY <1>10, ConstantsAssumption DEF WorkerMismatch, GiveUp, Forget, NoWork, git, database, locks,
     bounds, Typed, HeadsCounted, MarkTyped, Marks, FilesTyped
<1>11. ASSUME WorkerProjected PROVE HeadsCounted'
  BY <1>11, ConstantsAssumption DEF WorkerProjected, GiveUp, Forget, NoTask, NoWork, git, database,
     locks, bounds, Typed, HeadsCounted, MarkTyped, Marks, FilesTyped
<1>12. ASSUME WorkerSave PROVE HeadsCounted'
  BY <1>12, ConstantsAssumption DEF WorkerSave, GiveUp, Forget, NoWork, git, database, locks,
     bounds, Typed, HeadsCounted, MarkTyped, Marks, FilesTyped
<1>13. ASSUME WorkerPublish PROVE HeadsCounted'
  <2>1. UNCHANGED <<edits, head, file, tree, line>>
    BY <1>13 DEF WorkerPublish, git, bounds
  <2>2. (cursor' = cursor /\ wm'.indexed = head) \/ (cursor' = wm.indexed /\ wm'.indexed = wm.indexed)
    <3>1. [NoMark EXCEPT !.ready = TRUE, !.fresh = TRUE, !.indexed = head, !.files = tree].indexed = head
      BY DEF NoMark
    <3>2. [wm EXCEPT !.ready = FALSE].indexed = wm.indexed
      BY DEF Typed, MarkTyped, Marks
    <3> QED BY <1>13, <3>1, <3>2 DEF WorkerPublish, GiveUp
  <2> QED BY <2>1, <2>2, ConstantsAssumption DEF Typed, HeadsCounted, MarkTyped, Marks
<1>14. ASSUME NEW p \in Paths, EmbedCapture(p) PROVE HeadsCounted'
  BY <1>14, ConstantsAssumption DEF EmbedCapture, SyncPending, git, database, locks, bounds, Typed,
     HeadsCounted, MarkTyped, Marks, FilesTyped
<1>15. ASSUME Crash PROVE HeadsCounted'
  BY <1>15, ConstantsAssumption DEF Crash, Fault, NoMark, NoTask, NoTick, NoRead, NoWrite, NoWork,
     NoToken, git, database, locks, bounds, Typed, HeadsCounted, MarkTyped, Marks, FilesTyped
<1>16. ASSUME Restart PROVE HeadsCounted'
  BY <1>16, ConstantsAssumption DEF Restart, NoMark, git, database, locks, bounds, Typed,
     HeadsCounted, MarkTyped, Marks, FilesTyped
<1>17. ASSUME UNCHANGED <<edits, head, file, tree, line, cursor, wm>> PROVE HeadsCounted'
  BY <1>17 DEF Typed, HeadsCounted, MarkTyped, Marks, FilesTyped
<1> QED
  BY <1>1, <1>2, <1>3, <1>4, <1>5, <1>6, <1>7, <1>8, <1>9, <1>10, <1>11, <1>12, <1>13, <1>14,
     <1>15, <1>16, <1>17
  DEF Next, Tick, Read, Write, Task, Work, Reconcile, Embed, vars, git, database, locks, bounds,
     TickFail, ReadAdmit, ReadRow, WriteProject, WriteCancel, SqlInvalidate, SqlNote, SqlComplete,
     SqlFails, WorkerLock, WorkerReconcile, EmbedComplete, EmbedFails

\* Rows keep their types.
LEMMA RowsTypedStep ==
  ASSUME Typed, [Next]_vars PROVE RowsTyped'
<1>1. ASSUME SqlInvalidate PROVE RowsTyped'
  <2> DEFINE r == [row[sql.path] EXCEPT !.complete = FALSE, !.file = IF Deletes THEN @ ELSE sql.rev]
  <2>1. sql.path \in Paths /\ sql.rev \in Values
    BY <1>1 DEF Typed, TaskTyped, SqlInvalidate
  <2>2. row[sql.path] \in Rows
    BY <2>1 DEF Typed, RowsTyped
  <2>3. row' = [row EXCEPT ![sql.path] = r]
    BY <1>1, <2>1, <2>2 DEF SqlInvalidate, Typed, RowsTyped, Rows
  <2>4. r \in Rows
    BY <2>1, <2>2 DEF Rows
  <2> QED BY <2>1, <2>3, <2>4 DEF Typed, RowsTyped
<1>2. ASSUME SqlNote PROVE RowsTyped'
  BY <1>2, ConstantsAssumption DEF SqlNote, Deletes, git, database, locks, bounds, Typed,
     RowsTyped, Rows, TaskTyped, EmbedTyped, CountsTyped, Values
<1>3. ASSUME SqlComplete PROVE RowsTyped'
  BY <1>3, ConstantsAssumption DEF SqlComplete, Deletes, Done, NoTask, NoRow, git, database, locks,
     bounds, Typed, RowsTyped, Rows, TaskTyped, EmbedTyped, CountsTyped, Values
<1>4. ASSUME EmbedComplete PROVE RowsTyped'
  BY <1>4, ConstantsAssumption DEF EmbedComplete, NoToken, git, database, locks, bounds, Typed,
     RowsTyped, Rows, TaskTyped, EmbedTyped, CountsTyped, Values, Matches
<1>5. ASSUME Restart PROVE RowsTyped'
  <2>1. \A p \in Paths : [row[p] EXCEPT !.vector = None] \in Rows
    BY DEF Typed, RowsTyped, Rows
  <2>2. CASE row' = [p \in Paths |-> [row[p] EXCEPT !.vector = None]]
    BY <2>1, <2>2 DEF RowsTyped
  <2> QED BY <1>5, <2>2 DEF Restart, Typed, RowsTyped
<1>6. ASSUME UNCHANGED row PROVE RowsTyped'
  BY <1>6 DEF Typed, RowsTyped, Rows, TaskTyped, EmbedTyped, CountsTyped, Values
<1> QED
  BY <1>1, <1>2, <1>3, <1>4, <1>5, <1>6
  DEF Next, Tick, Read, Write, Task, Work, Reconcile, Embed, vars, git, database, locks, bounds,
     TickWrite, TickEnd, TickFail, TickReport, ReadAdmit, ReadRow, ReadBody, ReadFails,
     WriteVisible, WriteRefused, WriteProject, WriteFinish, WriteCancel, SqlFails, WorkerLock,
     WorkerBegin, WorkerReconcile, WorkerMismatch, WorkerProjected, WorkerSave, WorkerPublish,
     EmbedCapture, EmbedFails, Crash

\* The watermark keeps its type.
LEMMA MarkTypedStep ==
  ASSUME Typed, [Next]_vars PROVE MarkTyped'
<1>1. ASSUME TickReport PROVE MarkTyped'
  BY <1>1, ConstantsAssumption DEF TickReport, SyncPending, NoTick, git, database, locks, bounds,
     Typed, MarkTyped, Marks, FilesTyped, HeadsCounted, Values
<1>2. ASSUME ReadBody PROVE MarkTyped'
  BY <1>2, ConstantsAssumption DEF ReadBody, NoRead, SyncPending, git, database, locks, bounds,
     Typed, MarkTyped, Marks, FilesTyped, HeadsCounted, Values
<1>3. ASSUME ReadFails PROVE MarkTyped'
  BY <1>3, ConstantsAssumption DEF ReadFails, NoRead, Dirty, Forget, Fault, git, database, locks,
     bounds, Typed, MarkTyped, Marks, FilesTyped, HeadsCounted, Values
<1>4. ASSUME NEW p \in Paths, NEW base \in Contents \cup {None}, NEW c \in Contents, WriteVisible(p, base, c) PROVE MarkTyped'
  BY <1>4, ConstantsAssumption DEF WriteVisible, WriteLocks, Unpublished, git, database, locks,
     bounds, Typed, MarkTyped, Marks, FilesTyped, HeadsCounted, Values
<1>5. ASSUME NEW p \in Paths, WriteRefused(p) PROVE MarkTyped'
  BY <1>5, ConstantsAssumption DEF WriteRefused, SyncPending, git, database, locks, bounds, Typed,
     MarkTyped, Marks, FilesTyped, HeadsCounted, Values
<1>6. ASSUME WriteFinish PROVE MarkTyped'
  <2>1. CASE wm' = [wm EXCEPT !.ready = FALSE]
    BY <2>1 DEF Typed, MarkTyped, Marks
  <2>2. CASE wm' = [wm EXCEPT !.unpublished = @ \ {writer.path}]
    BY <2>2 DEF Typed, MarkTyped, Marks
  <2> QED BY <2>1, <2>2, <1>6 DEF WriteFinish
<1>7. ASSUME WorkerBegin PROVE MarkTyped'
  <2>1. CASE UNCHANGED wm
    BY <2>1 DEF Typed, MarkTyped, Marks
  <2>2. CASE wm' = [wm EXCEPT !.ready = FALSE, !.fresh = TRUE]
    BY <2>2 DEF Typed, MarkTyped, Marks
  <2> QED BY <2>1, <2>2, <1>7 DEF WorkerBegin
<1>8. ASSUME NEW p \in Paths, WorkerMismatch(p) PROVE MarkTyped'
  BY <1>8, ConstantsAssumption DEF WorkerMismatch, GiveUp, Forget, NoWork, git, database, locks,
     bounds, Typed, MarkTyped, Marks, FilesTyped, HeadsCounted, Values
<1>9. ASSUME WorkerProjected PROVE MarkTyped'
  <2>1. CASE UNCHANGED wm
    BY <2>1 DEF Typed, MarkTyped, Marks
  <2>2. CASE wm' = [wm EXCEPT !.ready = FALSE]
    BY <2>2 DEF Typed, MarkTyped, Marks
  <2> QED BY <2>1, <2>2, <1>9 DEF WorkerProjected, GiveUp
<1>10. ASSUME WorkerSave PROVE MarkTyped'
  <2>1. CASE UNCHANGED wm
    BY <2>1 DEF Typed, MarkTyped, Marks
  <2>2. CASE wm' = [wm EXCEPT !.ready = FALSE]
    BY <2>2 DEF Typed, MarkTyped, Marks
  <2> QED BY <2>1, <2>2, <1>10 DEF WorkerSave, GiveUp
<1>11. ASSUME WorkerPublish PROVE MarkTyped'
  <2>1. CASE wm' = [NoMark EXCEPT !.ready = TRUE, !.fresh = TRUE, !.indexed = head, !.files = tree]
    <3>1. head \in Nat /\ tree \in [Paths -> Values]
      BY ConstantsAssumption DEF Typed, HeadsCounted, FilesTyped
    <3> QED BY <2>1, <3>1 DEF NoMark, MarkTyped, Marks
  <2>2. CASE wm' = [wm EXCEPT !.ready = FALSE]
    BY <2>2 DEF Typed, MarkTyped, Marks
  <2> QED BY <1>11, <2>1, <2>2 DEF WorkerPublish, GiveUp
<1>12. ASSUME NEW p \in Paths, EmbedCapture(p) PROVE MarkTyped'
  BY <1>12, ConstantsAssumption, ZenonT(40) DEF EmbedCapture, SyncPending, git, database, locks, bounds, Typed,
     MarkTyped, Marks, FilesTyped, HeadsCounted, Values
<1>13. ASSUME Crash PROVE MarkTyped'
  BY <1>13, ConstantsAssumption DEF Crash, Fault, NoMark, NoTask, NoTick, NoRead, NoWrite, NoWork,
     NoToken, git, database, locks, bounds, Typed, MarkTyped, Marks, FilesTyped, HeadsCounted,
     Values
<1>14. ASSUME Restart PROVE MarkTyped'
  <2>1. wm' = [NoMark EXCEPT !.indexed = cursor] /\ cursor \in Nat
    BY <1>14, ConstantsAssumption DEF Restart, Typed, HeadsCounted
  <2> QED BY <2>1 DEF NoMark, MarkTyped, Marks, Values
<1>15. ASSUME UNCHANGED wm PROVE MarkTyped'
  BY <1>15 DEF Typed, MarkTyped, Marks, FilesTyped, HeadsCounted, Values
<1> QED
  BY <1>1, <1>2, <1>3, <1>4, <1>5, <1>6, <1>7, <1>8, <1>9, <1>10, <1>11, <1>12, <1>13, <1>14, <1>15
  DEF Next, Tick, Read, Write, Task, Work, Reconcile, Embed, vars, git, database, locks, bounds,
     TickWrite, TickEnd, TickFail, ReadAdmit, ReadRow, WriteProject, WriteCancel, SqlInvalidate,
     SqlNote, SqlComplete, SqlFails, WorkerLock, WorkerReconcile, EmbedComplete, EmbedFails

\* The counters stay within their bounds.
LEMMA CountsTypedStep ==
  ASSUME Typed, [Next]_vars PROVE CountsTyped'
<1>1. ASSUME TickFail PROVE CountsTyped'
  BY <1>1, ConstantsAssumption DEF TickFail, Fault, NoTick, git, database, locks, bounds, Typed,
     CountsTyped
<1>2. ASSUME ReadFails PROVE CountsTyped'
  BY <1>2, ConstantsAssumption DEF ReadFails, NoRead, Dirty, Forget, Fault, git, database, locks,
     bounds, Typed, CountsTyped
<1>3. ASSUME WriteCancel PROVE CountsTyped'
  BY <1>3, ConstantsAssumption DEF WriteCancel, Fault, NoTask, LetGo, NoWrite, git, database,
     locks, bounds, Typed, CountsTyped
<1>4. ASSUME SqlFails PROVE CountsTyped'
  BY <1>4, ConstantsAssumption DEF SqlFails, Fault, Done, NoTask, git, database, locks, bounds,
     Typed, CountsTyped
<1>5. ASSUME NEW audit \in BOOLEAN, WorkerLock(audit) PROVE CountsTyped'
  BY <1>5, ConstantsAssumption DEF WorkerLock, Fault, NoWork, git, database, locks, bounds, Typed,
     CountsTyped
<1>6. ASSUME Crash PROVE CountsTyped'
  <2>1. model' = model /\ faults < MaxFaults /\ faults' = faults + 1
    BY <1>6 DEF Crash, Fault, database
  <2>2. up' \in BOOLEAN
    BY <1>6 DEF Crash
  <2> QED BY <2>1, <2>2, ConstantsAssumption DEF Typed, CountsTyped
<1>7. ASSUME Restart PROVE CountsTyped'
  <2>1. CASE UNCHANGED <<model, row>>
    BY <1>7, <2>1 DEF Restart, bounds, Typed, CountsTyped
  <2>2. CASE model < MaxModels /\ model' = model + 1
    BY <1>7, <2>2, ConstantsAssumption DEF Restart, bounds, Typed, CountsTyped
  <2> QED BY <2>1, <2>2, <1>7 DEF Restart
<1>8. ASSUME UNCHANGED <<model, up, faults>> PROVE CountsTyped'
  BY <1>8 DEF Typed, CountsTyped
<1> QED
  BY <1>1, <1>2, <1>3, <1>4, <1>5, <1>6, <1>7, <1>8
  DEF Next, Tick, Read, Write, Task, Work, Reconcile, Embed, vars, git, database, locks, bounds,
     TickWrite, TickEnd, TickReport, ReadAdmit, ReadRow, ReadBody, WriteVisible, WriteRefused,
     WriteProject, WriteFinish, SqlInvalidate, SqlNote, SqlComplete, WorkerBegin, WorkerReconcile,
     WorkerMismatch, WorkerProjected, WorkerSave, WorkerPublish, EmbedCapture, EmbedComplete,
     EmbedFails

\* The tick keeps its shape.
LEMMA TickTypedStep ==
  ASSUME Typed, [Next]_vars PROVE TickTyped'
<1>1. ASSUME NEW p \in Paths, NEW c \in Values, TickWrite(p, c) PROVE TickTyped'
  BY <1>1 DEF TickWrite, Ticking, git, database, locks, bounds, Typed, TickTyped, Values
<1>2. ASSUME TickEnd PROVE TickTyped'
  BY <1>2 DEF TickEnd, Ticking, git, database, locks, bounds, Typed, TickTyped, Values
<1>3. ASSUME TickFail PROVE TickTyped'
  BY <1>3 DEF TickFail, Fault, NoTick, git, database, locks, bounds, Typed, TickTyped, Values
<1>4. ASSUME TickReport PROVE TickTyped'
  BY <1>4 DEF TickReport, SyncPending, NoTick, git, database, locks, bounds, Typed, TickTyped,
     Values
<1>5. ASSUME Crash PROVE TickTyped'
  BY <1>5 DEF Crash, Fault, NoMark, NoTask, NoTick, NoRead, NoWrite, NoWork, NoToken, git,
     database, locks, bounds, Typed, TickTyped, Values
<1>6. ASSUME UNCHANGED tick PROVE TickTyped'
  BY <1>6 DEF Typed, TickTyped, Values
<1> QED
  BY <1>1, <1>2, <1>3, <1>4, <1>5, <1>6
  DEF Next, Tick, Read, Write, Task, Work, Reconcile, Embed, vars, git, database, locks, bounds,
     ReadAdmit, ReadRow, ReadBody, ReadFails, WriteVisible, WriteRefused, WriteProject,
     WriteFinish, WriteCancel, SqlInvalidate, SqlNote, SqlComplete, SqlFails, WorkerLock,
     WorkerBegin, WorkerReconcile, WorkerMismatch, WorkerProjected, WorkerSave, WorkerPublish,
     EmbedCapture, EmbedComplete, EmbedFails, Restart

\* A reader knows its path.
LEMMA ReaderTypedStep ==
  ASSUME Typed, [Next]_vars PROVE ReaderTyped'
<1>1. ASSUME NEW p \in Paths, ReadAdmit(p) PROVE ReaderTyped'
  BY <1>1 DEF ReadAdmit, NoRead, git, database, locks, bounds, Typed, ReaderTyped, Values
<1>2. ASSUME ReadRow PROVE ReaderTyped'
  <2>1. CASE row[reader.path].note = Absent
    BY <1>2, <2>1 DEF ReadRow, NoRead, Typed, ReaderTyped
  <2>2. CASE row[reader.path].note # Absent
    BY <1>2, <2>2 DEF ReadRow, Typed, ReaderTyped, RowsTyped, Rows
  <2> QED BY <2>1, <2>2
<1>3. ASSUME ReadBody PROVE ReaderTyped'
  BY <1>3 DEF ReadBody, NoRead, SyncPending, git, database, locks, bounds, Typed, ReaderTyped,
     Values
<1>4. ASSUME ReadFails PROVE ReaderTyped'
  BY <1>4 DEF ReadFails, NoRead, Dirty, Forget, Fault, git, database, locks, bounds, Typed,
     ReaderTyped, Values
<1>5. ASSUME Crash PROVE ReaderTyped'
  BY <1>5 DEF Crash, Fault, NoMark, NoTask, NoTick, NoRead, NoWrite, NoWork, NoToken, git,
     database, locks, bounds, Typed, ReaderTyped, Values
<1>6. ASSUME UNCHANGED reader PROVE ReaderTyped'
  BY <1>6 DEF Typed, ReaderTyped, Values
<1> QED
  BY <1>1, <1>2, <1>3, <1>4, <1>5, <1>6
  DEF Next, Tick, Read, Write, Task, Work, Reconcile, Embed, vars, git, database, locks, bounds,
     TickWrite, TickEnd, TickFail, TickReport, WriteVisible, WriteRefused, WriteProject,
     WriteFinish, WriteCancel, SqlInvalidate, SqlNote, SqlComplete, SqlFails, WorkerLock,
     WorkerBegin, WorkerReconcile, WorkerMismatch, WorkerProjected, WorkerSave, WorkerPublish,
     EmbedCapture, EmbedComplete, EmbedFails, Restart

\* A writer knows its path and its content.
LEMMA WriterTypedStep ==
  ASSUME Typed, [Next]_vars PROVE WriterTyped'
<1>1. ASSUME NEW p \in Paths, NEW base \in Contents \cup {None}, NEW c \in Contents, WriteVisible(p, base, c) PROVE WriterTyped'
  BY <1>1 DEF WriteVisible, WriteLocks, Unpublished, git, database, locks, bounds, Typed,
     WriterTyped, Values
<1>2. ASSUME WriteProject PROVE WriterTyped'
  BY <1>2 DEF WriteProject, NoTask, git, database, locks, bounds, Typed, WriterTyped, Values
<1>3. ASSUME WriteFinish PROVE WriterTyped'
  BY <1>3 DEF WriteFinish, Forget, NoTask, LetGo, NoWrite, git, database, locks, bounds, Typed,
     WriterTyped, Values
<1>4. ASSUME WriteCancel PROVE WriterTyped'
  BY <1>4 DEF WriteCancel, Fault, NoTask, LetGo, NoWrite, git, database, locks, bounds, Typed,
     WriterTyped, Values
<1>5. ASSUME Crash PROVE WriterTyped'
  BY <1>5 DEF Crash, Fault, NoMark, NoTask, NoTick, NoRead, NoWrite, NoWork, NoToken, git,
     database, locks, bounds, Typed, WriterTyped, Values
<1>6. ASSUME UNCHANGED writer PROVE WriterTyped'
  BY <1>6 DEF Typed, WriterTyped, Values
<1> QED
  BY <1>1, <1>2, <1>3, <1>4, <1>5, <1>6
  DEF Next, Tick, Read, Write, Task, Work, Reconcile, Embed, vars, git, database, locks, bounds,
     TickWrite, TickEnd, TickFail, TickReport, ReadAdmit, ReadRow, ReadBody, ReadFails,
     WriteRefused, SqlInvalidate, SqlNote, SqlComplete, SqlFails, WorkerLock, WorkerBegin,
     WorkerReconcile, WorkerMismatch, WorkerProjected, WorkerSave, WorkerPublish, EmbedCapture,
     EmbedComplete, EmbedFails, Restart

\* The worker keeps its shape.
LEMMA WorkerTypedStep ==
  ASSUME Typed, [Next]_vars PROVE WorkerTyped'
<1>1. ASSUME NEW audit \in BOOLEAN, WorkerLock(audit) PROVE WorkerTyped'
  BY <1>1 DEF WorkerLock, Fault, NoWork, git, database, locks, bounds, Typed, WorkerTyped, Values
<1>2. ASSUME WorkerBegin PROVE WorkerTyped'
  <2> DEFINE f == worker.full \/ wm.indexed \notin line \/ \A p \in Paths : wm.files[p] = Absent
  <2>1. CASE worker' = NoWork
    BY <2>1 DEF NoWork, Typed, WorkerTyped
  <2>2. CASE worker' = [worker EXCEPT !.at = "reconcile", !.todo = Paths, !.full = f]
    <3>1. f \in BOOLEAN OBVIOUS
    <3> HIDE DEF f
    <3> QED BY <2>2, <3>1 DEF Typed, WorkerTyped
  <2> QED BY <1>2, <2>1, <2>2 DEF WorkerBegin
<1>3. ASSUME NEW p \in Paths, WorkerReconcile(p) PROVE WorkerTyped'
  <2>1. CASE NeedsWrite(p)
    BY <1>3, <2>1 DEF WorkerReconcile, Typed, WorkerTyped
  <2>2. CASE ~NeedsWrite(p)
    BY <1>3, <2>2 DEF WorkerReconcile, Typed, WorkerTyped
  <2> QED BY <2>1, <2>2
<1>4. ASSUME NEW p \in Paths, WorkerMismatch(p) PROVE WorkerTyped'
  BY <1>4 DEF WorkerMismatch, GiveUp, Forget, NoWork, git, database, locks, bounds, Typed,
     WorkerTyped, Values
<1>5. ASSUME WorkerProjected PROVE WorkerTyped'
  <2>1. CASE worker' = NoWork
    BY <2>1 DEF NoWork, Typed, WorkerTyped
  <2>2. CASE worker' = [worker EXCEPT !.at = "reconcile", !.todo = @ \ {worker.path}, !.path = None]
    BY <2>2 DEF Typed, WorkerTyped
  <2> QED BY <2>1, <2>2, <1>5 DEF WorkerProjected, GiveUp
<1>6. ASSUME WorkerSave PROVE WorkerTyped'
  <2>1. CASE worker' = NoWork
    BY <2>1 DEF NoWork, Typed, WorkerTyped
  <2>2. CASE worker' = [worker EXCEPT !.at = "publish"]
    BY <2>2 DEF Typed, WorkerTyped
  <2> QED BY <2>1, <2>2, <1>6 DEF WorkerSave, GiveUp
<1>7. ASSUME WorkerPublish PROVE WorkerTyped'
  <2>1. worker' = NoWork
    BY <1>7 DEF WorkerPublish, GiveUp
  <2> QED BY <2>1 DEF NoWork, Typed, WorkerTyped
<1>8. ASSUME Crash PROVE WorkerTyped'
  BY <1>8 DEF Crash, Fault, NoMark, NoTask, NoTick, NoRead, NoWrite, NoWork, NoToken, git,
     database, locks, bounds, Typed, WorkerTyped, Values
<1>9. ASSUME UNCHANGED worker PROVE WorkerTyped'
  BY <1>9 DEF Typed, WorkerTyped, Values
<1> QED
  BY <1>1, <1>2, <1>3, <1>4, <1>5, <1>6, <1>7, <1>8, <1>9
  DEF Next, Tick, Read, Write, Task, Work, Reconcile, Embed, vars, git, database, locks, bounds,
     TickWrite, TickEnd, TickFail, TickReport, ReadAdmit, ReadRow, ReadBody, ReadFails,
     WriteVisible, WriteRefused, WriteProject, WriteFinish, WriteCancel, SqlInvalidate, SqlNote,
     SqlComplete, SqlFails, EmbedCapture, EmbedComplete, EmbedFails, Restart

\* A task knows its path and its revision.
LEMMA TaskTypedStep ==
  ASSUME Typed, [Next]_vars PROVE TaskTyped'
<1>1. ASSUME WriteProject PROVE TaskTyped'
  BY <1>1 DEF WriteProject, NoTask, git, database, locks, bounds, Typed, TaskTyped, Values,
     WriterTyped, FilesTyped
<1>2. ASSUME WriteFinish PROVE TaskTyped'
  BY <1>2 DEF WriteFinish, Forget, NoTask, LetGo, NoWrite, git, database, locks, bounds, Typed,
     TaskTyped, Values, WriterTyped, FilesTyped
<1>3. ASSUME WriteCancel PROVE TaskTyped'
  BY <1>3 DEF WriteCancel, Fault, NoTask, LetGo, NoWrite, git, database, locks, bounds, Typed,
     TaskTyped, Values, WriterTyped, FilesTyped
<1>4. ASSUME SqlInvalidate PROVE TaskTyped'
  BY <1>4 DEF SqlInvalidate, Deletes, git, database, locks, bounds, Typed, TaskTyped, Values,
     WriterTyped, FilesTyped
<1>5. ASSUME SqlNote PROVE TaskTyped'
  BY <1>5 DEF SqlNote, Deletes, git, database, locks, bounds, Typed, TaskTyped, Values,
     WriterTyped, FilesTyped
<1>6. ASSUME SqlComplete PROVE TaskTyped'
  BY <1>6 DEF SqlComplete, Deletes, Done, NoTask, NoRow, git, database, locks, bounds, Typed,
     TaskTyped, Values, WriterTyped, FilesTyped
<1>7. ASSUME SqlFails PROVE TaskTyped'
  BY <1>7 DEF SqlFails, Fault, Done, NoTask, git, database, locks, bounds, Typed, TaskTyped,
     Values, WriterTyped, FilesTyped
<1>8. ASSUME NEW p \in Paths, WorkerReconcile(p) PROVE TaskTyped'
  <2>1. CASE NeedsWrite(p)
    BY <1>8, <2>1, ZenonT(40) DEF WorkerReconcile, Target, NoTask, Typed, TaskTyped, FilesTyped
  <2>2. CASE ~NeedsWrite(p)
    BY <1>8, <2>2 DEF WorkerReconcile, Typed, TaskTyped
  <2> QED BY <2>1, <2>2
<1>9. ASSUME WorkerProjected PROVE TaskTyped'
  BY <1>9 DEF WorkerProjected, GiveUp, Forget, NoTask, NoWork, git, database, locks, bounds, Typed,
     TaskTyped, Values, WriterTyped, FilesTyped
<1>10. ASSUME Crash PROVE TaskTyped'
  BY <1>10 DEF Crash, Fault, NoMark, NoTask, NoTick, NoRead, NoWrite, NoWork, NoToken, git,
     database, locks, bounds, Typed, TaskTyped, Values, WriterTyped, FilesTyped
<1>11. ASSUME UNCHANGED sql PROVE TaskTyped'
  BY <1>11 DEF Typed, TaskTyped, Values, WriterTyped, FilesTyped
<1> QED
  BY <1>1, <1>2, <1>3, <1>4, <1>5, <1>6, <1>7, <1>8, <1>9, <1>10, <1>11
  DEF Next, Tick, Read, Write, Task, Work, Reconcile, Embed, vars, git, database, locks, bounds,
     TickWrite, TickEnd, TickFail, TickReport, ReadAdmit, ReadRow, ReadBody, ReadFails,
     WriteVisible, WriteRefused, WorkerLock, WorkerBegin, WorkerMismatch, WorkerSave,
     WorkerPublish, EmbedCapture, EmbedComplete, EmbedFails, Restart

\* What is embedded is a content: only complete rows are.
LEMMA EmbedTypedStep ==
  ASSUME Shape, [Next]_vars PROVE EmbedTyped'
<1>1. ASSUME NEW p \in Paths, EmbedCapture(p) PROVE EmbedTyped'
  BY <1>1, ConstantsAssumption DEF EmbedCapture, SyncPending, git, database, locks, bounds, Shape,
     Typed, EmbedTyped, CountsTyped, FilesTyped, RowsStaged, Attested, Values, RowsTyped, Rows
<1>2. ASSUME EmbedComplete PROVE EmbedTyped'
  BY <1>2, ConstantsAssumption DEF EmbedComplete, NoToken, git, database, locks, bounds, Shape,
     Typed, EmbedTyped, CountsTyped, FilesTyped
<1>3. ASSUME EmbedFails PROVE EmbedTyped'
  BY <1>3, ConstantsAssumption DEF EmbedFails, NoToken, git, database, locks, bounds, Shape, Typed,
     EmbedTyped, CountsTyped, FilesTyped
<1>4. ASSUME Crash PROVE EmbedTyped'
  BY <1>4, ConstantsAssumption DEF Crash, Fault, NoMark, NoTask, NoTick, NoRead, NoWrite, NoWork,
     NoToken, git, database, locks, bounds, Shape, Typed, EmbedTyped, CountsTyped, FilesTyped
<1>5. ASSUME UNCHANGED embed PROVE EmbedTyped'
  BY <1>5 DEF Shape, Typed, EmbedTyped, CountsTyped, FilesTyped
<1> QED
  BY <1>1, <1>2, <1>3, <1>4, <1>5
  DEF Next, Tick, Read, Write, Task, Work, Reconcile, Embed, vars, git, database, locks, bounds,
     TickWrite, TickEnd, TickFail, TickReport, ReadAdmit, ReadRow, ReadBody, ReadFails,
     WriteVisible, WriteRefused, WriteProject, WriteFinish, WriteCancel, SqlInvalidate, SqlNote,
     SqlComplete, SqlFails, WorkerLock, WorkerBegin, WorkerReconcile, WorkerMismatch,
     WorkerProjected, WorkerSave, WorkerPublish, Restart

\* Locks are held by the actors at work and no others.
LEMMA LocksHeldStep ==
  ASSUME Shape, [Next]_vars PROVE LocksHeld'
<1>1. ASSUME NEW p \in Paths, NEW c \in Values, TickWrite(p, c) PROVE LocksHeld'
  BY <1>1, ConstantsAssumption DEF TickWrite, Ticking, git, database, locks, bounds, Shape, Typed,
     LocksHeld, Projecting, CountsTyped, TickTyped, ReaderTyped, WriterTyped, WorkerTyped, TaskTyped
<1>2. ASSUME TickEnd PROVE LocksHeld'
  BY <1>2, ConstantsAssumption DEF TickEnd, Ticking, git, database, locks, bounds, Shape, Typed,
     LocksHeld, Projecting, CountsTyped, TickTyped, ReaderTyped, WriterTyped, WorkerTyped, TaskTyped
<1>3. ASSUME TickFail PROVE LocksHeld'
  BY <1>3, ConstantsAssumption DEF TickFail, Fault, NoTick, git, database, locks, bounds, Shape,
     Typed, LocksHeld, Projecting, CountsTyped, TickTyped, ReaderTyped, WriterTyped, WorkerTyped,
     TaskTyped
<1>4. ASSUME TickReport PROVE LocksHeld'
  BY <1>4, ConstantsAssumption DEF TickReport, SyncPending, NoTick, git, database, locks, bounds,
     Shape, Typed, LocksHeld, Projecting, CountsTyped, TickTyped, ReaderTyped, WriterTyped,
     WorkerTyped, TaskTyped
<1>5. ASSUME NEW p \in Paths, ReadAdmit(p) PROVE LocksHeld'
  BY <1>5, ConstantsAssumption DEF ReadAdmit, NoRead, git, database, locks, bounds, Shape, Typed,
     LocksHeld, Projecting, CountsTyped, TickTyped, ReaderTyped, WriterTyped, WorkerTyped, TaskTyped
<1>6. ASSUME ReadRow PROVE LocksHeld'
  <2>1. CASE row[reader.path].note = Absent
    BY <1>6, <2>1 DEF ReadRow, NoRead, Shape, Typed, LocksHeld, Projecting, ReaderTyped
  <2>2. CASE row[reader.path].note # Absent
    BY <1>6, <2>2 DEF ReadRow, Shape, Typed, LocksHeld, Projecting, ReaderTyped
  <2> QED BY <2>1, <2>2
<1>7. ASSUME ReadBody PROVE LocksHeld'
  BY <1>7, ConstantsAssumption DEF ReadBody, NoRead, SyncPending, git, database, locks, bounds,
     Shape, Typed, LocksHeld, Projecting, CountsTyped, TickTyped, ReaderTyped, WriterTyped,
     WorkerTyped, TaskTyped
<1>8. ASSUME ReadFails PROVE LocksHeld'
  BY <1>8, ConstantsAssumption DEF ReadFails, NoRead, Dirty, Forget, Fault, git, database, locks,
     bounds, Shape, Typed, LocksHeld, Projecting, CountsTyped, TickTyped, ReaderTyped, WriterTyped,
     WorkerTyped, TaskTyped
<1>9. ASSUME NEW p \in Paths, NEW base \in Contents \cup {None}, NEW c \in Contents, WriteVisible(p, base, c) PROVE LocksHeld'
  BY <1>9, ConstantsAssumption DEF WriteVisible, WriteLocks, Unpublished, git, database, locks,
     bounds, Shape, Typed, LocksHeld, Projecting, CountsTyped, TickTyped, ReaderTyped, WriterTyped,
     WorkerTyped, TaskTyped
<1>10. ASSUME WriteProject PROVE LocksHeld'
  BY <1>10, ConstantsAssumption DEF WriteProject, NoTask, git, database, locks, bounds, Shape,
     Typed, LocksHeld, Projecting, CountsTyped, TickTyped, ReaderTyped, WriterTyped, WorkerTyped,
     TaskTyped
<1>11. ASSUME WriteFinish PROVE LocksHeld'
  BY <1>11, ConstantsAssumption DEF WriteFinish, Forget, NoTask, LetGo, NoWrite, git, database,
     locks, bounds, Shape, Typed, LocksHeld, Projecting, CountsTyped, TickTyped, ReaderTyped,
     WriterTyped, WorkerTyped, TaskTyped
<1>12. ASSUME WriteCancel PROVE LocksHeld'
  BY <1>12, ConstantsAssumption DEF WriteCancel, Fault, NoTask, LetGo, NoWrite, git, database,
     locks, bounds, Shape, Typed, LocksHeld, Projecting, CountsTyped, TickTyped, ReaderTyped,
     WriterTyped, WorkerTyped, TaskTyped
<1>13. ASSUME SqlInvalidate PROVE LocksHeld'
  BY <1>13, ConstantsAssumption DEF SqlInvalidate, Deletes, git, database, locks, bounds, Shape,
     Typed, LocksHeld, Projecting, CountsTyped, TickTyped, ReaderTyped, WriterTyped, WorkerTyped,
     TaskTyped
<1>14. ASSUME SqlNote PROVE LocksHeld'
  BY <1>14, ConstantsAssumption DEF SqlNote, Deletes, git, database, locks, bounds, Shape, Typed,
     LocksHeld, Projecting, CountsTyped, TickTyped, ReaderTyped, WriterTyped, WorkerTyped, TaskTyped
<1>15. ASSUME SqlComplete PROVE LocksHeld'
  BY <1>15, ConstantsAssumption DEF SqlComplete, Deletes, Done, NoTask, NoRow, git, database,
     locks, bounds, Shape, Typed, LocksHeld, Projecting, CountsTyped, TickTyped, ReaderTyped,
     WriterTyped, WorkerTyped, TaskTyped
<1>16. ASSUME SqlFails PROVE LocksHeld'
  BY <1>16, ConstantsAssumption DEF SqlFails, Fault, Done, NoTask, git, database, locks, bounds,
     Shape, Typed, LocksHeld, Projecting, CountsTyped, TickTyped, ReaderTyped, WriterTyped,
     WorkerTyped, TaskTyped
<1>17. ASSUME NEW audit \in BOOLEAN, WorkerLock(audit) PROVE LocksHeld'
  BY <1>17, ConstantsAssumption DEF WorkerLock, Fault, NoWork, git, database, locks, bounds, Shape,
     Typed, LocksHeld, Projecting, CountsTyped, TickTyped, ReaderTyped, WriterTyped, WorkerTyped,
     TaskTyped
<1>18. ASSUME WorkerBegin PROVE LocksHeld'
  <2>1. CASE AwaitsCommit
    BY <1>18, <2>1, ConstantsAssumption DEF WorkerBegin, NoWork, Shape, Typed, LocksHeld, Projecting,
       WorkerTyped
  <2>2. CASE ~AwaitsCommit
    BY <1>18, <2>2, ConstantsAssumption DEF WorkerBegin, Shape, Typed, LocksHeld, Projecting,
       WorkerTyped
  <2> QED BY <2>1, <2>2
<1>19. ASSUME NEW p \in Paths, WorkerReconcile(p) PROVE LocksHeld'
  <2>1. CASE NeedsWrite(p)
    BY <1>19, <2>1 DEF WorkerReconcile, locks, Shape, Typed, LocksHeld, Projecting, WorkerTyped
  <2>2. CASE ~NeedsWrite(p)
    BY <1>19, <2>2 DEF WorkerReconcile, locks, Shape, Typed, LocksHeld, Projecting, WorkerTyped
  <2> QED BY <2>1, <2>2
<1>20. ASSUME NEW p \in Paths, WorkerMismatch(p) PROVE LocksHeld'
  BY <1>20, ConstantsAssumption DEF WorkerMismatch, GiveUp, Forget, NoWork, git, database, locks,
     bounds, Shape, Typed, LocksHeld, Projecting, CountsTyped, TickTyped, ReaderTyped, WriterTyped,
     WorkerTyped, TaskTyped
<1>21. ASSUME WorkerProjected PROVE LocksHeld'
  <2>1. CASE sql.ok
    BY <1>21, <2>1 DEF WorkerProjected, Shape, NoTask, Typed, LocksHeld, Projecting, WorkerTyped
  <2>2. CASE ~sql.ok
    BY <1>21, <2>2, ConstantsAssumption DEF WorkerProjected, GiveUp, NoWork, NoTask, Shape, Typed,
       LocksHeld, Projecting, WorkerTyped
  <2> QED BY <2>1, <2>2
<1>22. ASSUME WorkerSave PROVE LocksHeld'
  BY <1>22, ConstantsAssumption DEF WorkerSave, GiveUp, Forget, NoWork, git, database, locks,
     bounds, Shape, Typed, LocksHeld, Projecting, CountsTyped, TickTyped, ReaderTyped, WriterTyped,
     WorkerTyped, TaskTyped
<1>23. ASSUME WorkerPublish PROVE LocksHeld'
  BY <1>23, ConstantsAssumption DEF WorkerPublish, GiveUp, Forget, NoMark, NoWork, git, database,
     locks, bounds, Shape, Typed, LocksHeld, Projecting, CountsTyped, TickTyped, ReaderTyped,
     WriterTyped, WorkerTyped, TaskTyped
<1>24. ASSUME Crash PROVE LocksHeld'
  BY <1>24, ConstantsAssumption DEF Crash, Fault, NoMark, NoTask, NoTick, NoRead, NoWrite, NoWork,
     NoToken, git, database, locks, bounds, Shape, Typed, LocksHeld, Projecting, CountsTyped,
     TickTyped, ReaderTyped, WriterTyped, WorkerTyped, TaskTyped
<1>25. ASSUME Restart PROVE LocksHeld'
  BY <1>25, ConstantsAssumption DEF Restart, NoMark, git, database, locks, bounds, Shape, Typed,
     LocksHeld, Projecting, CountsTyped, TickTyped, ReaderTyped, WriterTyped, WorkerTyped, TaskTyped
<1>26. ASSUME UNCHANGED <<mutex, plock, tick, reader, writer, worker, up, sql>> PROVE LocksHeld'
  BY <1>26 DEF Shape, Typed, LocksHeld, Projecting, CountsTyped, TickTyped, ReaderTyped,
     WriterTyped, WorkerTyped, TaskTyped
<1> QED
  BY <1>1, <1>2, <1>3, <1>4, <1>5, <1>6, <1>7, <1>8, <1>9, <1>10, <1>11, <1>12, <1>13, <1>14,
     <1>15, <1>16, <1>17, <1>18, <1>19, <1>20, <1>21, <1>22, <1>23, <1>24, <1>25, <1>26
  DEF Next, Tick, Read, Write, Task, Work, Reconcile, Embed, vars, git, database, locks, bounds,
     WriteRefused, EmbedCapture, EmbedComplete, EmbedFails

\* A task is run for one owner.
LEMMA TaskOwnedStep ==
  ASSUME Shape, [Next]_vars PROVE TaskOwned'
<1>1. ASSUME NEW p \in Paths, NEW base \in Contents \cup {None}, NEW c \in Contents, WriteVisible(p, base, c) PROVE TaskOwned'
  BY <1>1, ConstantsAssumption DEF WriteVisible, WriteLocks, Unpublished, git, database, locks,
     bounds, Shape, Typed, TaskOwned, LocksHeld, Projecting, WriterTyped, WorkerTyped, TaskTyped
<1>2. ASSUME WriteProject PROVE TaskOwned'
  BY <1>2, ConstantsAssumption DEF WriteProject, NoTask, git, database, locks, bounds, Shape,
     Typed, TaskOwned, LocksHeld, Projecting, WriterTyped, WorkerTyped, TaskTyped
<1>3. ASSUME WriteFinish PROVE TaskOwned'
  BY <1>3, ConstantsAssumption DEF WriteFinish, Forget, NoTask, LetGo, NoWrite, git, database,
     locks, bounds, Shape, Typed, TaskOwned, LocksHeld, Projecting, WriterTyped, WorkerTyped,
     TaskTyped
<1>4. ASSUME WriteCancel PROVE TaskOwned'
  BY <1>4, ConstantsAssumption DEF WriteCancel, Fault, NoTask, LetGo, NoWrite, git, database,
     locks, bounds, Shape, Typed, TaskOwned, LocksHeld, Projecting, WriterTyped, WorkerTyped,
     TaskTyped
<1>5. ASSUME SqlInvalidate PROVE TaskOwned'
  BY <1>5, ConstantsAssumption DEF SqlInvalidate, Deletes, git, database, locks, bounds, Shape,
     Typed, TaskOwned, LocksHeld, Projecting, WriterTyped, WorkerTyped, TaskTyped
<1>6. ASSUME SqlNote PROVE TaskOwned'
  BY <1>6, ConstantsAssumption DEF SqlNote, Deletes, git, database, locks, bounds, Shape, Typed,
     TaskOwned, LocksHeld, Projecting, WriterTyped, WorkerTyped, TaskTyped
<1>7. ASSUME SqlComplete PROVE TaskOwned'
  BY <1>7, ConstantsAssumption DEF SqlComplete, Deletes, Done, NoTask, NoRow, git, database, locks,
     bounds, Shape, Typed, TaskOwned, LocksHeld, Projecting, WriterTyped, WorkerTyped, TaskTyped
<1>8. ASSUME SqlFails PROVE TaskOwned'
  BY <1>8, ConstantsAssumption DEF SqlFails, Fault, Done, NoTask, git, database, locks, bounds,
     Shape, Typed, TaskOwned, LocksHeld, Projecting, WriterTyped, WorkerTyped, TaskTyped
<1>9. ASSUME NEW audit \in BOOLEAN, WorkerLock(audit) PROVE TaskOwned'
  BY <1>9, ConstantsAssumption DEF WorkerLock, Fault, NoWork, git, database, locks, bounds, Shape,
     Typed, TaskOwned, LocksHeld, Projecting, WriterTyped, WorkerTyped, TaskTyped
<1>10. ASSUME WorkerBegin PROVE TaskOwned'
  <2>1. CASE AwaitsCommit
    BY <1>10, <2>1 DEF WorkerBegin, NoWork, Shape, Typed, TaskOwned, LocksHeld, Projecting,
       WriterTyped, WorkerTyped, TaskTyped
  <2>2. CASE ~AwaitsCommit
    BY <1>10, <2>2 DEF WorkerBegin, Shape, Typed, TaskOwned, LocksHeld, Projecting, WriterTyped,
       WorkerTyped, TaskTyped
  <2> QED BY <2>1, <2>2
<1>11. ASSUME NEW p \in Paths, WorkerReconcile(p) PROVE TaskOwned'
  <2>1. CASE NeedsWrite(p)
    <3>1. sql'.at = "invalidate" /\ sql'.by = "worker" /\ sql'.path = p
      BY <1>11, <2>1 DEF WorkerReconcile, NoTask
    <3>2. worker'.at = "await" /\ worker'.path = p /\ writer'.at = "idle"
      BY <1>11, <2>1 DEF WorkerReconcile, Shape, Typed, LocksHeld, WorkerTyped
    <3> QED BY <3>1, <3>2 DEF TaskOwned
  <2>2. CASE ~NeedsWrite(p)
    BY <1>11, <2>2 DEF WorkerReconcile, Shape, Typed, TaskOwned, Projecting, WorkerTyped
  <2> QED BY <2>1, <2>2
<1>12. ASSUME NEW p \in Paths, WorkerMismatch(p) PROVE TaskOwned'
  BY <1>12, ConstantsAssumption DEF WorkerMismatch, GiveUp, Forget, NoWork, git, database, locks,
     bounds, Shape, Typed, TaskOwned, LocksHeld, Projecting, WriterTyped, WorkerTyped, TaskTyped
<1>13. ASSUME WorkerProjected PROVE TaskOwned'
  <2>1. CASE sql.ok
    BY <1>13, <2>1 DEF WorkerProjected, NoTask, Shape, Typed, TaskOwned, LocksHeld, Projecting,
       WriterTyped, WorkerTyped, TaskTyped
  <2>2. CASE ~sql.ok
    BY <1>13, <2>2 DEF WorkerProjected, GiveUp, NoWork, NoTask, Shape, Typed, TaskOwned, LocksHeld,
       Projecting, WriterTyped, WorkerTyped, TaskTyped
  <2> QED BY <2>1, <2>2
<1>14. ASSUME WorkerSave PROVE TaskOwned'
  BY <1>14, ConstantsAssumption DEF WorkerSave, GiveUp, Forget, NoWork, git, database, locks,
     bounds, Shape, Typed, TaskOwned, LocksHeld, Projecting, WriterTyped, WorkerTyped, TaskTyped
<1>15. ASSUME WorkerPublish PROVE TaskOwned'
  BY <1>15, ConstantsAssumption DEF WorkerPublish, GiveUp, Forget, NoMark, NoWork, git, database,
     locks, bounds, Shape, Typed, TaskOwned, LocksHeld, Projecting, WriterTyped, WorkerTyped,
     TaskTyped
<1>16. ASSUME Crash PROVE TaskOwned'
  BY <1>16, ConstantsAssumption DEF Crash, Fault, NoMark, NoTask, NoTick, NoRead, NoWrite, NoWork,
     NoToken, git, database, locks, bounds, Shape, Typed, TaskOwned, LocksHeld, Projecting,
     WriterTyped, WorkerTyped, TaskTyped
<1>17. ASSUME UNCHANGED <<writer, worker, sql>> PROVE TaskOwned'
  BY <1>17 DEF Shape, Typed, TaskOwned, LocksHeld, Projecting, WriterTyped, WorkerTyped, TaskTyped
<1> QED
  BY <1>1, <1>2, <1>3, <1>4, <1>5, <1>6, <1>7, <1>8, <1>9, <1>10, <1>11, <1>12, <1>13, <1>14,
     <1>15, <1>16, <1>17
  DEF Next, Tick, Read, Write, Task, Work, Reconcile, Embed, vars, git, database, locks, bounds,
     TickWrite, TickEnd, TickFail, TickReport, ReadAdmit, ReadRow, ReadBody, ReadFails,
     WriteRefused, EmbedCapture, EmbedComplete, EmbedFails, Restart

\* Rows are staged.
LEMMA RowsStagedStep ==
  ASSUME Shape, [Next]_vars PROVE RowsStaged'
<1>1. ASSUME WriteProject PROVE RowsStaged'
  BY <1>1, ConstantsAssumption DEF WriteProject, NoTask, git, database, locks, bounds, Shape,
     Typed, RowsStaged, SqlRevision, RowsTyped, Rows, TaskTyped, Values, WriterTyped
<1>2. ASSUME WriteFinish PROVE RowsStaged'
  BY <1>2, ConstantsAssumption DEF WriteFinish, Forget, NoTask, LetGo, NoWrite, git, database,
     locks, bounds, Shape, Typed, RowsStaged, SqlRevision, RowsTyped, Rows, TaskTyped, Values
<1>3. ASSUME WriteCancel PROVE RowsStaged'
  BY <1>3, ConstantsAssumption DEF WriteCancel, Fault, NoTask, LetGo, NoWrite, git, database,
     locks, bounds, Shape, Typed, RowsStaged, SqlRevision, RowsTyped, Rows, TaskTyped, Values
<1>4. ASSUME SqlInvalidate PROVE RowsStaged'
  BY <1>4, ConstantsAssumption DEF SqlInvalidate, Deletes, git, database, locks, bounds, Shape,
     Typed, RowsStaged, SqlRevision, RowsTyped, Rows, TaskTyped, Values
<1>5. ASSUME SqlNote PROVE RowsStaged'
  BY <1>5, ConstantsAssumption DEF SqlNote, Deletes, git, database, locks, bounds, Shape, Typed,
     RowsStaged, SqlRevision, RowsTyped, Rows, TaskTyped, Values
<1>6. ASSUME SqlComplete PROVE RowsStaged'
  BY <1>6, ConstantsAssumption DEF SqlComplete, Deletes, Done, NoTask, NoRow, git, database, locks,
     bounds, Shape, Typed, RowsStaged, SqlRevision, RowsTyped, Rows, TaskTyped, Values
<1>7. ASSUME SqlFails PROVE RowsStaged'
  BY <1>7, ConstantsAssumption DEF SqlFails, Fault, Done, NoTask, git, database, locks, bounds,
     Shape, Typed, RowsStaged, SqlRevision, RowsTyped, Rows, TaskTyped, Values
<1>8. ASSUME NEW p \in Paths, WorkerReconcile(p) PROVE RowsStaged'
  <2>1. CASE NeedsWrite(p)
    BY <1>8, <2>1 DEF WorkerReconcile, NoTask, database, Shape, RowsStaged, SqlRevision
  <2>2. CASE ~NeedsWrite(p)
    BY <1>8, <2>2 DEF WorkerReconcile, database, Shape, RowsStaged, SqlRevision
  <2> QED BY <2>1, <2>2
<1>9. ASSUME WorkerProjected PROVE RowsStaged'
  BY <1>9, ConstantsAssumption DEF WorkerProjected, GiveUp, Forget, NoTask, NoWork, git, database,
     locks, bounds, Shape, Typed, RowsStaged, SqlRevision, RowsTyped, Rows, TaskTyped, Values
<1>10. ASSUME EmbedComplete PROVE RowsStaged'
  BY <1>10, ConstantsAssumption DEF EmbedComplete, NoToken, git, database, locks, bounds, Shape,
     Typed, RowsStaged, SqlRevision, RowsTyped, Rows, TaskTyped, Values
<1>11. ASSUME Crash PROVE RowsStaged'
  BY <1>11, ConstantsAssumption DEF Crash, Fault, NoMark, NoTask, NoTick, NoRead, NoWrite, NoWork,
     NoToken, git, database, locks, bounds, Shape, Typed, RowsStaged, SqlRevision, RowsTyped, Rows,
     TaskTyped, Values
<1>12. ASSUME Restart PROVE RowsStaged'
  BY <1>12, ConstantsAssumption, SMTT(30) DEF Restart, NoMark, git, database, locks, bounds, Shape, Typed,
     RowsStaged, SqlRevision, RowsTyped, Rows, TaskTyped, Values
<1>13. ASSUME UNCHANGED <<row, sql>> PROVE RowsStaged'
  BY <1>13 DEF Shape, Typed, RowsStaged, SqlRevision, RowsTyped, Rows, TaskTyped, Values
<1> QED
  BY <1>1, <1>2, <1>3, <1>4, <1>5, <1>6, <1>7, <1>8, <1>9, <1>10, <1>11, <1>12, <1>13
  DEF Next, Tick, Read, Write, Task, Work, Reconcile, Embed, vars, git, database, locks, bounds,
     TickWrite, TickEnd, TickFail, TickReport, ReadAdmit, ReadRow, ReadBody, ReadFails,
     WriteVisible, WriteRefused, WorkerLock, WorkerBegin, WorkerMismatch, WorkerSave,
     WorkerPublish, EmbedCapture, EmbedFails

\* A task at work has its rows to itself: nobody reads, and in a ready view its path is
\* not published.
LEMMA TaskApart ==
  ASSUME Shape, ViewSettled, SqlInvalidate \/ SqlNote \/ SqlComplete
  PROVE  /\ sql.at # "idle" /\ sql.path \in Paths /\ \A q \in Paths \ {sql.path} : row'[q] = row[q]
         /\ reader.at = "idle" /\ worker.at # "publish"
         /\ wm.ready => sql.path \in wm.unpublished
         /\ UNCHANGED <<wm, writer, reader, worker, tree, file, acked>>
         /\ sql'.at # "idle" => sql'.by = sql.by /\ sql'.path = sql.path
<1>1. sql.path \in Paths /\ sql.at \notin {"idle", "done"}
  BY DEF Shape, Typed, TaskTyped, SqlInvalidate, SqlNote, SqlComplete
<1>2. \A q \in Paths \ {sql.path} : row'[q] = row[q]
  BY <1>1 DEF Shape, Typed, RowsTyped, SqlInvalidate, SqlNote, SqlComplete
<1>3. reader.at = "idle" /\ worker.at # "publish" /\ (wm.ready => sql.path \in wm.unpublished)
  BY <1>1 DEF Shape, LocksHeld, TaskOwned, ViewSettled, ReadAvailable, Projecting
<1>4. UNCHANGED <<wm, writer, reader, worker, tree, file, acked>>
  BY DEF SqlInvalidate, SqlNote, SqlComplete, git
<1>5. sql'.at # "idle" => sql'.by = sql.by /\ sql'.path = sql.path
  <2>1. CASE sql' = NoTask
    BY <2>1 DEF NoTask
  <2>2. CASE \E at, ok : sql' = [sql EXCEPT !.at = at, !.ok = ok]
    BY <2>2 DEF Shape, Typed, TaskTyped
  <2>3. CASE \E at : sql' = [sql EXCEPT !.at = at]
    BY <2>3 DEF Shape, Typed, TaskTyped
  <2> QED BY <2>1, <2>2, <2>3 DEF SqlInvalidate, SqlNote, SqlComplete, Done
<1> QED BY <1>1, <1>2, <1>3, <1>4, <1>5

\* A published path stays settled, and what a reader has taken of one is of one revision.
LEMMA ViewSettledStep ==
  ASSUME Shape, ViewSettled, [Next]_vars PROVE ViewSettled'
<1>1. ASSUME TickEnd PROVE ViewSettled'
  BY <1>1, ConstantsAssumption DEF TickEnd, Ticking, git, database, locks, bounds, Shape, Typed,
     ViewSettled, LocksHeld, TaskOwned, Projecting, ReadAvailable, SqlRevision, MarkTyped, Marks
<1>2. ASSUME TickReport PROVE ViewSettled'
  BY <1>2, ConstantsAssumption DEF TickReport, SyncPending, NoTick, git, database, locks, bounds,
     Shape, Typed, ViewSettled, LocksHeld, TaskOwned, Projecting, ReadAvailable, SqlRevision,
     MarkTyped, Marks
<1>3. ASSUME NEW p \in Paths, ReadAdmit(p) PROVE ViewSettled'
  BY <1>3, ConstantsAssumption DEF ReadAdmit, NoRead, git, database, locks, bounds, Shape, Typed,
     ViewSettled, LocksHeld, TaskOwned, Projecting, ReadAvailable, SqlRevision, MarkTyped, Marks
<1>4. ASSUME ReadRow PROVE ViewSettled'
  <2> DEFINE r == row[reader.path]
  <2>1. reader.path \in Paths /\ SqlRevision(reader.path) # None
    BY <1>4 DEF ReadRow, Shape, Typed, ReaderTyped, ViewSettled, ReadAvailable
  <2>2. r.note # Absent => r.parts = r.note
    BY <2>1 DEF SqlRevision, Shape, RowsStaged
  <2>3. reader'.at # "idle" => reader'.at = "body" /\ reader'.parts = r.parts /\ reader'.note = r.note /\ r.note # Absent
    <3>1. CASE r.note = Absent BY <1>4, <3>1 DEF ReadRow, NoRead
    <3>2. CASE r.note # Absent BY <1>4, <3>2 DEF ReadRow, Shape, Typed, ReaderTyped
    <3> QED BY <3>1, <3>2
  <2>4. UNCHANGED <<row, wm, sql, writer, worker, tree>>
    BY <1>4 DEF ReadRow, database, git
  <2> QED BY <1>4, <2>2, <2>3, <2>4 DEF ReadRow, ViewSettled, ReadAvailable, SqlRevision, Projecting
<1>5. ASSUME ReadBody PROVE ViewSettled'
  BY <1>5, ConstantsAssumption DEF ReadBody, NoRead, SyncPending, git, database, locks, bounds,
     Shape, Typed, ViewSettled, LocksHeld, TaskOwned, Projecting, ReadAvailable, SqlRevision,
     MarkTyped, Marks
<1>6. ASSUME ReadFails PROVE ViewSettled'
  BY <1>6, ConstantsAssumption DEF ReadFails, NoRead, Dirty, Forget, Fault, git, database, locks,
     bounds, Shape, Typed, ViewSettled, LocksHeld, TaskOwned, Projecting, ReadAvailable,
     SqlRevision, MarkTyped, Marks
<1>7. ASSUME NEW p \in Paths, NEW base \in Contents \cup {None}, NEW c \in Contents, WriteVisible(p, base, c) PROVE ViewSettled'
  BY <1>7, ConstantsAssumption DEF WriteVisible, WriteLocks, Unpublished, git, database, locks,
     bounds, Shape, Typed, ViewSettled, LocksHeld, TaskOwned, Projecting, ReadAvailable,
     SqlRevision, MarkTyped, Marks
<1>8. ASSUME NEW p \in Paths, WriteRefused(p) PROVE ViewSettled'
  BY <1>8, ConstantsAssumption DEF WriteRefused, SyncPending, git, database, locks, bounds, Shape,
     Typed, ViewSettled, LocksHeld, TaskOwned, Projecting, ReadAvailable, SqlRevision, MarkTyped,
     Marks
<1>9. ASSUME WriteProject PROVE ViewSettled'
  BY <1>9, ConstantsAssumption DEF WriteProject, NoTask, git, database, locks, bounds, Shape,
     Typed, ViewSettled, LocksHeld, TaskOwned, Projecting, ReadAvailable, SqlRevision, MarkTyped,
     Marks
<1>10. ASSUME WriteFinish PROVE ViewSettled'
  <2>1. sql'.at = "idle" /\ writer'.at = "idle" /\ UNCHANGED <<row, reader, worker, tree>>
    BY <1>10 DEF WriteFinish, NoTask, LetGo, NoWrite, database, git
  <2>2. reader.at = "idle" /\ ~Projecting
    BY <1>10 DEF WriteFinish, Shape, LocksHeld
  <2>3. CASE sql.ok
    <3>1. SqlRevision(writer.path) # None
      BY <1>10, <2>3, ConstantsAssumption DEF WriteFinish, Shape, Typed, WriterTyped, TaskOwned, RowsStaged
    <3>2. wm'.ready = wm.ready /\ wm'.unpublished = wm.unpublished \ {writer.path}
      BY <1>10, <2>3 DEF WriteFinish, Shape, Typed, MarkTyped, Marks
    <3> QED BY <2>1, <2>2, <3>1, <3>2 DEF ViewSettled, SqlRevision, Projecting
  <2>4. CASE ~sql.ok
    <3>1. wm'.ready = FALSE
      BY <1>10, <2>4 DEF WriteFinish, Shape, Typed, MarkTyped, Marks
    <3> QED BY <2>1, <2>2, <3>1 DEF ViewSettled, Projecting
  <2> QED BY <2>3, <2>4
<1>11. ASSUME WriteCancel PROVE ViewSettled'
  BY <1>11, ConstantsAssumption DEF WriteCancel, Fault, NoTask, LetGo, NoWrite, git, database,
     locks, bounds, Shape, Typed, ViewSettled, LocksHeld, TaskOwned, Projecting, ReadAvailable,
     SqlRevision, MarkTyped, Marks
<1>12. ASSUME SqlInvalidate PROVE ViewSettled'
  BY <1>12, TaskApart DEF ViewSettled, ReadAvailable, Projecting, SqlRevision
<1>13. ASSUME SqlNote PROVE ViewSettled'
  BY <1>13, TaskApart DEF ViewSettled, ReadAvailable, Projecting, SqlRevision
<1>14. ASSUME SqlComplete PROVE ViewSettled'
  BY <1>14, TaskApart DEF ViewSettled, ReadAvailable, Projecting, SqlRevision
<1>15. ASSUME SqlFails PROVE ViewSettled'
  BY <1>15, ConstantsAssumption DEF SqlFails, Fault, Done, NoTask, git, database, locks, bounds,
     Shape, Typed, ViewSettled, LocksHeld, TaskOwned, Projecting, ReadAvailable, SqlRevision,
     MarkTyped, Marks
<1>16. ASSUME NEW audit \in BOOLEAN, WorkerLock(audit) PROVE ViewSettled'
  BY <1>16, ConstantsAssumption DEF WorkerLock, Fault, NoWork, git, database, locks, bounds, Shape,
     Typed, ViewSettled, LocksHeld, TaskOwned, Projecting, ReadAvailable, SqlRevision, MarkTyped,
     Marks
<1>17. ASSUME WorkerBegin PROVE ViewSettled'
  <2>1. reader.at = "idle" /\ sql.at = "idle" /\ writer.at = "idle" /\ UNCHANGED <<row, reader, sql, writer, tree>>
    BY <1>17 DEF WorkerBegin, Shape, LocksHeld, database, git
  <2>2. CASE worker' = NoWork /\ UNCHANGED wm
    BY <2>1, <2>2 DEF NoWork, ViewSettled, SqlRevision, Projecting
  <2>3. CASE worker'.at = "reconcile" /\ wm' = [wm EXCEPT !.ready = FALSE, !.fresh = TRUE]
    <3>1. wm'.ready = FALSE
      BY <2>3 DEF Shape, Typed, MarkTyped, Marks
    <3> QED BY <2>1, <2>3, <3>1 DEF ViewSettled
  <2> QED BY <1>17, <2>2, <2>3 DEF WorkerBegin, Shape, Typed, WorkerTyped
<1>18. ASSUME NEW p \in Paths, WorkerReconcile(p) PROVE ViewSettled'
  <2>1. Projecting /\ ~wm.ready /\ writer.at = "idle" /\ reader.at = "idle"
    BY <1>18 DEF WorkerReconcile, Shape, LocksHeld, ViewSettled, Projecting
  <2>2. UNCHANGED <<row, wm, reader, writer, tree>>
    BY <1>18 DEF WorkerReconcile, database, git
  <2>3. worker'.at # "publish" /\ (sql' = sql \/ sql'.by = "worker")
    BY <1>18 DEF WorkerReconcile, NoTask, Shape, Typed, WorkerTyped
  <2> QED BY <2>1, <2>2, <2>3 DEF ViewSettled
<1>19. ASSUME NEW p \in Paths, WorkerMismatch(p) PROVE ViewSettled'
  BY <1>19, ConstantsAssumption DEF WorkerMismatch, GiveUp, Forget, NoWork, git, database, locks,
     bounds, Shape, Typed, ViewSettled, LocksHeld, TaskOwned, Projecting, ReadAvailable,
     SqlRevision, MarkTyped, Marks
<1>20. ASSUME WorkerProjected PROVE ViewSettled'
  <2>1. Projecting /\ ~wm.ready /\ writer.at = "idle" /\ reader.at = "idle"
    BY <1>20 DEF WorkerProjected, Shape, LocksHeld, ViewSettled, Projecting
  <2>2. sql'.at = "idle" /\ UNCHANGED <<row, reader, writer, tree>>
    BY <1>20 DEF WorkerProjected, NoTask, database, git
  <2>3. worker'.at # "publish" /\ ~wm'.ready
    <3>1. CASE sql.ok BY <1>20, <2>1, <3>1 DEF WorkerProjected, Shape, Typed, WorkerTyped
    <3>2. CASE ~sql.ok BY <1>20, <3>2 DEF WorkerProjected, GiveUp, NoWork, Shape, Typed, MarkTyped, Marks
    <3> QED BY <3>1, <3>2
  <2> QED BY <2>1, <2>2, <2>3 DEF ViewSettled
<1>21. ASSUME WorkerSave PROVE ViewSettled'
  <2>1. Projecting /\ ~wm.ready /\ writer.at = "idle" /\ reader.at = "idle" /\ sql.at = "idle"
    BY <1>21 DEF WorkerSave, Shape, LocksHeld, TaskOwned, ViewSettled, Projecting
  <2>2. UNCHANGED <<row, reader, writer, tree, sql>>
    BY <1>21 DEF WorkerSave, git
  <2>3. ~wm'.ready
    BY <1>21, <2>1 DEF WorkerSave, GiveUp, Shape, Typed, MarkTyped, Marks
  <2>4. worker'.at = "publish" => \A p \in Paths : SqlRevision(p) = tree[p]
    BY <1>21 DEF WorkerSave, Target, GiveUp, NoWork, Shape, Typed, WorkerTyped
  <2> QED BY <2>1, <2>2, <2>3, <2>4 DEF ViewSettled, SqlRevision
<1>22. ASSUME WorkerPublish PROVE ViewSettled'
  <2>1. writer.at = "idle" /\ reader.at = "idle" /\ sql.at = "idle"
    BY <1>22 DEF WorkerPublish, Shape, LocksHeld, TaskOwned, Projecting
  <2>2. worker'.at = "idle" /\ UNCHANGED <<row, reader, writer, tree, sql>>
    BY <1>22 DEF WorkerPublish, GiveUp, NoWork, git
  <2>3. \A p \in Paths : SqlRevision(p) = tree[p] /\ tree[p] # None
    BY <1>22, ConstantsAssumption DEF WorkerPublish, ViewSettled, Shape, Typed, FilesTyped, Values
  <2> QED BY <2>1, <2>2, <2>3 DEF ViewSettled, SqlRevision, Projecting
<1>23. ASSUME NEW p \in Paths, EmbedCapture(p) PROVE ViewSettled'
  BY <1>23, ConstantsAssumption DEF EmbedCapture, SyncPending, git, database, locks, bounds, Shape,
     Typed, ViewSettled, LocksHeld, TaskOwned, Projecting, ReadAvailable, SqlRevision, MarkTyped,
     Marks
<1>24. ASSUME EmbedComplete PROVE ViewSettled'
  BY <1>24, ConstantsAssumption DEF EmbedComplete, NoToken, git, database, locks, bounds, Shape,
     Typed, ViewSettled, LocksHeld, TaskOwned, Projecting, ReadAvailable, SqlRevision, MarkTyped,
     Marks
<1>25. ASSUME Crash PROVE ViewSettled'
  BY <1>25, ConstantsAssumption DEF Crash, Fault, NoMark, NoTask, NoTick, NoRead, NoWrite, NoWork,
     NoToken, git, database, locks, bounds, Shape, Typed, ViewSettled, LocksHeld, TaskOwned,
     Projecting, ReadAvailable, SqlRevision, MarkTyped, Marks
<1>26. ASSUME Restart PROVE ViewSettled'
  BY <1>26, ConstantsAssumption DEF Restart, NoMark, git, database, locks, bounds, Shape, Typed,
     ViewSettled, LocksHeld, TaskOwned, Projecting, ReadAvailable, SqlRevision, MarkTyped, Marks
<1>27. ASSUME UNCHANGED <<row, wm, sql, writer, reader, worker, tree>> PROVE ViewSettled'
  BY <1>27 DEF Shape, Typed, ViewSettled, LocksHeld, TaskOwned, Projecting, ReadAvailable,
     SqlRevision, MarkTyped, Marks
<1> QED
  BY <1>1, <1>2, <1>3, <1>4, <1>5, <1>6, <1>7, <1>8, <1>9, <1>10, <1>11, <1>12, <1>13, <1>14,
     <1>15, <1>16, <1>17, <1>18, <1>19, <1>20, <1>21, <1>22, <1>23, <1>24, <1>25, <1>26, <1>27
  DEF Next, Tick, Read, Write, Task, Work, Reconcile, Embed, vars, git, database, locks, bounds,
     TickWrite, TickFail, EmbedFails

\* What was acknowledged stays in the file and in the view, or with the worker.
LEMMA AckedKeptStep ==
  ASSUME Shape, ViewSettled, AckedKept, [Next]_vars PROVE AckedKept'
<1>1. ASSUME NEW p \in Paths, NEW c \in Values, TickWrite(p, c) PROVE AckedKept'
  BY <1>1, ConstantsAssumption DEF TickWrite, Ticking, git, database, locks, bounds, Shape, Typed,
     ViewSettled, AckedKept, LocksHeld, TaskOwned, Projecting, Expected, SqlRevision, MarkTyped,
     Marks, FilesTyped
<1>2. ASSUME TickEnd PROVE AckedKept'
  BY <1>2, ConstantsAssumption DEF TickEnd, Ticking, git, database, locks, bounds, Shape, Typed,
     ViewSettled, AckedKept, LocksHeld, TaskOwned, Projecting, Expected, SqlRevision, MarkTyped,
     Marks, FilesTyped
<1>3. ASSUME TickReport PROVE AckedKept'
  BY <1>3, ConstantsAssumption DEF TickReport, SyncPending, NoTick, git, database, locks, bounds,
     Shape, Typed, ViewSettled, AckedKept, LocksHeld, TaskOwned, Projecting, Expected, SqlRevision,
     MarkTyped, Marks, FilesTyped
<1>4. ASSUME ReadBody PROVE AckedKept'
  BY <1>4, ConstantsAssumption DEF ReadBody, NoRead, SyncPending, git, database, locks, bounds,
     Shape, Typed, ViewSettled, AckedKept, LocksHeld, TaskOwned, Projecting, Expected, SqlRevision,
     MarkTyped, Marks, FilesTyped
<1>5. ASSUME ReadFails PROVE AckedKept'
  BY <1>5, ConstantsAssumption DEF ReadFails, NoRead, Dirty, Forget, Fault, git, database, locks,
     bounds, Shape, Typed, ViewSettled, AckedKept, LocksHeld, TaskOwned, Projecting, Expected,
     SqlRevision, MarkTyped, Marks, FilesTyped
<1>6. ASSUME NEW p \in Paths, NEW base \in Contents \cup {None}, NEW c \in Contents, WriteVisible(p, base, c) PROVE AckedKept'
  BY <1>6, ConstantsAssumption DEF WriteVisible, WriteLocks, Unpublished, git, database, locks,
     bounds, Shape, Typed, ViewSettled, AckedKept, LocksHeld, TaskOwned, Projecting, Expected,
     SqlRevision, MarkTyped, Marks, FilesTyped
<1>7. ASSUME NEW p \in Paths, WriteRefused(p) PROVE AckedKept'
  BY <1>7, ConstantsAssumption DEF WriteRefused, SyncPending, git, database, locks, bounds, Shape,
     Typed, ViewSettled, AckedKept, LocksHeld, TaskOwned, Projecting, Expected, SqlRevision,
     MarkTyped, Marks, FilesTyped
<1>8. ASSUME WriteProject PROVE AckedKept'
  BY <1>8, ConstantsAssumption DEF WriteProject, NoTask, git, database, locks, bounds, Shape,
     Typed, ViewSettled, AckedKept, LocksHeld, TaskOwned, Projecting, Expected, SqlRevision,
     MarkTyped, Marks, FilesTyped
<1>9. ASSUME WriteFinish PROVE AckedKept'
  <2>1. writer'.at = "idle" /\ UNCHANGED <<row, worker, tree, file>> /\ ~Projecting
    BY <1>9 DEF WriteFinish, LetGo, NoWrite, database, git, Shape, LocksHeld
  <2>2. CASE sql.ok
    <3>1. writer.path \in Paths /\ SqlRevision(writer.path) = writer.new /\ writer.new # None
      BY <1>9, <2>2, ConstantsAssumption DEF WriteFinish, Shape, Typed, WriterTyped, TaskOwned, RowsStaged
    <3>2. /\ wm'.ready = wm.ready /\ wm'.unpublished = wm.unpublished \ {writer.path}
          /\ wm'.pending = wm.pending /\ wm'.files = wm.files
      BY <1>9, <2>2 DEF WriteFinish, Shape, Typed, MarkTyped, Marks
    <3>3. Expected(writer.path) = writer.new
      BY <1>9, <3>1 DEF WriteFinish, AckedKept, Expected
    <3>4. \A p \in Paths : acked'[p] = acked[p] \/ (p = writer.path /\ wm.ready /\ acked'[p] = writer.new)
      BY <1>9, <2>2, <3>1 DEF WriteFinish, Shape, Typed, FilesTyped
    <3> QED BY <1>9, <2>1, <3>1, <3>2, <3>3, <3>4 DEF WriteFinish, AckedKept, SqlRevision, Expected, Projecting
  <2>3. CASE ~sql.ok
    <3>1. \A p \in Paths : acked'[p] = None
      BY <1>9, <2>3 DEF WriteFinish, Forget
    <3> QED BY <2>1, <3>1 DEF AckedKept, Projecting
  <2> QED BY <2>2, <2>3
<1>10. ASSUME WriteCancel PROVE AckedKept'
  BY <1>10, ConstantsAssumption DEF WriteCancel, Fault, NoTask, LetGo, NoWrite, git, database,
     locks, bounds, Shape, Typed, ViewSettled, AckedKept, LocksHeld, TaskOwned, Projecting,
     Expected, SqlRevision, MarkTyped, Marks, FilesTyped
<1>11. ASSUME SqlInvalidate PROVE AckedKept'
  BY <1>11, TaskApart DEF AckedKept, Projecting, SqlRevision, Expected
<1>12. ASSUME SqlNote PROVE AckedKept'
  BY <1>12, TaskApart DEF AckedKept, Projecting, SqlRevision, Expected
<1>13. ASSUME SqlComplete PROVE AckedKept'
  BY <1>13, TaskApart DEF AckedKept, Projecting, SqlRevision, Expected
<1>14. ASSUME NEW audit \in BOOLEAN, WorkerLock(audit) PROVE AckedKept'
  BY <1>14, ConstantsAssumption DEF WorkerLock, Fault, NoWork, git, database, locks, bounds, Shape,
     Typed, ViewSettled, AckedKept, LocksHeld, TaskOwned, Projecting, Expected, SqlRevision,
     MarkTyped, Marks, FilesTyped
<1>15. ASSUME WorkerBegin PROVE AckedKept'
  <2>1. ~Projecting /\ writer.at = "idle" /\ UNCHANGED <<row, writer, tree, file, acked>>
    BY <1>15 DEF WorkerBegin, Shape, LocksHeld, database, git, Projecting
  <2>2. CASE AwaitsCommit
    <3>1. worker'.at = "idle" /\ UNCHANGED wm
      BY <1>15, <2>2 DEF WorkerBegin, NoWork
    <3> QED BY <2>1, <3>1 DEF AckedKept, SqlRevision, Expected, Projecting
  <2>3. CASE ~AwaitsCommit
    <3>1. worker'.at = "reconcile" /\ worker'.todo = Paths
      BY <1>15, <2>3 DEF WorkerBegin, Shape, Typed, WorkerTyped
    <3>2. (\A q \in Paths : wm.files[q] = Absent) => worker'.full
      BY <1>15, <2>3 DEF WorkerBegin, Shape, Typed, WorkerTyped
    <3>3. ~wm'.ready /\ wm'.unpublished = wm.unpublished /\ wm'.files = wm.files
      BY <1>15, <2>3 DEF WorkerBegin, Shape, Typed, MarkTyped, Marks
    <3>4. ASSUME NEW p \in Paths, acked[p] # None
          PROVE  worker'.full \/ tree[p] = acked[p] \/ wm.files[p] = acked[p]
      <4>1. CASE wm.ready
        BY <2>3, <3>4, <4>1 DEF AwaitsCommit, AckedKept, Expected
      <4>2. CASE ~wm.ready
        BY <2>1, <3>2, <3>4, <4>2 DEF AckedKept
      <4> QED BY <4>1, <4>2
    <3> QED BY <2>1, <3>1, <3>3, <3>4 DEF AckedKept, Projecting
  <2> QED BY <2>2, <2>3
<1>16. ASSUME NEW p \in Paths, WorkerReconcile(p) PROVE AckedKept'
  <2>1. Projecting /\ ~wm.ready /\ writer.at = "idle"
    BY <1>16 DEF WorkerReconcile, Shape, LocksHeld, ViewSettled, Projecting
  <2>2. UNCHANGED <<row, wm, writer, tree, file, acked>>
    BY <1>16 DEF WorkerReconcile, database, git
  <2>3. acked[p] # None => tree[p] = acked[p]
    BY <1>16, <2>1 DEF WorkerReconcile, Verified, Changed, Target, AckedKept
  <2>4. /\ Projecting' /\ worker'.at # "publish" /\ worker'.full = worker.full
        /\ worker.todo \subseteq worker'.todo \cup {p} /\ (worker'.at = "await" => worker'.path = p)
    BY <1>16 DEF WorkerReconcile, Projecting, Shape, Typed, WorkerTyped
  <2> QED BY <2>1, <2>2, <2>3, <2>4 DEF AckedKept
<1>17. ASSUME NEW p \in Paths, WorkerMismatch(p) PROVE AckedKept'
  BY <1>17, ConstantsAssumption DEF WorkerMismatch, GiveUp, Forget, NoWork, git, database, locks,
     bounds, Shape, Typed, ViewSettled, AckedKept, LocksHeld, TaskOwned, Projecting, Expected,
     SqlRevision, MarkTyped, Marks, FilesTyped
<1>18. ASSUME WorkerProjected PROVE AckedKept'
  <2>1. Projecting /\ ~wm.ready /\ writer.at = "idle" /\ UNCHANGED <<row, writer, tree, file>>
    BY <1>18 DEF WorkerProjected, Shape, LocksHeld, ViewSettled, Projecting, database, git
  <2>2. CASE sql.ok
    <3>1. /\ worker'.at = "reconcile" /\ worker'.full = worker.full
          /\ worker'.todo = worker.todo \ {worker.path} /\ UNCHANGED <<wm, acked>>
      BY <1>18, <2>2 DEF WorkerProjected, Shape, Typed, WorkerTyped
    <3> QED BY <1>18, <2>1, <3>1 DEF WorkerProjected, AckedKept, Projecting
  <2>3. CASE ~sql.ok
    <3>1. worker'.at = "idle" /\ \A p \in Paths : acked'[p] = None
      BY <1>18, <2>3 DEF WorkerProjected, GiveUp, NoWork, Forget
    <3> QED BY <2>1, <3>1 DEF AckedKept
  <2> QED BY <2>2, <2>3
<1>19. ASSUME WorkerSave PROVE AckedKept'
  <2>1. Projecting /\ ~wm.ready /\ writer.at = "idle" /\ UNCHANGED <<row, writer, tree, file>>
    BY <1>19 DEF WorkerSave, Shape, LocksHeld, ViewSettled, Projecting, git
  <2>2. CASE worker' = [worker EXCEPT !.at = "publish"] /\ UNCHANGED <<wm, acked>>
    <3>1. worker'.at = "publish" /\ worker'.full = worker.full /\ worker'.todo = {} /\ worker.todo = {}
      BY <1>19, <2>2 DEF WorkerSave, Shape, Typed, WorkerTyped
    <3> QED BY <2>1, <2>2, <3>1 DEF AckedKept, Projecting
  <2>3. CASE GiveUp
    <3>1. worker'.at = "idle" /\ \A p \in Paths : acked'[p] = None
      BY <2>3 DEF GiveUp, NoWork, Forget
    <3> QED BY <2>1, <3>1 DEF AckedKept
  <2> QED BY <1>19, <2>2, <2>3 DEF WorkerSave
<1>20. ASSUME WorkerPublish PROVE AckedKept'
  <2>1. Projecting /\ writer.at = "idle" /\ UNCHANGED <<row, writer, tree, file>>
    BY <1>20 DEF WorkerPublish, Shape, LocksHeld, Projecting, git
  <2>2. CASE wm.fresh
    <3>1. worker'.at = "idle" /\ UNCHANGED acked
      BY <1>20, <2>2 DEF WorkerPublish, NoWork
    <3>2. /\ wm'.ready /\ wm'.unpublished = {} /\ wm'.files = tree
          /\ wm'.pending = [p \in Paths |-> None]
      BY <1>20, <2>2 DEF WorkerPublish, NoMark
    <3>3. \A p \in Paths : acked[p] # None => tree[p] = acked[p] /\ file[p] = acked[p] /\ SqlRevision(p) = acked[p]
      BY <1>20, <2>1 DEF WorkerPublish, AckedKept, ViewSettled
    <3> QED BY <2>1, <3>1, <3>2, <3>3 DEF AckedKept, Expected, SqlRevision, Projecting
  <2>3. CASE ~wm.fresh
    <3>1. worker'.at = "idle" /\ \A p \in Paths : acked'[p] = None
      BY <1>20, <2>3 DEF WorkerPublish, GiveUp, NoWork, Forget
    <3> QED BY <2>1, <3>1 DEF AckedKept
  <2> QED BY <2>2, <2>3
<1>21. ASSUME NEW p \in Paths, EmbedCapture(p) PROVE AckedKept'
  BY <1>21, ConstantsAssumption DEF EmbedCapture, SyncPending, git, database, locks, bounds, Shape,
     Typed, ViewSettled, AckedKept, LocksHeld, TaskOwned, Projecting, Expected, SqlRevision,
     MarkTyped, Marks, FilesTyped
<1>22. ASSUME EmbedComplete PROVE AckedKept'
  BY <1>22, ConstantsAssumption DEF EmbedComplete, NoToken, git, database, locks, bounds, Shape,
     Typed, ViewSettled, AckedKept, LocksHeld, TaskOwned, Projecting, Expected, SqlRevision,
     MarkTyped, Marks, FilesTyped
<1>23. ASSUME Crash PROVE AckedKept'
  BY <1>23, ConstantsAssumption DEF Crash, Fault, NoMark, NoTask, NoTick, NoRead, NoWrite, NoWork,
     NoToken, git, database, locks, bounds, Shape, Typed, ViewSettled, AckedKept, LocksHeld,
     TaskOwned, Projecting, Expected, SqlRevision, MarkTyped, Marks, FilesTyped
<1>24. ASSUME Restart PROVE AckedKept'
  BY <1>24, ConstantsAssumption DEF Restart, NoMark, git, database, locks, bounds, Shape, Typed,
     ViewSettled, AckedKept, LocksHeld, TaskOwned, Projecting, Expected, SqlRevision, MarkTyped,
     Marks, FilesTyped
<1>25. ASSUME UNCHANGED <<file, row, wm, writer, worker, tree, acked>> PROVE AckedKept'
  BY <1>25 DEF Shape, Typed, ViewSettled, AckedKept, LocksHeld, TaskOwned, Projecting, Expected,
     SqlRevision, MarkTyped, Marks, FilesTyped
<1> QED
  BY <1>1, <1>2, <1>3, <1>4, <1>5, <1>6, <1>7, <1>8, <1>9, <1>10, <1>11, <1>12, <1>13, <1>14,
     <1>15, <1>16, <1>17, <1>18, <1>19, <1>20, <1>21, <1>22, <1>23, <1>24, <1>25
  DEF Next, Tick, Read, Write, Task, Work, Reconcile, Embed, vars, git, database, locks, bounds,
     TickFail, ReadAdmit, ReadRow, SqlFails, EmbedFails

-----------------------------------------------------------------------------
(* The theorems *)

\* The vault as the Bridge first finds it.
LEMMA ServedInit == Init => ServedInv
<1> SUFFICES ASSUME Init PROVE ServedInv
  OBVIOUS
<1>1. FilesTyped /\ HeadsCounted /\ CountsTyped
  BY ConstantsAssumption DEF Init, FilesTyped, HeadsCounted, CountsTyped, Values, NoMark
<1>2. RowsTyped /\ MarkTyped
  BY ConstantsAssumption DEF Init, RowsTyped, Rows, NoRow, MarkTyped, Marks, NoMark, Values
<1>3. TickTyped /\ ReaderTyped /\ WriterTyped
  BY DEF Init, TickTyped, NoTick, ReaderTyped, NoRead, WriterTyped, NoWrite
<1>4. WorkerTyped /\ TaskTyped
  BY DEF Init, WorkerTyped, NoWork, TaskTyped, NoTask
<1>5. EmbedTyped
  BY ConstantsAssumption DEF Init, EmbedTyped, NoToken
<1>6. LocksHeld /\ TaskOwned
  BY ConstantsAssumption
     DEF Init, LocksHeld, TaskOwned, Projecting, NoTick, NoRead, NoWrite, NoWork, NoTask
<1>7. RowsStaged
  BY DEF Init, RowsStaged, NoRow, NoTask
<1>8. ViewSettled /\ AckedKept
  BY DEF Init, ViewSettled, AckedKept, Projecting, NoMark, NoTask, NoWrite, NoRead, NoWork
<1> QED BY <1>1, <1>2, <1>3, <1>4, <1>5, <1>6, <1>7, <1>8 DEF ServedInv, Shape, Typed

\* Every step of every actor keeps the invariant.
LEMMA ServedStep == ServedInv /\ [Next]_vars => ServedInv'
<1> SUFFICES ASSUME ServedInv, [Next]_vars PROVE ServedInv'
  OBVIOUS
<1>1. Typed /\ Shape /\ ViewSettled /\ AckedKept
  BY DEF ServedInv, Shape
<1>2. FilesTyped' /\ HeadsCounted' /\ RowsTyped' /\ MarkTyped' /\ CountsTyped'
  BY <1>1, FilesTypedStep, HeadsCountedStep, RowsTypedStep, MarkTypedStep, CountsTypedStep
<1>3. TickTyped' /\ ReaderTyped' /\ WriterTyped' /\ WorkerTyped' /\ TaskTyped' /\ EmbedTyped'
  BY <1>1, TickTypedStep, ReaderTypedStep, WriterTypedStep, WorkerTypedStep, TaskTypedStep,
     EmbedTypedStep
<1>4. LocksHeld' /\ TaskOwned' /\ RowsStaged' /\ ViewSettled' /\ AckedKept'
  BY <1>1, LocksHeldStep, TaskOwnedStep, RowsStagedStep, ViewSettledStep, AckedKeptStep
<1> QED BY <1>2, <1>3, <1>4 DEF ServedInv, Shape, Typed

\* The invariant holds in every reachable state.
LEMMA Served == Spec => []ServedInv
BY ServedInit, ServedStep, PTL DEF Spec

\* Types, and locks held by the actors that are at work and no others.
THEOREM TypeCorrect == Spec => []TypeOK
<1>1. ServedInv => TypeOK
  <2> SUFFICES ASSUME ServedInv PROVE TypeOK
    OBVIOUS
  <2>1. {file, tree} \subseteq [Paths -> Values] /\ acked \in [Paths -> Contents \cup {None}]
    BY DEF ServedInv, Shape, Typed, FilesTyped
  <2>2. /\ head \in 1..MaxEdits + 1 /\ line \subseteq 1..head /\ cursor \in 0..head
        /\ edits \in 0..MaxEdits /\ head \in Nat
    BY ConstantsAssumption DEF ServedInv, Shape, Typed, HeadsCounted
  <2>3. wm \in [ready : BOOLEAN, fresh : BOOLEAN, indexed : 0..head, files : [Paths -> Values],
                pending : [Paths -> Contents \cup {None}], unpublished : SUBSET Paths]
    BY <2>2 DEF ServedInv, Shape, Typed, MarkTyped, Marks, HeadsCounted
  <2>4. plock = {"reader"} \/ (reader.at = "idle" /\ plock \in {{}, {"writer"}, {"worker"}})
    BY DEF ServedInv, Shape, LocksHeld
  <2> QED BY <2>1, <2>2, <2>3, <2>4
          DEF ServedInv, Shape, Typed, RowsTyped, Rows, CountsTyped, LocksHeld, TypeOK
<1> QED BY <1>1, Served, PTL

\* What an API read answers with is of one revision: sql_read_guard admits it only to a
\* view whose rows no task can be rewriting, and keeps it that way until the body is read.
THEOREM ReadsOfOneRevision == Spec => []ReadsAreCoherent
<1>1. ServedInv => ReadsAreCoherent
  BY DEF ServedInv, ViewSettled, ReadsAreCoherent
<1> QED BY <1>1, Served, PTL

\* An acknowledged write stays readable: the worker waits for its commit, verifies the file,
\* or finds it in the manifest, before it publishes the view again.
THEOREM AcknowledgedWritesReadable == Spec => []OwnWriteReadable
<1>1. ServedInv => OwnWriteReadable
  <2> SUFFICES ASSUME ServedInv, ReadAvailable, plock \subseteq {"reader"},
                      NEW p \in Paths, acked[p] # None
               PROVE  Attested(p, acked[p]) /\ SqlRevision(p) = acked[p] /\ row[p].parts = acked[p]
    BY DEF OwnWriteReadable
  <2>1. file[p] = acked[p] /\ Expected(p) = acked[p] /\ SqlRevision(p) = acked[p]
    BY DEF ServedInv, AckedKept, ReadAvailable
  <2>2. acked[p] \in Contents
    BY DEF ServedInv, Shape, Typed, FilesTyped
  <2>3. row[p].parts = acked[p]
    BY <2>1, <2>2, ConstantsAssumption DEF ServedInv, Shape, RowsStaged, SqlRevision
  <2> QED BY <2>1, <2>3 DEF Attested
<1> QED BY <1>1, Served, PTL

\* No step leaves a vector behind that belongs to another revision or another model.
LEMMA VectorsMatchStep ==
  ASSUME Shape, VectorsMatch, [Next]_vars PROVE VectorsMatch'
<1>1. ASSUME SqlInvalidate PROVE VectorsMatch'
  BY <1>1 DEF SqlInvalidate, Deletes, git, database, locks, bounds, Shape, Typed, VectorsMatch,
     RowsTyped, Rows, TaskTyped, EmbedTyped
<1>2. ASSUME SqlNote PROVE VectorsMatch'
  BY <1>2 DEF SqlNote, Deletes, git, database, locks, bounds, Shape, Typed, VectorsMatch,
     RowsTyped, Rows, TaskTyped, EmbedTyped
<1>3. ASSUME SqlComplete PROVE VectorsMatch'
  BY <1>3 DEF SqlComplete, Deletes, Done, NoTask, NoRow, git, database, locks, bounds, Shape,
     Typed, VectorsMatch, RowsTyped, Rows, TaskTyped, EmbedTyped
<1>4. ASSUME EmbedComplete PROVE VectorsMatch'
  BY <1>4 DEF EmbedComplete, NoToken, git, database, locks, bounds, Shape, Typed, VectorsMatch,
     RowsTyped, Rows, TaskTyped, EmbedTyped, Matches
<1>5. ASSUME Restart PROVE VectorsMatch'
  BY <1>5 DEF Restart, NoMark, git, database, locks, bounds, Shape, Typed, VectorsMatch, RowsTyped,
     Rows, TaskTyped, EmbedTyped
<1>6. ASSUME UNCHANGED <<row, model>> PROVE VectorsMatch'
  BY <1>6 DEF Shape, Typed, VectorsMatch, RowsTyped, Rows, TaskTyped, EmbedTyped
<1> QED
  BY <1>1, <1>2, <1>3, <1>4, <1>5, <1>6
  DEF Next, Tick, Read, Write, Task, Work, Reconcile, Embed, vars, git, database, locks, bounds,
     TickWrite, TickEnd, TickFail, TickReport, ReadAdmit, ReadRow, ReadBody, ReadFails,
     WriteVisible, WriteRefused, WriteProject, WriteFinish, WriteCancel, SqlFails, WorkerLock,
     WorkerBegin, WorkerReconcile, WorkerMismatch, WorkerProjected, WorkerSave, WorkerPublish,
     EmbedCapture, EmbedFails, Crash

\* A vector belongs to the note's revision and the configured model: complete_embedding
\* compares both, every statement that replaces a note drops the vector of another
\* revision, and a new model drops them all.
THEOREM VectorsCurrent == Spec => []VectorsMatch
<1>1. Init => VectorsMatch
  BY DEF Init, VectorsMatch, NoRow
<1>2. ServedInv /\ VectorsMatch /\ [Next]_vars => VectorsMatch'
  BY VectorsMatchStep DEF ServedInv
<1> QED BY <1>1, <1>2, Served, PTL DEF Spec

=============================================================================
