-------------------------- MODULE OperationHistory --------------------------
(***************************************************************************)
(* The metadata store of the OBTS server and the handoff of finished       *)
(* operation rows from its JSON file to the per-vault SQLite ledger        *)
(* (metadataStore.ts, operationHistoryStore.ts).                           *)
(*                                                                         *)
(* The store writes one file with a candidate copy of everything it knows  *)
(* (temporary file, rename, directory fsync).  A handoff takes three       *)
(* steps: the file names the rows in a descriptor, the ledger commits them *)
(* in a transaction, the file drops them and counts one generation more.   *)
(* All writers wait in one queue; a request holds the lock of its vault    *)
(* around several of them.  The process may die between any two steps, and *)
(* a restart either completes the handoff or refuses to serve.             *)
(***************************************************************************)
EXTENDS Integers, FiniteSets, FiniteSetsExt

CONSTANTS
  Vaults,       \* vault ids
  NoVault,      \* the vault of an unused row
  Ops,          \* operation ids
  NoOp,         \* nobody's operation
  Keys,         \* what a retry is recognised by: device and target commit
  NoKey,
  Bases,        \* base commits that requests name
  NoBase,       \* not prepared yet
  MaxBatch,     \* rows of one handoff
  FaultMixes,   \* the kinds of fault that may happen together in one behaviour
  MaxFaults     \* bound on the faults of one behaviour

FaultKinds == {"crash", "power_loss", "write", "fsync", "ledger"}

ASSUME HistoryAssumption ==
  /\ NoVault \notin Vaults /\ NoOp \notin Ops /\ NoKey \notin Keys /\ NoBase \notin Bases
  /\ IsFiniteSet(Ops)
  /\ MaxBatch \in Nat \ {0} /\ MaxFaults \in Nat
  /\ FaultMixes \subseteq SUBSET FaultKinds

\* Power fails only where no earlier process left a rename unsynced: startup trusts the
\* file it reads and opens the ledgers without syncing the directory again.
ASSUME FaultsApart == \A m \in FaultMixes : "power_loss" \in m => m = {"power_loss"}

VARIABLES
  file,     \* the metadata file as the next start reads it
  synced,   \* the metadata file that survives a power loss
  mem,      \* this.db, what requests see
  cand,     \* the candidate being published
  view,     \* the copy of the loaded state the startup loop works on
  ledger,   \* the SQLite ledgers
  mode,     \* of the process: down, starting, refused, serving
  pc,       \* where the holder of the write queue is
  task,     \* what it publishes, and for which vault
  todo,     \* vaults whose ledger the startup still has to open
  latched,  \* durabilityUncertain
  worker,   \* the push that holds each vault's lock
  finished, \* entries some published state held as finished (history)
  mix,      \* the fault mix of this behaviour
  faults    \* faults so far

vars == <<file, synced, mem, cand, view, ledger, mode, pc, task, todo, latched, worker,
          finished, mix, faults>>
processVars == <<mem, cand, view, mode, pc, task, todo, latched, worker>>

-----------------------------------------------------------------------------
(* The metadata file and the ledgers.                                      *)

RowStatus == {"none", "open", "pushed", "done"}
VaultStatus == {"absent", "active", "deleting", "finalizing", "deleted"}

\* `open` is started or prepared, `pushed` committed with its merge pending, `done`
\* committed or aborted for good.  `base` is requested_base_commit, which is recorded
\* with proposal_base.
Row == [vault : Vaults \cup {NoVault}, key : Keys \cup {NoKey}, base : Bases \cup {NoBase},
        seq : Nat, status : RowStatus]
NoRow == [vault |-> NoVault, key |-> NoKey, base |-> NoBase, seq |-> 0, status |-> "none"]

Entry == [op : Ops, row : Row]

\* operation_history_by_vault; `batch` is the pending descriptor, {} when null (a
\* descriptor is never empty), its parent generation the recorded one.
History == [known : BOOLEAN, gen : Nat, next : Nat, init : BOOLEAN, batch : SUBSET Entry]
NoHistory == [known |-> FALSE, gen |-> 0, next |-> 1, init |-> FALSE, batch |-> {}]

Metadata == [vault : [Vaults -> VaultStatus], rows : [Ops -> Row], hist : [Vaults -> History]]

\* ledger_meta, operations and batches of one SQLite file.
Ledger == [made : BOOLEAN, gen : Nat, max : Nat, rows : SUBSET Entry, proofs : SUBSET SUBSET Entry]
NoLedger == [made |-> FALSE, gen |-> 0, max |-> 0, rows |-> {}, proofs |-> {}]
EmptyLedger == [NoLedger EXCEPT !.made = TRUE]

\* Vaults whose history is in use.
Live(d) == {v \in Vaults : d.vault[v] = "active"}

RowsOf(d, v) == {o \in Ops : d.rows[o].vault = v}
Entries(d, O) == {[op |-> o, row |-> d.rows[o]] : o \in O}
Finished(d) == Entries(d, {o \in Ops : d.rows[o].status = "done"})

\* verifyAvailable, verifyOnDisk: the ledger and the file agree.
Agrees(d, v) ==
  /\ ledger[v].made
  /\ ledger[v].gen = d.hist[v].gen
  /\ ledger[v].max < d.hist[v].next

Unsettled(d, v) == ~ d.hist[v].known \/ d.hist[v].init \/ d.hist[v].batch # {}

\* assertOperational
Operational == ~ latched /\ \A v \in Live(mem) : ~ Unsettled(mem, v) /\ Agrees(mem, v)

-----------------------------------------------------------------------------
(* Publishing a candidate: every write of the store goes through `persist`. *)

NoTask == [kind |-> "none", vault |-> NoVault]
NoWorker == [op |-> NoOp, base |-> NoBase]
Nothing == [vault |-> [v \in Vaults |-> "absent"], rows |-> [o \in Ops |-> NoRow],
            hist |-> [v \in Vaults |-> NoHistory]]

Publish(kind, v, d) ==
  /\ cand' = d
  /\ task' = [kind |-> kind, vault |-> v]
  /\ pc' = "write"

\* A queued mutation: assertOperational, then the candidate.
Mutate(v, d) ==
  /\ pc = "idle" /\ Operational
  /\ Publish("mutate", v, d)
  /\ UNCHANGED <<file, synced, mem, view, ledger, mode, todo, latched, finished, mix, faults>>

\* The temporary file is written, synced and renamed over the metadata file.
Rename ==
  /\ pc = "write"
  /\ file' = cand
  /\ pc' = "sync"
  /\ UNCHANGED <<synced, mem, cand, view, ledger, mode, task, todo, latched, worker, finished,
                 mix, faults>>

Released(v) == [worker EXCEPT ![v] = NoWorker]

InitPending(d) == {v \in Live(d) : d.hist[v].init}

\* The directory is synced: the candidate becomes this.db, and the publisher goes on.
SyncDirectory ==
  /\ pc = "sync"
  /\ synced' = file
  /\ mem' = cand
  /\ finished' = finished \cup Finished(cand)
  /\ pc' = CASE task.kind = "describe" -> "commit"
             [] task.kind \in {"number", "recover", "settle_start"} -> "open"
             [] task.kind \in {"mutate", "settle"} /\ InitPending(cand) # {} -> "settle"
             [] OTHER -> "idle"
  /\ task' = IF task.kind = "describe" THEN task ELSE NoTask
  /\ view' = IF task.kind \in {"number", "settle_start"} THEN cand ELSE view
  /\ todo' = IF task.kind \in {"recover", "settle_start"} THEN todo \ {task.vault} ELSE todo
  /\ worker' = IF task.kind = "finish" THEN Released(task.vault) ELSE worker
  /\ cand' = Nothing
  /\ UNCHANGED <<file, ledger, mode, latched, mix, faults>>

Fault(k) == k \in mix /\ faults < MaxFaults /\ faults' = faults + 1

\* The process ends; what it had in memory is gone.
Stop ==
  /\ mode' = "down" /\ pc' = "idle" /\ task' = NoTask /\ todo' = {} /\ latched' = FALSE
  /\ mem' = Nothing /\ cand' = Nothing /\ view' = Nothing
  /\ worker' = [v \in Vaults |-> NoWorker]

\* A request whose row was never admitted ends with the error; one that has a row
\* may still abort it.
MayGoOn == task.vault # NoVault => /\ worker[task.vault].op # NoOp
                                   /\ mem.rows[worker[task.vault].op] # NoRow
Ended == IF task.vault = NoVault THEN worker ELSE Released(task.vault)

\* An error ends the queued function: startup gives up; while serving, the store
\* stops trusting itself or not, and the request may release its vault.
Throw(latch) ==
  IF mode = "starting" THEN Stop
  ELSE /\ pc' = "idle" /\ task' = NoTask /\ cand' = Nothing
       /\ latched' = (latched \/ latch)
       /\ worker' \in {IF MayGoOn THEN worker ELSE Ended, Ended}
       /\ UNCHANGED <<mem, view, mode, todo>>

\* An error before the rename leaves the old file: only a handoff latches.
WriteFails ==
  /\ pc = "write" /\ Fault("write")
  /\ Throw(task.kind \in {"describe", "finish"})
  /\ UNCHANGED <<file, synced, ledger, finished, mix>>

\* MetadataPublicationError: the rename or the directory fsync failed, and either
\* file may be there.  initializePendingHistories does not latch by itself.
PublicationFails ==
  /\ \/ pc = "write" /\ Fault("fsync") /\ file' \in {file, cand}
     \/ pc = "sync" /\ Fault("fsync") /\ UNCHANGED file
  /\ Throw(task.kind # "settle")
  /\ UNCHANGED <<synced, ledger, finished, mix>>

-----------------------------------------------------------------------------
(* The handoff.                                                            *)

Eligible(v) == {o \in RowsOf(mem, v) : mem.rows[o].status = "done"}

\* The oldest rows, at most MaxBatch.
IsBatch(B, E) ==
  /\ B \subseteq E /\ B # {}
  /\ Cardinality(B) <= MaxBatch /\ (B = E \/ Cardinality(B) = MaxBatch)
  /\ \A o \in B, p \in E \ B : mem.rows[o].seq < mem.rows[p].seq

\* Mutant: the descriptor names the rows without their content.
DescribedById(v, B) == [mem EXCEPT !.hist[v].batch = B]

Described(v, B) == [mem EXCEPT !.hist[v].batch = Entries(mem, B)]

\* archiveEligibleUnqueued and the first half of publishHistoryBatch.
StartHandoff(v) ==
  /\ pc = "idle" /\ Operational /\ mem.vault[v] = "active"
  /\ \E B \in SUBSET Eligible(v) : IsBatch(B, Eligible(v)) /\ Publish("describe", v, Described(v, B))
  /\ UNCHANGED <<file, synced, mem, view, ledger, mode, todo, latched, worker, finished, mix, faults>>

Sequences(B) == {e.row.seq : e \in B}

\* commitBatch: the proof of an earlier commit, or the rows, the proof and the
\* counters in one transaction.
CommitRefuses(v, gen, B) ==
  IF B \in ledger[v].proofs
  THEN ledger[v].gen # gen + 1 \/ ~ B \subseteq ledger[v].rows
  ELSE ledger[v].gen # gen \/ \E e \in B, f \in ledger[v].rows : e.op = f.op
Committed(v, B) ==
  IF B \in ledger[v].proofs THEN ledger
  ELSE [ledger EXCEPT ![v] =
         [made |-> TRUE, gen |-> @.gen + 1, max |-> Max({@.max} \cup Sequences(B)),
          rows |-> @.rows \cup B, proofs |-> @.proofs \cup {B}]]

\* Mutant: every finished row is dropped, not only the described ones.
DroppedFinished(d, v) ==
  [d EXCEPT !.rows = [o \in Ops |-> IF d.rows[o].vault = v /\ d.rows[o].status = "done"
                                    THEN NoRow ELSE d.rows[o]],
            !.hist[v].gen = @ + 1,
            !.hist[v].batch = {}]

\* Mutant: the rows stay in the file.
DroppedNothing(d, v) == [d EXCEPT !.hist[v].gen = @ + 1, !.hist[v].batch = {}]

\* Mutant: the generation is not advanced.
DroppedSameGeneration(d, v) ==
  [d EXCEPT !.rows = [o \in Ops |-> IF d.rows[o].vault = v /\ \E e \in d.hist[v].batch : e.op = o
                                    THEN NoRow ELSE d.rows[o]],
            !.hist[v].batch = {}]

\* finishHistoryBatch: exactly the described rows leave the file.
Dropped(d, v) ==
  [d EXCEPT !.rows = [o \in Ops |-> IF d.rows[o].vault = v /\ \E e \in d.hist[v].batch : e.op = o
                                    THEN NoRow ELSE d.rows[o]],
            !.hist[v].gen = @ + 1,
            !.hist[v].batch = {}]

\* The second half of publishHistoryBatch.
CommitBatch ==
  LET v == task.vault B == mem.hist[v].batch IN
    /\ pc = "commit"
    /\ IF CommitRefuses(v, mem.hist[v].gen, B)
       THEN Throw(TRUE) /\ UNCHANGED ledger
       ELSE /\ ledger' = Committed(v, B)
            /\ Publish("finish", v, Dropped(mem, v))
            /\ UNCHANGED <<mem, view, mode, todo, latched, worker>>
    /\ UNCHANGED <<file, synced, finished, mix, faults>>

\* The transaction, or the fsync after it, fails.
CommitFails ==
  /\ pc = "commit" /\ Fault("ledger")
  /\ ledger' \in {ledger, Committed(task.vault, mem.hist[task.vault].batch)}
  /\ Throw(TRUE)
  /\ UNCHANGED <<file, synced, finished, mix>>

-----------------------------------------------------------------------------
(* Vault creation: initializePendingHistories runs after every mutation.   *)

CreateVault(v) ==
  /\ mode = "serving" /\ mem.vault[v] = "absent"
  /\ Mutate(NoVault, [mem EXCEPT !.vault[v] = "active",
                                 !.hist[v] = [NoHistory EXCEPT !.known = TRUE, !.init = TRUE]])
  /\ UNCHANGED worker

\* Mutant: a ledger that is already there is replaced.
OpenedAnew(v) == [ledger EXCEPT ![v] = EmptyLedger]

\* open with allowCreate: the ledger is staged and published, or one that an
\* interrupted attempt left is adopted.
Opened(v) == IF ledger[v].made THEN ledger ELSE [ledger EXCEPT ![v] = EmptyLedger]

\* The ledger exists and is durable before the file stops calling it pending.
SettleVault(v) ==
  /\ pc = "settle" /\ v \in InitPending(mem)
  /\ IF ledger[v].made => Agrees(mem, v)
     THEN /\ ledger' = Opened(v)
          /\ Publish("settle", NoVault, [mem EXCEPT !.hist[v].init = FALSE])
          /\ UNCHANGED <<mem, view, mode, todo, latched, worker>>
     ELSE Throw(TRUE) /\ UNCHANGED ledger
  /\ UNCHANGED <<file, synced, finished, mix, faults>>

SettleFails ==
  /\ pc = "settle" /\ Fault("ledger")
  /\ \E v \in InitPending(mem) : ledger' \in {ledger, Opened(v)}
  /\ Throw(TRUE)
  /\ UNCHANGED <<file, synced, finished, mix>>

-----------------------------------------------------------------------------
(* A push and its row; the lock of the vault is held from admission to the  *)
(* handoff at its end.                                                     *)

FreshOp(o) == mem.rows[o] = NoRow /\ \A v \in Vaults : \A e \in ledger[v].rows : e.op # o

\* Mutant: only the rows still in the file are consulted.
PriorHot(v, k) ==
  {r \in {mem.rows[o] : o \in RowsOf(mem, v)} : r.key = k /\ r.base # NoBase}

\* findArchivedAttempt and findArchivedTargetCandidates with the hot rows: what an
\* earlier attempt fixed as its proposal base.
Prior(v, k) ==
  {r \in {mem.rows[o] : o \in RowsOf(mem, v)} \cup {e.row : e \in ledger[v].rows} :
     r.key = k /\ r.base # NoBase}

Admitted(v, k) == CHOOSE r \in Prior(v, k) : \A q \in Prior(v, k) : r.seq <= q.seq

\* startOperation inside the mutation of integrateDeviceCommit; a retry with another
\* base than its first admission is refused (no row, no step).
Admit(v, o, k, b) ==
  /\ mode = "serving" /\ mem.vault[v] = "active" /\ worker[v] = NoWorker /\ FreshOp(o)
  /\ Prior(v, k) # {} => Admitted(v, k).base = b
  /\ Mutate(v, [mem EXCEPT
       !.rows[o] = [vault |-> v, key |-> k, seq |-> mem.hist[v].next, status |-> "open",
                    base |-> IF Prior(v, k) # {} THEN b ELSE NoBase],
       !.hist[v].next = @ + 1])
  /\ worker' = [worker EXCEPT ![v] = [op |-> o, base |-> b]]

Holds(v) == mode = "serving" /\ worker[v] # NoWorker
HeldRow(v) == mem.rows[worker[v].op]

\* The prepared row records the base it was validated against.
Prepare(v) ==
  /\ Holds(v) /\ HeldRow(v).status = "open" /\ HeldRow(v).base = NoBase
  /\ Mutate(v, [mem EXCEPT !.rows[worker[v].op].base = worker[v].base])
  /\ UNCHANGED worker

\* Committed with or without a pending merge (only a prepared row), or aborted.
Complete(v, st) ==
  /\ Holds(v) /\ HeldRow(v).status = "open" /\ st \in {"pushed", "done"}
  /\ st = "pushed" => HeldRow(v).base # NoBase
  /\ Mutate(v, [mem EXCEPT !.rows[worker[v].op].status = st])
  /\ UNCHANGED worker

\* finishExistingDeviceCommit: committed at once, with the base of this request.
CompleteExisting(v, st) ==
  /\ Holds(v) /\ HeldRow(v).status = "open" /\ st \in {"pushed", "done"}
  /\ Mutate(v, [mem EXCEPT !.rows[worker[v].op].status = st,
                           !.rows[worker[v].op].base = worker[v].base])
  /\ UNCHANGED worker

\* The merge of a pushed commit is settled: its row may leave the file.
Merge(v, o) ==
  /\ Holds(v) /\ o \in RowsOf(mem, v) /\ mem.rows[o].status = "pushed"
  /\ Mutate(v, [mem EXCEPT !.rows[o].status = "done"])
  /\ UNCHANGED worker

Archive(v) == Holds(v) /\ HeldRow(v).status # "open" /\ StartHandoff(v)

\* Nothing to archive, or the vault is being deleted: the lock is released.
Release(v) ==
  /\ Holds(v) /\ HeldRow(v).status # "open" /\ pc = "idle" /\ Operational
  /\ Eligible(v) = {} \/ mem.vault[v] # "active"
  /\ worker' = Released(v)
  /\ UNCHANGED <<file, synced, mem, cand, view, ledger, mode, pc, task, todo, latched, finished,
                 mix, faults>>

\* Every request of a latched store fails; its locks are released.
RequestFails(v) ==
  /\ Holds(v) /\ pc = "idle" /\ latched
  /\ worker' = Released(v)
  /\ UNCHANGED <<file, synced, mem, cand, view, ledger, mode, pc, task, todo, latched, finished,
                 mix, faults>>

-----------------------------------------------------------------------------
(* Deletion of a vault: intent, erasure once its requests have drained, and *)
(* removal of its rows.                                                    *)

RequestDelete(v) ==
  /\ mode = "serving" /\ mem.vault[v] = "active"
  /\ Mutate(NoVault, [mem EXCEPT !.vault[v] = "deleting"])
  /\ UNCHANGED worker

\* The requests of the vault have drained and its Git store is gone.
StartErasure(v) ==
  /\ mode = "serving" /\ mem.vault[v] = "deleting" /\ worker[v] = NoWorker
  /\ Mutate(NoVault, [mem EXCEPT !.vault[v] = "finalizing"])
  /\ UNCHANGED worker

EraseHistory(v) ==
  /\ mode = "serving" /\ pc = "idle" /\ mem.vault[v] = "finalizing"
  /\ ledger[v].made
  /\ ledger' = [ledger EXCEPT ![v] = NoLedger]
  /\ UNCHANGED <<file, synced, processVars, finished, mix, faults>>

FinalizeDelete(v) ==
  /\ mode = "serving" /\ mem.vault[v] = "finalizing" /\ ~ ledger[v].made
  /\ Mutate(NoVault, [vault |-> [mem.vault EXCEPT ![v] = "deleted"],
                      rows |-> [o \in Ops |-> IF mem.rows[o].vault = v THEN NoRow ELSE mem.rows[o]],
                      hist |-> [mem.hist EXCEPT ![v] = NoHistory]])
  /\ UNCHANGED worker

-----------------------------------------------------------------------------
(* Readiness and the latch.                                                *)

\* Mutant: the probe does not excuse a handoff under way.
ReadinessProbeEager ==
  /\ mode = "serving"
  /\ latched' = (latched \/ \E v \in Live(mem) : ~ Agrees(mem, v))
  /\ UNCHANGED <<file, synced, mem, cand, view, ledger, mode, pc, task, todo, worker, finished,
                 mix, faults>>

\* isReady runs at any time, outside the queue; it latches when a vault that is not
\* in the middle of a handoff or a creation disagrees with its ledger.
ReadinessProbe ==
  /\ mode = "serving"
  /\ latched' = (latched \/ \E v \in Live(mem) : ~ Unsettled(mem, v) /\ ~ Agrees(mem, v))
  /\ UNCHANGED <<file, synced, mem, cand, view, ledger, mode, pc, task, todo, worker, finished,
                 mix, faults>>

\* assertOperational of a queued request, or of a snapshot: a snapshot awaits the queue
\* as it was when it was asked for and goes on before whoever joined the queue later.
AssertLatches ==
  /\ mode = "serving" /\ pc = "idle" /\ ~ latched /\ ~ Operational
  /\ latched' = TRUE
  /\ UNCHANGED <<file, synced, mem, cand, view, ledger, mode, pc, task, todo, worker, finished,
                 mix, faults>>

\* A latched server is restarted.
Restart ==
  /\ mode = "serving" /\ pc = "idle" /\ latched
  /\ Stop
  /\ UNCHANGED <<file, synced, ledger, finished, mix, faults>>

Crash ==
  /\ mode \in {"starting", "serving"} /\ Fault("crash")
  /\ Stop
  /\ UNCHANGED <<file, synced, ledger, finished, mix>>

\* A rename that no directory fsync followed may be undone.
PowerLoss ==
  /\ mode \in {"starting", "serving"} /\ Fault("power_loss")
  /\ file' \in {file, synced} /\ synced' = file'
  /\ Stop
  /\ UNCHANGED <<ledger, finished, mix>>

-----------------------------------------------------------------------------
(* Startup: initializeOperationHistory, reconciliation, compaction.         *)

Present(d) == {v \in Vaults : d.vault[v] \in {"active", "deleting", "finalizing"}}
Unknown(d) == {v \in Present(d) : ~ d.hist[v].known}

\* The rows of a vault are numbered in their order in the file and stay below the
\* next number; rows of a vault without history state are not numbered yet.
WellNumbered(d) ==
  /\ \A v \in Vaults \ Present(d) : ~ d.hist[v].known
  /\ \A o \in Ops : d.rows[o] # NoRow => d.rows[o].vault \in Present(d)
  /\ \A v \in Unknown(d) : \A o \in RowsOf(d, v) : d.rows[o].seq = 0
  /\ \A v \in Present(d) \ Unknown(d) : \A o, p \in RowsOf(d, v) :
       /\ d.rows[o].seq > 0 /\ d.rows[o].seq < d.hist[v].next
       /\ d.rows[o].seq = d.rows[p].seq => o = p

\* Legacy rows get 1, 2, ... in the order of the file.
IsNumbering(f, d) ==
  \A v \in Unknown(d) :
    /\ \A o \in RowsOf(d, v) : f[o] \in 1..Cardinality(RowsOf(d, v))
    /\ \A o, p \in RowsOf(d, v) : f[o] = f[p] => o = p
Numbered(d, f) ==
  [d EXCEPT
    !.rows = [o \in Ops |-> IF d.rows[o].vault \in Unknown(d)
                            THEN [d.rows[o] EXCEPT !.seq = f[o]] ELSE d.rows[o]],
    !.hist = [v \in Vaults |->
               IF v \in Unknown(d)
               THEN [known |-> TRUE, gen |-> 0, next |-> Cardinality(RowsOf(d, v)) + 1,
                     init |-> TRUE, batch |-> {}]
               ELSE d.hist[v]]]

Refuse ==
  /\ mode' = "refused"
  /\ UNCHANGED <<file, synced, mem, cand, view, ledger, pc, task, todo, latched, worker, finished,
                 mix, faults>>

\* A vault that has no history state yet gets one.
Start ==
  /\ mem' = file /\ view' = file
  /\ mode' = "starting" /\ todo' = Live(file)
  /\ IF Unknown(file) = {}
     THEN pc' = "open" /\ UNCHANGED <<cand, task>>
     ELSE \E f \in [Ops -> 0..Cardinality(Ops)] :
            /\ IsNumbering(f, file)
            /\ \A o \in Ops : file.rows[o].vault \notin Unknown(file) => f[o] = 0
            /\ Publish("number", NoVault, Numbered(file, f))
  /\ UNCHANGED <<file, synced, ledger, latched, worker, finished, mix, faults>>

\* The file is read and validated.
Load == mode = "down" /\ IF WellNumbered(file) THEN Start ELSE Refuse

\* validateHistoryBatch: every described row is in the file as described.
ValidBatch(d, v) == d.hist[v].batch \subseteq Finished(d)

\* verifyOpenState: without a descriptor the generations agree; with one the ledger
\* is at the parent and holds none of its rows, or at the target and proves it.
ProvenOpen(d, v) ==
  LET h == d.hist[v] L == ledger[v] IN
    /\ L.max < h.next
    /\ \/ h.batch = {} /\ L.gen = h.gen
       \/ /\ h.batch # {} /\ L.gen = h.gen /\ h.batch \notin L.proofs
          /\ \A e \in h.batch, f \in L.rows : e.op # f.op /\ e.row.seq # f.row.seq
       \/ /\ h.batch # {} /\ L.gen = h.gen + 1
          /\ h.batch \in L.proofs /\ h.batch \subseteq L.rows

MayOpen(d, v) ==
  /\ d.hist[v].init => d.hist[v].gen = 0 /\ d.hist[v].batch = {}
  /\ ValidBatch(d, v)
  /\ ledger[v].made \/ d.hist[v].init
  /\ ledger[v].made => ProvenOpen(d, v)

Open(v) ==
  /\ ledger' = Opened(v)
  /\ IF view.hist[v].init
     THEN Publish("settle_start", v, [mem EXCEPT !.hist[v].init = FALSE]) /\ UNCHANGED todo
     ELSE todo' = todo \ {v} /\ UNCHANGED <<cand, task, pc>>
  /\ UNCHANGED <<file, synced, mem, view, mode, latched, worker, finished, mix, faults>>

\* A settled vault is opened; a pending creation is completed on the current state.
OpenVault(v) ==
  /\ pc = "open" /\ v \in todo /\ view.hist[v].batch = {}
  /\ IF MayOpen(view, v) THEN Open(v) ELSE Refuse

\* Mutant: recovery gives up on a batch the ledger does not have yet.
RecoverBatchAtTarget(v) ==
  /\ pc = "open" /\ v \in todo /\ MayOpen(view, v) /\ view.hist[v].batch # {}
  /\ IF view.hist[v].batch \in ledger[v].proofs
     THEN Publish("recover", v, Dropped(view, v)) /\ UNCHANGED <<mem, view, mode, todo, latched, worker>>
     ELSE Stop
  /\ UNCHANGED <<file, synced, ledger, finished, mix, faults>>

\* recoverHistoryBatch: the batch is committed again, or found committed, and its
\* rows are dropped from the copy the loop works on.
Recover(v) ==
  /\ ledger' = Committed(v, view.hist[v].batch)
  /\ Publish("recover", v, Dropped(view, v))
  /\ UNCHANGED <<file, synced, mem, view, mode, todo, latched, worker, finished, mix, faults>>

RecoverBatch(v) ==
  /\ pc = "open" /\ v \in todo /\ view.hist[v].batch # {}
  /\ IF MayOpen(view, v) /\ ~ CommitRefuses(v, view.hist[v].gen, view.hist[v].batch)
     THEN Recover(v)
     ELSE Refuse

OpenFails ==
  /\ pc = "open" /\ todo # {} /\ Fault("ledger")
  /\ Stop
  /\ UNCHANGED <<file, synced, ledger, finished, mix>>

HistoriesOpen ==
  /\ pc = "open" /\ todo = {}
  /\ pc' = "idle" /\ view' = Nothing
  /\ UNCHANGED <<file, synced, mem, cand, ledger, mode, task, todo, latched, worker, finished,
                 mix, faults>>

OpenRows == {o \in Ops : mem.rows[o].status = "open" /\ mem.rows[o].vault \in Live(mem)}

\* reconcileStartupOperations settles every row a dead process left open.
Reconcile(o, st) ==
  /\ mode = "starting" /\ o \in OpenRows /\ st \in {"pushed", "done"}
  /\ st = "pushed" => mem.rows[o].base # NoBase
  /\ Mutate(NoVault, [mem EXCEPT !.rows[o].status = st])
  /\ UNCHANGED worker

Compact(v) == mode = "starting" /\ OpenRows = {} /\ StartHandoff(v)

\* The server listens once nothing is left to settle or to archive; a store that is
\* not operational ends the startup.
Listen ==
  /\ mode = "starting" /\ pc = "idle"
  /\ Operational => OpenRows = {} /\ \A v \in Live(mem) : Eligible(v) = {}
  /\ mode' = IF Operational THEN "serving" ELSE "refused"
  /\ UNCHANGED <<file, synced, mem, cand, view, ledger, pc, task, todo, latched, worker, finished,
                 mix, faults>>

-----------------------------------------------------------------------------
\* An installation from before the ledgers: finished rows without numbers.
Legacy(d) ==
  /\ \A v \in Vaults : d.vault[v] \in {"absent", "active"} /\ d.hist[v] = NoHistory
  /\ \A o \in Ops :
       \/ d.rows[o] = NoRow
       \/ /\ d.rows[o].vault \in Live(d) /\ d.rows[o].key \in Keys /\ d.rows[o].base \in Bases
          /\ d.rows[o].seq = 0 /\ d.rows[o].status = "done"
  /\ \A o, p \in Ops : /\ d.rows[o].vault = d.rows[p].vault /\ d.rows[o].key = d.rows[p].key
                       => d.rows[o].base = d.rows[p].base

LegacyRow ==
  [vault : Vaults, key : Keys, base : Bases, seq : {0}, status : {"done"}] \cup {NoRow}

Init ==
  /\ file \in [vault : [Vaults -> {"absent", "active"}], rows : [Ops -> LegacyRow],
               hist : [Vaults -> {NoHistory}]]
  /\ Legacy(file) /\ synced = file
  /\ mem = Nothing /\ cand = Nothing /\ view = Nothing
  /\ ledger = [v \in Vaults |-> NoLedger]
  /\ mode = "down" /\ pc = "idle" /\ task = NoTask /\ todo = {} /\ latched = FALSE
  /\ worker = [v \in Vaults |-> NoWorker]
  /\ finished = {} /\ mix \in FaultMixes /\ faults = 0

StoreStep ==
  \/ Rename \/ SyncDirectory \/ CommitBatch
  \/ \E v \in Vaults : SettleVault(v) \/ OpenVault(v) \/ RecoverBatch(v)
  \/ Load \/ HistoriesOpen \/ Listen
  \/ \E o \in Ops, st \in RowStatus : Reconcile(o, st)
  \/ \E v \in Vaults : Compact(v)

RequestStep ==
  \/ \E v \in Vaults :
       \/ CreateVault(v) \/ Prepare(v) \/ Archive(v) \/ Release(v) \/ RequestFails(v)
       \/ RequestDelete(v) \/ StartErasure(v) \/ EraseHistory(v) \/ FinalizeDelete(v)
       \/ \E o \in Ops, k \in Keys, b \in Bases : Admit(v, o, k, b)
       \/ \E st \in RowStatus : Complete(v, st) \/ CompleteExisting(v, st)
       \/ \E o \in Ops : Merge(v, o)
  \/ ReadinessProbe \/ AssertLatches \/ Restart

FaultStep ==
  \/ WriteFails \/ PublicationFails \/ CommitFails \/ SettleFails \/ OpenFails \/ Crash
  \/ PowerLoss

Next == StoreStep \/ RequestStep \/ FaultStep

Spec == Init /\ [][Next]_vars
LiveSpec == Spec /\ WF_vars(StoreStep)

-----------------------------------------------------------------------------
(* Properties.                                                             *)

\* Every variable has its type: candidates, files and ledgers hold complete rows.
TypeOK ==
  /\ file \in Metadata /\ synced \in Metadata /\ mem \in Metadata /\ cand \in Metadata
  /\ view \in Metadata
  /\ ledger \in [Vaults -> Ledger]
  /\ mode \in {"down", "starting", "refused", "serving"}
  /\ pc \in {"idle", "write", "sync", "commit", "settle", "open"}
  /\ task \in [kind : {"none", "mutate", "settle", "describe", "finish", "number", "recover",
                       "settle_start"}, vault : Vaults \cup {NoVault}]
  /\ todo \subseteq Vaults /\ latched \in BOOLEAN
  /\ worker \in [Vaults -> [op : Ops \cup {NoOp}, base : Bases \cup {NoBase}]]
  /\ finished \subseteq Entry /\ mix \in FaultMixes /\ faults \in 0..MaxFaults

\* The metadata a later start may find.
Readable == {file} \cup IF "power_loss" \in mix THEN {synced} ELSE {}

\* Whatever instant a process died at, the next start can go on: it never meets a
\* descriptor, a generation or a numbering it would refuse (initializeOperationHistory).
NeverRefused == mode # "refused"

\* A row that any published state held as finished is, unless its vault is being
\* deleted, still in the file or in the ledger, with the same content and number;
\* so retries are compared with it for ever.
NothingForgotten ==
  \A e \in finished : \A d \in Readable :
    e.row.vault \in Live(d) => e \in Finished(d) \cup ledger[e.row.vault].rows

\* An operational store has no row both in the file and in the ledger, and no number
\* twice: exports and counts see every row once, in admission order.
RowsCountedOnce ==
  mode = "serving" /\ Operational =>
    \A v \in Live(mem) :
      LET all == Entries(mem, RowsOf(mem, v)) \cup ledger[v].rows IN
        /\ \A e \in ledger[v].rows : mem.rows[e.op] = NoRow
        /\ \A e, f \in all : e.row.seq = f.row.seq => e = f
        /\ \A e \in all : e.row.seq < mem.hist[v].next

\* All attempts of one proposal were admitted with one base, whether the earlier ones
\* are still in the file or only in the ledger.
AdmissionIsStable ==
  \A v \in Live(file) :
    LET all == {file.rows[o] : o \in RowsOf(file, v)} \cup {e.row : e \in ledger[v].rows} IN
      \A r, q \in all : r.key = q.key /\ NoBase \notin {r.base, q.base} => r.base = q.base

\* The store stops trusting itself only after something went wrong: neither the
\* readiness probe nor a queued request latches it in the middle of a handoff.
LatchedOnlyByFaults == latched => faults > 0

\* Acknowledged history is never rewritten: rows leave a ledger only with it, when
\* its vault is being deleted.
LedgerOnlyGrows ==
  [][\A v \in Vaults : /\ ledger[v].rows \subseteq ledger'[v].rows
                       /\ ledger[v].gen <= ledger'[v].gen
                    \/ file.vault[v] = "finalizing"]_vars

\* A described handoff is completed, across crashes, unless the store latched.
HandoffSettles ==
  \A v \in Vaults : file.hist[v].batch # {} ~> (file.hist[v].batch = {} \/ latched)

=============================================================================
