----------------------- MODULE OperationHistoryProofs -----------------------
(***************************************************************************)
(* Proofs about OperationHistory, for any vaults, operations, batches and  *)
(* faults.                                                                 *)
(***************************************************************************)
EXTENDS OperationHistory, WellFoundedInduction, FiniteSetTheorems, TLAPS

Up == mode \in {"starting", "serving"}

Publishing == pc \in {"write", "sync"}

\* Publications of the startup loop.
Opening == {"number", "recover", "settle_start"}

\* The metadata that a later step may read: the file, what a power loss leaves of it,
\* this.db and the candidate.
Used == {file} \cup (IF "power_loss" \in mix THEN {synced} ELSE {})
               \cup (IF Up THEN {mem} ELSE {}) \cup (IF Publishing THEN {cand} ELSE {})

\* Vaults in the middle of a handoff.
Handing(d) == {v \in Vaults : d.hist[v].batch # {}}

AllSettled(d) == \A v \in Live(d) : ~ Unsettled(d, v)

\* What one publication of metadata says by itself: one handoff at a time, of rows that
\* are in the file as described, and only when no ledger is still to be created.
Steady(d) ==
  /\ WellNumbered(d) /\ Unknown(d) \subseteq Live(d)
  /\ \A v \in Vaults :
       /\ ~ d.hist[v].known => d.hist[v] = NoHistory
       /\ d.hist[v].init => v \in Live(d) /\ d.hist[v].gen = 0 /\ d.hist[v].batch = {}
       /\ d.hist[v].next > 0
       /\ \A e \in d.hist[v].batch : e.row = d.rows[e.op] /\ e.row.vault = v /\ e.row.status = "done"
  /\ \A v \in Handing(d) :
       /\ v \in Live(d)
       /\ \A w \in Live(d) : d.hist[w].known /\ ~ d.hist[w].init /\ (w = v \/ d.hist[w].batch = {})

\* Ledgers are well formed.
WholeLedger(L) ==
  \A v \in Vaults :
    /\ ~ L[v].made => L[v] = NoLedger
    /\ \A P \in L[v].proofs : P \subseteq L[v].rows
    /\ \A e \in L[v].rows : e.row.vault = v /\ e.row.status = "done" /\ e.row.seq <= L[v].max
    /\ \A e, f \in L[v].rows : e.op = f.op \/ e.row.seq = f.row.seq => e = f

\* The ledger of a vault is where the metadata says, or one handoff ahead: a ledger at
\* the generation of the metadata holds none of its rows, one that is ahead holds exactly
\* the described ones.
Abreast(d, L, v) ==
  \/ L[v].gen = d.hist[v].gen /\ \A e \in L[v].rows : d.rows[e.op] = NoRow
  \/ /\ d.hist[v].batch # {} /\ d.hist[v].batch \in L[v].proofs /\ L[v].gen = d.hist[v].gen + 1
     /\ \A e \in L[v].rows : e \in d.hist[v].batch \/ d.rows[e.op] = NoRow

\* Metadata d and the ledgers L belong together.
BackedAt(d, L, v) ==
  /\ ~ d.hist[v].known => ~ L[v].made
  /\ d.hist[v].init /\ L[v].made => L[v] = EmptyLedger
  /\ d.hist[v].known /\ ~ d.hist[v].init => L[v].made \/ d.vault[v] = "finalizing"
  /\ L[v].made => L[v].max < d.hist[v].next /\ Abreast(d, L, v)
  /\ \A o \in RowsOf(d, v), e \in L[v].rows : d.rows[o].seq = e.row.seq => e.op = o

Backed(d, L) == \A v \in Vaults : BackedAt(d, L, v)

\* Which copies of the metadata are the same.
Copies ==
  /\ "power_loss" \in mix => synced = (IF pc = "sync" THEN mem ELSE file)
  /\ pc \in {"write", "commit", "settle", "open"} => file = mem
  /\ pc = "sync" => file = cand
  /\ Up /\ pc = "idle" => file = mem \/ latched \/ InitPending(mem) # {}

\* A vault whose history may be erased is nowhere in use again.
Erasing ==
  Up => \A v \in Vaults, d \in Used : mem.vault[v] = "finalizing" => d.vault[v] \in {"finalizing", "deleted"}

\* Where the store and its publication are.
Stage ==
  /\ mode # "refused"
  /\ mode = "down" => pc = "idle"
  /\ mode # "serving" => ~ latched
  /\ pc \in {"idle", "settle", "open"} <=> task = NoTask
  /\ pc = "commit" => task.kind = "describe"
  /\ Publishing => task.kind # "none"
  /\ pc = "open" \/ task.kind \in Opening => mode = "starting"
  /\ pc = "settle" \/ task.kind = "settle" => mode = "serving"
  /\ task.kind \in {"describe", "finish", "recover", "settle_start"} => task.vault \in Vaults
  /\ task.kind \in {"settle", "number"} => task.vault = NoVault
  /\ mode = "starting" /\ task.kind = "mutate" => task.vault = NoVault

\* What this.db and the candidate have settled at each stage.
Settlement ==
  /\ Up /\ task.kind # "number" => Unknown(mem) = {}
  /\ pc = "idle" /\ mode = "starting" => AllSettled(mem)
  /\ pc = "idle" /\ mode = "serving" /\ ~ latched => Handing(mem) = {}
  /\ pc = "settle" => Handing(mem) = {}
  /\ pc = "commit" => task.vault \in Handing(mem)
  /\ Publishing =>
       /\ Unknown(cand) = {}
       /\ task.kind \in {"mutate", "describe"} => AllSettled(mem)
       /\ task.kind = "settle" => Handing(mem) = {} /\ InitPending(mem) # {}
       /\ task.kind \in {"mutate", "settle"} => Handing(cand) = {}
       /\ task.kind = "mutate" /\ mode = "starting" => AllSettled(cand)
       /\ task.kind = "describe" => task.vault \in Handing(cand)
       /\ task.kind \in {"finish", "recover"} => AllSettled(cand) /\ Handing(cand) = {}

\* The startup loop: the vaults it has left, and the copy of the loaded state it works on.
Loop ==
  pc = "open" \/ task.kind \in Opening =>
    /\ todo \subseteq Live(mem)
    /\ task.kind # "number" => \A v \in Live(mem) \ todo : ~ Unsettled(mem, v)
    /\ task.kind = "number" => todo = Live(mem)
    /\ \A v \in todo : view.hist[v] = mem.hist[v]
    /\ view = mem \/ todo \cap Handing(view) = {}
    /\ Publishing =>
         /\ cand.vault = mem.vault
         /\ task.kind # "number" =>
              /\ task.vault \in todo /\ ~ Unsettled(cand, task.vault)
              /\ \A w \in Vaults \ {task.vault} : cand.hist[w] = mem.hist[w]
         /\ task.kind = "recover" => view = mem

\* Finished rows are in every copy or in the ledger; nothing was finished before the
\* rows were numbered.
Remembers(d, L, F) ==
  /\ Unknown(d) # {} => F = {}
  /\ \A e \in F :
       /\ e.row.vault \in Vaults /\ d.vault[e.row.vault] # "absent"
       /\ e.row.vault \in Live(d) => e \in Finished(d) \cup L[e.row.vault].rows

\* An unlatched store that is not operational has met a fault.
Trusted ==
  /\ latched => faults > 0
  /\ mode = "serving" /\ pc = "idle" /\ ~ AllSettled(mem) => faults > 0

AllRows(d, L, v) == {d.rows[o] : o \in RowsOf(d, v)} \cup {e.row : e \in L[v].rows}

\* The attempts of a proposal have one base.
OneBase(d, L) ==
  \A v \in Vaults : \A r, q \in AllRows(d, L, v) :
    r.key = q.key /\ r.base # NoBase /\ q.base # NoBase => r.base = q.base

\* The other attempts of w's proposal that have a base have w's.
Own(d, L, v, w) ==
  d.rows[w.op].vault = v =>
    \A r \in AllRows(d, L, v) : r.key = d.rows[w.op].key /\ r.base # NoBase => r.base = w.base

\* A request that holds the lock of its vault has a row there, or is about to, and no
\* other base was recorded for its proposal.
Working(v) ==
  /\ mode = "serving" /\ worker[v].op \in Ops /\ worker[v].base \in Bases
  /\ mem.vault[v] \in {"active", "deleting"} /\ Own(mem, ledger, v, worker[v])
  /\ \/ mem.rows[worker[v].op].vault = v
     \/ mem.rows[worker[v].op] = NoRow /\ Publishing /\ task = [kind |-> "mutate", vault |-> v]
  /\ Publishing =>
       /\ cand.vault[v] \in {"active", "deleting"} /\ Own(cand, ledger, v, worker[v])
       /\ cand.rows[worker[v].op].vault = v \/ task = [kind |-> "finish", vault |-> v]

Workers == \A v \in Vaults : worker[v] # NoWorker => Working(v)

AllSteady == \A d \in Used : Steady(d)

AllBacked == \A d \in Used : Backed(d, ledger)

AllRemember == \A d \in Used : Remembers(d, ledger, finished)

AllOneBase == \A d \in Used : OneBase(d, ledger)

\* A lock is free, or a request with an operation and a base holds it.
Locks == [Vaults -> {NoWorker} \cup [op : Ops, base : Bases]]

HandoffInv == /\ TypeOK /\ worker \in Locks /\ AllSteady /\ WholeLedger(ledger) /\ AllBacked
              /\ Copies /\ Erasing /\ Stage /\ Settlement /\ Loop

-----------------------------------------------------------------------------
(* What a candidate c changes in the metadata d it is a copy of.           *)

\* One row that is not finished goes on.
Edits(d, c) ==
  /\ c.vault = d.vault /\ c.hist = d.hist
  /\ \E o \in Ops, r \in Row :
       /\ c.rows = [d.rows EXCEPT ![o] = r]
       /\ d.rows[o].status \in {"open", "pushed"} /\ r.status \in {"open", "pushed", "done"}
       /\ r.vault = d.rows[o].vault /\ r.key = d.rows[o].key /\ r.seq = d.rows[o].seq

\* A new row takes the next number of its vault.
Admits(d, c, L) ==
  /\ c.vault = d.vault
  /\ \E v \in Live(d), o \in Ops, r \in Row :
       /\ d.rows[o] = NoRow /\ \A w \in Vaults : \A e \in L[w].rows : e.op # o
       /\ c.rows = [d.rows EXCEPT ![o] = r]
       /\ r.vault = v /\ r.seq = d.hist[v].next /\ r.status = "open"
       /\ c.hist = [d.hist EXCEPT ![v] = [d.hist[v] EXCEPT !.next = d.hist[v].next + 1]]

Creates(d, c) ==
  /\ c.rows = d.rows
  /\ \E v \in Vaults :
       /\ d.vault[v] = "absent" /\ c.vault = [d.vault EXCEPT ![v] = "active"]
       /\ c.hist = [d.hist EXCEPT ![v] = [NoHistory EXCEPT !.known = TRUE, !.init = TRUE]]

\* A vault goes on to its deletion.
Condemns(d, c) ==
  /\ c.rows = d.rows /\ c.hist = d.hist
  /\ \E v \in Vaults :
       \/ d.vault[v] = "active" /\ c.vault = [d.vault EXCEPT ![v] = "deleting"]
       \/ d.vault[v] = "deleting" /\ c.vault = [d.vault EXCEPT ![v] = "finalizing"]

Removes(d, c, L) ==
  \E v \in Vaults :
    /\ d.vault[v] = "finalizing" /\ ~ L[v].made
    /\ c.vault = [d.vault EXCEPT ![v] = "deleted"]
    /\ c.rows = [o \in Ops |-> IF d.rows[o].vault = v THEN NoRow ELSE d.rows[o]]
    /\ c.hist = [d.hist EXCEPT ![v] = NoHistory]

Mutates(d, c, L) == Edits(d, c) \/ Admits(d, c, L) \/ Creates(d, c) \/ Condemns(d, c) \/ Removes(d, c, L)

Describes(d, c, v) ==
  /\ c.vault = d.vault /\ c.rows = d.rows
  /\ \E B \in SUBSET Entry :
       /\ B # {} /\ \A e \in B : e.row = d.rows[e.op] /\ e.row.vault = v /\ e.row.status = "done"
       /\ c.hist = [d.hist EXCEPT ![v] = [d.hist[v] EXCEPT !.batch = B]]

Drops(d, c, v) ==
  /\ c.vault = d.vault
  /\ c.rows = [o \in Ops |-> IF d.rows[o].vault = v /\ \E e \in d.hist[v].batch : e.op = o
                             THEN NoRow ELSE d.rows[o]]
  /\ c.hist = [d.hist EXCEPT ![v] = [d.hist[v] EXCEPT !.gen = d.hist[v].gen + 1, !.batch = {}]]

Settles(d, c, v) ==
  /\ c.vault = d.vault /\ c.rows = d.rows
  /\ c.hist = [d.hist EXCEPT ![v] = [d.hist[v] EXCEPT !.init = FALSE]]

\* The handoff of v reaches the ledgers M.
Commits(d, L, M, v) ==
  /\ \A w \in Vaults \ {v} : M[w] = L[w]
  /\ M[v].made /\ M[v].gen = d.hist[v].gen + 1
  /\ M[v].rows = L[v].rows \cup d.hist[v].batch
  /\ M[v].proofs = L[v].proofs \cup {d.hist[v].batch}
  /\ L[v].max <= M[v].max /\ M[v].max < d.hist[v].next
  /\ \A e \in d.hist[v].batch : e.row.seq <= M[v].max

-----------------------------------------------------------------------------
(* The steps of the specification by their effect on the store; none refuses. *)

Tasks == [kind : {"none", "mutate", "settle", "describe", "finish", "number", "recover", "settle_start"},
          vault : Vaults \cup {NoVault}]

\* One row of the metadata replaced.
WithRow(d, o, r) == [vault |-> d.vault, rows |-> [d.rows EXCEPT ![o] = r], hist |-> d.hist]

\* Rows stay with their vault, key and base, unless their vault is removed, and no vault
\* with a request at work is erased.
Keeps(d, c) ==
  /\ \A o \in Ops :
       \/ c.rows[o].vault = d.rows[o].vault /\ c.rows[o].key = d.rows[o].key /\ c.rows[o].base = d.rows[o].base
       \/ c.rows[o] = NoRow /\ \E v \in Vaults : d.rows[o].vault = v /\ d.vault[v] = "finalizing"
  /\ \A v \in Vaults :
       d.vault[v] \in {"active", "deleting"} => c.vault[v] \in {"active", "deleting"} \/ worker[v] = NoWorker

\* A request takes the lock of its vault with a new row; the base of an earlier attempt is its own.
Admitting ==
  \E v \in Live(mem), o \in Ops, b \in Bases, r \in Row :
    /\ mode = "serving" /\ worker[v] = NoWorker /\ worker' = [worker EXCEPT ![v] = [op |-> o, base |-> b]]
    /\ task'.vault = v /\ mem.rows[o] = NoRow
    /\ cand'.vault = mem.vault /\ cand'.rows = [mem.rows EXCEPT ![o] = r] /\ r.vault = v
    /\ \/ r.base = NoBase /\ Prior(v, r.key) = {}
       \/ r.base = b /\ \E q \in Prior(v, r.key) : q.base = b

\* A request records its base in its row.
Recording ==
  \E v \in Vaults, r \in Row :
    /\ worker[v] # NoWorker /\ cand'.vault = mem.vault
    /\ cand'.rows = [mem.rows EXCEPT ![worker[v].op] = r]
    /\ r.vault = mem.rows[worker[v].op].vault /\ r.key = mem.rows[worker[v].op].key /\ r.base = worker[v].base

Mutated ==
  /\ pc = "idle" /\ Up /\ ~ latched /\ AllSettled(mem)
  /\ cand' \in Metadata /\ Mutates(mem, cand', ledger)
  /\ task' \in Tasks /\ task'.kind = "mutate" /\ pc' = "write" /\ worker' \in Locks
  /\ mode = "starting" => Edits(mem, cand') /\ task'.vault = NoVault
  /\ Admitting \/ (UNCHANGED worker /\ (Keeps(mem, cand') \/ Recording))
  /\ UNCHANGED <<file, synced, mem, view, ledger, mode, todo, latched, finished, mix, faults>>

HandoffStarted ==
  /\ pc = "idle" /\ Up /\ ~ latched /\ AllSettled(mem)
  /\ cand' \in Metadata
  /\ \E v \in Live(mem) : Describes(mem, cand', v) /\ task' = [kind |-> "describe", vault |-> v]
  /\ pc' = "write"
  /\ UNCHANGED <<file, synced, mem, view, ledger, mode, todo, latched, worker, finished, mix, faults>>

HandoffCommitted ==
  /\ pc = "commit"
  /\ ledger' = Committed(task.vault, mem.hist[task.vault].batch)
  /\ cand' \in Metadata /\ Drops(mem, cand', task.vault)
  /\ task' = [kind |-> "finish", vault |-> task.vault] /\ pc' = "write"
  /\ UNCHANGED <<file, synced, mem, view, mode, todo, latched, worker, finished, mix, faults>>

VaultSettled(v) ==
  /\ pc = "settle" /\ v \in InitPending(mem) /\ ledger' = Opened(v)
  /\ cand' \in Metadata /\ Settles(mem, cand', v)
  /\ task' = [kind |-> "settle", vault |-> NoVault] /\ pc' = "write"
  /\ UNCHANGED <<file, synced, mem, view, mode, todo, latched, worker, finished, mix, faults>>

Loaded == mode = "down" /\ Start

VaultOpened(v) == pc = "open" /\ v \in todo /\ view.hist[v].batch = {} /\ Open(v)

BatchRecovered(v) == pc = "open" /\ v \in todo /\ view.hist[v].batch # {} /\ Recover(v)

Listened ==
  /\ mode = "starting" /\ pc = "idle" /\ mode' = "serving"
  /\ UNCHANGED <<file, synced, mem, cand, view, ledger, pc, task, todo, latched, worker, finished, mix, faults>>

\* A lock is released, or the store latches because it is not operational.
Unlocked ==
  /\ worker' \in Locks /\ \E v \in Vaults : worker' = Released(v)
  /\ UNCHANGED <<file, synced, mem, cand, view, ledger, mode, pc, task, todo, latched, finished, mix, faults>>

Distrusts ==
  /\ mode = "serving" /\ pc = "idle" /\ ~ latched /\ ~ AllSettled(mem) /\ latched' = TRUE
  /\ UNCHANGED <<file, synced, mem, cand, view, ledger, mode, pc, task, todo, worker, finished, mix, faults>>

\* A failing transaction may have reached the ledger.
LedgerLeft ==
  \/ ledger' = ledger
  \/ pc = "commit" /\ ledger' = Committed(task.vault, mem.hist[task.vault].batch)
  \/ pc = "settle" /\ \E v \in InitPending(mem) : ledger' = Opened(v)

\* The process ends.
Died ==
  /\ Stop
  /\ file' \in Used /\ synced' \in {synced, file'} /\ ("power_loss" \in mix => synced' = file')
  /\ LedgerLeft /\ faults' \in 0..MaxFaults /\ UNCHANGED <<finished, mix>>

\* A publication or a transaction of a serving store fails.
GaveUp ==
  /\ mode = "serving" /\ pc \in {"write", "sync", "commit", "settle"} /\ "power_loss" \notin mix
  /\ pc' = "idle" /\ task' = NoTask /\ cand' = Nothing
  /\ latched' \in BOOLEAN /\ (latched => latched')
  /\ ~ latched' => Publishing /\ ((task.kind = "mutate" /\ file' = mem) \/ task.kind = "settle")
  /\ worker' \in Locks /\ worker' \in {IF MayGoOn THEN worker ELSE Ended, Ended}
  /\ file' \in Used /\ LedgerLeft /\ faults' \in 1..MaxFaults
  /\ UNCHANGED <<synced, mem, view, mode, todo, finished, mix>>

Step ==
  \/ Mutated \/ HandoffStarted \/ HandoffCommitted \/ Rename \/ SyncDirectory
  \/ \E v \in Vaults : VaultSettled(v) \/ VaultOpened(v) \/ BatchRecovered(v) \/ EraseHistory(v)
  \/ Loaded \/ HistoriesOpen \/ Listened \/ Unlocked \/ Distrusts \/ Died \/ GaveUp
  \/ UNCHANGED vars

-----------------------------------------------------------------------------

LEMMA Smallest == ASSUME NEW S, S \subseteq Nat, S # {} PROVE \E m \in S : \A n \in S : m <= n
<1>1. PICK m \in S : \A n \in S : ~ (<<n, m>> \in OpToRel(<, Nat))
  BY NatLessThanWellFounded, WFMin
<1>2. \A n \in S : ~ (n < m)
  BY <1>1 DEF OpToRel
<1>3. \A n \in S : m <= n
  BY <1>2
<1> QED BY <1>3

LEMMA Largest == ASSUME NEW S, S \subseteq Nat, S # {}, NEW b \in Nat, \A n \in S : n < b
  PROVE Max(S) \in S /\ \A n \in S : n <= Max(S)
<1> DEFINE B == {m \in Nat : \A n \in S : n <= m}
<1>1. b \in B /\ B \subseteq Nat
  OBVIOUS
<1>2. PICK m \in B : \A k \in B : m <= k
  BY <1>1, Smallest
<1>3. m \in S
  <2>1. SUFFICES ASSUME m \notin S PROVE FALSE
    OBVIOUS
  <2>2. \A n \in S : n < m
    BY <1>2, <2>1
  <2>3. m > 0 /\ m - 1 \in Nat
    <3>1. PICK n \in S : TRUE
      OBVIOUS
    <3> QED BY <1>2, <2>2, <3>1
  <2>4. m - 1 \in B
    BY <2>2, <2>3
  <2> QED BY <1>2, <2>3, <2>4
<1>4. \E x \in S : \A y \in S : x >= y
  BY <1>2, <1>3
<1> QED BY <1>4 DEF Max

LEMMA Fields ==
  ASSUME NEW d \in Metadata
  PROVE  /\ d.vault \in [Vaults -> VaultStatus] /\ d.rows \in [Ops -> Row] /\ d.hist \in [Vaults -> History]
         /\ \A v \in Vaults : /\ d.hist[v].gen \in Nat /\ d.hist[v].next \in Nat /\ d.hist[v].batch \subseteq Entry
                              /\ d.hist[v].known \in BOOLEAN /\ d.hist[v].init \in BOOLEAN
         /\ \A o \in Ops : d.rows[o].seq \in Nat
BY DEF Metadata, History, Row

\* The row of no operation.
LEMMA Empty == /\ NoRow.vault = NoVault /\ NoRow.status = "none" /\ NoRow.seq = 0 /\ NoRow.key = NoKey
               /\ NoRow.base = NoBase /\ NoVault \notin Vaults /\ NoRow \in Row
               /\ NoHistory \in History /\ ~ NoHistory.known /\ ~ NoHistory.init /\ NoHistory.batch = {}
               /\ NoHistory.next = 1 /\ NoHistory.gen = 0
BY HistoryAssumption DEF NoRow, Row, RowStatus, NoHistory, History

\* Without a handoff and a pending ledger nothing is unsettled.
LEMMA Settled ==
  ASSUME NEW d \in Metadata, Steady(d), AllSettled(d), Unknown(d) = {}
  PROVE  Handing(d) = {} /\ \A v \in Vaults : ~ d.hist[v].init
BY Fields DEF Steady, AllSettled, Unsettled, Handing

LEMMA SteadyEdits ==
  ASSUME NEW d \in Metadata, NEW c \in Metadata, Steady(d), Edits(d, c)
  PROVE  /\ Steady(c) /\ Unknown(c) = Unknown(d) /\ Handing(c) = Handing(d)
         /\ AllSettled(d) => AllSettled(c)
<1>1. PICK o \in Ops, r \in Row :
        /\ c.rows = [d.rows EXCEPT ![o] = r]
        /\ d.rows[o].status \in {"open", "pushed"} /\ r.status \in {"open", "pushed", "done"}
        /\ r.vault = d.rows[o].vault /\ r.key = d.rows[o].key /\ r.seq = d.rows[o].seq
  BY DEF Edits
<1>2. c.vault = d.vault /\ c.hist = d.hist /\ d.rows[o] # NoRow
  BY <1>1, Empty DEF Edits
<1>3. /\ \A p \in Ops : c.rows[p].vault = d.rows[p].vault /\ c.rows[p].seq = d.rows[p].seq
      /\ \A p \in Ops : p # o => c.rows[p] = d.rows[p]
  BY <1>1, Fields
<1>4. Live(c) = Live(d) /\ Present(c) = Present(d) /\ Unknown(c) = Unknown(d) /\ Handing(c) = Handing(d)
  BY <1>2 DEF Live, Present, Unknown, Handing
<1>5. \A v \in Vaults : RowsOf(c, v) = RowsOf(d, v)
  BY <1>3 DEF RowsOf
<1>6. WellNumbered(c)
  <2>1. \A p \in Ops : c.rows[p] # NoRow => c.rows[p].vault \in Present(c)
    BY <1>2, <1>3, <1>4 DEF Steady, WellNumbered
  <2> QED BY <1>2, <1>3, <1>4, <1>5, <2>1 DEF Steady, WellNumbered, RowsOf
<1>7. \A v \in Vaults : \A e \in c.hist[v].batch : e.row = c.rows[e.op] /\ e.row.vault = v /\ e.row.status = "done"
  BY <1>1, <1>2, <1>3, Fields DEF Steady, Entry
<1> QED BY <1>2, <1>4, <1>6, <1>7 DEF Steady, AllSettled, Unsettled

LEMMA SteadyAdmits ==
  ASSUME NEW d \in Metadata, NEW c \in Metadata, NEW L, Steady(d), AllSettled(d), Unknown(d) = {}, Admits(d, c, L)
  PROVE  Steady(c) /\ Unknown(c) = {} /\ Handing(c) = {}
<1>1. PICK v \in Live(d), o \in Ops, r \in Row :
        /\ d.rows[o] = NoRow
        /\ c.rows = [d.rows EXCEPT ![o] = r]
        /\ r.vault = v /\ r.seq = d.hist[v].next /\ r.status = "open"
        /\ c.hist = [d.hist EXCEPT ![v] = [d.hist[v] EXCEPT !.next = d.hist[v].next + 1]]
  BY DEF Admits
<1>2. c.vault = d.vault /\ v \in Vaults
  BY DEF Admits, Live
<1>3. c.rows[o] = r /\ \A p \in Ops : p # o => c.rows[p] = d.rows[p]
  BY <1>1, Fields
<1>4. /\ \A w \in Vaults : w # v => c.hist[w] = d.hist[w]
      /\ c.hist[v].known = d.hist[v].known /\ c.hist[v].init = d.hist[v].init /\ c.hist[v].gen = d.hist[v].gen
      /\ c.hist[v].batch = d.hist[v].batch /\ c.hist[v].next = d.hist[v].next + 1
  BY <1>1, <1>2, Fields DEF History
<1>5. Live(c) = Live(d) /\ Present(c) = Present(d) /\ Unknown(c) = Unknown(d) /\ Handing(c) = Handing(d)
  BY <1>2, <1>4 DEF Live, Present, Unknown, Handing
<1>6. Handing(d) = {} /\ \A w \in Vaults : ~ d.hist[w].init
  BY Settled
<1>7. /\ \A w \in Vaults : w # v => RowsOf(c, w) = RowsOf(d, w)
      /\ RowsOf(c, v) = RowsOf(d, v) \cup {o}
  BY <1>1, <1>2, <1>3, Empty DEF RowsOf
<1>8. v \in Present(d) \ Unknown(d)
  BY <1>1 DEF Present, Live
<1>9. WellNumbered(c)
  <2>1. \A p \in Ops : c.rows[p] # NoRow => c.rows[p].vault \in Present(c)
    BY <1>1, <1>3, <1>5, <1>8 DEF Steady, WellNumbered
  <2>2. \A w \in Vaults \ Present(c) : ~ c.hist[w].known
    BY <1>4, <1>5 DEF Steady, WellNumbered
  <2>3. d.hist[v].next \in Nat /\ d.hist[v].next > 0
    BY <1>2, Fields DEF Steady
  <2>4. ASSUME NEW p \in RowsOf(c, v), NEW q \in RowsOf(c, v)
        PROVE  /\ c.rows[p].seq > 0 /\ c.rows[p].seq < c.hist[v].next
               /\ c.rows[p].seq = c.rows[q].seq => p = q
    <3>1. /\ \A x \in RowsOf(d, v) : x # o /\ d.rows[x].seq > 0 /\ d.rows[x].seq < d.hist[v].next /\ d.rows[x].seq \in Nat
          /\ \A x, y \in RowsOf(d, v) : d.rows[x].seq = d.rows[y].seq => x = y
      BY <1>1, <1>2, <1>8, Empty, Fields DEF Steady, WellNumbered, RowsOf
    <3>2. \A x \in RowsOf(d, v) : x \in Ops /\ c.rows[x] = d.rows[x]
      BY <1>3, <3>1 DEF RowsOf
    <3> QED BY <1>1, <1>3, <1>4, <1>7, <2>3, <2>4, <3>1, <3>2
  <2>5. ASSUME NEW w \in Present(c) \ Unknown(c), w # v, NEW p \in RowsOf(c, w), NEW q \in RowsOf(c, w)
        PROVE  /\ c.rows[p].seq > 0 /\ c.rows[p].seq < c.hist[w].next
               /\ c.rows[p].seq = c.rows[q].seq => p = q
    <3>1. w \in Vaults /\ p # o /\ q # o /\ p \in Ops /\ q \in Ops
      BY <1>1, <1>3, <2>5 DEF RowsOf, Present
    <3> QED BY <1>3, <1>4, <1>5, <1>7, <2>5, <3>1 DEF Steady, WellNumbered
  <2> QED BY <1>5, <2>1, <2>2, <2>4, <2>5 DEF WellNumbered
<1>10. \A w \in Vaults : c.hist[w].batch = {} /\ ~ c.hist[w].init /\ c.hist[w].next > 0
  BY <1>2, <1>4, <1>6, Fields DEF Handing, Steady
<1>11. \A w \in Vaults : ~ c.hist[w].known => c.hist[w] = NoHistory
  BY <1>1, <1>2, <1>4 DEF Steady, Unknown, Present, Live
<1> QED BY <1>5, <1>6, <1>9, <1>10, <1>11 DEF Steady, Handing

LEMMA SteadyCreates ==
  ASSUME NEW d \in Metadata, NEW c \in Metadata, Steady(d), AllSettled(d), Unknown(d) = {}, Creates(d, c)
  PROVE  Steady(c) /\ Unknown(c) = {} /\ Handing(c) = {}
<1>1. PICK v \in Vaults :
        /\ d.vault[v] = "absent" /\ c.vault = [d.vault EXCEPT ![v] = "active"]
        /\ c.hist = [d.hist EXCEPT ![v] = [NoHistory EXCEPT !.known = TRUE, !.init = TRUE]]
  BY DEF Creates
<1>2. c.rows = d.rows /\ v \notin Present(d)
  BY <1>1 DEF Creates, Present
<1>3. /\ c.vault[v] = "active" /\ \A w \in Vaults : w # v => c.vault[w] = d.vault[w] /\ c.hist[w] = d.hist[w]
      /\ c.hist[v] = [NoHistory EXCEPT !.known = TRUE, !.init = TRUE]
  BY <1>1, Fields
<1>4. c.hist[v].known /\ c.hist[v].init /\ c.hist[v].gen = 0 /\ c.hist[v].batch = {} /\ c.hist[v].next = 1
  BY <1>3, Empty DEF NoHistory
<1>5. Live(c) = Live(d) \cup {v} /\ Present(c) = Present(d) \cup {v} /\ Unknown(c) = {} /\ Handing(c) = {}
  BY <1>1, <1>3, <1>4, Settled DEF Live, Present, Unknown, Handing
<1>6. RowsOf(c, v) = {} /\ \A w \in Vaults : w # v => RowsOf(c, w) = RowsOf(d, w)
  BY <1>2, Empty DEF RowsOf, Steady, WellNumbered
<1>7. WellNumbered(c)
  <2>1. \A w \in Vaults \ Present(c) : ~ c.hist[w].known
    BY <1>3, <1>5 DEF Steady, WellNumbered
  <2>2. \A p \in Ops : c.rows[p] # NoRow => c.rows[p].vault \in Present(c)
    BY <1>2, <1>5 DEF Steady, WellNumbered
  <2>3. ASSUME NEW w \in Present(c), NEW p \in RowsOf(c, w), NEW q \in RowsOf(c, w)
        PROVE  /\ c.rows[p].seq > 0 /\ c.rows[p].seq < c.hist[w].next
               /\ c.rows[p].seq = c.rows[q].seq => p = q
    <3>1. w # v /\ w \in Present(d) \ Unknown(d) /\ w \in Vaults
      BY <1>5, <1>6, <2>3 DEF Present
    <3> QED BY <1>2, <1>3, <1>6, <2>3, <3>1 DEF Steady, WellNumbered
  <2> QED BY <1>5, <2>1, <2>2, <2>3 DEF WellNumbered
<1>8. \A w \in Vaults : /\ ~ c.hist[w].known => c.hist[w] = NoHistory
                        /\ c.hist[w].init => w \in Live(c) /\ c.hist[w].gen = 0
                        /\ c.hist[w].next > 0 /\ c.hist[w].batch = {}
  <2> SUFFICES ASSUME NEW w \in Vaults
       PROVE  /\ ~ c.hist[w].known => c.hist[w] = NoHistory
              /\ c.hist[w].init => w \in Live(c) /\ c.hist[w].gen = 0
              /\ c.hist[w].next > 0 /\ c.hist[w].batch = {}
    OBVIOUS
  <2>1. CASE w = v
    BY <1>4, <1>5, <2>1
  <2>2. CASE w # v
    BY <1>3, <1>5, <2>2 DEF Steady, Handing
  <2> QED BY <2>1, <2>2
<1> QED BY <1>5, <1>7, <1>8 DEF Steady

LEMMA SteadyCondemns ==
  ASSUME NEW d \in Metadata, NEW c \in Metadata, Steady(d), AllSettled(d), Unknown(d) = {}, Condemns(d, c)
  PROVE  Steady(c) /\ Unknown(c) = {} /\ Handing(c) = {}
<1>1. PICK v \in Vaults :
        \/ d.vault[v] = "active" /\ c.vault = [d.vault EXCEPT ![v] = "deleting"]
        \/ d.vault[v] = "deleting" /\ c.vault = [d.vault EXCEPT ![v] = "finalizing"]
  BY DEF Condemns
<1>2. c.rows = d.rows /\ c.hist = d.hist
  BY DEF Condemns
<1>3. /\ \A w \in Vaults : w # v => c.vault[w] = d.vault[w]
      /\ c.vault[v] \in {"deleting", "finalizing"} /\ d.vault[v] \in {"active", "deleting"}
  BY <1>1, Fields
<1>4. Present(c) = Present(d) /\ Present(d) \subseteq Vaults /\ Unknown(c) = Unknown(d) /\ Handing(c) = {}
  BY <1>2, <1>3, Settled DEF Present, Unknown, Handing
<1>5. \A w \in Vaults : RowsOf(c, w) = RowsOf(d, w)
  BY <1>2 DEF RowsOf
<1>6. WellNumbered(c)
  BY <1>2, <1>4, <1>5 DEF Steady, WellNumbered
<1>7. \A w \in Vaults : ~ c.hist[w].init
  BY <1>2, Settled
<1> QED BY <1>2, <1>4, <1>6, <1>7 DEF Steady, Handing

LEMMA SteadyRemoves ==
  ASSUME NEW d \in Metadata, NEW c \in Metadata, NEW L, Steady(d), AllSettled(d), Unknown(d) = {}, Removes(d, c, L)
  PROVE  Steady(c) /\ Unknown(c) = {} /\ Handing(c) = {}
<1>1. PICK v \in Vaults :
        /\ d.vault[v] = "finalizing"
        /\ c.vault = [d.vault EXCEPT ![v] = "deleted"]
        /\ c.rows = [o \in Ops |-> IF d.rows[o].vault = v THEN NoRow ELSE d.rows[o]]
        /\ c.hist = [d.hist EXCEPT ![v] = NoHistory]
  BY DEF Removes
<1>2. /\ \A w \in Vaults : w # v => c.vault[w] = d.vault[w] /\ c.hist[w] = d.hist[w]
      /\ c.vault[v] = "deleted" /\ c.hist[v] = NoHistory
  BY <1>1, Fields
<1>3. Present(c) = Present(d) \ {v} /\ Unknown(c) = {} /\ Handing(c) = {}
  BY <1>2, Settled, Empty DEF Present, Unknown, Handing
<1>4. /\ \A w \in Vaults : w # v => RowsOf(c, w) = RowsOf(d, w)
      /\ \A w \in Vaults : w # v => \A o \in RowsOf(d, w) : c.rows[o] = d.rows[o]
  BY <1>1, Empty DEF RowsOf
<1>5. WellNumbered(c)
  <2>1. \A w \in Vaults \ Present(c) : ~ c.hist[w].known
    BY <1>2, <1>3, Empty DEF Steady, WellNumbered
  <2>2. \A p \in Ops : c.rows[p] # NoRow => c.rows[p].vault \in Present(c)
    BY <1>1, <1>3 DEF Steady, WellNumbered
  <2>3. ASSUME NEW w \in Present(c), NEW p \in RowsOf(c, w), NEW q \in RowsOf(c, w)
        PROVE  /\ c.rows[p].seq > 0 /\ c.rows[p].seq < c.hist[w].next
               /\ c.rows[p].seq = c.rows[q].seq => p = q
    <3>1. w # v /\ w \in Present(d) \ Unknown(d) /\ w \in Vaults
      BY <1>3, <2>3 DEF Present
    <3> QED BY <1>2, <1>4, <2>3, <3>1 DEF Steady, WellNumbered
  <2> QED BY <1>3, <2>1, <2>2, <2>3 DEF WellNumbered
<1>6. \A w \in Vaults : /\ ~ c.hist[w].known => c.hist[w] = NoHistory
                        /\ ~ c.hist[w].init /\ c.hist[w].next > 0
  BY <1>2, Settled, Empty DEF Steady
<1> QED BY <1>3, <1>5, <1>6 DEF Steady, Handing

LEMMA SteadyDescribes ==
  ASSUME NEW d \in Metadata, NEW c \in Metadata, NEW v \in Live(d),
         Steady(d), AllSettled(d), Unknown(d) = {}, Describes(d, c, v)
  PROVE  Steady(c) /\ Unknown(c) = {} /\ v \in Handing(c)
<1>1. PICK B \in SUBSET Entry :
        /\ B # {} /\ \A e \in B : e.row = d.rows[e.op] /\ e.row.vault = v /\ e.row.status = "done"
        /\ c.hist = [d.hist EXCEPT ![v] = [d.hist[v] EXCEPT !.batch = B]]
  BY DEF Describes
<1>2. c.rows = d.rows /\ c.vault = d.vault /\ v \in Vaults
  BY DEF Describes, Live
<1>3. /\ \A w \in Vaults : w # v => c.hist[w] = d.hist[w]
      /\ c.hist[v].known = d.hist[v].known /\ c.hist[v].init = d.hist[v].init /\ c.hist[v].gen = d.hist[v].gen
      /\ c.hist[v].batch = B /\ c.hist[v].next = d.hist[v].next
  BY <1>1, <1>2, Fields DEF History
<1>4. Live(c) = Live(d) /\ Present(c) = Present(d) /\ Unknown(c) = {} /\ Handing(c) = {v}
  BY <1>1, <1>2, <1>3, Settled DEF Live, Present, Unknown, Handing
<1>5. \A w \in Vaults : RowsOf(c, w) = RowsOf(d, w)
  BY <1>2 DEF RowsOf
<1>6. WellNumbered(c)
  <2>1. \A w \in Vaults : c.hist[w].next = d.hist[w].next /\ c.hist[w].known = d.hist[w].known
    BY <1>3
  <2>2. Present(d) \subseteq Vaults
    BY DEF Present
  <2> QED BY <1>2, <1>4, <1>5, <2>1, <2>2 DEF Steady, WellNumbered
<1>7. d.hist[v].known /\ \A w \in Vaults : ~ c.hist[w].init
  BY <1>2, <1>3, Settled DEF Unknown, Present, Live
<1>8. \A w \in Live(c) : c.hist[w].known
  BY <1>4 DEF Unknown, Present, Live
<1>9. \A w \in Vaults : \A e \in c.hist[w].batch : e.row = c.rows[e.op] /\ e.row.vault = w /\ e.row.status = "done"
  BY <1>1, <1>2, <1>3 DEF Steady
<1>10. \A w \in Vaults : (~ c.hist[w].known => c.hist[w] = NoHistory) /\ c.hist[w].next > 0
  BY <1>3, <1>7, ZenonT(40) DEF Steady
<1>11. \A w \in Live(c) : w = v \/ c.hist[w].batch = {}
  BY <1>4 DEF Handing, Live
<1>12. \A x \in Handing(c) : x \in Live(c) /\ \A w \in Live(c) : w = x \/ c.hist[w].batch = {}
  BY <1>4, <1>11
<1>13. Unknown(c) \subseteq Live(c) /\ v \in Handing(c) /\ Live(c) \subseteq Vaults
  BY <1>4 DEF Live
<1> QED BY <1>4, <1>6, <1>7, <1>8, <1>9, <1>10, <1>12, <1>13 DEF Steady

LEMMA SteadyDrops ==
  ASSUME NEW d \in Metadata, NEW c \in Metadata, NEW v \in Handing(d), Steady(d), Drops(d, c, v)
  PROVE  Steady(c) /\ Unknown(c) = Unknown(d) /\ Handing(c) = {} /\ AllSettled(c)
<1>1. v \in Vaults /\ v \in Live(d) /\ c.vault = d.vault
  BY DEF Handing, Steady, Drops
<1>2. /\ \A w \in Vaults : w # v => c.hist[w] = d.hist[w]
      /\ c.hist[v].known = d.hist[v].known /\ c.hist[v].init = d.hist[v].init
      /\ c.hist[v].gen = d.hist[v].gen + 1
      /\ c.hist[v].batch = {} /\ c.hist[v].next = d.hist[v].next
  BY <1>1, Fields DEF History, Drops
<1>3. \A o \in Ops : c.rows[o] = NoRow \/ c.rows[o] = d.rows[o]
  BY DEF Drops
<1>4. Live(c) = Live(d) /\ Present(c) = Present(d) /\ Unknown(c) = Unknown(d)
  BY <1>1, <1>2 DEF Live, Present, Unknown
<1>5. \A w \in Live(d) : d.hist[w].known /\ ~ d.hist[w].init /\ (w = v \/ d.hist[w].batch = {})
  BY DEF Steady
<1>6. Handing(c) = {}
  BY <1>2, <1>5 DEF Handing, Steady
<1>7. \A w \in Vaults : RowsOf(c, w) \subseteq RowsOf(d, w) /\ \A o \in RowsOf(c, w) : c.rows[o] = d.rows[o]
  BY <1>3, Empty DEF RowsOf
<1>8. WellNumbered(c)
  <2>1. \A w \in Vaults : c.hist[w].next = d.hist[w].next /\ c.hist[w].known = d.hist[w].known
    BY <1>2
  <2>2. Present(d) \subseteq Vaults /\ Unknown(d) \subseteq Vaults
    BY DEF Present, Unknown
  <2>3. \A p \in Ops : c.rows[p] # NoRow => c.rows[p].vault \in Present(c)
    BY <1>3, <1>4 DEF Steady, WellNumbered
  <2>4. ASSUME NEW w \in Present(c) \ Unknown(c), NEW p \in RowsOf(c, w), NEW q \in RowsOf(c, w)
        PROVE  /\ c.rows[p].seq > 0 /\ c.rows[p].seq < c.hist[w].next
               /\ c.rows[p].seq = c.rows[q].seq => p = q
    BY <1>4, <1>7, <2>1, <2>2, <2>4 DEF Steady, WellNumbered
  <2>5. \A w \in Unknown(c) : \A o \in RowsOf(c, w) : c.rows[o].seq = 0
    BY <1>4, <1>7, <2>2 DEF Steady, WellNumbered
  <2> QED BY <1>4, <2>1, <2>3, <2>4, <2>5 DEF Steady, WellNumbered
<1>9. \A w \in Vaults : /\ ~ c.hist[w].known => c.hist[w] = NoHistory
                        /\ c.hist[w].init => w \in Live(c) /\ c.hist[w].gen = 0
                        /\ c.hist[w].next > 0
  BY <1>1, <1>2, <1>4, <1>5 DEF Steady
<1>10. AllSettled(c)
  BY <1>1, <1>2, <1>4, <1>5, <1>6 DEF AllSettled, Unsettled, Handing, Live
<1> QED BY <1>4, <1>6, <1>8, <1>9, <1>10 DEF Steady, Handing

LEMMA SteadySettles ==
  ASSUME NEW d \in Metadata, NEW c \in Metadata, NEW v \in InitPending(d), Steady(d), Settles(d, c, v)
  PROVE  /\ Steady(c) /\ Unknown(c) = Unknown(d) /\ Handing(c) = {} /\ ~ Unsettled(c, v)
         /\ d.hist[v].known /\ Handing(d) = {}
<1>1. v \in Vaults /\ v \in Live(d) /\ c.vault = d.vault /\ c.rows = d.rows /\ d.hist[v].init
  BY DEF InitPending, Live, Settles
<1>2. /\ \A w \in Vaults : w # v => c.hist[w] = d.hist[w]
      /\ c.hist[v].known = d.hist[v].known /\ ~ c.hist[v].init /\ c.hist[v].gen = d.hist[v].gen
      /\ c.hist[v].batch = d.hist[v].batch /\ c.hist[v].next = d.hist[v].next
  BY <1>1, Fields DEF History, Settles
<1>3. Handing(d) = {} /\ d.hist[v].known
  BY <1>1, Empty DEF Steady
<1>4. Live(c) = Live(d) /\ Present(c) = Present(d) /\ Unknown(c) = Unknown(d) /\ Handing(c) = {}
  BY <1>1, <1>2, <1>3 DEF Live, Present, Unknown, Handing
<1>5. \A w \in Vaults : RowsOf(c, w) = RowsOf(d, w)
  BY <1>1 DEF RowsOf
<1>6. WellNumbered(c)
  <2>1. \A w \in Vaults : c.hist[w].next = d.hist[w].next /\ c.hist[w].known = d.hist[w].known
    BY <1>2
  <2>2. Present(d) \subseteq Vaults /\ Unknown(d) \subseteq Vaults
    BY DEF Present, Unknown
  <2> QED BY <1>1, <1>4, <1>5, <2>1, <2>2 DEF Steady, WellNumbered
<1>7. \A w \in Vaults : /\ ~ c.hist[w].known => c.hist[w] = NoHistory
                        /\ c.hist[w].init => w \in Live(c) /\ c.hist[w].gen = 0
                        /\ c.hist[w].next > 0
  BY <1>2, <1>3, <1>4, ZenonT(40) DEF Steady
<1>8. ~ Unsettled(c, v)
  BY <1>1, <1>2, <1>3 DEF Unsettled, Handing
<1> QED BY <1>3, <1>4, <1>6, <1>7, <1>8 DEF Steady, Handing

\* Numbering gives every vault of an older installation its history.
LEMMA SteadyNumbers ==
  ASSUME NEW d \in Metadata, NEW f \in [Ops -> 0..Cardinality(Ops)], Steady(d), IsNumbering(f, d), Unknown(d) # {}
  PROVE  LET c == Numbered(d, f) IN
         /\ c \in Metadata /\ Steady(c) /\ Unknown(c) = {} /\ Handing(c) = {} /\ c.vault = d.vault
         /\ \A v \in Vaults : /\ v \in Unknown(d) => c.hist[v].init /\ c.hist[v].next > 0
                              /\ v \notin Unknown(d) => c.hist[v] = d.hist[v]
         /\ \A o \in Ops : /\ c.rows[o].vault = d.rows[o].vault /\ c.rows[o].status = d.rows[o].status
                           /\ c.rows[o].key = d.rows[o].key /\ c.rows[o].base = d.rows[o].base
                           /\ d.rows[o].vault \notin Unknown(d) => c.rows[o] = d.rows[o]
<1> DEFINE c == Numbered(d, f)
           Rows == [o \in Ops |-> IF d.rows[o].vault \in Unknown(d) THEN [d.rows[o] EXCEPT !.seq = f[o]] ELSE d.rows[o]]
           Hist == [v \in Vaults |->
                      IF v \in Unknown(d)
                      THEN [known |-> TRUE, gen |-> 0, next |-> Cardinality(RowsOf(d, v)) + 1,
                            init |-> TRUE, batch |-> {}]
                      ELSE d.hist[v]]
<1>1. c = [d EXCEPT !.rows = Rows, !.hist = Hist]
  BY DEF Numbered
<1>2. c.vault = d.vault /\ c.rows = Rows /\ c.hist = Hist /\ c = [vault |-> d.vault, rows |-> Rows, hist |-> Hist]
  BY <1>1 DEF Metadata
<1>3. \A v \in Vaults : IsFiniteSet(RowsOf(d, v)) /\ Cardinality(RowsOf(d, v)) \in Nat
  <2>1. \A v \in Vaults : RowsOf(d, v) \subseteq Ops
    BY DEF RowsOf
  <2> QED BY <2>1, FS_Subset, FS_CardinalityType, HistoryAssumption
<1>4. f \in [Ops -> Nat]
  BY FS_CardinalityType, HistoryAssumption
<1>5. Rows \in [Ops -> Row]
  <2> SUFFICES ASSUME NEW o \in Ops PROVE Rows[o] \in Row
    OBVIOUS
  <2>1. d.rows[o] \in Row /\ f[o] \in Nat
    BY <1>4, Fields
  <2>2. [d.rows[o] EXCEPT !.seq = f[o]] \in Row
    BY <2>1 DEF Row
  <2> QED BY <2>1, <2>2
<1>6. Hist \in [Vaults -> History]
  <2> SUFFICES ASSUME NEW v \in Vaults PROVE Hist[v] \in History
    OBVIOUS
  <2> QED BY <1>3, Fields DEF History
<1>7. c \in Metadata
  BY <1>2, <1>5, <1>6, Fields DEF Metadata
<1>8. Unknown(d) \subseteq Live(d) /\ Live(d) \subseteq Present(d) /\ Present(d) \subseteq Vaults
  BY DEF Steady, Live, Present
<1>9. Handing(d) = {}
  BY <1>8 DEF Steady, Unknown
<1>10. /\ \A v \in Unknown(d) : /\ c.hist[v].known /\ c.hist[v].init /\ c.hist[v].gen = 0 /\ c.hist[v].batch = {}
                                /\ c.hist[v].next = Cardinality(RowsOf(d, v)) + 1
       /\ \A v \in Vaults \ Unknown(d) : c.hist[v] = d.hist[v]
  BY <1>2, <1>8
<1>11. Live(c) = Live(d) /\ Present(c) = Present(d) /\ Unknown(c) = {} /\ Handing(c) = {}
  BY <1>2, <1>9, <1>10 DEF Live, Present, Unknown, Handing
<1>12. \A o \in Ops : /\ c.rows[o].vault = d.rows[o].vault /\ c.rows[o].status = d.rows[o].status
                      /\ c.rows[o].key = d.rows[o].key /\ c.rows[o].base = d.rows[o].base
                      /\ d.rows[o].vault \notin Unknown(d) => c.rows[o] = d.rows[o]
  <2> SUFFICES ASSUME NEW o \in Ops
       PROVE  /\ c.rows[o].vault = d.rows[o].vault /\ c.rows[o].status = d.rows[o].status
              /\ c.rows[o].key = d.rows[o].key /\ c.rows[o].base = d.rows[o].base
              /\ d.rows[o].vault \notin Unknown(d) => c.rows[o] = d.rows[o]
    OBVIOUS
  <2>1. d.rows[o] \in Row
    BY Fields
  <2> QED BY <1>2, <2>1 DEF Row
<1>13. \A o \in Ops : d.rows[o].vault \in Unknown(d) => c.rows[o].seq = f[o]
  <2> SUFFICES ASSUME NEW o \in Ops, d.rows[o].vault \in Unknown(d) PROVE c.rows[o].seq = f[o]
    OBVIOUS
  <2>1. d.rows[o] \in Row
    BY Fields
  <2> QED BY <1>2, <2>1 DEF Row
<1>14. \A v \in Vaults : RowsOf(c, v) = RowsOf(d, v)
  BY <1>12 DEF RowsOf
<1>15. WellNumbered(c)
  <2>1. \A w \in Vaults \ Present(c) : ~ c.hist[w].known
    BY <1>8, <1>10, <1>11 DEF Steady, WellNumbered
  <2>2. \A p \in Ops : c.rows[p] # NoRow => c.rows[p].vault \in Present(c)
    BY <1>8, <1>11, <1>12 DEF Steady, WellNumbered
  <2>3. ASSUME NEW w \in Present(c), NEW p \in RowsOf(c, w), NEW q \in RowsOf(c, w)
        PROVE  /\ c.rows[p].seq > 0 /\ c.rows[p].seq < c.hist[w].next
               /\ c.rows[p].seq = c.rows[q].seq => p = q
    <3>0. w \in Vaults /\ p \in RowsOf(d, w) /\ q \in RowsOf(d, w) /\ p \in Ops /\ q \in Ops
          /\ d.rows[p].vault = w /\ d.rows[q].vault = w
      BY <1>8, <1>11, <1>14 DEF RowsOf
    <3>1. CASE w \in Unknown(d)
      <4>1. /\ f[p] \in 1..Cardinality(RowsOf(d, w)) /\ (f[p] = f[q] => p = q)
        BY <3>0, <3>1 DEF IsNumbering
      <4>2. c.rows[p].seq = f[p] /\ c.rows[q].seq = f[q] /\ c.hist[w].next = Cardinality(RowsOf(d, w)) + 1
        BY <1>10, <1>13, <3>0, <3>1
      <4>3. Cardinality(RowsOf(d, w)) \in Nat
        BY <1>3, <3>0
      <4> QED BY <4>1, <4>2, <4>3
    <3>2. CASE w \notin Unknown(d)
      <4>1. c.rows[p] = d.rows[p] /\ c.rows[q] = d.rows[q] /\ c.hist[w] = d.hist[w] /\ w \in Present(d) \ Unknown(d)
        BY <1>10, <1>11, <1>12, <3>0, <3>2
      <4> QED BY <3>0, <4>1 DEF Steady, WellNumbered
    <3> QED BY <3>1, <3>2
  <2> QED BY <1>11, <2>1, <2>2, <2>3 DEF WellNumbered
<1>16. \A w \in Vaults : /\ ~ c.hist[w].known => c.hist[w] = NoHistory
                         /\ c.hist[w].init => w \in Live(c) /\ c.hist[w].gen = 0
                         /\ c.hist[w].next > 0 /\ c.hist[w].batch = {}
  <2> SUFFICES ASSUME NEW w \in Vaults
       PROVE  /\ ~ c.hist[w].known => c.hist[w] = NoHistory
              /\ c.hist[w].init => w \in Live(c) /\ c.hist[w].gen = 0
              /\ c.hist[w].next > 0 /\ c.hist[w].batch = {}
    OBVIOUS
  <2>1. CASE w \in Unknown(d)
    <3>1. Cardinality(RowsOf(d, w)) \in Nat
      BY <1>3
    <3> QED BY <1>8, <1>10, <1>11, <2>1, <3>1
  <2>2. CASE w \notin Unknown(d)
    BY <1>9, <1>10, <1>11, <2>2 DEF Steady, Handing
  <2> QED BY <2>1, <2>2
<1>17. Steady(c)
  BY <1>11, <1>15, <1>16 DEF Steady
<1>18. \A v \in Vaults : /\ v \in Unknown(d) => c.hist[v].init /\ c.hist[v].next > 0
                         /\ v \notin Unknown(d) => c.hist[v] = d.hist[v]
  BY <1>10, <1>16
<1> HIDE DEF c, Rows, Hist
<1>19. c \in Metadata /\ Steady(c) /\ Unknown(c) = {} /\ Handing(c) = {} /\ c.vault = d.vault
  BY <1>2, <1>7, <1>11, <1>17
<1> QED BY <1>12, <1>18, <1>19 DEF c

\* Candidates that leave the ledgers as they are belong to them as well.
LEMMA BackedEdits ==
  ASSUME NEW d \in Metadata, NEW c \in Metadata, NEW L \in [Vaults -> Ledger], Steady(d), Backed(d, L), Edits(d, c)
  PROVE  Backed(c, L)
<1>1. PICK o \in Ops, r \in Row :
        /\ c.rows = [d.rows EXCEPT ![o] = r] /\ d.rows[o].status \in {"open", "pushed"}
        /\ r.vault = d.rows[o].vault /\ r.seq = d.rows[o].seq
  BY DEF Edits
<1>2. c.vault = d.vault /\ c.hist = d.hist /\ d.rows[o] # NoRow
  BY <1>1, Empty DEF Edits
<1>3. /\ \A p \in Ops : c.rows[p].vault = d.rows[p].vault /\ c.rows[p].seq = d.rows[p].seq
      /\ \A p \in Ops : d.rows[p] = NoRow => c.rows[p] = NoRow
  BY <1>1, <1>2, Fields
<1>4. \A v \in Vaults : RowsOf(c, v) = RowsOf(d, v) /\ RowsOf(d, v) \subseteq Ops
  BY <1>3 DEF RowsOf
<1>5. \A v \in Vaults : \A e \in L[v].rows : e.op \in Ops
  BY DEF Ledger, Entry
<1>6. \A v \in Vaults : Abreast(d, L, v) => Abreast(c, L, v)
  BY <1>2, <1>3, <1>5 DEF Abreast
<1> QED BY <1>2, <1>3, <1>4, <1>6 DEF Backed, BackedAt

LEMMA BackedAdmits ==
  ASSUME NEW d \in Metadata, NEW c \in Metadata, NEW L \in [Vaults -> Ledger], WholeLedger(L), Backed(d, L), Admits(d, c, L)
  PROVE  Backed(c, L)
<1>1. PICK v \in Live(d), o \in Ops, r \in Row :
        /\ d.rows[o] = NoRow /\ \A w \in Vaults : \A e \in L[w].rows : e.op # o
        /\ c.rows = [d.rows EXCEPT ![o] = r]
        /\ r.vault = v /\ r.seq = d.hist[v].next
        /\ c.hist = [d.hist EXCEPT ![v] = [d.hist[v] EXCEPT !.next = d.hist[v].next + 1]]
  BY DEF Admits
<1>2. c.vault = d.vault /\ v \in Vaults
  BY DEF Admits, Live
<1>3. c.rows[o] = r /\ \A p \in Ops : p # o => c.rows[p] = d.rows[p]
  BY <1>1, Fields
<1>4. /\ \A w \in Vaults : w # v => c.hist[w] = d.hist[w]
      /\ c.hist[v].known = d.hist[v].known /\ c.hist[v].init = d.hist[v].init /\ c.hist[v].gen = d.hist[v].gen
      /\ c.hist[v].batch = d.hist[v].batch /\ c.hist[v].next = d.hist[v].next + 1
  BY <1>1, <1>2, Fields DEF History
<1>5. \A w \in Vaults : \A e \in L[w].rows : e.op \in Ops /\ c.rows[e.op] = d.rows[e.op]
  BY <1>1, <1>3 DEF Ledger, Entry
<1>6. \A w \in Vaults : Abreast(d, L, w) => Abreast(c, L, w)
  BY <1>4, <1>5 DEF Abreast
<1>7. \A w \in Vaults : L[w].made => L[w].max < c.hist[w].next
  <2>1. d.hist[v].next \in Nat /\ L[v].max \in Nat
    BY <1>2, Fields DEF Ledger
  <2> QED BY <1>4, <2>1 DEF Backed, BackedAt
<1>8. ASSUME NEW w \in Vaults, NEW p \in RowsOf(c, w), NEW e \in L[w].rows, c.rows[p].seq = e.row.seq PROVE e.op = p
  <2>1. p \in Ops /\ c.rows[p].vault = w
    BY DEF RowsOf
  <2>2. CASE p = o
    <3>1. w = v /\ e.row.seq = d.hist[v].next
      BY <1>1, <1>3, <1>8, <2>1, <2>2
    <3>2. e.row.seq <= L[v].max /\ L[v].made
      BY <1>2, <1>8, <3>1 DEF WholeLedger, NoLedger
    <3>3. L[v].max < d.hist[v].next /\ L[v].max \in Nat /\ d.hist[v].next \in Nat
      BY <1>2, <3>2, Fields DEF Backed, BackedAt, Ledger
    <3> QED BY <3>1, <3>2, <3>3
  <2>3. CASE p # o
    BY <1>3, <1>8, <2>1, <2>3 DEF Backed, BackedAt, RowsOf
  <2> QED BY <2>2, <2>3
<1> QED BY <1>2, <1>4, <1>6, <1>7, <1>8 DEF Backed, BackedAt

LEMMA BackedCreates ==
  ASSUME NEW d \in Metadata, NEW c \in Metadata, NEW L \in [Vaults -> Ledger],
         Steady(d), WholeLedger(L), Backed(d, L), Creates(d, c)
  PROVE  Backed(c, L)
<1>1. PICK v \in Vaults :
        /\ d.vault[v] = "absent" /\ c.vault = [d.vault EXCEPT ![v] = "active"]
        /\ c.hist = [d.hist EXCEPT ![v] = [NoHistory EXCEPT !.known = TRUE, !.init = TRUE]]
  BY DEF Creates
<1>2. c.rows = d.rows /\ v \notin Present(d)
  BY <1>1 DEF Creates, Present
<1>3. /\ \A w \in Vaults : w # v => c.vault[w] = d.vault[w] /\ c.hist[w] = d.hist[w]
      /\ c.hist[v] = [NoHistory EXCEPT !.known = TRUE, !.init = TRUE]
  BY <1>1, Fields
<1>4. c.hist[v].known /\ c.hist[v].init
  BY <1>3 DEF NoHistory
<1>5. ~ L[v].made /\ L[v].rows = {}
  BY <1>2 DEF Steady, WellNumbered, Backed, BackedAt, WholeLedger, NoLedger
<1>6. \A w \in Vaults : RowsOf(c, w) = RowsOf(d, w)
  BY <1>2 DEF RowsOf
<1>7. \A w \in Vaults : w # v /\ Abreast(d, L, w) => Abreast(c, L, w)
  BY <1>2, <1>3 DEF Abreast
<1>8. BackedAt(c, L, v)
  BY <1>4, <1>5 DEF BackedAt
<1>9. \A w \in Vaults : w # v => BackedAt(c, L, w)
  BY <1>2, <1>3, <1>6, <1>7 DEF Backed, BackedAt
<1> QED BY <1>8, <1>9 DEF Backed

LEMMA BackedCondemns ==
  ASSUME NEW d \in Metadata, NEW c \in Metadata, NEW L \in [Vaults -> Ledger], Backed(d, L), Condemns(d, c)
  PROVE  Backed(c, L)
<1>1. c.rows = d.rows /\ c.hist = d.hist /\ \A v \in Vaults : d.vault[v] = "finalizing" => c.vault[v] = "finalizing"
  BY Fields DEF Condemns
<1>2. \A w \in Vaults : RowsOf(c, w) = RowsOf(d, w) /\ (Abreast(d, L, w) => Abreast(c, L, w))
  BY <1>1 DEF RowsOf, Abreast
<1> QED BY <1>1, <1>2 DEF Backed, BackedAt

LEMMA BackedRemoves ==
  ASSUME NEW d \in Metadata, NEW c \in Metadata, NEW L \in [Vaults -> Ledger], WholeLedger(L), Backed(d, L), Removes(d, c, L)
  PROVE  Backed(c, L)
<1>1. PICK v \in Vaults :
        /\ ~ L[v].made
        /\ c.vault = [d.vault EXCEPT ![v] = "deleted"]
        /\ c.rows = [o \in Ops |-> IF d.rows[o].vault = v THEN NoRow ELSE d.rows[o]]
        /\ c.hist = [d.hist EXCEPT ![v] = NoHistory]
  BY DEF Removes
<1>2. /\ \A w \in Vaults : w # v => c.vault[w] = d.vault[w] /\ c.hist[w] = d.hist[w]
      /\ c.hist[v] = NoHistory
  BY <1>1, Fields
<1>3. \A o \in Ops : d.rows[o] = NoRow => c.rows[o] = NoRow
  BY <1>1
<1>4. /\ \A w \in Vaults : w # v => RowsOf(c, w) = RowsOf(d, w)
      /\ \A w \in Vaults : w # v => \A o \in RowsOf(d, w) : c.rows[o] = d.rows[o]
  BY <1>1, Empty DEF RowsOf
<1>5. L[v].rows = {}
  BY <1>1 DEF WholeLedger, NoLedger
<1>6. \A w \in Vaults : \A e \in L[w].rows : e.op \in Ops
  BY DEF Ledger, Entry
<1>7. \A w \in Vaults : w # v /\ Abreast(d, L, w) => Abreast(c, L, w)
  BY <1>2, <1>3, <1>6 DEF Abreast
<1>8. BackedAt(c, L, v)
  BY <1>1, <1>2, <1>5, Empty DEF BackedAt
<1>9. \A w \in Vaults : w # v => BackedAt(c, L, w)
  BY <1>2, <1>4, <1>7 DEF Backed, BackedAt
<1> QED BY <1>8, <1>9 DEF Backed

LEMMA BackedDescribes ==
  ASSUME NEW d \in Metadata, NEW c \in Metadata, NEW L \in [Vaults -> Ledger], NEW v \in Vaults,
         d.hist[v].batch = {}, Backed(d, L), Describes(d, c, v)
  PROVE  Backed(c, L)
<1>1. PICK B \in SUBSET Entry : c.hist = [d.hist EXCEPT ![v] = [d.hist[v] EXCEPT !.batch = B]]
  BY DEF Describes
<1>2. c.rows = d.rows /\ c.vault = d.vault
  BY DEF Describes
<1>3. /\ \A w \in Vaults : w # v => c.hist[w] = d.hist[w]
      /\ c.hist[v].known = d.hist[v].known /\ c.hist[v].init = d.hist[v].init /\ c.hist[v].gen = d.hist[v].gen
      /\ c.hist[v].next = d.hist[v].next
  BY <1>1, <1>2, Fields DEF History
<1>4. \A w \in Vaults : RowsOf(c, w) = RowsOf(d, w) /\ (Abreast(d, L, w) => Abreast(c, L, w))
  BY <1>2, <1>3 DEF RowsOf, Abreast
<1> QED BY <1>2, <1>3, <1>4 DEF Backed, BackedAt

LEMMA BackedDrops ==
  ASSUME NEW d \in Metadata, NEW c \in Metadata, NEW L \in [Vaults -> Ledger], NEW v \in Handing(d),
         Steady(d), Backed(d, L), L[v].gen = d.hist[v].gen + 1, Drops(d, c, v)
  PROVE  Backed(c, L)
<1>1. v \in Vaults /\ c.vault = d.vault
  BY DEF Handing, Drops
<1>2. /\ \A w \in Vaults : w # v => c.hist[w] = d.hist[w]
      /\ c.hist[v].known = d.hist[v].known /\ c.hist[v].init = d.hist[v].init
      /\ c.hist[v].gen = d.hist[v].gen + 1 /\ c.hist[v].next = d.hist[v].next
  BY <1>1, Fields DEF History, Drops
<1>3. \A o \in Ops : c.rows[o] = NoRow \/ c.rows[o] = d.rows[o]
  BY DEF Drops
<1>4. \A w \in Vaults : RowsOf(c, w) \subseteq RowsOf(d, w) /\ \A o \in RowsOf(c, w) : c.rows[o] = d.rows[o]
  BY <1>3, Empty DEF RowsOf
<1>5. \A w \in Vaults : \A e \in L[w].rows : e.op \in Ops
  BY DEF Ledger, Entry
<1>6. \A w \in Vaults : w # v /\ Abreast(d, L, w) => Abreast(c, L, w)
  BY <1>2, <1>3, <1>5 DEF Abreast
<1>7. L[v].made => Abreast(c, L, v)
  <2>1. \A e \in d.hist[v].batch : e.op \in Ops /\ d.rows[e.op].vault = v
    BY <1>1, Fields DEF Steady, Entry
  <2>2. \A e \in d.hist[v].batch : c.rows[e.op] = NoRow
    BY <2>1 DEF Drops
  <2>3. L[v].made => \A e \in L[v].rows : e \in d.hist[v].batch \/ d.rows[e.op] = NoRow
    BY <1>1 DEF Backed, BackedAt, Abreast
  <2> QED BY <1>1, <1>2, <1>3, <1>5, <2>2, <2>3 DEF Abreast
<1>8. \A w \in Vaults : /\ c.hist[w].known = d.hist[w].known /\ c.hist[w].init = d.hist[w].init
                        /\ c.hist[w].next = d.hist[w].next
  BY <1>2
<1> QED BY <1>1, <1>4, <1>6, <1>7, <1>8 DEF Backed, BackedAt

LEMMA BackedSettles ==
  ASSUME NEW d \in Metadata, NEW c \in Metadata, NEW L \in [Vaults -> Ledger], NEW v \in InitPending(d),
         L[v] = EmptyLedger, Backed(d, L), Settles(d, c, v)
  PROVE  Backed(c, L)
<1>1. v \in Vaults /\ c.vault = d.vault /\ c.rows = d.rows
  BY DEF InitPending, Live, Settles
<1>2. /\ \A w \in Vaults : w # v => c.hist[w] = d.hist[w]
      /\ c.hist[v].known = d.hist[v].known /\ ~ c.hist[v].init /\ c.hist[v].gen = d.hist[v].gen
      /\ c.hist[v].batch = d.hist[v].batch /\ c.hist[v].next = d.hist[v].next
  BY <1>1, Fields DEF History, Settles
<1>3. \A w \in Vaults : RowsOf(c, w) = RowsOf(d, w) /\ (Abreast(d, L, w) => Abreast(c, L, w))
  BY <1>1, <1>2 DEF RowsOf, Abreast
<1>4. L[v].made
  BY DEF EmptyLedger, NoLedger
<1> QED BY <1>1, <1>2, <1>3, <1>4 DEF Backed, BackedAt

LEMMA BackedNumbers ==
  ASSUME NEW d \in Metadata, NEW c \in Metadata, NEW L \in [Vaults -> Ledger], WholeLedger(L), Backed(d, L), c.vault = d.vault,
         \A v \in Vaults : /\ v \in Unknown(d) => c.hist[v].init
                           /\ v \notin Unknown(d) => c.hist[v] = d.hist[v],
         \A o \in Ops : /\ c.rows[o].vault = d.rows[o].vault
                        /\ d.rows[o].vault \notin Unknown(d) => c.rows[o] = d.rows[o]
  PROVE  Backed(c, L)
<1>1. \A v \in Unknown(d) : v \in Vaults /\ ~ L[v].made /\ L[v].rows = {}
  BY DEF Unknown, Present, Backed, BackedAt, WholeLedger, NoLedger
<1>2. \A v \in Vaults : RowsOf(c, v) = RowsOf(d, v) /\ \A o \in RowsOf(d, v) : o \in Ops /\ d.rows[o].vault = v
  BY DEF RowsOf
<1>3. \A o \in Ops : d.rows[o] = NoRow => c.rows[o] = NoRow
  BY Empty DEF Unknown, Present
<1>4. \A w \in Vaults : \A e \in L[w].rows : e.op \in Ops
  BY DEF Ledger, Entry
<1>5. \A w \in Vaults : w \notin Unknown(d) /\ Abreast(d, L, w) => Abreast(c, L, w)
  BY <1>3, <1>4 DEF Abreast
<1> SUFFICES ASSUME NEW w \in Vaults PROVE BackedAt(c, L, w)
  BY DEF Backed
<1>6. CASE w \in Unknown(d)
  BY <1>1, <1>6 DEF BackedAt
<1>7. CASE w \notin Unknown(d)
  BY <1>2, <1>5, <1>7 DEF Backed, BackedAt
<1> QED BY <1>6, <1>7

\* commitBatch never meets a ledger it would refuse, and leaves one that belongs to the
\* metadata before and after the described rows are dropped.
LEMMA CommittedEffect ==
  ASSUME NEW d \in Metadata, ledger \in [Vaults -> Ledger], WholeLedger(ledger), Steady(d), Backed(d, ledger),
         NEW v \in Handing(d), NEW M, M = Committed(v, d.hist[v].batch)
  PROVE  /\ ~ CommitRefuses(v, d.hist[v].gen, d.hist[v].batch)
         /\ M \in [Vaults -> Ledger] /\ Commits(d, ledger, M, v) /\ WholeLedger(M) /\ Backed(d, M)
<1> DEFINE B == d.hist[v].batch
           L == ledger[v]
<1>1. v \in Vaults /\ v \in Live(d) /\ B # {} /\ B \subseteq Entry /\ d.hist[v].known /\ ~ d.hist[v].init
  BY Fields DEF Handing, Steady
<1>2. d.vault[v] = "active"
  BY <1>1 DEF Live
<1>3. /\ L.made /\ L.max < d.hist[v].next /\ Abreast(d, ledger, v) /\ L \in Ledger
      /\ L.max \in Nat /\ L.gen \in Nat /\ L.rows \subseteq Entry /\ L.proofs \subseteq SUBSET Entry
      /\ d.hist[v].next \in Nat /\ d.hist[v].gen \in Nat
  BY <1>1, <1>2, Fields DEF Backed, BackedAt, Ledger
<1>4. \A e \in B : /\ e.row = d.rows[e.op] /\ e.op \in Ops /\ e.row # NoRow /\ e.row.seq \in Nat
                   /\ e.row.vault = v /\ e.row.status = "done" /\ e.op \in RowsOf(d, v)
                   /\ e = [op |-> e.op, row |-> e.row]
  BY <1>1, Empty DEF Steady, Entry, Row, RowsOf
<1>5. v \in Present(d) \ Unknown(d)
  BY <1>1, <1>2 DEF Present, Unknown
<1>6. \A e \in B : e.row.seq < d.hist[v].next
  BY <1>4, <1>5 DEF Steady, WellNumbered
<1>7. \A e, f \in B : e.op = f.op \/ e.row.seq = f.row.seq => e = f
  BY <1>4, <1>5 DEF Steady, WellNumbered
<1>8. CASE L.gen = d.hist[v].gen /\ \A e \in L.rows : d.rows[e.op] = NoRow
  <2>1. \A e \in B, f \in L.rows : e.op # f.op
    BY <1>4, <1>8
  <2>2. B \notin L.proofs
    <3>1. PICK e \in B : TRUE
      BY <1>1
    <3> QED BY <1>1, <2>1, <3>1 DEF WholeLedger
  <2> DEFINE S == {L.max} \cup Sequences(B)
             m == Max(S)
             N == [made |-> TRUE, gen |-> L.gen + 1, max |-> m, rows |-> L.rows \cup B, proofs |-> L.proofs \cup {B}]
  <2>3. S \subseteq Nat /\ S # {} /\ \A n \in S : n < d.hist[v].next
    BY <1>3, <1>4, <1>6 DEF Sequences
  <2>4. m \in S /\ \A n \in S : n <= m
    <3> HIDE DEF S
    <3> QED BY <1>3, <2>3, Largest
  <2>5. m \in Nat /\ L.max <= m /\ m < d.hist[v].next /\ \A e \in B : e.row.seq <= m
    BY <2>3, <2>4 DEF Sequences
  <2>6. M = [ledger EXCEPT ![v] = N]
    BY <2>2 DEF Committed
  <2> HIDE DEF m
  <2>7. N \in Ledger
    BY <1>1, <1>3, <2>5 DEF Ledger
  <2>8. /\ M \in [Vaults -> Ledger] /\ \A w \in Vaults \ {v} : M[w] = ledger[w]
        /\ M[v] = N
    BY <1>1, <2>6, <2>7
  <2>9. /\ M[v].made /\ M[v].gen = d.hist[v].gen + 1 /\ M[v].max = m
        /\ M[v].rows = L.rows \cup B /\ M[v].proofs = L.proofs \cup {B}
    BY <1>8, <2>8
  <2>10. Commits(d, ledger, M, v)
    BY <2>5, <2>8, <2>9 DEF Commits
  <2>11. WholeLedger(M)
    <3>1. \A e \in M[v].rows : e.row.vault = v /\ e.row.status = "done" /\ e.row.seq <= M[v].max
      <4>1. \A e \in L.rows : e.row.vault = v /\ e.row.status = "done" /\ e.row.seq <= L.max /\ e.row.seq \in Nat
        BY <1>1, <1>3 DEF WholeLedger, Entry, Row
      <4>2. \A e \in L.rows : e.row.seq <= m
        BY <1>3, <2>5, <4>1
      <4> QED BY <1>4, <2>5, <2>9, <4>1, <4>2
    <3>2. \A P \in M[v].proofs : P \subseteq M[v].rows
      BY <1>1, <2>9 DEF WholeLedger
    <3>3. ASSUME NEW e \in M[v].rows, NEW f \in M[v].rows, e.op = f.op \/ e.row.seq = f.row.seq PROVE e = f
      <4>1. \A x, y \in L.rows : x.op = y.op \/ x.row.seq = y.row.seq => x = y
        BY <1>1 DEF WholeLedger
      <4>2. \A x \in B, y \in L.rows : x.row.seq # y.row.seq
        BY <1>1, <1>4, <2>1 DEF Backed, BackedAt
      <4> QED BY <1>7, <2>1, <2>9, <3>3, <4>1, <4>2
    <3>4. \A w \in Vaults \ {v} : M[w] = ledger[w]
      BY <2>8
    <3> QED BY <2>9, <3>1, <3>2, <3>3, <3>4 DEF WholeLedger
  <2>12. Backed(d, M)
    <3>1. \A w \in Vaults : w # v => BackedAt(d, M, w)
      BY <2>8 DEF Backed, BackedAt, Abreast
    <3>2. Abreast(d, M, v)
      BY <1>1, <1>8, <2>9 DEF Abreast
    <3>3. ASSUME NEW o \in RowsOf(d, v), NEW e \in M[v].rows, d.rows[o].seq = e.row.seq PROVE e.op = o
      <4>1. CASE e \in L.rows
        BY <1>1, <3>3, <4>1 DEF Backed, BackedAt
      <4>2. CASE e \in B
        BY <1>4, <1>5, <3>3, <4>2 DEF Steady, WellNumbered
      <4> QED BY <2>9, <4>1, <4>2
    <3>4. BackedAt(d, M, v)
      BY <1>1, <2>5, <2>9, <3>2, <3>3 DEF BackedAt
    <3> QED BY <3>1, <3>4 DEF Backed
  <2>13. ~ CommitRefuses(v, d.hist[v].gen, B)
    BY <1>8, <2>1, <2>2 DEF CommitRefuses
  <2> QED BY <2>8, <2>10, <2>11, <2>12, <2>13
<1>9. CASE /\ B \in L.proofs /\ L.gen = d.hist[v].gen + 1
           /\ \A e \in L.rows : e \in B \/ d.rows[e.op] = NoRow
  <2>1. M = ledger /\ B \subseteq L.rows
    BY <1>1, <1>9 DEF Committed, WholeLedger
  <2>2. \A e \in B : e.row.seq <= L.max
    BY <1>1, <2>1 DEF WholeLedger
  <2>3. Commits(d, ledger, M, v)
    BY <1>3, <1>9, <2>1, <2>2 DEF Commits
  <2>4. ~ CommitRefuses(v, d.hist[v].gen, B)
    BY <1>9, <2>1 DEF CommitRefuses
  <2> QED BY <2>1, <2>3, <2>4
<1> QED BY <1>3, <1>8, <1>9 DEF Abreast

\* A ledger that is opened for the first time is empty.
LEMMA OpenedEffect ==
  ASSUME NEW d \in Metadata, ledger \in [Vaults -> Ledger], WholeLedger(ledger), Steady(d), Backed(d, ledger),
         NEW v \in InitPending(d), NEW M, M = Opened(v)
  PROVE  /\ M \in [Vaults -> Ledger] /\ WholeLedger(M) /\ Backed(d, M)
         /\ M[v] = EmptyLedger /\ \A w \in Vaults \ {v} : M[w] = ledger[w]
         /\ ledger[v].rows = {} /\ ledger[v].gen = 0
         /\ ledger[v].made => Agrees(d, v)
<1>1. v \in Vaults /\ d.hist[v].init /\ d.hist[v].gen = 0 /\ d.hist[v].next > 0 /\ d.hist[v].known
  BY Empty DEF InitPending, Live, Steady
<1>2. /\ EmptyLedger \in Ledger /\ EmptyLedger.made /\ EmptyLedger.rows = {} /\ EmptyLedger.proofs = {}
      /\ EmptyLedger.gen = 0 /\ EmptyLedger.max = 0 /\ NoLedger.rows = {} /\ NoLedger.gen = 0
  BY DEF EmptyLedger, NoLedger, Ledger
<1>3. ledger[v] = EmptyLedger \/ (ledger[v] = NoLedger /\ ~ ledger[v].made)
  BY <1>1 DEF Backed, BackedAt, WholeLedger
<1>4. M[v] = EmptyLedger /\ M \in [Vaults -> Ledger] /\ \A w \in Vaults \ {v} : M[w] = ledger[w]
  BY <1>1, <1>2, <1>3 DEF Opened
<1>5. WholeLedger(M)
  BY <1>2, <1>4 DEF WholeLedger
<1>6. BackedAt(d, M, v)
  BY <1>1, <1>2, <1>4 DEF BackedAt, Abreast
<1>7. \A w \in Vaults : w # v => BackedAt(d, M, w)
  BY <1>4 DEF Backed, BackedAt, Abreast
<1>8. ledger[v].made => Agrees(d, v)
  BY <1>1, <1>2, <1>3 DEF Agrees
<1> QED BY <1>2, <1>3, <1>4, <1>5, <1>6, <1>7, <1>8 DEF Backed

\* A ledger is erased where its vault is.
LEMMA ErasedEffect ==
  ASSUME NEW d \in Metadata, ledger \in [Vaults -> Ledger], Steady(d), Backed(d, ledger),
         NEW v \in Vaults, d.vault[v] \in {"finalizing", "deleted"}
  PROVE  Backed(d, [ledger EXCEPT ![v] = NoLedger])
<1> DEFINE M == [ledger EXCEPT ![v] = NoLedger]
<1>1. M[v] = NoLedger /\ \A w \in Vaults : w # v => M[w] = ledger[w]
  OBVIOUS
<1>2. ~ NoLedger.made /\ NoLedger.rows = {}
  BY DEF NoLedger
<1>3. d.vault[v] = "deleted" => ~ d.hist[v].known
  BY DEF Steady, WellNumbered, Present
<1>4. BackedAt(d, M, v)
  BY <1>1, <1>2, <1>3 DEF BackedAt
<1>5. \A w \in Vaults : w # v => BackedAt(d, M, w)
  BY <1>1 DEF Backed, BackedAt, Abreast
<1> QED BY <1>4, <1>5 DEF Backed

\* What assertOperational, verifyOnDisk and verifyOpenState find of matching ledgers.
LEMMA SettledAgrees ==
  ASSUME NEW d \in Metadata, ledger \in [Vaults -> Ledger], Backed(d, ledger), NEW v \in Live(d), ~ Unsettled(d, v)
  PROVE  Agrees(d, v)
BY DEF Backed, BackedAt, Abreast, Unsettled, Agrees, Live

LEMMA Openable ==
  ASSUME NEW d \in Metadata, NEW u \in Metadata, ledger \in [Vaults -> Ledger], WholeLedger(ledger), Steady(d), Backed(d, ledger),
         NEW v \in Live(d), d.hist[v].known, u.hist[v] = d.hist[v], u = d \/ u.hist[v].batch = {}
  PROVE  MayOpen(u, v)
<1>1. v \in Vaults /\ d.vault[v] = "active"
  BY DEF Live
<1>2. u.hist[v].init => u.hist[v].gen = 0 /\ u.hist[v].batch = {}
  BY <1>1 DEF Steady
<1>3. ledger[v].made \/ u.hist[v].init
  BY <1>1, Fields DEF Backed, BackedAt
<1>4. ValidBatch(u, v)
  <2>1. CASE u.hist[v].batch = {}
    BY <2>1 DEF ValidBatch
  <2>2. CASE u = d
    <3>1. \A e \in d.hist[v].batch : /\ e = [op |-> e.op, row |-> d.rows[e.op]] /\ e.op \in Ops
                                     /\ d.rows[e.op].status = "done"
      BY <1>1, Fields DEF Steady, Entry
    <3>2. d.hist[v].batch \subseteq Finished(d)
      BY <3>1 DEF Finished, Entries
    <3> QED BY <2>2, <3>2 DEF ValidBatch
  <2> QED BY <2>1, <2>2
<1>5. ASSUME ledger[v].made PROVE ProvenOpen(u, v)
  <2>1. ledger[v].max < d.hist[v].next /\ Abreast(d, ledger, v)
    BY <1>1, <1>5 DEF Backed, BackedAt
  <2>2. CASE d.hist[v].batch = {}
    BY <2>1, <2>2 DEF Abreast, ProvenOpen
  <2>3. CASE d.hist[v].batch # {} /\ ledger[v].gen = d.hist[v].gen /\ \A e \in ledger[v].rows : d.rows[e.op] = NoRow
    <3>1. \A e \in d.hist[v].batch : e.op \in RowsOf(d, v) /\ e.row = d.rows[e.op] /\ e.row # NoRow
      BY <1>1, Fields, Empty DEF Steady, Entry, RowsOf
    <3>2. \A e \in d.hist[v].batch, f \in ledger[v].rows : e.op # f.op
      BY <2>3, <3>1
    <3>3. \A e \in d.hist[v].batch, f \in ledger[v].rows : e.row.seq # f.row.seq
      BY <1>1, <3>1, <3>2 DEF Backed, BackedAt
    <3>4. d.hist[v].batch \notin ledger[v].proofs
      <4>1. PICK e \in d.hist[v].batch : TRUE
        BY <2>3
      <4> QED BY <1>1, <3>2, <4>1 DEF WholeLedger
    <3> QED BY <2>1, <2>3, <3>2, <3>3, <3>4 DEF ProvenOpen
  <2>4. CASE /\ d.hist[v].batch # {} /\ ledger[v].gen = d.hist[v].gen + 1 /\ d.hist[v].batch \in ledger[v].proofs
    <3>1. d.hist[v].batch \subseteq ledger[v].rows
      BY <1>1, <2>4 DEF WholeLedger
    <3> QED BY <2>1, <2>4, <3>1 DEF ProvenOpen
  <2> QED BY <2>1, <2>2, <2>3, <2>4 DEF Abreast
<1> QED BY <1>2, <1>3, <1>4, <1>5 DEF MayOpen

-----------------------------------------------------------------------------
(* The steps and their effect *)

LEMMA DroppedEffect ==
  ASSUME NEW d \in Metadata, NEW v \in Vaults PROVE Dropped(d, v) \in Metadata /\ Drops(d, Dropped(d, v), v)
<1> DEFINE R == [o \in Ops |-> IF d.rows[o].vault = v /\ \E e \in d.hist[v].batch : e.op = o
                               THEN NoRow ELSE d.rows[o]]
           h == [d.hist[v] EXCEPT !.gen = d.hist[v].gen + 1, !.batch = {}]
<1>1. R \in [Ops -> Row]
  BY Fields, Empty
<1>2. h \in History
  <2>1. d.hist[v] \in History /\ d.hist[v].gen + 1 \in Nat
    BY Fields
  <2> QED BY <2>1 DEF History
<1>3. Dropped(d, v) = [d EXCEPT !.rows = R, !.hist[v] = h]
  BY Fields DEF Dropped, Metadata
<1>4. Dropped(d, v) = [vault |-> d.vault, rows |-> R, hist |-> [d.hist EXCEPT ![v] = h]]
  BY <1>3, Fields DEF Metadata
<1>5. [d.hist EXCEPT ![v] = h] \in [Vaults -> History]
  BY <1>2, Fields
<1> QED BY <1>1, <1>4, <1>5, Fields DEF Metadata, Drops

LEMMA SettledEffect ==
  ASSUME NEW d \in Metadata, NEW v \in Vaults, NEW c, c = [d EXCEPT !.hist[v].init = FALSE]
  PROVE  c \in Metadata /\ Settles(d, c, v)
<1> DEFINE h == [d.hist[v] EXCEPT !.init = FALSE]
<1>1. h \in History
  <2>1. d.hist[v] \in History
    BY Fields
  <2> QED BY <2>1 DEF History
<1>2. c = [d EXCEPT !.hist[v] = h]
  BY Fields DEF Metadata
<1>3. c = [vault |-> d.vault, rows |-> d.rows, hist |-> [d.hist EXCEPT ![v] = h]]
  BY <1>2, Fields DEF Metadata
<1>4. [d.hist EXCEPT ![v] = h] \in [Vaults -> History]
  BY <1>1, Fields
<1> QED BY <1>3, <1>4, Fields DEF Metadata, Settles

\* A row that is not finished goes on.
LEMMA EditEffect ==
  ASSUME NEW d \in Metadata, NEW o \in Ops, d.rows[o].status \in {"open", "pushed"},
         NEW r \in Row, r.vault = d.rows[o].vault, r.key = d.rows[o].key, r.seq = d.rows[o].seq,
         r.status \in {"open", "pushed", "done"}
  PROVE  WithRow(d, o, r) \in Metadata /\ Edits(d, WithRow(d, o, r))
<1>1. [d.rows EXCEPT ![o] = r] \in [Ops -> Row]
  BY Fields
<1> QED BY <1>1, Fields DEF WithRow, Metadata, Edits

\* What every queued mutation starts from.
LEMMA MutateGuard ==
  ASSUME HandoffInv, NEW v, NEW d, Mutate(v, d), Up, v \in Vaults \cup {NoVault}
  PROVE  /\ pc = "idle" /\ ~ latched /\ AllSettled(mem) /\ mem \in Metadata
         /\ cand' = d /\ task' = [kind |-> "mutate", vault |-> v] /\ task' \in Tasks /\ pc' = "write"
         /\ UNCHANGED <<file, synced, mem, view, ledger, mode, todo, latched, finished, mix, faults>>
BY DEF HandoffInv, TypeOK, Mutate, Operational, AllSettled, Publish, Tasks

LEMMA EditedStep ==
  ASSUME HandoffInv, NEW v \in Vaults \cup {NoVault}, NEW o \in Ops, mem.rows[o].status \in {"open", "pushed"}, Up,
         NEW r \in Row, r.vault = mem.rows[o].vault, r.key = mem.rows[o].key, r.seq = mem.rows[o].seq,
         r.status \in {"open", "pushed", "done"}, Mutate(v, WithRow(mem, o, r)), UNCHANGED worker,
         mode = "starting" => v = NoVault,
         \/ r.base = mem.rows[o].base
         \/ \E w \in Vaults : worker[w] # NoWorker /\ o = worker[w].op /\ r.base = worker[w].base
  PROVE  Mutated
<1>1. mem \in Metadata /\ worker \in Locks
  BY DEF HandoffInv, TypeOK
<1>2. WithRow(mem, o, r) \in Metadata /\ Edits(mem, WithRow(mem, o, r))
  BY <1>1, EditEffect
<1>3. cand' = WithRow(mem, o, r)
  BY MutateGuard
<1>4. cand'.vault = mem.vault /\ cand'.rows = [mem.rows EXCEPT ![o] = r]
  BY <1>3 DEF WithRow
<1>5. Keeps(mem, cand') \/ Recording
  <2>1. CASE r.base = mem.rows[o].base
    <3>1. mem.rows \in [Ops -> Row]
      BY <1>1, Fields
    <3> QED BY <1>4, <2>1, <3>1 DEF Keeps
  <2>2. CASE \E w \in Vaults : worker[w] # NoWorker /\ o = worker[w].op /\ r.base = worker[w].base
    BY <1>4, <2>2 DEF Recording
  <2> QED BY <2>1, <2>2
<1> QED BY <1>1, <1>2, <1>5, MutateGuard DEF Mutated, Mutates

\* A held lock names a row of an operation.
LEMMA HeldOp ==
  ASSUME HandoffInv, NEW v \in Vaults, Holds(v)
  PROVE  /\ worker[v].op \in Ops /\ worker[v].base \in Bases /\ Up /\ mode = "serving" /\ mem \in Metadata
         /\ mem.rows[worker[v].op] \in Row
<1>1. worker[v] \in [op : Ops, base : Bases] /\ mode = "serving" /\ mem \in Metadata
  BY DEF Holds, HandoffInv, TypeOK, Locks
<1> QED BY <1>1, Fields DEF Up

LEMMA PrepareEffect == ASSUME HandoffInv, NEW v \in Vaults, Prepare(v) PROVE Mutated
<1>1. PICK o \in Ops, b \in Bases :
        /\ o = worker[v].op /\ b = worker[v].base /\ Up /\ mode = "serving" /\ mem \in Metadata /\ mem.rows[o] \in Row
        /\ mem.rows[o].status = "open" /\ UNCHANGED worker /\ worker[v] # NoWorker
  BY HeldOp DEF Prepare, HeldRow, Holds
<1> DEFINE r == [mem.rows[o] EXCEPT !.base = b]
<1>2. /\ r \in Row /\ r.vault = mem.rows[o].vault /\ r.key = mem.rows[o].key /\ r.seq = mem.rows[o].seq
      /\ r.status = "open" /\ r.base = b
  BY <1>1 DEF Row
<1>3. [mem EXCEPT !.rows[o].base = b] = WithRow(mem, o, r)
  BY <1>1, Fields DEF Metadata, WithRow
<1>4. Mutate(v, [mem EXCEPT !.rows[o].base = b])
  BY <1>1 DEF Prepare
<1>5. Mutate(v, WithRow(mem, o, r))
  BY <1>3, <1>4
<1> HIDE DEF r
<1> QED BY <1>1, <1>2, <1>5, EditedStep

LEMMA CompleteEffect ==
  ASSUME HandoffInv, NEW v \in Vaults, NEW st, Complete(v, st) \/ CompleteExisting(v, st) PROVE Mutated
<1>1. PICK o \in Ops, b \in Bases :
        /\ o = worker[v].op /\ b = worker[v].base /\ Up /\ mode = "serving" /\ mem \in Metadata /\ mem.rows[o] \in Row
        /\ mem.rows[o].status = "open" /\ UNCHANGED worker /\ worker[v] # NoWorker
        /\ st \in {"pushed", "done"}
  BY HeldOp DEF Complete, CompleteExisting, HeldRow, Holds
<1> DEFINE r == [mem.rows[o] EXCEPT !.status = st]
           q == [mem.rows[o] EXCEPT !.status = st, !.base = b]
<1>2. /\ r \in Row /\ r.vault = mem.rows[o].vault /\ r.key = mem.rows[o].key /\ r.seq = mem.rows[o].seq
      /\ r.status = st /\ r.base = mem.rows[o].base
  BY <1>1 DEF Row, RowStatus
<1>3. /\ q \in Row /\ q.vault = mem.rows[o].vault /\ q.key = mem.rows[o].key /\ q.seq = mem.rows[o].seq
      /\ q.status = st /\ q.base = b
  BY <1>1 DEF Row, RowStatus
<1>4. [mem EXCEPT !.rows[o].status = st] = WithRow(mem, o, r)
  BY <1>1, Fields DEF Metadata, WithRow
<1>5. [mem EXCEPT !.rows[o].status = st, !.rows[o].base = b] = WithRow(mem, o, q)
  <2>1. WithRow(mem, o, r) \in Metadata
    BY <1>1, <1>2, EditEffect
  <2>2. PICK w \in Metadata : w = WithRow(mem, o, r)
    BY <2>1
  <2>3. [w EXCEPT !.rows[o].base = b] = WithRow(w, o, [w.rows[o] EXCEPT !.base = b])
    BY Fields DEF Metadata, WithRow
  <2>4. w.vault = mem.vault /\ w.hist = mem.hist /\ w.rows = [mem.rows EXCEPT ![o] = r] /\ w.rows[o] = r
    BY <1>1, <2>2, Fields DEF WithRow
  <2>5. [w.rows[o] EXCEPT !.base = b] = q
    BY <1>1, <2>4 DEF Row
  <2>6. [w.rows EXCEPT ![o] = q] = [mem.rows EXCEPT ![o] = q]
    BY <1>1, <2>4, Fields
  <2>7. WithRow(w, o, q) = WithRow(mem, o, q)
    BY <2>4, <2>6 DEF WithRow
  <2> HIDE DEF q, r
  <2> QED BY <1>4, <2>2, <2>3, <2>5, <2>7
<1>6. Mutate(v, [mem EXCEPT !.rows[o].status = st])
      \/ Mutate(v, [mem EXCEPT !.rows[o].status = st, !.rows[o].base = b])
  BY <1>1 DEF Complete, CompleteExisting
<1>7. Mutate(v, WithRow(mem, o, r)) \/ Mutate(v, WithRow(mem, o, q))
  BY <1>4, <1>5, <1>6
<1> HIDE DEF r, q
<1> QED BY <1>1, <1>2, <1>3, <1>7, EditedStep

LEMMA MergeEffect == ASSUME HandoffInv, NEW v \in Vaults, NEW o \in Ops, Merge(v, o) PROVE Mutated
<1> DEFINE r == [mem.rows[o] EXCEPT !.status = "done"]
<1>1. /\ Up /\ mode = "serving" /\ mem \in Metadata /\ mem.rows[o] \in Row
      /\ mem.rows[o].status = "pushed" /\ UNCHANGED worker
  BY HeldOp, Fields DEF Merge
<1>2. /\ r \in Row /\ r.vault = mem.rows[o].vault /\ r.key = mem.rows[o].key /\ r.seq = mem.rows[o].seq
      /\ r.status = "done" /\ r.base = mem.rows[o].base
  BY <1>1 DEF Row, RowStatus
<1>3. [mem EXCEPT !.rows[o].status = "done"] = WithRow(mem, o, r)
  BY <1>1, Fields DEF Metadata, WithRow
<1>4. Mutate(v, WithRow(mem, o, r))
  BY <1>3 DEF Merge
<1> HIDE DEF r
<1> QED BY <1>1, <1>2, <1>4, EditedStep

LEMMA ReconcileEffect == ASSUME HandoffInv, NEW o \in Ops, NEW st, Reconcile(o, st) PROVE Mutated
<1> DEFINE r == [mem.rows[o] EXCEPT !.status = st]
<1>1. /\ Up /\ mem \in Metadata /\ mem.rows[o] \in Row /\ st \in {"pushed", "done"}
      /\ mem.rows[o].status = "open" /\ UNCHANGED worker
  BY Fields DEF Reconcile, OpenRows, HandoffInv, TypeOK, Up
<1>2. /\ r \in Row /\ r.vault = mem.rows[o].vault /\ r.key = mem.rows[o].key /\ r.seq = mem.rows[o].seq
      /\ r.status = st /\ r.base = mem.rows[o].base
  BY <1>1 DEF Row, RowStatus
<1>3. [mem EXCEPT !.rows[o].status = st] = WithRow(mem, o, r)
  BY <1>1, Fields DEF Metadata, WithRow
<1>4. Mutate(NoVault, WithRow(mem, o, r))
  BY <1>3 DEF Reconcile
<1> HIDE DEF r
<1> QED BY <1>1, <1>2, <1>4, EditedStep

LEMMA AdmitEffect ==
  ASSUME HandoffInv, NEW v \in Vaults, NEW o \in Ops, NEW k \in Keys, NEW b \in Bases, Admit(v, o, k, b)
  PROVE  Mutated
<1> DEFINE r == [vault |-> v, key |-> k, seq |-> mem.hist[v].next, status |-> "open",
                 base |-> IF Prior(v, k) # {} THEN b ELSE NoBase]
           h == [mem.hist[v] EXCEPT !.next = mem.hist[v].next + 1]
           c == [vault |-> mem.vault, rows |-> [mem.rows EXCEPT ![o] = r], hist |-> [mem.hist EXCEPT ![v] = h]]
<1>1. mem \in Metadata /\ Up /\ mode = "serving" /\ worker \in Locks /\ v \in Live(mem)
  BY DEF HandoffInv, TypeOK, Admit, Up, Live
<1>2. r \in Row
  BY <1>1, Fields DEF Row, RowStatus
<1>3. h \in History
  <2>1. mem.hist[v] \in History /\ mem.hist[v].next + 1 \in Nat
    BY <1>1, Fields
  <2> QED BY <2>1 DEF History
<1>4. [mem EXCEPT !.rows[o] = r, !.hist[v].next = @ + 1] = c
  <2> HIDE DEF r
  <2>1. [mem EXCEPT !.rows[o] = r] = WithRow(mem, o, r)
    BY <1>1, Fields DEF Metadata, WithRow
  <2>2. WithRow(mem, o, r) \in Metadata
    BY <1>1, <1>2, Fields DEF Metadata, WithRow
  <2>3. PICK w \in Metadata : w = WithRow(mem, o, r)
    BY <2>2
  <2>4. [w EXCEPT !.hist[v].next = @ + 1]
          = [vault |-> w.vault, rows |-> w.rows, hist |-> [w.hist EXCEPT ![v] = [w.hist[v] EXCEPT !.next = w.hist[v].next + 1]]]
    BY Fields, SMTT(30) DEF Metadata
  <2>5. w.vault = mem.vault /\ w.hist = mem.hist /\ w.rows = [mem.rows EXCEPT ![o] = r]
    BY <2>3 DEF WithRow
  <2> QED BY <2>1, <2>3, <2>4, <2>5
<1>5. Mutate(v, c)
  BY <1>4 DEF Admit
<1>6. c \in Metadata
  <2>1. [mem.rows EXCEPT ![o] = r] \in [Ops -> Row] /\ [mem.hist EXCEPT ![v] = h] \in [Vaults -> History]
    BY <1>1, <1>2, <1>3, Fields
  <2> QED BY <1>1, <2>1, Fields DEF Metadata
<1>7. Admits(mem, c, ledger)
  <2>1. mem.rows[o] = NoRow /\ \A w \in Vaults : \A e \in ledger[w].rows : e.op # o
    BY DEF Admit, FreshOp
  <2>2. r.vault = v /\ r.seq = mem.hist[v].next /\ r.status = "open"
    OBVIOUS
  <2> HIDE DEF r
  <2> QED BY <1>1, <1>2, <2>1, <2>2 DEF Admits
<1>8. worker' \in Locks
  BY <1>1 DEF Admit, Locks
<1> HIDE DEF c
<1>9. v \in Vaults \cup {NoVault}
  OBVIOUS
<1>10. Admitting
  <2>1. cand' = c /\ task'.vault = v
    BY <1>1, <1>5, <1>9, MutateGuard
  <2>2. c.vault = mem.vault /\ c.rows = [mem.rows EXCEPT ![o] = r]
    BY DEF c
  <2>3. r.vault = v /\ r.key = k /\ r.base = (IF Prior(v, k) # {} THEN b ELSE NoBase)
    OBVIOUS
  <2>4. Prior(v, k) # {} => \E q \in Prior(v, k) : q.base = b
    <3>1. \A q \in Prior(v, k) : q.seq \in Nat
      <4>1. \A e \in ledger[v].rows : e.row \in Row
        BY DEF HandoffInv, TypeOK, Ledger, Entry
      <4>2. \A p \in RowsOf(mem, v) : mem.rows[p] \in Row
        BY <1>1, Fields DEF RowsOf
      <4> QED BY <4>1, <4>2 DEF Prior, Row
    <3>2. ASSUME Prior(v, k) # {} PROVE \E q \in Prior(v, k) : \A p \in Prior(v, k) : q.seq <= p.seq
      <4> DEFINE S == {q.seq : q \in Prior(v, k)}
      <4>1. S \subseteq Nat /\ S # {}
        BY <3>1, <3>2
      <4>2. PICK m \in S : \A n \in S : m <= n
        BY <4>1, Smallest
      <4>3. PICK q \in Prior(v, k) : q.seq = m
        BY <4>2
      <4>4. \A p \in Prior(v, k) : p.seq \in S
        OBVIOUS
      <4> HIDE DEF S
      <4>5. \A p \in Prior(v, k) : q.seq <= p.seq
        BY <4>2, <4>3, <4>4
      <4> QED BY <4>5
    <3>3. Prior(v, k) # {} => Admitted(v, k) \in Prior(v, k)
      BY <3>2 DEF Admitted
    <3> QED BY <3>3 DEF Admit
  <2>5. mode = "serving" /\ worker[v] = NoWorker /\ mem.rows[o] = NoRow /\ worker' = [worker EXCEPT ![v] = [op |-> o, base |-> b]]
    BY DEF Admit, FreshOp
  <2> HIDE DEF r
  <2>6. \/ r.base = NoBase /\ Prior(v, r.key) = {}
        \/ r.base = b /\ \E q \in Prior(v, r.key) : q.base = b
    BY <2>3, <2>4
  <2> QED BY <1>1, <1>2, <2>1, <2>2, <2>3, <2>5, <2>6, ZenonT(40) DEF Admitting
<1> QED BY <1>1, <1>5, <1>6, <1>7, <1>8, <1>9, <1>10, MutateGuard DEF Mutated, Mutates

LEMMA CreateEffect == ASSUME HandoffInv, NEW v \in Vaults, CreateVault(v) PROVE Mutated
<1> DEFINE h == [NoHistory EXCEPT !.known = TRUE, !.init = TRUE]
           c == [vault |-> [mem.vault EXCEPT ![v] = "active"], rows |-> mem.rows, hist |-> [mem.hist EXCEPT ![v] = h]]
<1>1. mem \in Metadata /\ Up /\ mode = "serving" /\ worker \in Locks /\ mem.vault[v] = "absent" /\ UNCHANGED worker
  BY DEF HandoffInv, TypeOK, CreateVault, Up
<1>2. h \in History
  BY Empty DEF NoHistory, History
<1>3. [mem EXCEPT !.vault[v] = "active", !.hist[v] = h] = c
  <2> HIDE DEF h
  <2>1. [mem EXCEPT !.vault[v] = "active"] = [vault |-> [mem.vault EXCEPT ![v] = "active"], rows |-> mem.rows, hist |-> mem.hist]
    BY <1>1, Fields DEF Metadata
  <2>2. PICK w \in Metadata : w = [vault |-> [mem.vault EXCEPT ![v] = "active"], rows |-> mem.rows, hist |-> mem.hist]
    <3>1. [mem.vault EXCEPT ![v] = "active"] \in [Vaults -> VaultStatus]
      BY <1>1, Fields DEF VaultStatus
    <3> QED BY <1>1, <3>1, Fields DEF Metadata
  <2>3. [w EXCEPT !.hist[v] = h] = [vault |-> w.vault, rows |-> w.rows, hist |-> [w.hist EXCEPT ![v] = h]]
    BY Fields DEF Metadata
  <2> QED BY <2>1, <2>2, <2>3
<1>4. Mutate(NoVault, c)
  BY <1>3 DEF CreateVault
<1>5. c \in Metadata
  <2>1. [mem.vault EXCEPT ![v] = "active"] \in [Vaults -> VaultStatus] /\ [mem.hist EXCEPT ![v] = h] \in [Vaults -> History]
    BY <1>1, <1>2, Fields DEF VaultStatus
  <2> QED BY <1>1, <2>1, Fields DEF Metadata
<1>6. Creates(mem, c) /\ Keeps(mem, c)
  BY <1>1, Fields DEF Creates, Keeps
<1> HIDE DEF c
<1> QED BY <1>1, <1>4, <1>5, <1>6, MutateGuard DEF Mutated, Mutates

LEMMA CondemnEffect == ASSUME HandoffInv, NEW v \in Vaults, RequestDelete(v) \/ StartErasure(v) PROVE Mutated
<1>1. mem \in Metadata /\ Up /\ mode = "serving" /\ worker \in Locks /\ UNCHANGED worker
  BY DEF HandoffInv, TypeOK, RequestDelete, StartErasure, Up
<1>2. PICK st \in {"deleting", "finalizing"} :
        /\ mem.vault[v] = (IF st = "deleting" THEN "active" ELSE "deleting")
        /\ Mutate(NoVault, [mem EXCEPT !.vault[v] = st])
  BY DEF RequestDelete, StartErasure
<1> DEFINE c == [vault |-> [mem.vault EXCEPT ![v] = st], rows |-> mem.rows, hist |-> mem.hist]
<1>3. [mem EXCEPT !.vault[v] = st] = c
  BY <1>1, Fields DEF Metadata
<1>4. Mutate(NoVault, c)
  BY <1>2, <1>3
<1>5. c \in Metadata
  <2>1. [mem.vault EXCEPT ![v] = st] \in [Vaults -> VaultStatus]
    BY <1>1, Fields DEF VaultStatus
  <2> QED BY <1>1, <2>1, Fields DEF Metadata
<1>6. Condemns(mem, c)
  BY <1>2 DEF Condemns
<1>7. Keeps(mem, c)
  <2>1. st = "finalizing" => worker[v] = NoWorker
    BY <1>2 DEF RequestDelete, StartErasure
  <2>2. mem.vault \in [Vaults -> VaultStatus]
    BY <1>1, Fields
  <2> QED BY <2>1, <2>2 DEF Keeps
<1> HIDE DEF c
<1> QED BY <1>1, <1>4, <1>5, <1>6, <1>7, MutateGuard DEF Mutated, Mutates

LEMMA FinalizeEffect == ASSUME HandoffInv, NEW v \in Vaults, FinalizeDelete(v) PROVE Mutated
<1> DEFINE R == [o \in Ops |-> IF mem.rows[o].vault = v THEN NoRow ELSE mem.rows[o]]
           c == [vault |-> [mem.vault EXCEPT ![v] = "deleted"], rows |-> R, hist |-> [mem.hist EXCEPT ![v] = NoHistory]]
<1>1. mem \in Metadata /\ Up /\ mode = "serving" /\ worker \in Locks /\ UNCHANGED worker
      /\ mem.vault[v] = "finalizing" /\ ~ ledger[v].made
  BY DEF HandoffInv, TypeOK, FinalizeDelete, Up
<1>2. Mutate(NoVault, c)
  BY DEF FinalizeDelete
<1>3. c \in Metadata
  <2>1. [mem.vault EXCEPT ![v] = "deleted"] \in [Vaults -> VaultStatus] /\ R \in [Ops -> Row]
        /\ [mem.hist EXCEPT ![v] = NoHistory] \in [Vaults -> History]
    BY <1>1, Empty, Fields DEF VaultStatus
  <2> QED BY <1>1, <2>1, Fields DEF Metadata
<1>4. Removes(mem, c, ledger) /\ Keeps(mem, c)
  <2>1. mem.vault \in [Vaults -> VaultStatus]
    BY <1>1, Fields
  <2> QED BY <1>1, <2>1 DEF Removes, Keeps
<1> HIDE DEF c
<1> QED BY <1>1, <1>2, <1>3, <1>4, MutateGuard DEF Mutated, Mutates

LEMMA HandoffEffect == ASSUME HandoffInv, NEW v \in Vaults, StartHandoff(v), Up PROVE HandoffStarted
<1>1. mem \in Metadata /\ v \in Live(mem) /\ pc = "idle" /\ ~ latched /\ AllSettled(mem)
  BY DEF HandoffInv, TypeOK, StartHandoff, Live, Operational, AllSettled
<1>2. PICK O \in SUBSET Eligible(v) : O # {} /\ Publish("describe", v, Described(v, O))
  BY DEF StartHandoff, IsBatch
<1> DEFINE B == Entries(mem, O)
           h == [mem.hist[v] EXCEPT !.batch = B]
           c == [vault |-> mem.vault, rows |-> mem.rows, hist |-> [mem.hist EXCEPT ![v] = h]]
<1>3. B \in SUBSET Entry /\ B # {} /\ \A e \in B : e.row = mem.rows[e.op] /\ e.row.vault = v /\ e.row.status = "done"
  <2>1. \A o \in O : o \in Ops /\ mem.rows[o] \in Row /\ mem.rows[o].vault = v /\ mem.rows[o].status = "done"
    BY <1>1, <1>2, Fields DEF Eligible, RowsOf
  <2>2. \A e \in B : \E o \in O : e = [op |-> o, row |-> mem.rows[o]]
    BY DEF Entries
  <2>3. \A e \in B : e \in Entry /\ e.row = mem.rows[e.op] /\ e.row.vault = v /\ e.row.status = "done"
    <3> SUFFICES ASSUME NEW e \in B PROVE e \in Entry /\ e.row = mem.rows[e.op] /\ e.row.vault = v /\ e.row.status = "done"
      OBVIOUS
    <3>1. PICK o \in O : e = [op |-> o, row |-> mem.rows[o]]
      BY <2>2
    <3> QED BY <2>1, <3>1 DEF Entry
  <2>4. B # {}
    <3>1. PICK o \in O : TRUE
      BY <1>2
    <3>2. [op |-> o, row |-> mem.rows[o]] \in B
      BY <3>1 DEF Entries
    <3> QED BY <3>2
  <2> QED BY <2>3, <2>4
<1>4. h \in History
  <2>1. mem.hist[v] \in History
    BY <1>1, Fields
  <2> HIDE DEF B
  <2> QED BY <2>1, <1>3 DEF History
<1>5. Described(v, O) = c
  BY <1>1, Fields DEF Described, Metadata
<1>6. c \in Metadata
  <2>1. [mem.hist EXCEPT ![v] = h] \in [Vaults -> History]
    BY <1>1, <1>4, Fields
  <2> QED BY <1>1, <2>1, Fields DEF Metadata
<1>7. Describes(mem, c, v)
  <2> HIDE DEF B
  <2> QED BY <1>3 DEF Describes
<1> HIDE DEF c
<1> QED BY <1>1, <1>2, <1>5, <1>6, <1>7 DEF HandoffStarted, Publish, StartHandoff

LEMMA CommitEffect == ASSUME HandoffInv, CommitBatch PROVE HandoffCommitted
<1>1. /\ mem \in Metadata /\ Steady(mem) /\ Backed(mem, ledger) /\ task.vault \in Handing(mem) /\ task.vault \in Vaults
      /\ ledger \in [Vaults -> Ledger] /\ WholeLedger(ledger)
  BY DEF HandoffInv, TypeOK, AllSteady, AllBacked, Used, Stage, Settlement, CommitBatch, Up, Handing
<1>2. ~ CommitRefuses(task.vault, mem.hist[task.vault].gen, mem.hist[task.vault].batch)
  BY <1>1, CommittedEffect
<1>3. Dropped(mem, task.vault) \in Metadata /\ Drops(mem, Dropped(mem, task.vault), task.vault)
  BY <1>1, DroppedEffect
<1> QED BY <1>2, <1>3 DEF CommitBatch, HandoffCommitted, Publish

LEMMA SettleEffect == ASSUME HandoffInv, NEW v \in Vaults, SettleVault(v) PROVE VaultSettled(v)
<1>1. /\ mem \in Metadata /\ Steady(mem) /\ Backed(mem, ledger) /\ v \in InitPending(mem)
      /\ ledger \in [Vaults -> Ledger] /\ WholeLedger(ledger)
  BY DEF HandoffInv, TypeOK, AllSteady, AllBacked, Used, Stage, SettleVault, Up
<1>2. ledger[v].made => Agrees(mem, v)
  BY <1>1, OpenedEffect
<1>3. \A c : c = [mem EXCEPT !.hist[v].init = FALSE] => c \in Metadata /\ Settles(mem, c, v)
  BY <1>1, SettledEffect
<1>4. /\ pc = "settle" /\ ledger' = Opened(v) /\ Publish("settle", NoVault, [mem EXCEPT !.hist[v].init = FALSE])
      /\ UNCHANGED <<file, synced, mem, view, mode, todo, latched, worker, finished, mix, faults>>
  BY <1>2 DEF SettleVault
<1>5. cand' = [mem EXCEPT !.hist[v].init = FALSE]
  BY <1>4 DEF Publish
<1>6. cand' \in Metadata /\ Settles(mem, cand', v)
  BY <1>3, <1>5
<1> QED BY <1>1, <1>4, <1>6 DEF VaultSettled, Publish

LEMMA LoadEffect == ASSUME HandoffInv, Load PROVE Loaded
<1>1. WellNumbered(file)
  BY DEF HandoffInv, AllSteady, Used, Steady
<1> QED BY <1>1 DEF Load, Loaded

\* The startup loop opens every ledger it meets.
LEMMA OpensEvery == ASSUME HandoffInv, pc = "open", NEW v \in todo PROVE MayOpen(view, v)
<1>1. /\ mem \in Metadata /\ view \in Metadata /\ Steady(mem) /\ Backed(mem, ledger) /\ mode = "starting"
      /\ ledger \in [Vaults -> Ledger] /\ WholeLedger(ledger)
  BY DEF HandoffInv, TypeOK, AllSteady, AllBacked, Used, Stage, Up
<1>2. task.kind # "number"
  BY DEF HandoffInv, Stage, NoTask
<1>3. v \in Live(mem) /\ view.hist[v] = mem.hist[v] /\ (view = mem \/ v \notin Handing(view)) /\ Unknown(mem) = {}
  BY <1>1, <1>2 DEF HandoffInv, Loop, Settlement, Up
<1>4. mem.hist[v].known /\ v \in Vaults
  BY <1>3 DEF Unknown, Present, Live
<1>5. view = mem \/ view.hist[v].batch = {}
  BY <1>3, <1>4 DEF Handing
<1> QED BY <1>1, <1>3, <1>4, <1>5, Openable

LEMMA OpenEffect == ASSUME HandoffInv, NEW v \in Vaults, OpenVault(v) PROVE VaultOpened(v)
BY OpensEvery DEF OpenVault, VaultOpened

\* A handoff is taken up where the last process left it.
LEMMA LoopHandoff ==
  ASSUME HandoffInv, pc = "open", NEW v \in todo, view.hist[v].batch # {}
  PROVE  /\ view = mem /\ mem \in Metadata /\ Steady(mem) /\ Backed(mem, ledger) /\ v \in Handing(mem)
         /\ ledger \in [Vaults -> Ledger] /\ WholeLedger(ledger)
<1>1. /\ mem \in Metadata /\ Steady(mem) /\ Backed(mem, ledger) /\ v \in Vaults
      /\ ledger \in [Vaults -> Ledger] /\ WholeLedger(ledger)
  BY DEF HandoffInv, TypeOK, AllSteady, AllBacked, Used, Stage, Up
<1>2. view = mem
  BY <1>1 DEF HandoffInv, Loop, Handing
<1> QED BY <1>1, <1>2 DEF Handing

LEMMA RecoverEffect == ASSUME HandoffInv, NEW v \in Vaults, RecoverBatch(v) PROVE BatchRecovered(v)
<1>1. v \in todo /\ pc = "open" /\ view.hist[v].batch # {}
  BY DEF RecoverBatch
<1>2. MayOpen(view, v)
  BY <1>1, OpensEvery
<1>3. ~ CommitRefuses(v, view.hist[v].gen, view.hist[v].batch)
  BY <1>1, LoopHandoff, CommittedEffect
<1> QED BY <1>1, <1>2, <1>3 DEF RecoverBatch, BatchRecovered

\* A settled vault has the ledger its metadata speaks of.
LEMMA OperationalIf == ASSUME HandoffInv, Up PROVE Operational <=> ~ latched /\ AllSettled(mem)
<1>1. mem \in Metadata /\ ledger \in [Vaults -> Ledger] /\ Backed(mem, ledger)
  BY DEF HandoffInv, TypeOK, AllBacked, Used
<1>2. \A v \in Live(mem) : ~ Unsettled(mem, v) => Agrees(mem, v)
  BY <1>1, SettledAgrees
<1> QED BY <1>2 DEF Operational, AllSettled

LEMMA ListenEffect == ASSUME HandoffInv, Listen PROVE Listened
<1>1. Operational
  BY OperationalIf DEF HandoffInv, Listen, Settlement, Stage, Up
<1> QED BY <1>1 DEF Listen, Listened

LEMMA ProbeEffect == ASSUME HandoffInv, ReadinessProbe PROVE UNCHANGED vars
<1>1. mem \in Metadata /\ ledger \in [Vaults -> Ledger] /\ Backed(mem, ledger) /\ latched \in BOOLEAN
  BY DEF HandoffInv, TypeOK, AllBacked, Used, ReadinessProbe, Up
<1>2. \A v \in Live(mem) : ~ Unsettled(mem, v) => Agrees(mem, v)
  BY <1>1, SettledAgrees
<1>3. latched' = latched
  BY <1>1, <1>2 DEF ReadinessProbe
<1> QED BY <1>3 DEF ReadinessProbe, vars

LEMMA AssertEffect == ASSUME HandoffInv, AssertLatches PROVE Distrusts
BY OperationalIf DEF AssertLatches, Distrusts, Up

LEMMA ReleaseEffect == ASSUME HandoffInv, NEW v \in Vaults, Release(v) \/ RequestFails(v) PROVE Unlocked
<1>1. worker \in Locks /\ worker' = Released(v)
  BY DEF HandoffInv, Release, RequestFails
<1>2. worker' \in Locks
  BY <1>1 DEF Locks, Released
<1> QED BY <1>2 DEF Release, RequestFails, Unlocked

LEMMA PowerApart == ASSUME TypeOK, "power_loss" \in mix, NEW k, Fault(k) PROVE k = "power_loss"
BY FaultsApart DEF TypeOK, Fault

LEMMA FaultCount == ASSUME TypeOK, NEW k, Fault(k) PROVE faults' \in 1..MaxFaults /\ k \in mix
BY HistoryAssumption DEF TypeOK, Fault

LEMMA EndedLocks ==
  ASSUME worker \in Locks, task.vault \in Vaults \cup {NoVault}, worker' \in {IF MayGoOn THEN worker ELSE Ended, Ended}
  PROVE  worker' \in Locks
BY DEF Ended, Released, Locks

\* An error ends the process or the request.
LEMMA ThrowEffect ==
  ASSUME HandoffInv, NEW latch \in BOOLEAN, Throw(latch), pc \in {"write", "sync", "commit", "settle"},
         "power_loss" \notin mix, file' \in Used, LedgerLeft, faults' \in 1..MaxFaults,
         ~ latch => Publishing /\ ((task.kind \notin {"describe", "finish"} /\ file' = mem) \/ task.kind = "settle"),
         UNCHANGED <<synced, finished, mix>>
  PROVE  Died \/ GaveUp
<1>1. mode \in {"starting", "serving"} /\ latched \in BOOLEAN /\ worker \in Locks /\ task.vault \in Vaults \cup {NoVault}
  BY DEF HandoffInv, TypeOK, Stage
<1>2. CASE mode = "starting"
  BY <1>2 DEF Throw, Died
<1>3. CASE mode = "serving"
  <2>1. /\ pc' = "idle" /\ task' = NoTask /\ cand' = Nothing /\ latched' = (latched \/ latch)
        /\ worker' \in {IF MayGoOn THEN worker ELSE Ended, Ended} /\ UNCHANGED <<mem, view, mode, todo>>
    BY <1>3 DEF Throw
  <2>2. worker' \in Locks
    BY <1>1, <2>1, EndedLocks
  <2>3. ~ latch => (task.kind = "mutate" /\ file' = mem) \/ task.kind = "settle"
    BY <1>3 DEF HandoffInv, Stage, TypeOK, Opening
  <2>4. ~ latched' => ~ latch
    BY <2>1
  <2>5. latched' \in BOOLEAN /\ (latched => latched')
    BY <1>1, <2>1
  <2>6. ~ latched' => Publishing /\ ((task.kind = "mutate" /\ file' = mem) \/ task.kind = "settle")
    BY <2>3, <2>4
  <2>7. GaveUp
    BY <1>3, <2>1, <2>2, <2>5, <2>6 DEF GaveUp
  <2> QED BY <2>7
<1> QED BY <1>1, <1>2, <1>3

LEMMA WriteFailsEffect == ASSUME HandoffInv, WriteFails PROVE Died \/ GaveUp
<1>1. "power_loss" \notin mix /\ faults' \in 1..MaxFaults
  BY PowerApart, FaultCount DEF HandoffInv, WriteFails
<1>2. file' = file /\ file \in Used /\ LedgerLeft /\ file' = mem /\ Publishing
  BY DEF WriteFails, HandoffInv, Copies, Used, LedgerLeft, Publishing
<1>3. PICK latch \in BOOLEAN : latch = (task.kind \in {"describe", "finish"})
  <2>1. (task.kind \in {"describe", "finish"}) \in BOOLEAN
    OBVIOUS
  <2> QED BY <2>1, Zenon
<1>4. Throw(latch) /\ pc \in {"write", "sync", "commit", "settle"} /\ UNCHANGED <<synced, finished, mix>>
  BY <1>3 DEF WriteFails
<1> QED BY <1>1, <1>2, <1>3, <1>4, ThrowEffect

LEMMA PublicationFailsEffect == ASSUME HandoffInv, PublicationFails PROVE Died \/ GaveUp
<1>1. "power_loss" \notin mix /\ faults' \in 1..MaxFaults
  BY PowerApart, FaultCount DEF HandoffInv, PublicationFails
<1>2. file' \in Used /\ LedgerLeft /\ Publishing
  BY DEF PublicationFails, HandoffInv, Used, LedgerLeft, Publishing
<1>3. PICK latch \in BOOLEAN : latch = (task.kind # "settle")
  OBVIOUS
<1>4. Throw(latch) /\ pc \in {"write", "sync", "commit", "settle"} /\ UNCHANGED <<synced, finished, mix>>
  BY <1>3 DEF PublicationFails
<1> QED BY <1>1, <1>2, <1>3, <1>4, ThrowEffect

LEMMA LedgerFailsEffect == ASSUME HandoffInv, CommitFails \/ SettleFails PROVE Died \/ GaveUp
<1>1. "power_loss" \notin mix /\ faults' \in 1..MaxFaults
  BY PowerApart, FaultCount DEF HandoffInv, CommitFails, SettleFails
<1>2. file' \in Used /\ LedgerLeft
  BY DEF CommitFails, SettleFails, Used, LedgerLeft
<1>3. Throw(TRUE) /\ pc \in {"write", "sync", "commit", "settle"} /\ UNCHANGED <<synced, finished, mix>>
  BY DEF CommitFails, SettleFails
<1> QED BY <1>1, <1>2, <1>3, ThrowEffect

LEMMA StopEffect == ASSUME HandoffInv, OpenFails \/ Crash \/ PowerLoss \/ Restart PROVE Died
<1>1. Stop /\ LedgerLeft /\ UNCHANGED <<finished, mix>>
  BY DEF OpenFails, Crash, PowerLoss, Restart, LedgerLeft
<1>2. CASE OpenFails \/ Crash
  <2>1. "power_loss" \notin mix /\ faults' \in 1..MaxFaults
    BY <1>2, PowerApart, FaultCount DEF HandoffInv, OpenFails, Crash
  <2> QED BY <1>1, <1>2, <2>1 DEF OpenFails, Crash, Died, Used
<1>3. CASE PowerLoss
  <2>1. "power_loss" \in mix /\ faults' \in 1..MaxFaults
    BY <1>3, FaultCount DEF HandoffInv, PowerLoss
  <2> QED BY <1>1, <1>3, <2>1 DEF PowerLoss, Died, Used
<1>4. CASE Restart
  BY <1>1, <1>4 DEF Restart, Died, Used, HandoffInv, Copies, TypeOK
<1> QED BY <1>2, <1>3, <1>4

LEMMA Steps == ASSUME HandoffInv, [Next]_vars PROVE Step
<1>1. CASE StoreStep
  <2>1. ASSUME NEW v \in Vaults, Compact(v) PROVE HandoffStarted
    BY <2>1, HandoffEffect DEF Compact, Up
  <2> QED BY <1>1, <2>1, CommitEffect, SettleEffect, OpenEffect, RecoverEffect, LoadEffect, ListenEffect, ReconcileEffect
    DEF StoreStep, Step
<1>2. CASE RequestStep
  <2>1. ASSUME NEW v \in Vaults, Archive(v) PROVE HandoffStarted
    BY <2>1, HandoffEffect DEF Archive, Holds, Up
  <2> QED BY <1>2, <2>1, CreateEffect, PrepareEffect, ReleaseEffect, CondemnEffect, FinalizeEffect, AdmitEffect,
             CompleteEffect, MergeEffect, ProbeEffect, AssertEffect, StopEffect DEF RequestStep, Step
<1>3. CASE FaultStep
  BY <1>3, WriteFailsEffect, PublicationFailsEffect, LedgerFailsEffect, StopEffect DEF FaultStep, Step
<1> QED BY <1>1, <1>2, <1>3 DEF Next, Step

-----------------------------------------------------------------------------
(* One step: the ledgers, the candidate, the copies in use.                *)

\* What the invariant says of this.db.
LEMMA Current ==
  ASSUME HandoffInv, Up
  PROVE  mem \in Used /\ mem \in Metadata /\ Steady(mem) /\ Backed(mem, ledger)
BY DEF HandoffInv, TypeOK, AllSteady, AllBacked, Used

LEMMA Ledgers == ASSUME HandoffInv PROVE ledger \in [Vaults -> Ledger] /\ WholeLedger(ledger)
BY DEF HandoffInv, TypeOK

LEMMA UsedMetadata == ASSUME HandoffInv, NEW d \in Used PROVE d \in Metadata /\ Steady(d) /\ Backed(d, ledger)
BY DEF HandoffInv, TypeOK, AllSteady, AllBacked, Used

\* Between two publications there is one state.
LEMMA OneCopy == ASSUME HandoffInv, pc \in {"commit", "settle", "open"} PROVE Up /\ Used = {mem}
<1>1. Up
  BY DEF HandoffInv, TypeOK, Stage, Up
<1>2. file = mem /\ ("power_loss" \in mix => synced = mem) /\ ~ Publishing
  BY DEF HandoffInv, Copies, Publishing
<1> QED BY <1>1, <1>2 DEF Used

\* The ledgers M fit everything in use.
Fit(M) == M \in [Vaults -> Ledger] /\ WholeLedger(M) /\ \A d \in Used : Backed(d, M)

LEMMA CommitFits ==
  ASSUME HandoffInv, pc = "commit"
  PROVE  /\ Fit(Committed(task.vault, mem.hist[task.vault].batch)) /\ task.vault \in Handing(mem) /\ task.vault \in Vaults
         /\ Commits(mem, ledger, Committed(task.vault, mem.hist[task.vault].batch), task.vault)
<1>1. task.vault \in Handing(mem) /\ task.vault \in Vaults
  BY DEF HandoffInv, Settlement, Handing
<1> QED BY <1>1, OneCopy, Current, Ledgers, CommittedEffect DEF Fit

LEMMA OpenFits == ASSUME HandoffInv, pc \in {"settle", "open"}, NEW v \in InitPending(mem)
  PROVE  Fit(Opened(v)) /\ Opened(v)[v] = EmptyLedger
BY OneCopy, Current, Ledgers, OpenedEffect DEF Fit

LEMMA RecoverFits ==
  ASSUME HandoffInv, pc = "open", NEW v \in todo, view.hist[v].batch # {}
  PROVE  Fit(Committed(v, view.hist[v].batch)) /\ Commits(mem, ledger, Committed(v, view.hist[v].batch), v)
BY LoopHandoff, OneCopy, CommittedEffect DEF Fit

\* A live ledger that is not to be created is there already.
LEMMA LoopOpened ==
  ASSUME HandoffInv, NEW v \in Vaults, VaultOpened(v)
  PROVE  /\ Fit(ledger') /\ v \in Live(mem) /\ view.hist[v] = mem.hist[v] /\ mem.hist[v].known /\ mem.hist[v].batch = {}
         /\ mem.hist[v].init => v \in InitPending(mem) /\ ledger'[v] = EmptyLedger
         /\ ~ mem.hist[v].init => ledger' = ledger
<1>1. pc = "open" /\ v \in todo /\ ledger' = Opened(v) /\ view.hist[v].batch = {}
  BY DEF VaultOpened, Open
<1>2. task.kind # "number" /\ mode = "starting" /\ Up
  BY <1>1, OneCopy DEF HandoffInv, Stage, NoTask
<1>3. v \in Live(mem) /\ view.hist[v] = mem.hist[v] /\ Unknown(mem) = {}
  BY <1>1, <1>2 DEF HandoffInv, Loop, Settlement
<1>4. mem.hist[v].known
  BY <1>3 DEF Unknown, Present, Live
<1>5. CASE mem.hist[v].init
  BY <1>1, <1>3, <1>4, <1>5, OpenFits DEF InitPending
<1>6. CASE ~ mem.hist[v].init
  <2>1. ledger[v].made
    BY <1>2, <1>3, <1>4, <1>6, Current DEF Backed, BackedAt, Live
  <2>2. ledger' = ledger
    BY <1>1, <2>1 DEF Opened
  <2>3. Fit(ledger)
    BY Ledgers, UsedMetadata DEF Fit
  <2> QED BY <1>1, <1>3, <1>4, <1>6, <2>2, <2>3
<1> QED BY <1>5, <1>6

LEMMA LeftFits == ASSUME HandoffInv, LedgerLeft PROVE Fit(ledger')
<1>1. Fit(ledger)
  BY Ledgers, UsedMetadata DEF Fit
<1> QED BY <1>1, CommitFits, OpenFits DEF LedgerLeft

\* Whatever a step does to the ledgers, they fit what was in use.
LEMMA LedgerStep == ASSUME HandoffInv, Step PROVE Fit(ledger')
<1>1. Fit(ledger)
  BY Ledgers, UsedMetadata DEF Fit
<1>2. CASE HandoffCommitted
  BY <1>2, CommitFits DEF HandoffCommitted
<1>3. ASSUME NEW v \in Vaults, VaultSettled(v) PROVE Fit(ledger')
  BY <1>3, OpenFits DEF VaultSettled
<1>4. ASSUME NEW v \in Vaults, VaultOpened(v) PROVE Fit(ledger')
  BY <1>4, LoopOpened
<1>5. ASSUME NEW v \in Vaults, BatchRecovered(v) PROVE Fit(ledger')
  BY <1>5, RecoverFits DEF BatchRecovered, Recover
<1>6. ASSUME NEW v \in Vaults, EraseHistory(v) PROVE Fit(ledger')
  <2> DEFINE M == [ledger EXCEPT ![v] = NoLedger]
  <2>1. ledger' = M /\ Up /\ mem.vault[v] = "finalizing"
    BY <1>6 DEF EraseHistory, Up
  <2>2. \A d \in Used : d \in Metadata /\ Steady(d) /\ Backed(d, ledger) /\ d.vault[v] \in {"finalizing", "deleted"}
    BY <2>1, UsedMetadata DEF HandoffInv, Erasing
  <2>3. \A d \in Used : Backed(d, M)
    BY <2>2, Ledgers, ErasedEffect
  <2>4. NoLedger \in Ledger
    BY DEF NoLedger, Ledger
  <2>5. M \in [Vaults -> Ledger]
    BY <2>4, Ledgers
  <2>6. M[v] = NoLedger /\ \A w \in Vaults : w # v => M[w] = ledger[w]
    BY Ledgers
  <2>7. WholeLedger(M)
    <3> SUFFICES ASSUME NEW w \in Vaults
         PROVE  /\ ~ M[w].made => M[w] = NoLedger
                /\ \A P \in M[w].proofs : P \subseteq M[w].rows
                /\ \A e \in M[w].rows : e.row.vault = w /\ e.row.status = "done" /\ e.row.seq <= M[w].max
                /\ \A e, f \in M[w].rows : e.op = f.op \/ e.row.seq = f.row.seq => e = f
      BY DEF WholeLedger
    <3>1. CASE w = v
      BY <2>6, <3>1 DEF NoLedger
    <3>2. CASE w # v
      BY <2>6, <3>2, Ledgers DEF WholeLedger
    <3> QED BY <3>1, <3>2
  <2> HIDE DEF M
  <2> QED BY <2>1, <2>3, <2>5, <2>7 DEF Fit
<1>7. CASE Died
  BY <1>7, LeftFits DEF Died
<1>8. CASE GaveUp
  BY <1>8, LeftFits DEF GaveUp
<1>9. ASSUME UNCHANGED ledger PROVE Fit(ledger')
  BY <1>1, <1>9
<1> QED BY <1>2, <1>3, <1>4, <1>5, <1>6, <1>7, <1>8, <1>9
  DEF Step, vars, Mutated, HandoffStarted, Rename, SyncDirectory, Loaded, Start, HistoriesOpen, Listened, Unlocked, Distrusts

\* Every candidate is steady and fits the ledgers it is published with.
Fresh(c, M) == c \in Metadata /\ Steady(c) /\ Backed(c, M) /\ Unknown(c) = {}

\* A vault on its way out stays there.
Onwards(d, c) == \A v \in Vaults : d.vault[v] = "finalizing" => c.vault[v] \in {"finalizing", "deleted"}

LEMMA CandMutated ==
  ASSUME HandoffInv, Mutated
  PROVE  /\ Fresh(cand', ledger') /\ Handing(cand') = {} /\ Onwards(mem, cand')
         /\ mode = "starting" => AllSettled(cand')
         /\ ledger' = ledger
<1>1. /\ Up /\ AllSettled(mem) /\ cand' \in Metadata /\ Mutates(mem, cand', ledger) /\ ledger' = ledger
      /\ mode = "starting" => Edits(mem, cand')
  BY DEF Mutated
<1>2. Unknown(mem) = {}
  BY <1>1 DEF Mutated, HandoffInv, Stage, Settlement, NoTask
<1>3. Handing(mem) = {}
  BY <1>1, <1>2, Current, Settled
<1>4. ASSUME NEW c \in Metadata, c = cand'
      PROVE  /\ Steady(c) /\ Unknown(c) = {} /\ Handing(c) = {} /\ Backed(c, ledger)
             /\ Edits(mem, c) => AllSettled(c)
  <2>1. CASE Edits(mem, c)
    BY <1>1, <1>2, <1>3, <2>1, Current, Ledgers, SteadyEdits, BackedEdits
  <2>2. CASE Admits(mem, c, ledger) /\ ~ Edits(mem, c)
    BY <1>1, <1>2, <2>2, Current, Ledgers, SteadyAdmits, BackedAdmits
  <2>3. CASE Creates(mem, c) /\ ~ Edits(mem, c)
    BY <1>1, <1>2, <2>3, Current, Ledgers, SteadyCreates, BackedCreates
  <2>4. CASE Condemns(mem, c) /\ ~ Edits(mem, c)
    BY <1>1, <1>2, <2>4, Current, Ledgers, SteadyCondemns, BackedCondemns
  <2>5. CASE Removes(mem, c, ledger) /\ ~ Edits(mem, c)
    BY <1>1, <1>2, <2>5, Current, Ledgers, SteadyRemoves, BackedRemoves
  <2> QED BY <1>1, <1>4, <2>1, <2>2, <2>3, <2>4, <2>5 DEF Mutates
<1>5. Onwards(mem, cand')
  <2>1. mem.vault \in [Vaults -> VaultStatus]
    BY <1>1, Current, Fields
  <2> QED BY <1>1, <2>1 DEF Onwards, Mutates, Edits, Admits, Creates, Condemns, Removes
<1>6. /\ Steady(cand') /\ Unknown(cand') = {} /\ Handing(cand') = {} /\ Backed(cand', ledger)
      /\ Edits(mem, cand') => AllSettled(cand')
  BY <1>1, <1>4
<1> QED BY <1>1, <1>5, <1>6 DEF Fresh

LEMMA CandStarted ==
  ASSUME HandoffInv, HandoffStarted
  PROVE  /\ Fresh(cand', ledger') /\ task' \in Tasks /\ task'.kind = "describe" /\ task'.vault \in Handing(cand')
         /\ cand'.vault = mem.vault /\ ledger' = ledger
<1>1. /\ Up /\ AllSettled(mem) /\ cand' \in Metadata /\ ledger' = ledger
  BY DEF HandoffStarted
<1>2. Unknown(mem) = {}
  BY <1>1 DEF HandoffStarted, HandoffInv, Stage, Settlement, NoTask
<1>3. PICK v \in Live(mem) : Describes(mem, cand', v) /\ task' = [kind |-> "describe", vault |-> v]
  BY DEF HandoffStarted
<1>4. v \in Vaults /\ mem.hist[v].batch = {}
  BY <1>1, <1>2, <1>3, Current, Settled DEF Live, Handing
<1>5. ASSUME NEW c \in Metadata, Describes(mem, c, v)
      PROVE  Steady(c) /\ Unknown(c) = {} /\ v \in Handing(c) /\ Backed(c, ledger)
  BY <1>1, <1>2, <1>4, <1>5, Current, Ledgers, SteadyDescribes, BackedDescribes
<1>6. Steady(cand') /\ Unknown(cand') = {} /\ v \in Handing(cand') /\ Backed(cand', ledger)
  BY <1>1, <1>3, <1>5
<1>7. cand'.vault = mem.vault
  BY <1>3 DEF Describes
<1> QED BY <1>1, <1>3, <1>4, <1>6, <1>7 DEF Fresh, Tasks

LEMMA CandCommitted ==
  ASSUME HandoffInv, HandoffCommitted
  PROVE  /\ Fresh(cand', ledger') /\ AllSettled(cand') /\ Handing(cand') = {} /\ cand'.vault = mem.vault
         /\ task.vault \in Vaults /\ Up
<1>1. pc = "commit" /\ cand' \in Metadata /\ Drops(mem, cand', task.vault)
      /\ ledger' = Committed(task.vault, mem.hist[task.vault].batch)
  BY DEF HandoffCommitted
<1>2. Fit(ledger') /\ task.vault \in Handing(mem) /\ task.vault \in Vaults /\ Commits(mem, ledger, ledger', task.vault)
  BY <1>1, CommitFits
<1>3. Up /\ Used = {mem} /\ Unknown(mem) = {} /\ mem \in Metadata /\ Steady(mem)
  BY <1>1, OneCopy, Current DEF HandoffInv, Stage, Settlement
<1>4. /\ ledger' \in [Vaults -> Ledger] /\ Backed(mem, ledger')
      /\ ledger'[task.vault].gen = mem.hist[task.vault].gen + 1
  BY <1>2, <1>3 DEF Fit, Commits
<1>5. ASSUME NEW c \in Metadata, NEW M \in [Vaults -> Ledger], c = cand', M = ledger'
      PROVE  Steady(c) /\ Unknown(c) = {} /\ AllSettled(c) /\ Handing(c) = {} /\ Backed(c, M)
  BY <1>1, <1>2, <1>3, <1>4, <1>5, SteadyDrops, BackedDrops
<1>6. Steady(cand') /\ Unknown(cand') = {} /\ AllSettled(cand') /\ Handing(cand') = {} /\ Backed(cand', ledger')
  BY <1>1, <1>4, <1>5
<1> QED BY <1>1, <1>2, <1>3, <1>6 DEF Fresh, Drops

LEMMA CandSettled ==
  ASSUME HandoffInv, NEW v \in Vaults, VaultSettled(v)
  PROVE  /\ Fresh(cand', ledger') /\ Handing(cand') = {} /\ Handing(mem) = {} /\ InitPending(mem) # {}
         /\ cand'.vault = mem.vault /\ Up
<1>1. pc = "settle" /\ v \in InitPending(mem) /\ ledger' = Opened(v) /\ cand' \in Metadata /\ Settles(mem, cand', v)
  BY DEF VaultSettled
<1>2. Fit(ledger') /\ ledger'[v] = EmptyLedger
  BY <1>1, OpenFits
<1>3. Up /\ Used = {mem} /\ Unknown(mem) = {} /\ mem \in Metadata /\ Steady(mem)
  BY <1>1, OneCopy, Current DEF HandoffInv, Stage, Settlement, NoTask
<1>4. ledger' \in [Vaults -> Ledger] /\ Backed(mem, ledger')
  BY <1>2, <1>3 DEF Fit
<1>5. ASSUME NEW c \in Metadata, NEW M \in [Vaults -> Ledger], c = cand', M = ledger'
      PROVE  Steady(c) /\ Unknown(c) = {} /\ Handing(c) = {} /\ Backed(c, M) /\ Handing(mem) = {}
  BY <1>1, <1>2, <1>3, <1>4, <1>5, SteadySettles, BackedSettles
<1>6. Steady(cand') /\ Unknown(cand') = {} /\ Handing(cand') = {} /\ Backed(cand', ledger') /\ Handing(mem) = {}
  BY <1>1, <1>4, <1>5
<1> QED BY <1>1, <1>3, <1>6 DEF Fresh, Settles

LEMMA CandOpened ==
  ASSUME HandoffInv, NEW v \in Vaults, VaultOpened(v), view.hist[v].init
  PROVE  /\ Fresh(cand', ledger') /\ Handing(cand') = {} /\ cand'.vault = mem.vault /\ ~ Unsettled(cand', v)
         /\ \A w \in Vaults \ {v} : cand'.hist[w] = mem.hist[w]
         /\ pc' = "write" /\ task' = [kind |-> "settle_start", vault |-> v] /\ todo' = todo
<1>1. pc = "open" /\ v \in InitPending(mem) /\ Fit(ledger') /\ ledger'[v] = EmptyLedger
  BY LoopOpened DEF VaultOpened
<1>2. /\ cand' = [mem EXCEPT !.hist[v].init = FALSE]
      /\ pc' = "write" /\ task' = [kind |-> "settle_start", vault |-> v] /\ todo' = todo
  BY DEF VaultOpened, Open, Publish
<1>3. Up /\ Used = {mem} /\ Unknown(mem) = {} /\ mem \in Metadata /\ Steady(mem)
  BY <1>1, OneCopy, Current DEF HandoffInv, Stage, Settlement, NoTask
<1>4. cand' \in Metadata /\ Settles(mem, cand', v)
  <2>1. \A c : c = [mem EXCEPT !.hist[v].init = FALSE] => c \in Metadata /\ Settles(mem, c, v)
    BY <1>3, SettledEffect
  <2> QED BY <1>2, <2>1
<1>5. ledger' \in [Vaults -> Ledger] /\ Backed(mem, ledger')
  BY <1>1, <1>3 DEF Fit
<1>6. ASSUME NEW c \in Metadata, NEW M \in [Vaults -> Ledger], c = cand', M = ledger'
      PROVE  Steady(c) /\ Unknown(c) = {} /\ Handing(c) = {} /\ Backed(c, M) /\ ~ Unsettled(c, v)
  BY <1>1, <1>3, <1>4, <1>5, <1>6, SteadySettles, BackedSettles
<1>7. Steady(cand') /\ Unknown(cand') = {} /\ Handing(cand') = {} /\ Backed(cand', ledger') /\ ~ Unsettled(cand', v)
  BY <1>4, <1>5, <1>6
<1>8. cand'.vault = mem.vault /\ \A w \in Vaults \ {v} : cand'.hist[w] = mem.hist[w]
  BY <1>3, <1>4, Fields DEF Settles
<1> QED BY <1>2, <1>4, <1>7, <1>8 DEF Fresh

LEMMA CandRecovered ==
  ASSUME HandoffInv, NEW v \in Vaults, BatchRecovered(v)
  PROVE  /\ Fresh(cand', ledger') /\ AllSettled(cand') /\ Handing(cand') = {} /\ cand'.vault = mem.vault
         /\ ~ Unsettled(cand', v) /\ \A w \in Vaults \ {v} : cand'.hist[w] = mem.hist[w]
         /\ view = mem /\ Drops(mem, cand', v) /\ v \in Handing(mem)
<1>1. pc = "open" /\ v \in todo /\ view.hist[v].batch # {} /\ ledger' = Committed(v, view.hist[v].batch)
      /\ cand' = Dropped(view, v)
  BY DEF BatchRecovered, Recover, Publish
<1>2. view = mem /\ mem \in Metadata /\ Steady(mem) /\ v \in Handing(mem)
  BY <1>1, LoopHandoff
<1>3. Fit(ledger') /\ Commits(mem, ledger, ledger', v)
  BY <1>1, RecoverFits
<1>4. Up /\ Used = {mem} /\ Unknown(mem) = {}
  BY <1>1, OneCopy DEF HandoffInv, Stage, Settlement, NoTask
<1>5. cand' \in Metadata /\ Drops(mem, cand', v)
  BY <1>1, <1>2, DroppedEffect
<1>6. ledger' \in [Vaults -> Ledger] /\ Backed(mem, ledger') /\ ledger'[v].gen = mem.hist[v].gen + 1
  BY <1>3, <1>4 DEF Fit, Commits
<1>7. ASSUME NEW c \in Metadata, NEW M \in [Vaults -> Ledger], c = cand', M = ledger'
      PROVE  Steady(c) /\ Unknown(c) = {} /\ AllSettled(c) /\ Handing(c) = {} /\ Backed(c, M)
  BY <1>2, <1>4, <1>5, <1>6, <1>7, SteadyDrops, BackedDrops
<1>8. Steady(cand') /\ Unknown(cand') = {} /\ AllSettled(cand') /\ Handing(cand') = {} /\ Backed(cand', ledger')
  BY <1>5, <1>6, <1>7
<1>9. cand'.vault = mem.vault /\ \A w \in Vaults \ {v} : cand'.hist[w] = mem.hist[w]
  BY <1>2, <1>5, Fields DEF Drops
<1>10. v \in Live(cand')
  BY <1>2, <1>9 DEF Steady, Live
<1>11. ~ Unsettled(cand', v)
  BY <1>8, <1>10 DEF AllSettled
<1> QED BY <1>2, <1>5, <1>8, <1>9, <1>11 DEF Fresh

LEMMA CandLoaded ==
  ASSUME HandoffInv, Loaded, Unknown(file) # {}
  PROVE  /\ Fresh(cand', ledger') /\ Handing(cand') = {} /\ cand'.vault = file.vault
         /\ pc' = "write" /\ task' = [kind |-> "number", vault |-> NoVault]
         /\ \E f \in [Ops -> 0..Cardinality(Ops)] : IsNumbering(f, file) /\ cand' = Numbered(file, f)
<1>1. PICK f \in [Ops -> 0..Cardinality(Ops)] : IsNumbering(f, file) /\ Publish("number", NoVault, Numbered(file, f))
  BY DEF Loaded, Start
<1>2. file \in Metadata /\ Steady(file) /\ Backed(file, ledger) /\ ledger' = ledger
  BY UsedMetadata DEF Used, Loaded, Start
<1>3. ASSUME NEW c \in Metadata, c = Numbered(file, f)
      PROVE  Steady(c) /\ Unknown(c) = {} /\ Handing(c) = {} /\ Backed(c, ledger) /\ c.vault = file.vault
  BY <1>1, <1>2, <1>3, Ledgers, SteadyNumbers, BackedNumbers
<1>4. Numbered(file, f) \in Metadata
  BY <1>1, <1>2, SteadyNumbers
<1> QED BY <1>1, <1>2, <1>3, <1>4 DEF Publish, Fresh

LEMMA NothingTyped == Nothing \in Metadata
<1>1. "absent" \in VaultStatus /\ NoRow \in Row /\ NoHistory \in History
  BY Empty DEF VaultStatus
<1> QED BY <1>1 DEF Nothing, Metadata

LEMMA NoTaskTyped == NoTask \in Tasks
BY DEF NoTask, Tasks

LEMMA FreeLocks == [v \in Vaults |-> NoWorker] \in Locks
BY DEF Locks

LEMMA LockTypes == ASSUME worker' \in Locks PROVE (worker \in [Vaults -> [op : Ops \cup {NoOp}, base : Bases \cup {NoBase}]])'
<1>1. \A w \in {NoWorker} \cup [op : Ops, base : Bases] : w \in [op : Ops \cup {NoOp}, base : Bases \cup {NoBase}]
  BY DEF NoWorker
<1> QED BY <1>1 DEF Locks

\* The metadata in use after a step was in use before, or is a fresh candidate.
LEMMA UsedStep ==
  ASSUME HandoffInv, Step
  PROVE  /\ Used' \subseteq Used \cup {cand'}
         /\ \A d \in Used' : d \in Used \/ Fresh(d, ledger')
<1>1. CASE Mutated
  <2>1. Used' \subseteq Used \cup {cand'}
    BY <1>1 DEF Mutated, Used, Up
  <2> QED BY <1>1, <2>1, CandMutated
<1>2. CASE HandoffStarted
  <2>1. Used' \subseteq Used \cup {cand'}
    BY <1>2 DEF HandoffStarted, Used, Up
  <2> QED BY <1>2, <2>1, CandStarted
<1>3. CASE HandoffCommitted
  <2>1. Used' \subseteq Used \cup {cand'}
    BY <1>3 DEF HandoffCommitted, Used, Up
  <2> QED BY <1>3, <2>1, CandCommitted
<1>4. ASSUME NEW v \in Vaults, VaultSettled(v) PROVE /\ Used' \subseteq Used \cup {cand'}
                                                    /\ \A d \in Used' : d \in Used \/ Fresh(d, ledger')
  <2>1. Used' \subseteq Used \cup {cand'}
    BY <1>4 DEF VaultSettled, Used, Up
  <2> QED BY <1>4, <2>1, CandSettled
<1>5. ASSUME NEW v \in Vaults, BatchRecovered(v) PROVE /\ Used' \subseteq Used \cup {cand'}
                                                      /\ \A d \in Used' : d \in Used \/ Fresh(d, ledger')
  <2>1. Used' \subseteq Used \cup {cand'}
    BY <1>5 DEF BatchRecovered, Recover, Used, Up
  <2> QED BY <1>5, <2>1, CandRecovered
<1>6. ASSUME NEW v \in Vaults, VaultOpened(v) PROVE /\ Used' \subseteq Used \cup {cand'}
                                                   /\ \A d \in Used' : d \in Used \/ Fresh(d, ledger')
  <2>1. CASE view.hist[v].init
    <3>1. Used' \subseteq Used \cup {cand'}
      BY <1>6 DEF VaultOpened, Open, Used, Up
    <3> QED BY <1>6, <2>1, <3>1, CandOpened
  <2>2. CASE ~ view.hist[v].init
    BY <1>6, <2>2 DEF VaultOpened, Open, Used, Up, Publishing
  <2> QED BY <2>1, <2>2
<1>7. CASE Loaded
  <2>1. CASE Unknown(file) = {}
    BY <1>7, <2>1 DEF Loaded, Start, Used, Up, Publishing
  <2>2. CASE Unknown(file) # {}
    <3>1. Used' \subseteq Used \cup {cand'}
      BY <1>7 DEF Loaded, Start, Used, Up
    <3> QED BY <1>7, <2>2, <3>1, CandLoaded
  <2> QED BY <2>1, <2>2
<1>8. CASE Rename
  BY <1>8 DEF Rename, Used, Up, Publishing
<1>9. CASE SyncDirectory
  <2>1. Used' \subseteq Used
    BY <1>9 DEF SyncDirectory, Used, Up, Publishing
  <2> QED BY <2>1
<1>10. CASE Died
  <2>1. ~ Up' /\ ~ Publishing'
    BY <1>10 DEF Died, Stop, Up, Publishing
  <2> QED BY <1>10, <2>1 DEF Died, Used
<1>11. CASE GaveUp
  BY <1>11 DEF GaveUp, Used, Up, Publishing
<1>12. ASSUME NEW v \in Vaults, EraseHistory(v) PROVE Used' \subseteq Used
  BY <1>12 DEF EraseHistory, processVars, Used, Up, Publishing
<1>13. CASE HistoriesOpen
  BY <1>13 DEF HistoriesOpen, Used, Up, Publishing
<1>14. CASE Listened \/ Unlocked \/ Distrusts
  BY <1>14 DEF Listened, Unlocked, Distrusts, Used, Up, Publishing
<1>15. CASE UNCHANGED vars
  BY <1>15 DEF vars, Used, Up, Publishing
<1> QED BY <1>1, <1>2, <1>3, <1>4, <1>5, <1>6, <1>7, <1>8, <1>9, <1>10, <1>11, <1>12, <1>13, <1>14, <1>15 DEF Step

LEMMA SteadyStep == ASSUME HandoffInv, Step PROVE AllSteady'
BY UsedStep, UsedMetadata DEF AllSteady, Fresh

LEMMA BackedStep == ASSUME HandoffInv, Step PROVE AllBacked'
BY UsedStep, LedgerStep DEF AllBacked, Fresh, Fit

\* The process's own state keeps its type.
LEMMA ProcessTypes == ASSUME HandoffInv, Step PROVE
    /\ mode' \in {"down", "starting", "refused", "serving"}
    /\ pc' \in {"idle", "write", "sync", "commit", "settle", "open"}
    /\ task' \in Tasks /\ todo' \subseteq Vaults /\ latched' \in BOOLEAN
    /\ worker' \in Locks
    /\ finished' \subseteq Entry /\ mix' \in FaultMixes /\ faults' \in 0..MaxFaults
<1> DEFINE Goal == /\ mode' \in {"down", "starting", "refused", "serving"}
                   /\ pc' \in {"idle", "write", "sync", "commit", "settle", "open"}
                   /\ task' \in Tasks /\ todo' \subseteq Vaults /\ latched' \in BOOLEAN
                   /\ worker' \in Locks
                   /\ finished' \subseteq Entry /\ mix' \in FaultMixes /\ faults' \in 0..MaxFaults
<1>0. /\ mode \in {"down", "starting", "refused", "serving"}
      /\ pc \in {"idle", "write", "sync", "commit", "settle", "open"}
      /\ task \in Tasks /\ todo \subseteq Vaults /\ latched \in BOOLEAN /\ worker \in Locks
      /\ finished \subseteq Entry /\ mix \in FaultMixes /\ faults \in 0..MaxFaults
  BY DEF HandoffInv, TypeOK, Tasks
<1>1. CASE Mutated
  BY <1>0, <1>1 DEF Mutated
<1>2. CASE HandoffStarted
  BY <1>0, <1>2, CandStarted DEF HandoffStarted
<1>3. CASE HandoffCommitted
  BY <1>0, <1>3, CandCommitted DEF HandoffCommitted, Tasks
<1>4. CASE Rename \/ HistoriesOpen \/ Listened \/ Unlocked \/ Distrusts \/ UNCHANGED vars
  BY <1>0, <1>4 DEF Rename, HistoriesOpen, Listened, Unlocked, Distrusts, vars
<1>5. CASE SyncDirectory
  <2>1. cand \in Metadata
    BY DEF HandoffInv, TypeOK
  <2>2. Finished(cand) \subseteq Entry
    BY <2>1, Fields DEF Finished, Entries, Entry
  <2>3. worker' \in Locks
    BY <1>0, <1>5 DEF SyncDirectory, Released, Locks
  <2>4. pc' \in {"idle", "commit", "settle", "open"}
    BY <1>5 DEF SyncDirectory
  <2>5. task' \in Tasks /\ todo' \subseteq Vaults
    BY <1>0, <1>5, NoTaskTyped DEF SyncDirectory
  <2> QED BY <1>0, <1>5, <2>2, <2>3, <2>4, <2>5 DEF SyncDirectory
<1>6. ASSUME NEW v \in Vaults, VaultSettled(v) \/ EraseHistory(v) \/ BatchRecovered(v) PROVE Goal
  BY <1>0, <1>6 DEF VaultSettled, EraseHistory, processVars, BatchRecovered, Recover, Publish, Tasks
<1>7. ASSUME NEW v \in Vaults, VaultOpened(v) PROVE Goal
  <2>1. CASE view.hist[v].init
    BY <1>0, <1>7, <2>1 DEF VaultOpened, Open, Publish, Tasks
  <2>2. CASE ~ view.hist[v].init
    BY <1>0, <1>7, <2>2 DEF VaultOpened, Open
  <2> QED BY <2>1, <2>2
<1>8. CASE Loaded
  <2>1. /\ mode' = "starting" /\ todo' = Live(file) /\ UNCHANGED <<latched, worker, finished, mix, faults>>
    BY <1>8 DEF Loaded, Start
  <2>2. pc' \in {"open", "write"} /\ task' \in Tasks
    <3>1. CASE Unknown(file) = {}
      BY <1>0, <1>8, <3>1 DEF Loaded, Start
    <3>2. CASE Unknown(file) # {}
      BY <1>8, <3>2, CandLoaded DEF Tasks
    <3> QED BY <3>1, <3>2
  <2> QED BY <1>0, <2>1, <2>2 DEF Live
<1>9. CASE Died
  BY <1>0, <1>9, FreeLocks, NoTaskTyped DEF Died, Stop
<1>10. CASE GaveUp
  BY <1>0, <1>10, NoTaskTyped DEF GaveUp
<1> QED BY <1>1, <1>2, <1>3, <1>4, <1>5, <1>6, <1>7, <1>8, <1>9, <1>10 DEF Step

LEMMA MetadataTypes == ASSUME HandoffInv, Step PROVE
    file' \in Metadata /\ synced' \in Metadata /\ mem' \in Metadata /\ cand' \in Metadata /\ view' \in Metadata
<1> DEFINE Goal == file' \in Metadata /\ synced' \in Metadata /\ mem' \in Metadata /\ cand' \in Metadata /\ view' \in Metadata
<1>0. file \in Metadata /\ synced \in Metadata /\ mem \in Metadata /\ cand \in Metadata /\ view \in Metadata
  BY DEF HandoffInv, TypeOK
<1>1. CASE Mutated \/ HandoffStarted \/ HandoffCommitted
  BY <1>0, <1>1 DEF Mutated, HandoffStarted, HandoffCommitted
<1>2. CASE Rename \/ HistoriesOpen \/ Listened \/ Unlocked \/ Distrusts \/ UNCHANGED vars
  BY <1>0, <1>2, NothingTyped DEF Rename, HistoriesOpen, Listened, Unlocked, Distrusts, vars
<1>3. CASE SyncDirectory
  BY <1>0, <1>3, NothingTyped DEF SyncDirectory
<1>4. ASSUME NEW v \in Vaults, VaultSettled(v) \/ EraseHistory(v) PROVE Goal
  BY <1>0, <1>4 DEF VaultSettled, EraseHistory, processVars
<1>5. ASSUME NEW v \in Vaults, BatchRecovered(v) PROVE Goal
  BY <1>0, <1>5, CandRecovered DEF BatchRecovered, Recover, Fresh
<1>6. ASSUME NEW v \in Vaults, VaultOpened(v) PROVE Goal
  <2>1. CASE view.hist[v].init
    BY <1>0, <1>6, <2>1, CandOpened DEF VaultOpened, Open, Fresh
  <2>2. CASE ~ view.hist[v].init
    BY <1>0, <1>6, <2>2 DEF VaultOpened, Open
  <2> QED BY <2>1, <2>2
<1>7. CASE Loaded
  <2>1. cand' \in Metadata
    <3>1. CASE Unknown(file) = {}
      BY <1>0, <1>7, <3>1 DEF Loaded, Start
    <3>2. CASE Unknown(file) # {}
      BY <1>7, <3>2, CandLoaded DEF Fresh
    <3> QED BY <3>1, <3>2
  <2> QED BY <1>0, <1>7, <2>1 DEF Loaded, Start
<1>8. CASE Died
  BY <1>0, <1>8, NothingTyped, UsedMetadata DEF Died, Stop
<1>9. CASE GaveUp
  BY <1>0, <1>9, NothingTyped, UsedMetadata DEF GaveUp
<1> QED BY <1>1, <1>2, <1>3, <1>4, <1>5, <1>6, <1>7, <1>8, <1>9 DEF Step

LEMMA TypeStep == ASSUME HandoffInv, Step PROVE TypeOK' /\ worker' \in Locks /\ WholeLedger(ledger)'
<1>1. ledger' \in [Vaults -> Ledger] /\ WholeLedger(ledger')
  BY LedgerStep DEF Fit
<1> QED BY <1>1, ProcessTypes, MetadataTypes, LockTypes DEF TypeOK, Tasks

LEMMA CopiesStep == ASSUME HandoffInv, Step PROVE Copies'
<1>0. Copies /\ Stage /\ TypeOK
  BY DEF HandoffInv
<1>1. CASE Mutated \/ HandoffStarted
  <2>1. Up /\ pc = "idle" /\ ~ latched /\ AllSettled(mem) /\ pc' = "write"
        /\ UNCHANGED <<file, synced, mem, mode, latched, mix>>
    BY <1>1 DEF Mutated, HandoffStarted
  <2>2. InitPending(mem) = {}
    BY <2>1 DEF AllSettled, Unsettled, InitPending
  <2> QED BY <1>0, <2>1, <2>2 DEF Copies
<1>2. CASE HandoffCommitted
  BY <1>0, <1>2 DEF HandoffCommitted, Copies
<1>3. CASE Rename
  BY <1>0, <1>3 DEF Rename, Copies
<1>4. CASE SyncDirectory
  BY <1>0, <1>4 DEF SyncDirectory, Copies
<1>5. ASSUME NEW v \in Vaults, VaultSettled(v) PROVE Copies'
  BY <1>0, <1>5 DEF VaultSettled, Copies
<1>6. ASSUME NEW v \in Vaults, VaultOpened(v) PROVE Copies'
  BY <1>0, <1>6 DEF VaultOpened, Open, Publish, Copies
<1>7. ASSUME NEW v \in Vaults, BatchRecovered(v) PROVE Copies'
  BY <1>0, <1>7 DEF BatchRecovered, Recover, Publish, Copies
<1>8. ASSUME NEW v \in Vaults, EraseHistory(v) PROVE Copies'
  BY <1>0, <1>8 DEF EraseHistory, processVars, Copies, Up
<1>9. CASE Loaded
  <2>1. pc = "idle" /\ pc' \in {"open", "write"} /\ mem' = file /\ UNCHANGED <<file, synced, mix>>
    BY <1>0, <1>9 DEF Loaded, Start, Stage, Publish
  <2> QED BY <1>0, <2>1 DEF Copies
<1>10. CASE HistoriesOpen
  BY <1>0, <1>10 DEF HistoriesOpen, Copies, Up
<1>11. CASE Listened \/ Unlocked \/ Distrusts \/ UNCHANGED vars
  BY <1>0, <1>11 DEF Listened, Unlocked, Distrusts, vars, Copies, Up
<1>12. CASE Died
  BY <1>12 DEF Died, Stop, Copies, Up
<1>13. CASE GaveUp
  <2>1. Up /\ pc' = "idle" /\ "power_loss" \notin mix' /\ mem' = mem /\ mode' = mode
    BY <1>13 DEF GaveUp, Up
  <2>2. ~ latched' => file' = mem \/ InitPending(mem) # {}
    BY <1>13 DEF GaveUp, HandoffInv, Settlement
  <2> QED BY <2>1, <2>2 DEF Copies
<1> QED BY <1>1, <1>2, <1>3, <1>4, <1>5, <1>6, <1>7, <1>8, <1>9, <1>10, <1>11, <1>12, <1>13 DEF Step

LEMMA ErasingStep == ASSUME HandoffInv, Step PROVE Erasing'
<1>0. Erasing /\ Copies /\ Stage /\ TypeOK
  BY DEF HandoffInv
\* This.db stays, and the candidate goes on from it.
<1>1. ASSUME Up, UNCHANGED mem, Onwards(mem, cand') \/ Used' \subseteq Used, Used' \subseteq Used \cup {cand'} PROVE Erasing'
  BY <1>0, <1>1 DEF Erasing, Onwards
<1>2. Used' \subseteq Used \cup {cand'}
  BY UsedStep
<1>3. CASE Mutated
  BY <1>1, <1>2, <1>3, CandMutated DEF Mutated
<1>4. CASE HandoffStarted
  BY <1>1, <1>2, <1>4, CandStarted DEF HandoffStarted, Onwards
<1>5. CASE HandoffCommitted
  BY <1>1, <1>2, <1>5, CandCommitted DEF HandoffCommitted, Onwards
<1>6. ASSUME NEW v \in Vaults, VaultSettled(v) PROVE Erasing'
  BY <1>1, <1>2, <1>6, CandSettled DEF VaultSettled, Onwards
<1>7. ASSUME NEW v \in Vaults, BatchRecovered(v) PROVE Erasing'
  <2>1. Up /\ UNCHANGED mem
    BY <1>7, OneCopy DEF BatchRecovered, Recover
  <2> QED BY <1>1, <1>2, <1>7, <2>1, CandRecovered DEF Onwards
<1>8. ASSUME NEW v \in Vaults, VaultOpened(v) PROVE Erasing'
  <2>1. Up /\ UNCHANGED mem
    BY <1>8, OneCopy DEF VaultOpened, Open
  <2>2. CASE view.hist[v].init
    BY <1>1, <1>2, <1>8, <2>1, <2>2, CandOpened DEF Onwards
  <2>3. CASE ~ view.hist[v].init
    <3>1. Used' \subseteq Used
      BY <1>8, <2>3 DEF VaultOpened, Open, Used, Up, Publishing
    <3> QED BY <1>1, <1>2, <2>1, <3>1
  <2> QED BY <2>2, <2>3
<1>9. CASE Loaded
  <2>1. mode = "down" /\ pc = "idle" /\ mem' = file /\ UNCHANGED <<file, synced, mix>>
    BY <1>0, <1>9 DEF Loaded, Start, Stage
  <2>2. "power_loss" \in mix => synced = file
    BY <1>0, <2>1 DEF Copies
  <2>3. CASE Unknown(file) = {}
    <3>1. Used' \subseteq {file}
      BY <1>9, <2>1, <2>2, <2>3 DEF Loaded, Start, Used, Publishing
    <3> QED BY <2>1, <3>1 DEF Erasing
  <2>4. CASE Unknown(file) # {}
    <3>1. Used' \subseteq {file, cand'} /\ cand'.vault = file.vault
      BY <1>9, <2>1, <2>2, <2>4, CandLoaded DEF Used
    <3> QED BY <2>1, <3>1 DEF Erasing
  <2> QED BY <2>3, <2>4
<1>10. CASE Rename
  <2>1. Used' \subseteq Used /\ UNCHANGED <<mem, mode>>
    BY <1>10 DEF Rename, Used, Up, Publishing
  <2> QED BY <1>0, <2>1 DEF Erasing, Up
<1>11. CASE SyncDirectory
  <2>1. Used' \subseteq {cand} /\ mem' = cand
    BY <1>0, <1>11 DEF SyncDirectory, Used, Publishing, Copies
  <2> QED BY <2>1 DEF Erasing
<1>12. CASE Died
  BY <1>12 DEF Died, Stop, Erasing, Up
<1>13. CASE GaveUp
  <2>1. Used' \subseteq Used /\ UNCHANGED <<mem, mode>>
    BY <1>13 DEF GaveUp, Used, Up, Publishing
  <2> QED BY <1>0, <2>1 DEF Erasing, Up
<1>14. ASSUME NEW v \in Vaults, EraseHistory(v) PROVE Erasing'
  BY <1>0, <1>14 DEF EraseHistory, processVars, Erasing, Used, Up, Publishing
<1>15. CASE HistoriesOpen
  <2>1. Used' \subseteq Used /\ UNCHANGED <<mem, mode>>
    BY <1>15 DEF HistoriesOpen, Used, Up, Publishing
  <2> QED BY <1>0, <2>1 DEF Erasing, Up
<1>16. CASE Listened
  <2>1. Used' \subseteq Used /\ UNCHANGED mem /\ Up
    BY <1>16 DEF Listened, Used, Up, Publishing
  <2> QED BY <1>0, <2>1 DEF Erasing
<1>17. CASE Unlocked \/ Distrusts \/ UNCHANGED vars
  BY <1>0, <1>17 DEF Unlocked, Distrusts, vars, Erasing, Used, Up, Publishing
<1> QED BY <1>3, <1>4, <1>5, <1>6, <1>7, <1>8, <1>9, <1>10, <1>11, <1>12, <1>13, <1>14, <1>15, <1>16, <1>17 DEF Step

LEMMA StageStep == ASSUME HandoffInv, Step PROVE Stage'
<1>0. Stage /\ Copies /\ TypeOK /\ Settlement
  BY DEF HandoffInv
<1>1. CASE Mutated
  BY <1>0, <1>1 DEF Mutated, Stage, NoTask, Up, Opening, Publishing
<1>2. CASE HandoffStarted
  <2>1. task'.kind = "describe" /\ task'.vault \in Vaults
    BY <1>2, CandStarted DEF Handing
  <2> QED BY <1>0, <1>2, <2>1 DEF HandoffStarted, Stage, NoTask, Up, Opening, Publishing
<1>3. CASE HandoffCommitted
  <2>1. task.vault \in Vaults
    BY <1>3, CandCommitted
  <2> QED BY <1>0, <1>3, <2>1 DEF HandoffCommitted, Stage, NoTask, Opening, Publishing
<1>4. CASE Rename
  BY <1>0, <1>4 DEF Rename, Stage, Opening, Publishing
<1>5. CASE SyncDirectory
  <2>1. mode = "starting" /\ task.kind = "mutate" => InitPending(cand) = {}
    BY <1>0, <1>5 DEF SyncDirectory, Settlement, Publishing, AllSettled, Unsettled, InitPending
  <2>2. mode \in {"starting", "serving"} /\ UNCHANGED <<mode, latched>> /\ task.kind # "none"
    BY <1>0, <1>5 DEF SyncDirectory, Stage, TypeOK, Publishing
  <2>3. CASE task.kind = "describe"
    BY <1>0, <1>5, <2>2, <2>3 DEF SyncDirectory, Stage, NoTask, Opening, Publishing
  <2>4. CASE task.kind # "describe"
    <3>1. task' = NoTask /\ pc' \in {"idle", "settle", "open"}
      BY <1>5, <2>4 DEF SyncDirectory
    <3>2. pc' = "open" => mode = "starting"
      BY <1>0, <1>5, <2>4 DEF SyncDirectory, Stage, Opening
    <3>3. pc' = "settle" => mode = "serving"
      BY <1>0, <1>5, <2>1, <2>2, <2>4 DEF SyncDirectory, Stage
    <3> QED BY <1>0, <2>2, <3>1, <3>2, <3>3 DEF Stage, NoTask, Opening, Publishing
  <2> QED BY <2>3, <2>4
<1>6. ASSUME NEW v \in Vaults, VaultSettled(v) PROVE Stage'
  BY <1>0, <1>6 DEF VaultSettled, Stage, NoTask, Opening, Publishing
<1>7. ASSUME NEW v \in Vaults, VaultOpened(v) PROVE Stage'
  <2>1. CASE view.hist[v].init
    BY <1>0, <1>7, <2>1 DEF VaultOpened, Open, Publish, Stage, NoTask, Opening, Publishing
  <2>2. CASE ~ view.hist[v].init
    BY <1>0, <1>7, <2>2 DEF VaultOpened, Open, Stage, NoTask, Opening, Publishing
  <2> QED BY <2>1, <2>2
<1>8. ASSUME NEW v \in Vaults, BatchRecovered(v) PROVE Stage'
  BY <1>0, <1>8 DEF BatchRecovered, Recover, Publish, Stage, NoTask, Opening, Publishing
<1>9. ASSUME NEW v \in Vaults, EraseHistory(v) PROVE Stage'
  BY <1>0, <1>9 DEF EraseHistory, processVars, Stage, Opening, Publishing
<1>10. CASE Loaded
  <2>1. pc = "idle" /\ task = NoTask /\ ~ latched /\ mode' = "starting" /\ latched' = latched
    BY <1>0, <1>10 DEF Loaded, Start, Stage
  <2>2. CASE Unknown(file) = {}
    BY <1>0, <1>10, <2>1, <2>2 DEF Loaded, Start, Stage, NoTask, Opening, Publishing
  <2>3. CASE Unknown(file) # {}
    BY <1>0, <1>10, <2>1, <2>3, CandLoaded DEF Stage, NoTask, Opening, Publishing
  <2> QED BY <2>2, <2>3
<1>11. CASE HistoriesOpen
  BY <1>0, <1>11 DEF HistoriesOpen, Stage, NoTask, Opening, Publishing
<1>12. CASE Listened
  BY <1>0, <1>12 DEF Listened, Stage, NoTask, Opening, Publishing
<1>13. CASE Unlocked \/ UNCHANGED vars
  BY <1>0, <1>13 DEF Unlocked, vars, Stage, Opening, Publishing
<1>14. CASE Distrusts
  BY <1>0, <1>14 DEF Distrusts, Stage, Opening, Publishing
<1>15. CASE Died
  BY <1>0, <1>15 DEF Died, Stop, Stage, NoTask, Opening, Publishing
<1>16. CASE GaveUp
  BY <1>0, <1>16 DEF GaveUp, Stage, NoTask, Opening, Publishing
<1> QED BY <1>1, <1>2, <1>3, <1>4, <1>5, <1>6, <1>7, <1>8, <1>9, <1>10, <1>11, <1>12, <1>13, <1>14, <1>15, <1>16 DEF Step

LEMMA SettlementStep == ASSUME HandoffInv, Step PROVE Settlement'
<1>0. Stage /\ Copies /\ TypeOK /\ Settlement /\ Loop
  BY DEF HandoffInv
<1>1. CASE Mutated
  <2>1. /\ Up /\ AllSettled(mem) /\ pc' = "write" /\ task'.kind = "mutate" /\ UNCHANGED <<mem, mode, latched>> /\ Unknown(mem) = {}
    BY <1>0, <1>1 DEF Mutated, Stage, Settlement, NoTask
  <2>2. Unknown(cand') = {} /\ Handing(cand') = {} /\ (mode = "starting" => AllSettled(cand'))
    BY <1>1, CandMutated DEF Fresh
  <2> QED BY <2>1, <2>2 DEF Settlement, Publishing
<1>2. CASE HandoffStarted
  <2>1. /\ Up /\ AllSettled(mem) /\ pc' = "write" /\ UNCHANGED <<mem, mode, latched>> /\ Unknown(mem) = {}
    BY <1>0, <1>2 DEF HandoffStarted, Stage, Settlement, NoTask
  <2>2. Unknown(cand') = {} /\ task'.kind = "describe" /\ task'.vault \in Handing(cand')
    BY <1>2, CandStarted DEF Fresh
  <2> QED BY <2>1, <2>2 DEF Settlement, Publishing
<1>3. CASE HandoffCommitted
  <2>1. /\ Up /\ pc' = "write" /\ task'.kind = "finish" /\ UNCHANGED <<mem, mode, latched>> /\ Unknown(mem) = {}
    BY <1>0, <1>3, CandCommitted DEF HandoffCommitted, Stage, Settlement
  <2>2. Unknown(cand') = {} /\ AllSettled(cand') /\ Handing(cand') = {}
    BY <1>3, CandCommitted DEF Fresh
  <2> QED BY <2>1, <2>2 DEF Settlement, Publishing
<1>4. CASE Rename
  BY <1>0, <1>4 DEF Rename, Settlement, Publishing, Up
<1>5. CASE SyncDirectory
  <2>1. mem' = cand /\ Unknown(cand) = {} /\ ~ Publishing' /\ UNCHANGED <<mode, latched>> /\ task.kind # "none" /\ pc = "sync"
    BY <1>0, <1>5 DEF SyncDirectory, Settlement, Publishing, Stage
  <2>2. CASE task.kind = "describe"
    BY <1>0, <1>5, <2>1, <2>2 DEF SyncDirectory, Settlement, Publishing
  <2>3. CASE task.kind \in {"number", "recover", "settle_start"}
    BY <1>0, <1>5, <2>1, <2>3 DEF SyncDirectory, Settlement, Publishing, NoTask
  <2>4. CASE task.kind \in {"mutate", "settle"}
    BY <1>0, <1>5, <2>1, <2>4 DEF SyncDirectory, Settlement, Publishing, NoTask, Stage
  <2>5. CASE task.kind = "finish"
    BY <1>0, <1>5, <2>1, <2>5 DEF SyncDirectory, Settlement, Publishing, NoTask
  <2> QED BY <1>0, <2>1, <2>2, <2>3, <2>4, <2>5 DEF TypeOK
<1>6. ASSUME NEW v \in Vaults, VaultSettled(v) PROVE Settlement'
  <2>1. /\ Up /\ pc' = "write" /\ task'.kind = "settle" /\ UNCHANGED <<mem, mode, latched>> /\ Unknown(mem) = {}
    BY <1>0, <1>6, CandSettled DEF VaultSettled, Stage, Settlement, NoTask
  <2>2. Unknown(cand') = {} /\ Handing(cand') = {} /\ Handing(mem) = {} /\ InitPending(mem) # {}
    BY <1>6, CandSettled DEF Fresh
  <2> QED BY <2>1, <2>2 DEF Settlement, Publishing
<1>7. ASSUME NEW v \in Vaults, VaultOpened(v) PROVE Settlement'
  <2>1. pc = "open" /\ Up /\ UNCHANGED <<mem, mode, latched>> /\ Unknown(mem) = {}
    BY <1>0, <1>7, OneCopy DEF VaultOpened, Open, Stage, Settlement, NoTask
  <2>2. CASE view.hist[v].init
    <3>1. Unknown(cand') = {} /\ pc' = "write" /\ task'.kind = "settle_start"
      BY <1>7, <2>2, CandOpened DEF Fresh
    <3> QED BY <2>1, <3>1 DEF Settlement, Publishing
  <2>3. CASE ~ view.hist[v].init
    <3>1. UNCHANGED <<cand, task, pc>>
      BY <1>7, <2>3 DEF VaultOpened, Open
    <3> QED BY <2>1, <3>1 DEF Settlement, Publishing
  <2> QED BY <2>2, <2>3
<1>8. ASSUME NEW v \in Vaults, BatchRecovered(v) PROVE Settlement'
  <2>1. Up /\ pc' = "write" /\ task'.kind = "recover" /\ UNCHANGED <<mem, mode, latched>> /\ Unknown(mem) = {}
    BY <1>0, <1>8, OneCopy DEF BatchRecovered, Recover, Publish, Stage, Settlement, NoTask
  <2>2. Unknown(cand') = {} /\ AllSettled(cand') /\ Handing(cand') = {}
    BY <1>8, CandRecovered DEF Fresh
  <2> QED BY <2>1, <2>2 DEF Settlement, Publishing
<1>9. ASSUME NEW v \in Vaults, EraseHistory(v) PROVE Settlement'
  BY <1>0, <1>9 DEF EraseHistory, processVars, Settlement, Publishing, Up
<1>10. CASE Loaded
  <2>1. mem' = file /\ mode' = "starting"
    BY <1>10 DEF Loaded, Start
  <2>2. CASE Unknown(file) = {}
    <3>1. pc' = "open"
      BY <1>10, <2>2 DEF Loaded, Start
    <3> QED BY <2>1, <2>2, <3>1 DEF Settlement, Publishing
  <2>3. CASE Unknown(file) # {}
    <3>1. pc' = "write" /\ task'.kind = "number" /\ Unknown(cand') = {}
      BY <1>10, <2>3, CandLoaded DEF Fresh
    <3> QED BY <2>1, <3>1 DEF Settlement, Publishing
  <2> QED BY <2>2, <2>3
<1>11. CASE HistoriesOpen
  <2>1. pc = "open" /\ todo = {} /\ pc' = "idle" /\ mode = "starting" /\ task.kind = "none" /\ UNCHANGED <<mem, mode, task>>
    BY <1>0, <1>11 DEF HistoriesOpen, Stage, NoTask
  <2>2. Unknown(mem) = {} /\ \A v \in Live(mem) : ~ Unsettled(mem, v)
    BY <1>0, <2>1 DEF Settlement, Loop, Up
  <2> QED BY <2>1, <2>2 DEF Settlement, Publishing, AllSettled
<1>12. CASE Listened
  <2>1. mode = "starting" /\ pc = "idle" /\ mode' = "serving" /\ UNCHANGED <<mem, pc, task>> /\ task.kind = "none" /\ Up
    BY <1>0, <1>12 DEF Listened, Stage, NoTask, Up
  <2>2. AllSettled(mem) /\ Unknown(mem) = {}
    BY <1>0, <2>1 DEF Settlement
  <2>3. Handing(mem) = {}
    BY <2>1, <2>2, Settled, Current
  <2> QED BY <2>1, <2>2, <2>3 DEF Settlement, Publishing
<1>13. CASE Unlocked \/ UNCHANGED vars
  BY <1>0, <1>13 DEF Unlocked, vars, Settlement, Publishing, Up
<1>14. CASE Distrusts
  BY <1>0, <1>14 DEF Distrusts, Settlement, Publishing, Up
<1>15. CASE Died
  BY <1>15 DEF Died, Stop, Settlement, Publishing, Up
<1>16. CASE GaveUp
  <2>1. Up /\ pc' = "idle" /\ mode = "serving" /\ UNCHANGED <<mem, mode>> /\ Unknown(mem) = {}
    BY <1>0, <1>16 DEF GaveUp, Settlement, Stage, Opening, Up
  <2>2. ~ latched' => Handing(mem) = {}
    <3>1. ~ latched' => Publishing /\ (task.kind = "settle" \/ task.kind = "mutate")
      BY <1>16 DEF GaveUp
    <3>2. ~ latched' => Handing(mem) = {} \/ AllSettled(mem)
      BY <1>0, <3>1 DEF Settlement
    <3> QED BY <2>1, <3>2, Current, Settled
  <2> QED BY <2>1, <2>2 DEF Settlement, Publishing
<1> QED BY <1>1, <1>2, <1>3, <1>4, <1>5, <1>6, <1>7, <1>8, <1>9, <1>10, <1>11, <1>12, <1>13, <1>14, <1>15, <1>16 DEF Step

LEMMA LoopStep == ASSUME HandoffInv, Step PROVE Loop'
<1>0. Stage /\ Copies /\ TypeOK /\ Settlement /\ Loop
  BY DEF HandoffInv
<1>1. CASE Mutated \/ HandoffStarted \/ HandoffCommitted \/ (\E v \in Vaults : VaultSettled(v))
  <2>1. pc' = "write" /\ task'.kind \in {"mutate", "describe", "finish", "settle"}
    BY <1>1 DEF Mutated, HandoffStarted, HandoffCommitted, VaultSettled
  <2> QED BY <2>1 DEF Loop, Opening
<1>2. CASE Rename
  BY <1>0, <1>2 DEF Rename, Loop, Publishing, Opening
<1>3. CASE SyncDirectory
  <2>1. mem' = cand /\ ~ Publishing' /\ pc = "sync" /\ Publishing
    BY <1>3 DEF SyncDirectory, Publishing
  <2>2. CASE task.kind \notin Opening
    <3>1. pc' # "open" /\ task'.kind \notin Opening
      BY <1>3, <2>2 DEF SyncDirectory, Opening, NoTask
    <3> QED BY <3>1 DEF Loop
  <2>3. CASE task.kind = "number"
    <3>1. todo' = todo /\ view' = cand /\ task' = NoTask
      BY <1>3, <2>3 DEF SyncDirectory
    <3>2. todo = Live(mem) /\ cand.vault = mem.vault
      BY <1>0, <2>1, <2>3 DEF Loop, Opening
    <3> QED BY <2>1, <3>1, <3>2 DEF Loop, Live, NoTask
  <2>4. CASE task.kind \in {"recover", "settle_start"}
    <3>1. todo' = todo \ {task.vault} /\ task' = NoTask
      BY <1>3, <2>4 DEF SyncDirectory
    <3>2. /\ cand.vault = mem.vault /\ task.vault \in todo /\ ~ Unsettled(cand, task.vault) /\ todo \subseteq Live(mem)
          /\ \A w \in Vaults \ {task.vault} : cand.hist[w] = mem.hist[w]
          /\ \A v \in Live(mem) \ todo : ~ Unsettled(mem, v)
          /\ \A v \in todo : view.hist[v] = mem.hist[v]
      BY <1>0, <2>1, <2>4 DEF Loop, Opening
    <3>3. Live(cand) = Live(mem) /\ Live(mem) \subseteq Vaults
      BY <3>2 DEF Live
    <3>4. \A v \in Live(cand) \ todo' : ~ Unsettled(cand, v)
      BY <3>1, <3>2, <3>3 DEF Unsettled
    <3>5. CASE task.kind = "settle_start"
      <4>1. view' = cand
        BY <1>3, <3>5 DEF SyncDirectory
      <4> QED BY <2>1, <3>1, <3>2, <3>3, <3>4, <4>1 DEF Loop, NoTask
    <3>6. CASE task.kind = "recover"
      <4>1. view' = view /\ Handing(cand) = {}
        BY <1>0, <1>3, <2>1, <3>6 DEF SyncDirectory, Settlement
      <4>2. \A v \in todo' : view.hist[v] = cand.hist[v]
        BY <3>1, <3>2, <3>3
      <4>3. todo' \cap Handing(view) = {}
        BY <4>1, <4>2 DEF Handing
      <4> QED BY <2>1, <3>1, <3>2, <3>3, <3>4, <4>1, <4>2, <4>3 DEF Loop, NoTask
    <3> QED BY <2>4, <3>5, <3>6
  <2> QED BY <2>2, <2>3, <2>4 DEF Opening
<1>4. ASSUME NEW v \in Vaults, VaultOpened(v) PROVE Loop'
  <2>1. /\ pc = "open" /\ v \in todo /\ UNCHANGED <<mem, view, mode>> /\ task.kind = "none"
        /\ v \in Live(mem) /\ view.hist[v] = mem.hist[v] /\ mem.hist[v].known /\ mem.hist[v].batch = {}
    BY <1>0, <1>4, LoopOpened DEF VaultOpened, Open, Stage, NoTask
  <2>2. CASE view.hist[v].init
    <3>1. /\ cand'.vault = mem.vault /\ ~ Unsettled(cand', v) /\ \A w \in Vaults \ {v} : cand'.hist[w] = mem.hist[w]
          /\ pc' = "write" /\ task' = [kind |-> "settle_start", vault |-> v] /\ todo' = todo
      BY <1>4, <2>2, CandOpened
    <3> QED BY <1>0, <2>1, <3>1 DEF Loop, Opening
  <2>3. CASE ~ view.hist[v].init
    <3>1. UNCHANGED <<cand, task, pc>> /\ todo' = todo \ {v}
      BY <1>4, <2>3 DEF VaultOpened, Open
    <3>2. ~ Unsettled(mem, v)
      BY <2>1, <2>3 DEF Unsettled
    <3> QED BY <1>0, <2>1, <3>1, <3>2 DEF Loop, Publishing
  <2> QED BY <2>2, <2>3
<1>5. ASSUME NEW v \in Vaults, BatchRecovered(v) PROVE Loop'
  <2>1. /\ pc = "open" /\ v \in todo /\ UNCHANGED <<mem, view, mode, todo>> /\ task.kind = "none"
        /\ pc' = "write" /\ task' = [kind |-> "recover", vault |-> v]
    BY <1>0, <1>5 DEF BatchRecovered, Recover, Publish, Stage, NoTask
  <2>2. /\ cand'.vault = mem.vault /\ ~ Unsettled(cand', v) /\ \A w \in Vaults \ {v} : cand'.hist[w] = mem.hist[w]
        /\ view = mem
    BY <1>5, CandRecovered
  <2> QED BY <1>0, <2>1, <2>2 DEF Loop, Opening
<1>6. CASE Loaded
  <2>1. mem' = file /\ view' = file /\ todo' = Live(file)
    BY <1>6 DEF Loaded, Start
  <2>2. CASE Unknown(file) = {}
    <3>1. pc' = "open" /\ task' = NoTask
      BY <1>0, <1>6, <2>2 DEF Loaded, Start, Stage
    <3> QED BY <2>1, <3>1 DEF Loop, Publishing, NoTask
  <2>3. CASE Unknown(file) # {}
    <3>1. task'.kind = "number" /\ cand'.vault = file.vault
      BY <1>6, <2>3, CandLoaded
    <3> QED BY <2>1, <3>1 DEF Loop, Publishing
  <2> QED BY <2>2, <2>3
<1>7. CASE HistoriesOpen \/ Died \/ GaveUp
  <2>1. pc' = "idle" /\ task'.kind = "none"
    BY <1>0, <1>7 DEF HistoriesOpen, Died, Stop, GaveUp, NoTask, Stage
  <2> QED BY <2>1 DEF Loop, Opening
<1>8. CASE (\E v \in Vaults : EraseHistory(v)) \/ Listened \/ Unlocked \/ Distrusts \/ UNCHANGED vars
  BY <1>0, <1>8 DEF EraseHistory, processVars, Listened, Unlocked, Distrusts, vars, Loop, Publishing
<1> QED BY <1>1, <1>2, <1>3, <1>4, <1>5, <1>6, <1>7, <1>8 DEF Step

-----------------------------------------------------------------------------
(* The first states.                                                       *)

LEMMA LegacyFile ==
  ASSUME Init
  PROVE  /\ file \in Metadata /\ Steady(file) /\ Used = {file} /\ Backed(file, ledger)
         /\ ledger \in [Vaults -> Ledger] /\ WholeLedger(ledger)
<1>1. \A r \in LegacyRow : r \in Row
  BY Empty DEF LegacyRow, Row, RowStatus
<1>2. file \in Metadata
  <2>1. file.vault \in [Vaults -> VaultStatus] /\ file.rows \in [Ops -> Row] /\ file.hist \in [Vaults -> History]
    BY <1>1, Empty DEF Init, VaultStatus
  <2> QED BY <2>1 DEF Init, Metadata
<1>3. \A v \in Vaults : file.hist[v] = NoHistory /\ file.vault[v] \in {"absent", "active"}
  BY DEF Init, Legacy
<1>4. \A o \in Ops : file.rows[o] # NoRow => file.rows[o].vault \in Live(file) /\ file.rows[o].seq = 0
  BY DEF Init, Legacy
<1>5. Present(file) = Live(file) /\ Unknown(file) = Present(file) /\ Handing(file) = {} /\ Live(file) \subseteq Vaults
  BY <1>3, Empty DEF Present, Live, Unknown, Handing
<1>6. WellNumbered(file)
  <2>1. \A v \in Unknown(file) : \A o \in RowsOf(file, v) : file.rows[o].seq = 0
    BY <1>4, Empty DEF RowsOf
  <2> QED BY <1>3, <1>4, <1>5, <2>1, Empty DEF WellNumbered
<1>7. Steady(file)
  BY <1>3, <1>5, <1>6, Empty DEF Steady
<1>8. ledger = [v \in Vaults |-> NoLedger] /\ NoLedger \in Ledger /\ ~ NoLedger.made /\ NoLedger.rows = {} /\ NoLedger.proofs = {}
  BY DEF Init, NoLedger, Ledger
<1>9. Backed(file, ledger)
  BY <1>3, <1>8, Empty DEF Backed, BackedAt
<1>10. ledger \in [Vaults -> Ledger] /\ WholeLedger(ledger)
  BY <1>8 DEF WholeLedger
<1>11. Used = {file}
  BY DEF Init, Used, Up, Publishing
<1> QED BY <1>2, <1>7, <1>9, <1>10, <1>11

LEMMA HandoffInit == ASSUME Init PROVE HandoffInv
<1>1. file = synced /\ mem = Nothing /\ cand = Nothing /\ view = Nothing /\ mode = "down" /\ pc = "idle" /\ task = NoTask
      /\ todo = {} /\ latched = FALSE /\ worker \in Locks /\ finished = {} /\ mix \in FaultMixes /\ faults = 0
  BY FreeLocks DEF Init
<1>2. TypeOK
  <2>1. worker \in [Vaults -> [op : Ops \cup {NoOp}, base : Bases \cup {NoBase}]]
    BY DEF Init, NoWorker
  <2>2. 0 \in 0..MaxFaults
    BY HistoryAssumption
  <2> QED BY <1>1, <2>1, <2>2, LegacyFile, NothingTyped, NoTaskTyped DEF TypeOK, Tasks
<1>3. AllSteady /\ AllBacked
  BY LegacyFile DEF AllSteady, AllBacked
<1>4. Copies /\ Erasing /\ Stage /\ Settlement /\ Loop
  BY <1>1 DEF Copies, Erasing, Stage, Settlement, Loop, Up, Publishing, NoTask, Opening
<1> QED BY <1>1, <1>2, <1>3, <1>4, LegacyFile DEF HandoffInv

LEMMA HandoffNext == ASSUME HandoffInv, [Next]_vars PROVE HandoffInv'
<1>1. Step
  BY Steps
<1> QED BY <1>1, TypeStep, SteadyStep, BackedStep, CopiesStep, ErasingStep, StageStep, SettlementStep, LoopStep DEF HandoffInv

\* In every reachable state the metadata in use and the ledgers belong together.
LEMMA HandoffAlways == Spec => []HandoffInv
<1>1. Init => HandoffInv
  BY HandoffInit
<1>2. HandoffInv /\ [Next]_vars => HandoffInv'
  BY HandoffNext
<1> QED BY <1>1, <1>2, PTL DEF Spec

-----------------------------------------------------------------------------
(* The theorems.                                                           *)

\* Metadata, candidates and ledgers hold complete rows in every reachable state.
THEOREM TypeCorrect == Spec => []TypeOK
<1>1. HandoffInv => TypeOK
  BY DEF HandoffInv
<1> QED BY <1>1, HandoffAlways, PTL

\* No start refuses: whatever step the last process died after, initializeOperationHistory
\* finds numbers, descriptors and generations it accepts, and the store it opens is operational.
THEOREM StartNeverRefuses == Spec => []NeverRefused
<1>1. HandoffInv => NeverRefused
  BY DEF HandoffInv, Stage, NeverRefused
<1> QED BY <1>1, HandoffAlways, PTL

LEMMA CountedOnce == ASSUME HandoffInv PROVE RowsCountedOnce
<1> SUFFICES ASSUME mode = "serving", Operational, NEW v \in Live(mem)
     PROVE  LET all == Entries(mem, RowsOf(mem, v)) \cup ledger[v].rows IN
              /\ \A e \in ledger[v].rows : mem.rows[e.op] = NoRow
              /\ \A e, f \in all : e.row.seq = f.row.seq => e = f
              /\ \A e \in all : e.row.seq < mem.hist[v].next
  BY DEF RowsCountedOnce
<1> DEFINE hot == Entries(mem, RowsOf(mem, v))
<1>1. mem \in Metadata /\ Steady(mem) /\ Backed(mem, ledger) /\ ledger \in [Vaults -> Ledger] /\ WholeLedger(ledger)
  BY Current, Ledgers DEF Up
<1>2. v \in Vaults /\ v \in Present(mem) \ Unknown(mem) /\ ledger[v].made /\ ledger[v].gen = mem.hist[v].gen
      /\ ledger[v].max < mem.hist[v].next
  BY DEF Live, Present, Unknown, Operational, Unsettled, Agrees
<1>3. ledger[v].gen \in Nat /\ mem.hist[v].gen \in Nat /\ mem.hist[v].next \in Nat /\ ledger[v].max \in Nat
      /\ ledger[v].rows \subseteq Entry
  BY <1>1, <1>2, Fields DEF Ledger
<1>4. \A e \in ledger[v].rows : mem.rows[e.op] = NoRow
  BY <1>1, <1>2, <1>3 DEF Backed, BackedAt, Abreast
<1>5. \A e \in hot : \E o \in RowsOf(mem, v) : e = [op |-> o, row |-> mem.rows[o]]
  BY DEF Entries
<1>6. \A o \in RowsOf(mem, v) : o \in Ops /\ mem.rows[o].vault = v /\ mem.rows[o] # NoRow /\ mem.rows[o].seq \in Nat
  BY <1>1, <1>2, Fields, Empty DEF RowsOf
<1>7. \A e, f \in hot : e.row.seq = f.row.seq => e = f
  <2> SUFFICES ASSUME NEW e \in hot, NEW f \in hot, e.row.seq = f.row.seq PROVE e = f
    OBVIOUS
  <2>1. PICK o \in RowsOf(mem, v) : e = [op |-> o, row |-> mem.rows[o]]
    BY <1>5
  <2>2. PICK p \in RowsOf(mem, v) : f = [op |-> p, row |-> mem.rows[p]]
    BY <1>5
  <2>3. o = p
    BY <1>1, <1>2, <2>1, <2>2 DEF Steady, WellNumbered
  <2> QED BY <2>1, <2>2, <2>3
<1>8. \A e \in hot, f \in ledger[v].rows : e.row.seq # f.row.seq
  <2> SUFFICES ASSUME NEW e \in hot, NEW f \in ledger[v].rows, e.row.seq = f.row.seq PROVE FALSE
    OBVIOUS
  <2>1. PICK o \in RowsOf(mem, v) : e = [op |-> o, row |-> mem.rows[o]]
    BY <1>5
  <2>2. f.op = o
    BY <1>1, <1>2, <2>1 DEF Backed, BackedAt
  <2> QED BY <1>4, <1>6, <2>2
<1>9. \A e \in hot : e.row.seq < mem.hist[v].next
  <2> SUFFICES ASSUME NEW e \in hot PROVE e.row.seq < mem.hist[v].next
    OBVIOUS
  <2>1. PICK o \in RowsOf(mem, v) : e = [op |-> o, row |-> mem.rows[o]]
    BY <1>5
  <2> QED BY <1>1, <1>2, <2>1 DEF Steady, WellNumbered
<1>10. \A e \in ledger[v].rows : e.row.seq < mem.hist[v].next
  <2> SUFFICES ASSUME NEW e \in ledger[v].rows PROVE e.row.seq < mem.hist[v].next
    OBVIOUS
  <2>1. e.row.seq \in Nat /\ e.row.seq <= ledger[v].max
    BY <1>1, <1>2, <1>3 DEF WholeLedger, Entry, Row
  <2> QED BY <1>2, <1>3, <2>1
<1>11. \A e, f \in ledger[v].rows : e.row.seq = f.row.seq => e = f
  BY <1>1, <1>2 DEF WholeLedger
<1> HIDE DEF hot
<1>12. \A e, f \in hot \cup ledger[v].rows : e.row.seq = f.row.seq => e = f
  BY <1>7, <1>8, <1>11
<1> QED BY <1>4, <1>9, <1>10, <1>12 DEF hot

\* An operational store has every row once, in the metadata or in the ledger, with a number of
\* its own below the next one: exports and counts need no comparison of the two.
THEOREM NoRowTwice == Spec => []RowsCountedOnce
<1>1. HandoffInv => RowsCountedOnce
  BY CountedOnce
<1> QED BY <1>1, HandoffAlways, PTL

LEMMA TrustedStep == ASSUME HandoffInv, Trusted, Step PROVE Trusted'
<1>0. faults \in 0..MaxFaults /\ MaxFaults \in Nat
  BY HistoryAssumption DEF HandoffInv, TypeOK
<1>1. CASE Mutated \/ HandoffStarted \/ HandoffCommitted \/ (\E v \in Vaults : VaultSettled(v) \/ BatchRecovered(v))
  <2>1. pc' = "write" /\ UNCHANGED <<latched, faults>>
    BY <1>1 DEF Mutated, HandoffStarted, HandoffCommitted, VaultSettled, BatchRecovered, Recover, Publish
  <2> QED BY <2>1 DEF Trusted
<1>2. CASE Rename
  BY <1>2 DEF Rename, Trusted
<1>3. CASE SyncDirectory
  <2>1. UNCHANGED <<latched, faults, mode>> /\ mem' = cand /\ pc = "sync"
    BY <1>3 DEF SyncDirectory
  <2>2. mode = "serving" /\ pc' = "idle" => AllSettled(cand)
    <3> SUFFICES ASSUME mode = "serving", pc' = "idle" PROVE AllSettled(cand)
      OBVIOUS
    <3>1. task.kind \in {"mutate", "settle", "finish"}
      BY <1>3 DEF SyncDirectory, HandoffInv, TypeOK, Stage, Publishing
    <3>2. Unknown(cand) = {} /\ (task.kind = "finish" => AllSettled(cand)) /\ Handing(cand) = {}
      BY <2>1, <3>1 DEF HandoffInv, Settlement, Publishing
    <3>3. task.kind # "finish" => InitPending(cand) = {}
      BY <1>3, <3>1 DEF SyncDirectory
    <3>4. InitPending(cand) = {} => AllSettled(cand)
      BY <3>2 DEF InitPending, AllSettled, Unsettled, Unknown, Present, Live, Handing
    <3> QED BY <3>2, <3>3, <3>4
  <2> QED BY <2>1, <2>2 DEF Trusted
<1>4. ASSUME NEW v \in Vaults, VaultOpened(v) PROVE Trusted'
  BY <1>4 DEF VaultOpened, Open, Publish, Trusted
<1>5. ASSUME NEW v \in Vaults, EraseHistory(v) PROVE Trusted'
  BY <1>5 DEF EraseHistory, processVars, Trusted
<1>6. CASE Loaded
  BY <1>6 DEF Loaded, Start, Trusted
<1>7. CASE HistoriesOpen
  BY <1>7 DEF HistoriesOpen, Trusted, HandoffInv, Stage
<1>8. CASE Listened
  BY <1>8 DEF Listened, Trusted, HandoffInv, Settlement
<1>9. CASE Unlocked \/ Distrusts \/ UNCHANGED vars
  BY <1>9 DEF Unlocked, Distrusts, vars, Trusted
<1>10. CASE Died
  BY <1>10 DEF Died, Stop, Trusted
<1>11. CASE GaveUp
  BY <1>0, <1>11 DEF GaveUp, Trusted
<1> QED BY <1>1, <1>2, <1>3, <1>4, <1>5, <1>6, <1>7, <1>8, <1>9, <1>10, <1>11 DEF Step

\* Neither the readiness probe nor a queued request ever latches the store in the middle of a
\* handoff or of a vault's creation: a latched store has met a failed write, fsync or transaction.
THEOREM LatchNeedsFault == Spec => []LatchedOnlyByFaults
<1>1. Init => Trusted
  BY DEF Init, Trusted
<1>2. HandoffInv /\ Trusted /\ [Next]_vars => Trusted'
  BY Steps, TrustedStep
<1>3. Trusted => LatchedOnlyByFaults
  BY DEF Trusted, LatchedOnlyByFaults
<1> QED BY <1>1, <1>2, <1>3, HandoffAlways, PTL DEF Spec

\* What a step may do to a ledger.
Grows(L, M) == L.rows \subseteq M.rows /\ L.gen <= M.gen

LEMMA LedgerGrowth ==
  ASSUME HandoffInv, Step, NEW v \in Vaults
  PROVE  Grows(ledger[v], ledger'[v]) \/ (file.vault[v] = "finalizing" /\ mem.vault[v] = "finalizing" /\ EraseHistory(v))
<1>0. /\ ledger \in [Vaults -> Ledger] /\ ledger[v].gen \in Nat /\ ledger[v].rows \subseteq Entry
      /\ Grows(ledger[v], ledger[v])
  BY Ledgers DEF Ledger, Grows
<1>1. ASSUME NEW w \in Vaults, NEW d \in Metadata, Steady(d), w \in Handing(d), Backed(d, ledger),
             Commits(d, ledger, ledger', w)
      PROVE  Grows(ledger[v], ledger'[v])
  <2>1. CASE v # w
    BY <1>0, <1>1, <2>1 DEF Commits
  <2>2. CASE v = w
    <3>1. d.hist[v].gen \in Nat /\ d.hist[v].known /\ ~ d.hist[v].init /\ v \in Live(d)
      BY <1>1, <2>2, Fields DEF Handing, Steady
    <3>2. ledger[v].gen = d.hist[v].gen \/ ledger[v].gen = d.hist[v].gen + 1
      BY <1>1, <2>2, <3>1 DEF Backed, BackedAt, Abreast, Live
    <3> QED BY <1>0, <1>1, <2>2, <3>1, <3>2 DEF Commits, Grows
  <2> QED BY <2>1, <2>2
<1>2. ASSUME NEW w \in Vaults, w \in InitPending(mem), pc \in {"settle", "open"}, ledger' = Opened(w)
      PROVE  Grows(ledger[v], ledger'[v])
  <2>1. /\ \A u \in Vaults \ {w} : Opened(w)[u] = ledger[u]
        /\ ledger[w].rows = {} /\ ledger[w].gen = 0 /\ Opened(w)[w] = EmptyLedger
    BY <1>2, OneCopy, Current, Ledgers, OpenedEffect
  <2> QED BY <1>0, <1>2, <2>1 DEF Grows, EmptyLedger, NoLedger
<1>3. CASE HandoffCommitted
  <2>1. pc = "commit" /\ Up
    BY <1>3, OneCopy DEF HandoffCommitted
  <2> QED BY <1>1, <1>3, <2>1, CommitFits, Current DEF HandoffCommitted
<1>4. ASSUME NEW w \in Vaults, VaultSettled(w) PROVE Grows(ledger[v], ledger'[v])
  BY <1>2, <1>4 DEF VaultSettled
<1>5. ASSUME NEW w \in Vaults, VaultOpened(w) PROVE Grows(ledger[v], ledger'[v])
  <2>1. pc = "open" /\ ledger' = Opened(w)
    BY <1>5 DEF VaultOpened, Open
  <2> QED BY <1>0, <1>2, <1>5, <2>1, LoopOpened
<1>6. ASSUME NEW w \in Vaults, BatchRecovered(w) PROVE Grows(ledger[v], ledger'[v])
  <2>1. pc = "open" /\ w \in todo /\ view.hist[w].batch # {} /\ ledger' = Committed(w, view.hist[w].batch)
    BY <1>6 DEF BatchRecovered, Recover
  <2> QED BY <1>1, <2>1, RecoverFits, LoopHandoff
<1>7. ASSUME NEW w \in Vaults, EraseHistory(w)
      PROVE  Grows(ledger[v], ledger'[v]) \/ (file.vault[v] = "finalizing" /\ mem.vault[v] = "finalizing" /\ EraseHistory(v))
  <2>1. CASE v # w
    BY <1>0, <1>7, <2>1 DEF EraseHistory
  <2>2. CASE v = w
    <3>1. mem.vault[v] = "finalizing" /\ ledger[v].made /\ Up
      BY <1>7, <2>2 DEF EraseHistory, Up
    <3>2. file \in Used /\ file.vault[v] \in {"finalizing", "deleted"}
      BY <3>1 DEF HandoffInv, Erasing, Used
    <3>3. file.hist[v].known
      BY <3>1, <3>2, UsedMetadata DEF Backed, BackedAt
    <3>4. v \in Present(file)
      BY <3>2, <3>3, UsedMetadata DEF Steady, WellNumbered
    <3> QED BY <1>7, <2>2, <3>1, <3>2, <3>4 DEF Present
  <2> QED BY <2>1, <2>2
<1>8. CASE Died \/ GaveUp
  <2>1. LedgerLeft
    BY <1>8 DEF Died, GaveUp
  <2>2. CASE pc = "commit" /\ ledger' = Committed(task.vault, mem.hist[task.vault].batch)
    BY <1>1, <2>2, CommitFits, OneCopy, Current
  <2>3. CASE pc = "settle" /\ \E w \in InitPending(mem) : ledger' = Opened(w)
    BY <1>2, <2>3 DEF InitPending, Live
  <2> QED BY <1>0, <2>1, <2>2, <2>3 DEF LedgerLeft
<1>9. ASSUME UNCHANGED ledger PROVE Grows(ledger[v], ledger'[v])
  BY <1>0, <1>9
<1> QED BY <1>3, <1>4, <1>5, <1>6, <1>7, <1>8, <1>9
  DEF Step, vars, Mutated, HandoffStarted, Rename, SyncDirectory, Loaded, Start, HistoriesOpen, Listened, Unlocked, Distrusts

\* A ledger never loses a row or a generation, across crashes, retried commits and adopted
\* ledgers, except when the history of a vault that is being deleted is erased.
THEOREM HistoryIsKept == Spec => LedgerOnlyGrows
<1>1. HandoffInv /\ [Next]_vars =>
        [\A v \in Vaults : /\ ledger[v].rows \subseteq ledger'[v].rows
                           /\ ledger[v].gen <= ledger'[v].gen
                        \/ file.vault[v] = "finalizing"]_vars
  BY Steps, LedgerGrowth DEF Grows
<1> QED BY <1>1, HandoffAlways, PTL DEF Spec, LedgerOnlyGrows

-----------------------------------------------------------------------------
(* Nothing is forgotten.                                                   *)

LEMMA InFinished ==
  ASSUME NEW d, NEW e \in Entry
  PROVE  e \in Finished(d) <=> e.row = d.rows[e.op] /\ e.row.status = "done"
<1>1. e.op \in Ops /\ e = [op |-> e.op, row |-> e.row]
  BY DEF Entry
<1>2. ASSUME e \in Finished(d) PROVE e.row = d.rows[e.op] /\ e.row.status = "done"
  BY <1>2 DEF Finished, Entries
<1>3. ASSUME e.row = d.rows[e.op], e.row.status = "done" PROVE e \in Finished(d)
  BY <1>1, <1>3 DEF Finished, Entries
<1> QED BY <1>2, <1>3

\* A finished row that d and the ledgers L remember, c and the ledgers M remember.
LEMMA RememberOn ==
  ASSUME NEW d, NEW c, NEW L, NEW M, NEW F, F \subseteq Entry, Remembers(d, L, F), Unknown(c) = {},
         \A v \in Vaults : /\ d.vault[v] # "absent" => c.vault[v] # "absent"
                           /\ v \in Live(c) /\ d.vault[v] # "absent" => v \in Live(d) /\ L[v].rows \subseteq M[v].rows,
         \A e \in Entry : e \in Finished(d) /\ e.row.vault \in Live(c) => e \in Finished(c) \cup M[e.row.vault].rows
  PROVE  Remembers(c, M, F)
<1> SUFFICES ASSUME NEW e \in F
     PROVE  /\ e.row.vault \in Vaults /\ c.vault[e.row.vault] # "absent"
            /\ e.row.vault \in Live(c) => e \in Finished(c) \cup M[e.row.vault].rows
  BY DEF Remembers
<1>1. /\ e \in Entry /\ e.row.vault \in Vaults /\ d.vault[e.row.vault] # "absent"
      /\ e.row.vault \in Live(d) => e \in Finished(d) \cup L[e.row.vault].rows
  BY DEF Remembers
<1> QED BY <1>1

LEMMA RememberMutates ==
  ASSUME NEW d \in Metadata, NEW c \in Metadata, NEW L, NEW F, F \subseteq Entry, Remembers(d, L, F), Unknown(c) = {},
         Mutates(d, c, L)
  PROVE  Remembers(c, L, F)
<1>0. d.vault \in [Vaults -> VaultStatus] /\ d.rows \in [Ops -> Row]
  BY Fields
<1>1. CASE Edits(d, c)
  <2>1. PICK o \in Ops, r \in Row :
          /\ c.rows = [d.rows EXCEPT ![o] = r] /\ d.rows[o].status \in {"open", "pushed"}
    BY <1>1 DEF Edits
  <2>2. c.vault = d.vault
    BY <1>1 DEF Edits
  <2>3. \A e \in Entry : e \in Finished(d) => e \in Finished(c)
    <3> SUFFICES ASSUME NEW e \in Entry, e \in Finished(d) PROVE e \in Finished(c)
      OBVIOUS
    <3>1. e.row = d.rows[e.op] /\ e.row.status = "done" /\ e.op \in Ops
      BY InFinished DEF Entry
    <3>2. c.rows[e.op] = d.rows[e.op]
      BY <1>0, <2>1, <3>1
    <3> QED BY <3>1, <3>2, InFinished
  <2> QED BY <2>2, <2>3, RememberOn DEF Live
<1>2. CASE Admits(d, c, L)
  <2>1. PICK o \in Ops, r \in Row : c.rows = [d.rows EXCEPT ![o] = r] /\ d.rows[o] = NoRow
    BY <1>2 DEF Admits
  <2>2. c.vault = d.vault
    BY <1>2 DEF Admits
  <2>3. \A e \in Entry : e \in Finished(d) => e \in Finished(c)
    <3> SUFFICES ASSUME NEW e \in Entry, e \in Finished(d) PROVE e \in Finished(c)
      OBVIOUS
    <3>1. e.row = d.rows[e.op] /\ e.row.status = "done" /\ e.op \in Ops
      BY InFinished DEF Entry
    <3>2. c.rows[e.op] = d.rows[e.op]
      BY <1>0, <2>1, <3>1, Empty
    <3> QED BY <3>1, <3>2, InFinished
  <2> QED BY <2>2, <2>3, RememberOn DEF Live
<1>3. CASE Creates(d, c)
  <2>1. PICK v \in Vaults : d.vault[v] = "absent" /\ c.vault = [d.vault EXCEPT ![v] = "active"]
    BY <1>3 DEF Creates
  <2>2. Finished(c) = Finished(d)
    BY <1>3 DEF Creates, Finished, Entries
  <2>3. \A w \in Vaults : d.vault[w] # "absent" => c.vault[w] = d.vault[w]
    BY <1>0, <2>1
  <2>4. \A w \in Vaults : /\ d.vault[w] # "absent" => c.vault[w] # "absent"
                          /\ w \in Live(c) /\ d.vault[w] # "absent" => w \in Live(d) /\ L[w].rows \subseteq L[w].rows
    BY <2>3 DEF Live
  <2> QED BY <2>2, <2>4, RememberOn
<1>4. CASE Condemns(d, c)
  <2>1. Finished(c) = Finished(d)
    BY <1>4 DEF Condemns, Finished, Entries
  <2>2. \A w \in Vaults : /\ d.vault[w] # "absent" => c.vault[w] # "absent"
                          /\ c.vault[w] = "active" => d.vault[w] = "active"
    BY <1>0, <1>4 DEF Condemns
  <2>3. \A w \in Vaults : /\ d.vault[w] # "absent" => c.vault[w] # "absent"
                          /\ w \in Live(c) /\ d.vault[w] # "absent" => w \in Live(d) /\ L[w].rows \subseteq L[w].rows
    BY <2>2 DEF Live
  <2> QED BY <2>1, <2>3, RememberOn
<1>5. CASE Removes(d, c, L)
  <2>1. PICK v \in Vaults :
          /\ c.vault = [d.vault EXCEPT ![v] = "deleted"]
          /\ c.rows = [o \in Ops |-> IF d.rows[o].vault = v THEN NoRow ELSE d.rows[o]]
    BY <1>5 DEF Removes
  <2>2. \A w \in Vaults : /\ d.vault[w] # "absent" => c.vault[w] # "absent"
                          /\ c.vault[w] = "active" => d.vault[w] = "active" /\ w # v
    BY <1>0, <2>1
  <2>3. \A w \in Vaults : /\ d.vault[w] # "absent" => c.vault[w] # "absent"
                          /\ w \in Live(c) /\ d.vault[w] # "absent" => w \in Live(d) /\ L[w].rows \subseteq L[w].rows
    BY <2>2 DEF Live
  <2>4. \A e \in Entry : e \in Finished(d) /\ e.row.vault \in Live(c) => e \in Finished(c)
    <3> SUFFICES ASSUME NEW e \in Entry, e \in Finished(d), e.row.vault \in Live(c) PROVE e \in Finished(c)
      OBVIOUS
    <3>1. e.row = d.rows[e.op] /\ e.row.status = "done" /\ e.op \in Ops /\ e.row.vault # v
      BY <2>2, InFinished DEF Entry, Live
    <3>2. c.rows[e.op] = d.rows[e.op]
      BY <2>1, <3>1
    <3> QED BY <3>1, <3>2, InFinished
  <2> QED BY <2>3, <2>4, RememberOn
<1> QED BY <1>1, <1>2, <1>3, <1>4, <1>5 DEF Mutates

\* The rows that leave the metadata are in the ledger.
LEMMA RememberDrops ==
  ASSUME NEW d \in Metadata, NEW c \in Metadata, NEW L, NEW M, NEW F, F \subseteq Entry, Steady(d), NEW v \in Handing(d),
         Remembers(d, L, F), Unknown(c) = {}, Commits(d, L, M, v), Drops(d, c, v)
  PROVE  Remembers(c, M, F)
<1>1. c.vault = d.vault /\ v \in Vaults
  BY DEF Drops, Handing
<1>2. \A w \in Vaults : L[w].rows \subseteq M[w].rows
  BY <1>1 DEF Commits
<1>3. \A e \in Entry : e \in Finished(d) /\ e.row.vault \in Live(c) => e \in Finished(c) \cup M[e.row.vault].rows
  <2> SUFFICES ASSUME NEW e \in Entry, e \in Finished(d) PROVE e \in Finished(c) \cup M[e.row.vault].rows
    OBVIOUS
  <2>1. e.row = d.rows[e.op] /\ e.row.status = "done" /\ e.op \in Ops
    BY InFinished DEF Entry
  <2>2. CASE d.rows[e.op].vault = v /\ \E f \in d.hist[v].batch : f.op = e.op
    <3>1. PICK f \in d.hist[v].batch : f.op = e.op
      BY <2>2
    <3>2. f \in Entry /\ f.row = d.rows[f.op]
      BY <1>1, Fields DEF Steady
    <3>3. f = e
      BY <2>1, <3>1, <3>2 DEF Entry
    <3> QED BY <2>1, <2>2, <3>3 DEF Commits
  <2>3. CASE ~ (d.rows[e.op].vault = v /\ \E f \in d.hist[v].batch : f.op = e.op)
    <3>1. c.rows[e.op] = d.rows[e.op]
      BY <2>1, <2>3 DEF Drops
    <3> QED BY <2>1, <3>1, InFinished
  <2> QED BY <2>2, <2>3
<1>4. \A w \in Vaults : /\ d.vault[w] # "absent" => c.vault[w] # "absent"
                        /\ w \in Live(c) /\ d.vault[w] # "absent" => w \in Live(d) /\ L[w].rows \subseteq M[w].rows
  BY <1>1, <1>2 DEF Live
<1> QED BY <1>3, <1>4, RememberOn

\* Neither vaults nor rows change.
LEMMA RememberSame ==
  ASSUME NEW d, NEW c, NEW L, NEW F, F \subseteq Entry, Remembers(d, L, F), Unknown(c) = {}, c.vault = d.vault, c.rows = d.rows
  PROVE  Remembers(c, L, F)
<1>1. Finished(c) = Finished(d) /\ Live(c) = Live(d)
  BY DEF Finished, Entries, Live
<1> QED BY <1>1, RememberOn

\* The ledgers of a step remember what was in use.
LEMMA RememberLedgers ==
  ASSUME HandoffInv, AllRemember, Step, NEW d \in Used
  PROVE  Remembers(d, ledger', finished)
<1>1. Remembers(d, ledger, finished)
  BY DEF AllRemember
<1> SUFFICES ASSUME NEW e \in finished, e.row.vault \in Live(d), e.row.vault \in Vaults
     PROVE  e \in Finished(d) \cup ledger'[e.row.vault].rows
  BY <1>1 DEF Remembers
<1>2. e \in Finished(d) \cup ledger[e.row.vault].rows
  BY <1>1 DEF Remembers
<1>3. CASE Grows(ledger[e.row.vault], ledger'[e.row.vault])
  BY <1>2, <1>3 DEF Grows
<1>4. CASE mem.vault[e.row.vault] = "finalizing" /\ EraseHistory(e.row.vault)
  BY <1>4 DEF EraseHistory, HandoffInv, Erasing, Up, Live
<1> QED BY <1>3, <1>4, LedgerGrowth

\* These steps publish no candidate.
LEMMA UsedStays ==
  ASSUME HandoffInv,
         \/ Rename \/ SyncDirectory \/ HistoriesOpen \/ Listened \/ Unlocked \/ Distrusts \/ Died \/ GaveUp
         \/ UNCHANGED vars \/ \E v \in Vaults : EraseHistory(v)
  PROVE  Used' \subseteq Used
<1>1. CASE Rename
  BY <1>1 DEF Rename, Used, Up, Publishing
<1>2. CASE SyncDirectory
  BY <1>2 DEF SyncDirectory, Used, Up, Publishing
<1>3. CASE HistoriesOpen \/ Listened \/ Unlocked \/ Distrusts
  BY <1>3 DEF HistoriesOpen, Listened, Unlocked, Distrusts, Used, Up, Publishing
<1>4. CASE Died
  BY <1>4 DEF Died, Stop, Used, Up, Publishing
<1>5. CASE GaveUp
  BY <1>5 DEF GaveUp, Used, Up, Publishing
<1>6. CASE UNCHANGED vars \/ \E v \in Vaults : EraseHistory(v)
  BY <1>6 DEF vars, EraseHistory, processVars, Used, Up, Publishing
<1> QED BY <1>1, <1>2, <1>3, <1>4, <1>5, <1>6

\* A fresh candidate remembers.
LEMMA RememberFresh ==
  ASSUME HandoffInv, AllRemember, Step, cand' \in Used', cand' \notin Used
  PROVE  Remembers(cand', ledger', finished)
<1>0. finished \subseteq Entry
  BY DEF HandoffInv, TypeOK
<1>1. Up => Remembers(mem, ledger, finished)
  BY DEF AllRemember, Used
<1>2. CASE Mutated
  BY <1>0, <1>1, <1>2, CandMutated, Current, RememberMutates DEF Mutated, Fresh
<1>3. CASE HandoffStarted
  BY <1>0, <1>1, <1>3, CandStarted, RememberSame DEF HandoffStarted, Describes, Fresh
<1>4. CASE HandoffCommitted
  <2>1. pc = "commit" /\ Up /\ cand' \in Metadata /\ Unknown(cand') = {} /\ Drops(mem, cand', task.vault)
        /\ ledger' = Committed(task.vault, mem.hist[task.vault].batch)
    BY <1>4, CandCommitted DEF HandoffCommitted, Fresh
  <2>2. task.vault \in Handing(mem) /\ Commits(mem, ledger, ledger', task.vault)
    BY <2>1, CommitFits
  <2> QED BY <1>0, <1>1, <2>1, <2>2, Current, RememberDrops
<1>5. ASSUME NEW v \in Vaults, VaultSettled(v) PROVE Remembers(cand', ledger', finished)
  <2>1. mem \in Used /\ Unknown(cand') = {} /\ cand'.vault = mem.vault /\ cand'.rows = mem.rows
    BY <1>5, CandSettled, Current DEF Fresh, VaultSettled, Settles
  <2> QED BY <1>0, <2>1, RememberLedgers, RememberSame
<1>6. ASSUME NEW v \in Vaults, VaultOpened(v) PROVE Remembers(cand', ledger', finished)
  <2>1. CASE view.hist[v].init
    <3>1. Up /\ cand' = [mem EXCEPT !.hist[v].init = FALSE]
      BY <1>6, <2>1, OneCopy DEF VaultOpened, Open, Publish
    <3>2. mem \in Used /\ mem \in Metadata
      BY <3>1, Current
    <3>3. \A c : c = [mem EXCEPT !.hist[v].init = FALSE] => c \in Metadata /\ Settles(mem, c, v)
      BY <3>2, SettledEffect
    <3>4. cand'.vault = mem.vault /\ cand'.rows = mem.rows /\ Unknown(cand') = {}
      BY <1>6, <2>1, <3>1, <3>3, CandOpened DEF Settles, Fresh
    <3> QED BY <1>0, <3>2, <3>4, RememberLedgers, RememberSame
  <2>2. CASE ~ view.hist[v].init
    BY <1>6, <2>2 DEF VaultOpened, Open, Used, Up, Publishing
  <2> QED BY <2>1, <2>2
<1>7. ASSUME NEW v \in Vaults, BatchRecovered(v) PROVE Remembers(cand', ledger', finished)
  <2>1. pc = "open" /\ v \in todo /\ view.hist[v].batch # {} /\ ledger' = Committed(v, view.hist[v].batch)
    BY <1>7 DEF BatchRecovered, Recover
  <2>2. Up /\ cand' \in Metadata /\ Unknown(cand') = {} /\ Drops(mem, cand', v) /\ v \in Handing(mem)
    BY <1>7, <2>1, OneCopy, CandRecovered DEF Fresh
  <2>3. Commits(mem, ledger, ledger', v)
    BY <2>1, RecoverFits
  <2> QED BY <1>0, <1>1, <2>2, <2>3, Current, RememberDrops
<1>8. CASE Loaded
  <2>1. CASE Unknown(file) = {}
    BY <1>8, <2>1 DEF Loaded, Start, Used, Up, Publishing
  <2>2. CASE Unknown(file) # {}
    <3>1. finished = {} /\ Unknown(cand') = {}
      BY <1>8, <2>2, CandLoaded DEF AllRemember, Used, Remembers, Fresh
    <3> QED BY <3>1 DEF Remembers
  <2> QED BY <2>1, <2>2
<1>9. CASE \/ Rename \/ SyncDirectory \/ HistoriesOpen \/ Listened \/ Unlocked \/ Distrusts \/ Died \/ GaveUp
           \/ UNCHANGED vars \/ \E v \in Vaults : EraseHistory(v)
  <2>1. Used' \subseteq Used
    BY <1>9, UsedStays
  <2> QED BY <2>1
<1> QED BY <1>2, <1>3, <1>4, <1>5, <1>6, <1>7, <1>8, <1>9 DEF Step

LEMMA RememberStep == ASSUME HandoffInv, AllRemember, Step PROVE AllRemember'
<1>1. \A d \in Used' : Remembers(d, ledger', finished)
  BY UsedStep, RememberLedgers, RememberFresh
<1>2. CASE ~ SyncDirectory
  <2>1. finished' = finished
    BY <1>2 DEF Step, vars, Mutated, HandoffStarted, HandoffCommitted, Rename, VaultSettled, VaultOpened, Open,
       BatchRecovered, Recover, EraseHistory, Loaded, Start, HistoriesOpen, Listened, Unlocked, Distrusts, Died, GaveUp
  <2> QED BY <1>1, <2>1 DEF AllRemember
<1>3. CASE SyncDirectory
  <2>1. finished' = finished \cup Finished(cand) /\ mem' = cand /\ Used' \subseteq {cand} /\ pc = "sync" /\ cand \in Used
    BY <1>3 DEF SyncDirectory, Used, Publishing, HandoffInv, Copies
  <2>2. cand \in Metadata /\ Steady(cand) /\ Unknown(cand) = {}
    BY <2>1, UsedMetadata DEF HandoffInv, Settlement, Publishing
  <2>3. \A e \in Finished(cand) : /\ e.row.vault \in Vaults /\ cand.vault[e.row.vault] # "absent"
    <3> SUFFICES ASSUME NEW e \in Finished(cand) PROVE e.row.vault \in Vaults /\ cand.vault[e.row.vault] # "absent"
      OBVIOUS
    <3>1. PICK o \in Ops : e = [op |-> o, row |-> cand.rows[o]] /\ cand.rows[o].status = "done"
      BY DEF Finished, Entries
    <3>2. cand.rows[o] # NoRow
      BY <3>1, Empty
    <3>3. e.row.vault \in Present(cand)
      BY <2>2, <3>1, <3>2 DEF Steady, WellNumbered
    <3> QED BY <3>3 DEF Present
  <2>4. \A d \in Used' : Remembers(d, ledger', finished')
    BY <1>1, <2>1, <2>2, <2>3 DEF Remembers
  <2> QED BY <2>4 DEF AllRemember
<1> QED BY <1>2, <1>3

\* A row that was ever published as finished stays comparable for ever: as long as its vault is
\* in use, every state a start may find has it in the file or in the ledger, unchanged.
THEOREM NoRowForgotten == Spec => []NothingForgotten
<1>1. Init => AllRemember
  BY DEF Init, AllRemember, Remembers
<1>2. HandoffInv /\ AllRemember /\ [Next]_vars => AllRemember'
  BY Steps, RememberStep
<1>3. AllRemember => NothingForgotten
  BY DEF AllRemember, NothingForgotten, Remembers, Used, Readable
<1> QED BY <1>1, <1>2, <1>3, HandoffAlways, PTL DEF Spec

-----------------------------------------------------------------------------
(* Admission is stable.                                                    *)

\* Every base of c and M was one of d and L, for the same proposal.
Covered(d, L, c, M) ==
  \A v \in Vaults : \A r \in AllRows(c, M, v) :
    r.base # NoBase => \E q \in AllRows(d, L, v) : q.key = r.key /\ q.base = r.base

LEMMA CoveredOneBase ==
  ASSUME NEW d, NEW c, NEW L, NEW M, OneBase(d, L), Covered(d, L, c, M) PROVE OneBase(c, M)
<1> SUFFICES ASSUME NEW v \in Vaults, NEW r \in AllRows(c, M, v), NEW q \in AllRows(c, M, v),
                    r.key = q.key, r.base # NoBase, q.base # NoBase
     PROVE  r.base = q.base
  BY DEF OneBase
<1>1. PICK s \in AllRows(d, L, v) : s.key = r.key /\ s.base = r.base
  BY DEF Covered
<1>2. PICK t \in AllRows(d, L, v) : t.key = q.key /\ t.base = q.base
  BY DEF Covered
<1> QED BY <1>1, <1>2 DEF OneBase

LEMMA CoveredOwn ==
  ASSUME NEW d, NEW c, NEW L, NEW M, NEW v \in Vaults, NEW w, Own(d, L, v, w), Covered(d, L, c, M),
         c.rows[w.op].vault = v => d.rows[w.op].vault = v /\ d.rows[w.op].key = c.rows[w.op].key
  PROVE  Own(c, M, v, w)
<1> SUFFICES ASSUME c.rows[w.op].vault = v, NEW r \in AllRows(c, M, v), r.key = c.rows[w.op].key, r.base # NoBase
     PROVE  r.base = w.base
  BY DEF Own
<1>1. PICK s \in AllRows(d, L, v) : s.key = r.key /\ s.base = r.base
  BY DEF Covered
<1> QED BY <1>1 DEF Own

LEMMA CoversItself == ASSUME NEW d, NEW L PROVE Covered(d, L, d, L)
BY DEF Covered

LEMMA CommitCovers ==
  ASSUME NEW d \in Metadata, NEW L, NEW M, Steady(d), NEW v \in Vaults, Commits(d, L, M, v)
  PROVE  Covered(d, L, d, M)
<1>1. \A w \in Vaults : \A e \in M[w].rows : e \in L[w].rows \/ (w = v /\ e \in d.hist[v].batch)
  BY DEF Commits
<1>2. \A e \in d.hist[v].batch : e.op \in RowsOf(d, v) /\ e.row = d.rows[e.op]
  BY Fields DEF Steady, RowsOf, Entry
<1>3. \A w \in Vaults : AllRows(d, M, w) \subseteq AllRows(d, L, w)
  BY <1>1, <1>2 DEF AllRows
<1> QED BY <1>3 DEF Covered

LEMMA DropCovers ==
  ASSUME NEW d \in Metadata, NEW c \in Metadata, NEW L, NEW M, Steady(d), NEW v \in Vaults, Commits(d, L, M, v), Drops(d, c, v)
  PROVE  Covered(d, L, c, M)
<1>1. \A w \in Vaults : \A e \in M[w].rows : e \in L[w].rows \/ (w = v /\ e \in d.hist[v].batch)
  BY DEF Commits
<1>2. \A e \in d.hist[v].batch : e.op \in RowsOf(d, v) /\ e.row = d.rows[e.op]
  BY Fields DEF Steady, RowsOf, Entry
<1>3. \A w \in Vaults : \A o \in RowsOf(c, w) : o \in RowsOf(d, w) /\ c.rows[o] = d.rows[o]
  BY Empty DEF RowsOf, Drops
<1>4. \A w \in Vaults : AllRows(c, M, w) \subseteq AllRows(d, L, w)
  BY <1>1, <1>2, <1>3 DEF AllRows
<1> QED BY <1>4 DEF Covered

LEMMA SameCovers ==
  ASSUME NEW d, NEW c, NEW L, NEW M, c.rows = d.rows, Covered(d, L, d, M)
  PROVE  Covered(d, L, c, M)
<1>1. \A w \in Vaults : AllRows(c, M, w) = AllRows(d, M, w)
  BY DEF AllRows, RowsOf
<1> QED BY <1>1 DEF Covered

\* Rows keep their vault, key and base or disappear.
LEMMA KeptCovers ==
  ASSUME NEW d, NEW c, NEW L,
         \A o \in Ops : c.rows[o] = NoRow \/ (c.rows[o].vault = d.rows[o].vault /\ c.rows[o].key = d.rows[o].key
                                              /\ c.rows[o].base = d.rows[o].base)
  PROVE  Covered(d, L, c, L)
<1> SUFFICES ASSUME NEW v \in Vaults, NEW r \in AllRows(c, L, v)
     PROVE  \E q \in AllRows(d, L, v) : q.key = r.key /\ q.base = r.base
  BY DEF Covered
<1>1. CASE r \in {e.row : e \in L[v].rows}
  BY <1>1 DEF AllRows
<1>2. CASE r \in {c.rows[o] : o \in RowsOf(c, v)}
  <2>1. PICK o \in Ops : r = c.rows[o] /\ c.rows[o].vault = v
    BY <1>2 DEF RowsOf
  <2>2. d.rows[o].vault = v /\ d.rows[o].key = r.key /\ d.rows[o].base = r.base
    BY <2>1, Empty
  <2>3. d.rows[o] \in AllRows(d, L, v)
    BY <2>2 DEF AllRows, RowsOf
  <2> QED BY <2>2, <2>3
<1> QED BY <1>1, <1>2 DEF AllRows

\* What was in use covers itself under the ledgers of a step.
LEMMA LedgerCovers ==
  ASSUME HandoffInv, Step, NEW d \in Used PROVE Covered(d, ledger, d, ledger')
<1>1. ASSUME NEW w \in InitPending(mem), pc \in {"settle", "open"}, ledger' = Opened(w) PROVE Covered(d, ledger, d, ledger')
  <2>1. /\ \A u \in Vaults \ {w} : Opened(w)[u] = ledger[u]
        /\ Opened(w)[w] = EmptyLedger
    BY <1>1, OneCopy, Current, Ledgers, OpenedEffect
  <2>2. \A u \in Vaults : ledger'[u].rows \subseteq ledger[u].rows
    BY <1>1, <2>1 DEF EmptyLedger, NoLedger
  <2> QED BY <2>2 DEF Covered, AllRows
<1>2. CASE HandoffCommitted
  <2>1. pc = "commit" /\ Up
    BY <1>2, OneCopy DEF HandoffCommitted
  <2>2. d = mem /\ mem \in Metadata /\ Steady(mem)
    BY <2>1, OneCopy, Current
  <2>3. task.vault \in Vaults /\ Commits(mem, ledger, ledger', task.vault)
    BY <1>2, <2>1, CommitFits DEF HandoffCommitted
  <2> QED BY <2>2, <2>3, CommitCovers
<1>3. ASSUME NEW w \in Vaults, VaultSettled(w) PROVE Covered(d, ledger, d, ledger')
  BY <1>1, <1>3 DEF VaultSettled
<1>4. ASSUME NEW w \in Vaults, VaultOpened(w) PROVE Covered(d, ledger, d, ledger')
  <2>1. pc = "open" /\ ledger' = Opened(w)
    BY <1>4 DEF VaultOpened, Open
  <2> QED BY <1>1, <1>4, <2>1, LoopOpened, CoversItself
<1>5. ASSUME NEW w \in Vaults, BatchRecovered(w) PROVE Covered(d, ledger, d, ledger')
  <2>1. pc = "open" /\ w \in todo /\ view.hist[w].batch # {} /\ ledger' = Committed(w, view.hist[w].batch)
    BY <1>5 DEF BatchRecovered, Recover
  <2> QED BY <2>1, RecoverFits, LoopHandoff, OneCopy, CommitCovers
<1>6. ASSUME NEW w \in Vaults, EraseHistory(w) PROVE Covered(d, ledger, d, ledger')
  <2>1. \A u \in Vaults : ledger'[u].rows \subseteq ledger[u].rows
    BY <1>6, Ledgers DEF EraseHistory, NoLedger
  <2> QED BY <2>1 DEF Covered, AllRows
<1>7. CASE Died \/ GaveUp
  <2>1. LedgerLeft
    BY <1>7 DEF Died, GaveUp
  <2>2. CASE pc = "commit" /\ ledger' = Committed(task.vault, mem.hist[task.vault].batch)
    <3>1. d = mem /\ mem \in Metadata /\ Steady(mem)
      BY <2>2, OneCopy, Current
    <3> QED BY <2>2, <3>1, CommitFits, CommitCovers
  <2>3. CASE pc = "settle" /\ \E w \in InitPending(mem) : ledger' = Opened(w)
    BY <1>1, <2>3
  <2> QED BY <2>1, <2>2, <2>3, CoversItself DEF LedgerLeft
<1>8. ASSUME UNCHANGED ledger PROVE Covered(d, ledger, d, ledger')
  BY <1>8, CoversItself
<1> QED BY <1>2, <1>3, <1>4, <1>5, <1>6, <1>7, <1>8
  DEF Step, vars, Mutated, HandoffStarted, Rename, SyncDirectory, Loaded, Start, HistoriesOpen, Listened, Unlocked, Distrusts

LEMMA AdmittingCovers ==
  ASSUME HandoffInv, Mutated, Admitting PROVE Covered(mem, ledger, cand', ledger)
<1>1. PICK v \in Live(mem), o \in Ops, b \in Bases, r \in Row :
        /\ mode = "serving" /\ worker[v] = NoWorker /\ worker' = [worker EXCEPT ![v] = [op |-> o, base |-> b]]
        /\ task'.vault = v /\ mem.rows[o] = NoRow
        /\ cand'.vault = mem.vault /\ cand'.rows = [mem.rows EXCEPT ![o] = r] /\ r.vault = v
        /\ \/ r.base = NoBase /\ Prior(v, r.key) = {}
           \/ r.base = b /\ \E q \in Prior(v, r.key) : q.base = b
  BY Zenon DEF Admitting
<1>2. mem.rows \in [Ops -> Row]
  BY Current, Fields DEF Mutated
<1> SUFFICES ASSUME NEW w \in Vaults, NEW s \in AllRows(cand', ledger, w), s.base # NoBase
     PROVE  \E q \in AllRows(mem, ledger, w) : q.key = s.key /\ q.base = s.base
  BY DEF Covered
<1>3. CASE s = r /\ w = v
  <2>1. PICK q \in Prior(v, r.key) : q.base = r.base
    BY <1>1, <1>3
  <2>2. q \in AllRows(mem, ledger, v) /\ q.key = r.key
    BY DEF Prior, AllRows
  <2> QED BY <1>3, <2>1, <2>2
<1>4. CASE s \in AllRows(mem, ledger, w)
  BY <1>4
<1>5. s \in AllRows(mem, ledger, w) \/ (s = r /\ w = v)
  <2>1. CASE s \in {e.row : e \in ledger[w].rows}
    BY <2>1 DEF AllRows
  <2>2. CASE s \in {cand'.rows[p] : p \in RowsOf(cand', w)}
    <3>1. PICK p \in Ops : s = cand'.rows[p] /\ cand'.rows[p].vault = w
      BY <2>2 DEF RowsOf
    <3>2. CASE p = o
      BY <1>1, <1>2, <3>1, <3>2
    <3>3. CASE p # o
      <4>1. s = mem.rows[p] /\ mem.rows[p].vault = w
        BY <1>1, <1>2, <3>1, <3>3
      <4> QED BY <4>1 DEF AllRows, RowsOf
    <3> QED BY <3>2, <3>3
  <2> QED BY <2>1, <2>2 DEF AllRows
<1> QED BY <1>3, <1>4, <1>5

\* A held row at rest is in its vault.
LEMMA HeldAtRest ==
  ASSUME Workers, NEW v \in Vaults, worker[v] # NoWorker, ~ Publishing
  PROVE  /\ mode = "serving" /\ worker[v].op \in Ops /\ worker[v].base \in Bases /\ mem.rows[worker[v].op].vault = v
         /\ mem.vault[v] \in {"active", "deleting"} /\ Own(mem, ledger, v, worker[v])
BY DEF Workers, Working

\* Recording a base adds one row to those of the vault, with the base of the request.
LEMMA RecordingRows ==
  ASSUME HandoffInv, Workers, Mutated, NEW v \in Vaults, NEW r \in Row, worker[v] # NoWorker,
         cand'.rows = [mem.rows EXCEPT ![worker[v].op] = r], r.vault = mem.rows[worker[v].op].vault
  PROVE  /\ r.vault = v /\ \A w \in Vaults : \A s \in AllRows(cand', ledger, w) : s \in AllRows(mem, ledger, w) \/ (w = v /\ s = r)
         /\ Own(mem, ledger, v, worker[v]) /\ mem.rows[worker[v].op].vault = v /\ mem.rows \in [Ops -> Row] /\ worker[v].op \in Ops
<1>1. /\ mem.rows \in [Ops -> Row] /\ worker[v].op \in Ops /\ mem.rows[worker[v].op].vault = v
      /\ Own(mem, ledger, v, worker[v])
  BY Current, Fields, HeldAtRest DEF Mutated, Publishing
<1> SUFFICES ASSUME NEW w \in Vaults, NEW s \in AllRows(cand', ledger, w) PROVE s \in AllRows(mem, ledger, w) \/ (w = v /\ s = r)
  BY <1>1
<1>2. CASE s \in {e.row : e \in ledger[w].rows}
  BY <1>2 DEF AllRows
<1>3. CASE s \in {cand'.rows[p] : p \in RowsOf(cand', w)}
  <2>1. PICK p \in Ops : s = cand'.rows[p] /\ cand'.rows[p].vault = w
    BY <1>3 DEF RowsOf
  <2>2. CASE p = worker[v].op
    BY <1>1, <2>1, <2>2
  <2>3. CASE p # worker[v].op
    <3>1. s = mem.rows[p] /\ mem.rows[p].vault = w
      BY <1>1, <2>1, <2>3
    <3> QED BY <3>1 DEF AllRows, RowsOf
  <2> QED BY <2>2, <2>3
<1> QED BY <1>2, <1>3 DEF AllRows

LEMMA RecordingOneBase ==
  ASSUME HandoffInv, Workers, OneBase(mem, ledger), Mutated, Recording PROVE OneBase(cand', ledger)
<1>1. PICK v \in Vaults, r \in Row :
        /\ worker[v] # NoWorker /\ cand'.rows = [mem.rows EXCEPT ![worker[v].op] = r]
        /\ r.vault = mem.rows[worker[v].op].vault /\ r.key = mem.rows[worker[v].op].key /\ r.base = worker[v].base
  BY DEF Recording
<1>2. /\ \A w \in Vaults : \A s \in AllRows(cand', ledger, w) : s \in AllRows(mem, ledger, w) \/ (w = v /\ s = r)
      /\ Own(mem, ledger, v, worker[v]) /\ mem.rows[worker[v].op].vault = v
  BY <1>1, RecordingRows
<1>3. \A s \in AllRows(mem, ledger, v) : s.key = r.key /\ s.base # NoBase => s.base = r.base
  BY <1>1, <1>2 DEF Own
<1> SUFFICES ASSUME NEW w \in Vaults, NEW s \in AllRows(cand', ledger, w), NEW t \in AllRows(cand', ledger, w),
                    s.key = t.key, s.base # NoBase, t.base # NoBase
     PROVE  s.base = t.base
  BY DEF OneBase
<1>4. s \in AllRows(mem, ledger, w) \/ (w = v /\ s = r)
  BY <1>2
<1>5. t \in AllRows(mem, ledger, w) \/ (w = v /\ t = r)
  BY <1>2
<1> QED BY <1>3, <1>4, <1>5 DEF OneBase

LEMMA FreshOneBase ==
  ASSUME HandoffInv, AllOneBase, Workers, Step, cand' \in Used', cand' \notin Used
  PROVE  OneBase(cand', ledger')
<1>1. Up => OneBase(mem, ledger)
  BY DEF AllOneBase, Used
<1>2. CASE Mutated
  <2>1. Up /\ ledger' = ledger
    BY <1>2 DEF Mutated
  <2>2. CASE Admitting
    BY <1>1, <1>2, <2>1, <2>2, AdmittingCovers, CoveredOneBase
  <2>3. CASE Keeps(mem, cand')
    BY <1>1, <2>1, <2>3, KeptCovers, CoveredOneBase DEF Keeps
  <2>4. CASE Recording
    BY <1>1, <1>2, <2>1, <2>4, RecordingOneBase
  <2> QED BY <1>2, <2>2, <2>3, <2>4 DEF Mutated
<1>3. CASE HandoffStarted
  <2>1. Up /\ ledger' = ledger /\ cand'.rows = mem.rows
    BY <1>3 DEF HandoffStarted, Describes
  <2> QED BY <1>1, <2>1, CoversItself, SameCovers, CoveredOneBase
<1>4. CASE HandoffCommitted
  <2>1. pc = "commit" /\ Up /\ cand' \in Metadata /\ Drops(mem, cand', task.vault)
        /\ ledger' = Committed(task.vault, mem.hist[task.vault].batch)
    BY <1>4, CandCommitted DEF HandoffCommitted
  <2>2. task.vault \in Vaults /\ Commits(mem, ledger, ledger', task.vault)
    BY <2>1, CommitFits
  <2>3. mem \in Metadata /\ Steady(mem)
    BY <2>1, Current
  <2>4. Covered(mem, ledger, cand', ledger')
    BY <2>1, <2>2, <2>3, DropCovers
  <2> QED BY <1>1, <2>1, <2>4, CoveredOneBase
<1>5. ASSUME NEW v \in Vaults, VaultSettled(v) PROVE OneBase(cand', ledger')
  <2>1. Up /\ mem \in Used /\ cand'.rows = mem.rows
    BY <1>5, CandSettled, Current DEF VaultSettled, Settles
  <2>2. Covered(mem, ledger, mem, ledger')
    BY <2>1, LedgerCovers
  <2> QED BY <1>1, <2>1, <2>2, SameCovers, CoveredOneBase
<1>6. ASSUME NEW v \in Vaults, VaultOpened(v) PROVE OneBase(cand', ledger')
  <2>1. CASE view.hist[v].init
    <3>1. Up /\ cand' = [mem EXCEPT !.hist[v].init = FALSE]
      BY <1>6, <2>1, OneCopy DEF VaultOpened, Open, Publish
    <3>2. mem \in Used /\ mem \in Metadata
      BY <3>1, Current
    <3>3. \A c : c = [mem EXCEPT !.hist[v].init = FALSE] => c \in Metadata /\ Settles(mem, c, v)
      BY <3>2, SettledEffect
    <3>4. cand'.rows = mem.rows
      BY <3>1, <3>3 DEF Settles
    <3>5. Covered(mem, ledger, mem, ledger')
      BY <3>2, LedgerCovers
    <3> QED BY <1>1, <3>1, <3>4, <3>5, SameCovers, CoveredOneBase
  <2>2. CASE ~ view.hist[v].init
    BY <1>6, <2>2 DEF VaultOpened, Open, Used, Up, Publishing
  <2> QED BY <2>1, <2>2
<1>7. ASSUME NEW v \in Vaults, BatchRecovered(v) PROVE OneBase(cand', ledger')
  <2>1. pc = "open" /\ v \in todo /\ view.hist[v].batch # {} /\ ledger' = Committed(v, view.hist[v].batch)
    BY <1>7 DEF BatchRecovered, Recover
  <2>2. Up /\ cand' \in Metadata /\ Drops(mem, cand', v)
    BY <1>7, <2>1, OneCopy, CandRecovered DEF Fresh
  <2>3. Commits(mem, ledger, ledger', v)
    BY <2>1, RecoverFits
  <2> QED BY <1>1, <2>2, <2>3, Current, DropCovers, CoveredOneBase
<1>8. CASE Loaded
  <2>1. CASE Unknown(file) = {}
    BY <1>8, <2>1 DEF Loaded, Start, Used, Up, Publishing
  <2>2. CASE Unknown(file) # {}
    <3>1. PICK f \in [Ops -> 0..Cardinality(Ops)] : IsNumbering(f, file) /\ cand' = Numbered(file, f)
      BY <1>8, <2>2, CandLoaded
    <3>2. OneBase(file, ledger) /\ file \in Metadata /\ Steady(file) /\ ledger' = ledger
      BY <1>8, UsedMetadata DEF AllOneBase, Used, Loaded, Start
    <3>3. \A o \in Ops : /\ cand'.rows[o].vault = file.rows[o].vault /\ cand'.rows[o].key = file.rows[o].key
                         /\ cand'.rows[o].base = file.rows[o].base
      BY <2>2, <3>1, <3>2, SteadyNumbers
    <3>4. Covered(file, ledger, cand', ledger)
      BY <3>3, KeptCovers
    <3> QED BY <3>2, <3>4, CoveredOneBase
  <2> QED BY <2>1, <2>2
<1>9. CASE \/ Rename \/ SyncDirectory \/ HistoriesOpen \/ Listened \/ Unlocked \/ Distrusts \/ Died \/ GaveUp
           \/ UNCHANGED vars \/ \E v \in Vaults : EraseHistory(v)
  <2>1. Used' \subseteq Used
    BY <1>9, UsedStays
  <2> QED BY <2>1
<1> QED BY <1>2, <1>3, <1>4, <1>5, <1>6, <1>7, <1>8, <1>9 DEF Step

LEMMA OneBaseStep == ASSUME HandoffInv, AllOneBase, Workers, Step PROVE AllOneBase'
<1>1. \A d \in Used : OneBase(d, ledger')
  BY LedgerCovers, CoveredOneBase DEF AllOneBase
<1> QED BY <1>1, UsedStep, FreshOneBase DEF AllOneBase

\* A request that keeps its lock over a step goes on working, given what the step did to
\* this.db, to the candidate and to its own row.
LEMMA WorkingOn ==
  ASSUME HandoffInv, Workers, Step, NEW v \in Vaults, worker[v] # NoWorker, worker'[v] = worker[v],
         UNCHANGED <<mem, mode>>, mem.rows[worker[v].op].vault = v, mem \in Used,
         Publishing' => /\ cand'.vault[v] \in {"active", "deleting"} /\ Own(cand', ledger', v, worker[v])
                        /\ cand'.rows[worker[v].op].vault = v \/ task' = [kind |-> "finish", vault |-> v]
  PROVE  Working(v)'
<1>1. Working(v)
  BY DEF Workers
<1>2. Own(mem, ledger', v, worker[v])
  BY <1>1, LedgerCovers, CoveredOwn DEF Working
<1> QED BY <1>1, <1>2 DEF Working

LEMMA WorkingMutated ==
  ASSUME HandoffInv, Workers, AllOneBase, Step, Mutated, NEW v \in Vaults, worker'[v] # NoWorker
  PROVE  Working(v)'
<1>1. /\ Up /\ mem \in Used /\ ledger' = ledger /\ UNCHANGED <<mem, mode>> /\ ~ Publishing /\ mem.rows \in [Ops -> Row]
      /\ mem.vault \in [Vaults -> VaultStatus] /\ pc' = "write" /\ task'.kind = "mutate" /\ worker \in Locks
  BY Current, Fields DEF Mutated, Publishing, HandoffInv
<1>2. ASSUME worker[v] # NoWorker, worker'[v] = worker[v], cand'.vault[v] \in {"active", "deleting"},
             cand'.rows[worker[v].op].vault = v, Own(cand', ledger, v, worker[v])
      PROVE  Working(v)'
  BY <1>1, <1>2, HeldAtRest, WorkingOn
<1>3. CASE UNCHANGED worker /\ Keeps(mem, cand')
  <2>1. worker[v] # NoWorker /\ worker'[v] = worker[v]
    BY <1>3
  <2>2. /\ worker[v].op \in Ops /\ mem.rows[worker[v].op].vault = v /\ mem.vault[v] \in {"active", "deleting"}
        /\ Own(mem, ledger, v, worker[v])
    BY <1>1, <2>1, HeldAtRest
  <2>3. cand'.vault[v] \in {"active", "deleting"}
    BY <1>3, <2>1, <2>2 DEF Keeps
  <2>4. cand'.rows[worker[v].op].vault = v /\ cand'.rows[worker[v].op].key = mem.rows[worker[v].op].key
    BY <1>3, <2>2 DEF Keeps
  <2>5. Covered(mem, ledger, cand', ledger)
    BY <1>3, KeptCovers DEF Keeps
  <2>6. Own(cand', ledger, v, worker[v])
    BY <2>2, <2>4, <2>5, CoveredOwn
  <2> QED BY <1>2, <2>1, <2>3, <2>4, <2>6
<1>4. CASE UNCHANGED worker /\ Recording
  <2>1. worker[v] # NoWorker /\ worker'[v] = worker[v]
    BY <1>4
  <2>2. /\ worker[v].op \in Ops /\ mem.rows[worker[v].op].vault = v /\ mem.vault[v] \in {"active", "deleting"}
        /\ Own(mem, ledger, v, worker[v])
    BY <1>1, <2>1, HeldAtRest
  <2>3. PICK w \in Vaults, r \in Row :
          /\ worker[w] # NoWorker /\ cand'.vault = mem.vault /\ cand'.rows = [mem.rows EXCEPT ![worker[w].op] = r]
          /\ r.vault = mem.rows[worker[w].op].vault /\ r.key = mem.rows[worker[w].op].key /\ r.base = worker[w].base
    BY <1>4 DEF Recording
  <2>4. /\ \A u \in Vaults : \A s \in AllRows(cand', ledger, u) : s \in AllRows(mem, ledger, u) \/ (u = w /\ s = r)
        /\ r.vault = w /\ worker[w].op \in Ops /\ mem.rows[worker[w].op].vault = w
    BY <2>3, RecordingRows
  <2>5. cand'.rows[worker[v].op].vault = v /\ cand'.rows[worker[v].op].key = mem.rows[worker[v].op].key
    BY <1>1, <2>2, <2>3, <2>4
  <2>6. Own(cand', ledger, v, worker[v])
    BY <2>2, <2>3, <2>4, <2>5 DEF Own
  <2> QED BY <1>2, <2>1, <2>2, <2>3, <2>5, <2>6
<1>5. CASE Admitting
  <2>1. PICK w \in Live(mem), o \in Ops, b \in Bases, r \in Row :
          /\ mode = "serving" /\ worker[w] = NoWorker /\ worker' = [worker EXCEPT ![w] = [op |-> o, base |-> b]]
          /\ task'.vault = w /\ mem.rows[o] = NoRow
          /\ cand'.vault = mem.vault /\ cand'.rows = [mem.rows EXCEPT ![o] = r] /\ r.vault = w
          /\ \/ r.base = NoBase /\ Prior(w, r.key) = {}
             \/ r.base = b /\ \E q \in Prior(w, r.key) : q.base = b
    BY <1>5, Zenon DEF Admitting
  <2>2. w \in Vaults /\ mem.vault[w] = "active" /\ worker \in Locks
    BY <1>1 DEF Live
  <2>3. Covered(mem, ledger, cand', ledger)
    BY <1>5, AdmittingCovers
  <2>4. CASE v # w
    <3>1. worker[v] # NoWorker /\ worker'[v] = worker[v]
      BY <2>1, <2>2, <2>4 DEF Locks
    <3>2. /\ worker[v].op \in Ops /\ mem.rows[worker[v].op].vault = v /\ mem.vault[v] \in {"active", "deleting"}
          /\ Own(mem, ledger, v, worker[v])
      BY <1>1, <3>1, HeldAtRest
    <3>3. worker[v].op # o
      BY <2>1, <3>2, Empty
    <3>4. cand'.rows[worker[v].op] = mem.rows[worker[v].op]
      BY <1>1, <2>1, <3>2, <3>3
    <3>5. Own(cand', ledger, v, worker[v])
      BY <2>3, <3>2, <3>4, CoveredOwn
    <3> QED BY <1>2, <2>1, <3>1, <3>2, <3>4, <3>5
  <2>5. CASE v = w
    <3>1. worker'[v] = [op |-> o, base |-> b]
      BY <2>1, <2>2, <2>5 DEF Locks
    <3>2. worker'[v].op = o /\ worker'[v].base = b
      BY <3>1
    <3>3. cand'.rows[o] = r
      BY <1>1, <2>1
    <3>4. Own(mem, ledger, v, worker'[v])
      BY <2>1, <2>2, <2>5, <3>2, Empty DEF Own
    <3>5. OneBase(mem, ledger)
      BY <1>1 DEF AllOneBase
    <3>6. \A s \in AllRows(mem, ledger, v) : s.key = r.key /\ s.base # NoBase => s.base = b
      <4> SUFFICES ASSUME NEW s \in AllRows(mem, ledger, v), s.key = r.key, s.base # NoBase PROVE s.base = b
        OBVIOUS
      <4>1. s \in Prior(v, r.key)
        BY DEF Prior, AllRows
      <4>2. PICK q \in Prior(v, r.key) : q.base = b
        BY <2>1, <2>5, <4>1
      <4>3. q \in AllRows(mem, ledger, v) /\ q.key = r.key /\ q.base # NoBase
        BY DEF Prior, AllRows
      <4> QED BY <3>5, <4>2, <4>3 DEF OneBase
    <3>7. \A s \in AllRows(cand', ledger, v) : s.key = r.key /\ s.base # NoBase => s.base = b
      BY <2>2, <2>3, <2>5, <3>6 DEF Covered
    <3>8. Own(cand', ledger, v, worker'[v])
      BY <3>2, <3>3, <3>7 DEF Own
    <3>9. task' = [kind |-> "mutate", vault |-> v]
      BY <1>1, <2>1, <2>5 DEF Mutated, Tasks
    <3> QED BY <1>1, <2>1, <2>2, <2>5, <3>2, <3>3, <3>4, <3>8, <3>9 DEF Working, Publishing
  <2> QED BY <2>4, <2>5
<1> QED BY <1>3, <1>4, <1>5 DEF Mutated

LEMMA WorkersStep == ASSUME HandoffInv, Workers, AllOneBase, Step PROVE Workers'
<1> SUFFICES ASSUME NEW v \in Vaults, worker'[v] # NoWorker PROVE Working(v)'
  BY DEF Workers
<1>0. worker \in Locks /\ (worker[v] # NoWorker => Working(v)) /\ (mode # "serving" => worker[v] = NoWorker)
  BY DEF HandoffInv, Workers, Working
<1>1. CASE Mutated
  BY <1>1, WorkingMutated
<1>2. CASE HandoffStarted
  <2>1. /\ worker'[v] = worker[v] /\ UNCHANGED <<mem, mode, ledger>> /\ ~ Publishing /\ Up
        /\ cand'.vault = mem.vault /\ cand'.rows = mem.rows
    BY <1>2 DEF HandoffStarted, Publishing, Describes
  <2>2. mem.rows[worker[v].op].vault = v /\ mem.vault[v] \in {"active", "deleting"} /\ Own(mem, ledger, v, worker[v])
    BY <2>1, HeldAtRest
  <2>3. Own(cand', ledger', v, worker[v])
    BY <2>1, <2>2 DEF Own, AllRows, RowsOf
  <2> QED BY <2>1, <2>2, <2>3, WorkingOn, Current
<1>3. CASE HandoffCommitted
  <2>1. /\ pc = "commit" /\ worker'[v] = worker[v] /\ UNCHANGED <<mem, mode>> /\ ~ Publishing /\ Up
        /\ cand' \in Metadata /\ Drops(mem, cand', task.vault) /\ task' = [kind |-> "finish", vault |-> task.vault]
        /\ ledger' = Committed(task.vault, mem.hist[task.vault].batch)
    BY <1>3, CandCommitted DEF HandoffCommitted, Publishing
  <2>2. /\ mem.rows[worker[v].op].vault = v /\ mem.vault[v] \in {"active", "deleting"} /\ Own(mem, ledger, v, worker[v])
        /\ worker[v].op \in Ops
    BY <2>1, HeldAtRest
  <2>3. task.vault \in Vaults /\ Commits(mem, ledger, ledger', task.vault)
    BY <2>1, CommitFits
  <2>4. Covered(mem, ledger, cand', ledger')
    BY <2>1, <2>3, Current, DropCovers
  <2>5. cand'.rows[worker[v].op] \in {NoRow, mem.rows[worker[v].op]}
        /\ (task.vault # v => cand'.rows[worker[v].op] = mem.rows[worker[v].op])
    BY <2>1, <2>2 DEF Drops
  <2>6. Own(cand', ledger', v, worker[v])
    BY <2>2, <2>4, <2>5, CoveredOwn, Empty
  <2>7. cand'.vault = mem.vault
    BY <2>1 DEF Drops
  <2>8. cand'.rows[worker[v].op].vault = v \/ task' = [kind |-> "finish", vault |-> v]
    BY <2>1, <2>2, <2>5
  <2> QED BY <2>1, <2>2, <2>6, <2>7, <2>8, WorkingOn, Current
<1>4. CASE Rename
  BY <1>0, <1>4 DEF Rename, Working, Publishing
<1>5. CASE SyncDirectory
  <2>1. worker[v] # NoWorker /\ worker'[v] = worker[v] /\ (task.kind = "finish" => task.vault # v)
    <3>1. CASE task.kind = "finish"
      <4>1. worker' = Released(task.vault) /\ task.vault \in Vaults
        BY <1>5, <3>1 DEF SyncDirectory, HandoffInv, Stage
      <4> QED BY <1>0, <4>1 DEF Released, Locks
    <3>2. CASE task.kind # "finish"
      BY <1>5, <3>2 DEF SyncDirectory
    <3> QED BY <3>1, <3>2
  <2>2. pc = "sync" /\ mem' = cand /\ UNCHANGED <<mode, ledger>> /\ ~ Publishing'
    BY <1>5 DEF SyncDirectory, Publishing
  <2>3. task # [kind |-> "finish", vault |-> v]
    BY <2>1
  <2> QED BY <1>0, <2>1, <2>2, <2>3 DEF Working, Publishing
<1>6. ASSUME NEW u \in Vaults, VaultSettled(u) PROVE Working(v)'
  <2>1. /\ worker'[v] = worker[v] /\ UNCHANGED <<mem, mode>> /\ ~ Publishing
        /\ cand'.vault = mem.vault /\ cand'.rows = mem.rows
    BY <1>6 DEF VaultSettled, Publishing, Settles
  <2>2. mem.rows[worker[v].op].vault = v /\ mem.vault[v] \in {"active", "deleting"} /\ Own(mem, ledger, v, worker[v])
    BY <2>1, HeldAtRest
  <2>3. Up
    BY <1>6, CandSettled
  <2>4. Covered(mem, ledger, mem, ledger')
    BY <2>3, Current, LedgerCovers
  <2>5. Own(cand', ledger', v, worker[v])
    BY <2>1, <2>2, <2>4, SameCovers, CoveredOwn
  <2> QED BY <2>1, <2>2, <2>3, <2>5, WorkingOn, Current
<1>7. CASE (\E u \in Vaults : VaultOpened(u) \/ BatchRecovered(u)) \/ Loaded \/ HistoriesOpen \/ Listened
  <2>1. mode # "serving" /\ worker' = worker
    BY <1>7 DEF VaultOpened, Open, BatchRecovered, Recover, Loaded, Start, HistoriesOpen, Listened, HandoffInv, Stage
  <2> QED BY <1>0, <2>1
<1>8. ASSUME NEW u \in Vaults, EraseHistory(u) PROVE Working(v)'
  <2>1. worker'[v] = worker[v] /\ UNCHANGED <<mem, mode>> /\ ~ Publishing /\ ~ Publishing' /\ Up
    BY <1>8 DEF EraseHistory, processVars, Publishing, Up
  <2>2. mem.rows[worker[v].op].vault = v
    BY <2>1, HeldAtRest
  <2> QED BY <2>1, <2>2, WorkingOn, Current
<1>9. CASE Unlocked
  <2>1. PICK u \in Vaults : worker' = Released(u)
    BY <1>9 DEF Unlocked
  <2>2. worker[v] # NoWorker /\ worker'[v] = worker[v]
    BY <1>0, <2>1 DEF Released, Locks
  <2> QED BY <1>0, <1>9, <2>2 DEF Unlocked, Working, Publishing
<1>10. CASE Distrusts \/ UNCHANGED vars
  BY <1>0, <1>10 DEF Distrusts, vars, Working, Publishing
<1>11. CASE Died
  BY <1>11 DEF Died, Stop
<1>12. CASE GaveUp
  <2>1. UNCHANGED <<mem, mode>> /\ ~ Publishing' /\ Up /\ worker' \in {IF MayGoOn THEN worker ELSE Ended, Ended}
    BY <1>12 DEF GaveUp, Publishing, Up
  <2>2. worker[v] # NoWorker /\ worker'[v] = worker[v]
    BY <1>0, <2>1 DEF Ended, Released, Locks
  <2>3. mem.rows[worker[v].op].vault = v
    <3>1. SUFFICES ASSUME mem.rows[worker[v].op] = NoRow, task = [kind |-> "mutate", vault |-> v] PROVE FALSE
      BY <1>0, <2>2 DEF Working
    <3>2. task.vault = v /\ v # NoVault
      BY <3>1, HistoryAssumption
    <3>3. ~ MayGoOn
      BY <3>1, <3>2 DEF MayGoOn
    <3>4. worker'[v] = NoWorker
      BY <1>0, <2>1, <3>2, <3>3 DEF Ended, Released, Locks
    <3> QED BY <3>4
  <2> QED BY <2>1, <2>2, <2>3, WorkingOn, Current
<1> QED BY <1>1, <1>2, <1>3, <1>4, <1>5, <1>6, <1>7, <1>8, <1>9, <1>10, <1>11, <1>12 DEF Step

LEMMA LegacyOneBase == ASSUME Init PROVE AllOneBase /\ Workers
<1>1. \A v \in Vaults : ledger[v].rows = {}
  BY DEF Init, NoLedger
<1>2. OneBase(file, ledger)
  <2> SUFFICES ASSUME NEW v \in Vaults, NEW r \in AllRows(file, ledger, v), NEW q \in AllRows(file, ledger, v), r.key = q.key
       PROVE  r.base = q.base
    BY DEF OneBase
  <2>1. PICK o \in Ops : r = file.rows[o] /\ file.rows[o].vault = v
    BY <1>1 DEF AllRows, RowsOf
  <2>2. PICK p \in Ops : q = file.rows[p] /\ file.rows[p].vault = v
    BY <1>1 DEF AllRows, RowsOf
  <2> QED BY <2>1, <2>2 DEF Init, Legacy
<1>3. Workers
  BY DEF Init, Workers
<1> QED BY <1>2, <1>3, LegacyFile DEF AllOneBase

\* All attempts of one proposal are admitted with one base, whichever of them is still in the
\* metadata and whichever only in the ledger, across restarts and handoffs.
THEOREM RetriesAgree == Spec => []AdmissionIsStable
<1>1. Init => AllOneBase /\ Workers
  BY LegacyOneBase
<1>2. HandoffInv /\ AllOneBase /\ Workers /\ [Next]_vars => AllOneBase' /\ Workers'
  BY Steps, OneBaseStep, WorkersStep
<1>3. AllOneBase => AdmissionIsStable
  <2> SUFFICES ASSUME AllOneBase, NEW v \in Live(file),
                      NEW r \in AllRows(file, ledger, v), NEW q \in AllRows(file, ledger, v),
                      r.key = q.key, NoBase \notin {r.base, q.base}
       PROVE  r.base = q.base
    BY DEF AdmissionIsStable, AllRows
  <2> QED BY DEF AllOneBase, Used, OneBase, Live
<1> QED BY <1>1, <1>2, <1>3, HandoffAlways, PTL DEF Spec

=============================================================================
