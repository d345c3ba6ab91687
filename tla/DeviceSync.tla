----------------------------- MODULE DeviceSync -----------------------------
(***************************************************************************)
(* The synchronisation engine of one paired device (the Obsidian plugin    *)
(* and the headless client share it): capturing visible edits as commits,  *)
(* proposing them to the server, and applying the server's main to the     *)
(* visible files, beside an editor that may save a buffer it loaded before *)
(* the apply.                                                              *)
(*                                                                         *)
(* The content of a file is the set of edits it shows: users only add      *)
(* edits, so a file that lacks an edit main has was authored before that   *)
(* edit arrived, and a merge over the wrong base drops it.  A commit is a  *)
(* number; `commits' gives its tree and its ancestors (itself included).   *)
(*                                                                         *)
(* A crash can fall between any two steps.  A step makes one durable       *)
(* write, or several that a restart repeats together from what is on disk: *)
(* the two refs of an apply, the journal and the provenance it implies,    *)
(* the writes that end an apply.  Editor saves, other devices and the      *)
(* expiry of the engine's horizons interleave with every step.             *)
(***************************************************************************)
EXTENDS Naturals, Sequences, FiniteSets

CONSTANTS Paths,         \* the files of the vault
          LocalEdits,    \* the edits this device's user types
          RemoteEdits,   \* the edits other devices integrate
          MaxCrashes,    \* how often the host may be killed
          MaxLosses,     \* how many answers of the server may be lost
          MaxFlushes     \* how often a flush may meet a buffer not reloaded yet

ASSUME DeviceAssumption ==
    /\ LocalEdits \cap RemoteEdits = {}
    /\ {MaxCrashes, MaxLosses, MaxFlushes} \subseteq Nat

Edits == LocalEdits \cup RemoteEdits

VARIABLES
    commits,    \* the Git objects: commit -> its tree and its ancestors
    main,       \* the server's main
    devRef,     \* the server's ref of this device
    conflict,   \* the device commit under review at the server, or 0
    file,       \* the visible files
    buf,        \* the editor's buffers
    stale,      \* paths the engine wrote and the editor has not reloaded
    saved,      \* the local edits that have reached a visible file
    flushes,    \* how many flushes have written such a buffer back
    events,     \* paths changed on disk that the watcher has not reported
    st,         \* state.json
    q,          \* queue.json
    ref,        \* refs/heads/main and refs/heads/local
    prov,       \* stale-provenance.json
    jr,         \* apply-journal.json, with its bundle and displaced copies
    ack,        \* the pending applied-main acknowledgement, or 0
    pc, run,    \* where the engine is; volatile values of the running call
    raced,      \* paths an ordinary capture took although a horizon covers them
    inv,        \* a full inventory was made since the start
    left,       \* edits nobody has made yet
    crashes, losses

server == <<main, devRef, conflict>>
editor == <<buf, stale, saved, flushes, events>>
notes == <<raced, inv>>
bounds == <<left, crashes, losses>>
vars == <<commits, server, file, editor, st, q, ref, prov, jr, ack, pc, run,
          notes, bounds>>

-----------------------------------------------------------------------------
(* Git. *)

Tree(c) == commits[c].tree
Anc(c) == commits[c].anc
IsAncestor(a, b) == a \in Anc(b)
Next1 == Len(commits) + 1

Commit(tree, parents) ==
    Append(commits, [tree |-> tree,
                     anc |-> {Next1} \cup UNION {Anc(c) : c \in parents}])

\* The oldest of a set of bases.
Oldest(S) == CHOOSE b \in S : \A c \in S : c # b => ~ IsAncestor(c, b)

Differ(t, u) == {p \in Paths : t[p] # u[p]}

-----------------------------------------------------------------------------
(* The records the engine keeps. *)

NoObligation == [base |-> 0, gen |-> 0, sig |-> {}]
NoIntent == [base |-> 0, parent |-> 0, tree |-> [p \in Paths |-> {}],
             commit |-> 0, caps |-> [p \in {} |-> 0], outcome |-> "none",
             main |-> 0]
NoAccepted == [commit |-> 0, base |-> 0]
NoBundle == [target |-> 0, prior |-> 0, sref |-> 0, affected |-> {},
             pre |-> [p \in Paths |-> {}]]
NoJournal == [target |-> 0, base |-> 0, prior |-> 0, sref |-> 0, phase |-> "none",
              affected |-> {}, touched |-> {}, pre |-> [p \in Paths |-> {}],
              deferred |-> {}, step |-> "none", bundle |-> NoBundle,
              copy |-> [p \in Paths |-> "none"]]
NoRun == [target |-> 0, snap |-> [p \in Paths |-> {}], base |-> 0,
          moved |-> FALSE, clean |-> FALSE, todo |-> {}, seen |-> {}, cohort |-> {},
          result |-> "none", ret |-> "none", commit |-> 0, defer |-> FALSE]

HasWork(pr) == pr.hor # {} \/ \E p \in Paths : pr.obl[p].base # 0

Init ==
    /\ commits = <<[tree |-> [p \in Paths |-> {}], anc |-> {1}]>>
    /\ main = 1 /\ devRef = 1 /\ conflict = 0
    /\ file = [p \in Paths |-> {}]
    /\ buf = file /\ stale = {}
    /\ saved = [p \in Paths |-> {}] /\ flushes = 0 /\ events = {}
    /\ st = [main |-> 1, head |-> 1, sref |-> 1, label |-> "Synced",
             err |-> "none"]
    /\ q = [pending |-> 0, base |-> 0, status |-> "idle", hints |-> {}]
    /\ ref = [main |-> 1, local |-> 1]
    /\ prov = [hor |-> {}, obl |-> [p \in Paths |-> NoObligation],
               intent |-> NoIntent, acc |-> NoAccepted]
    /\ jr = NoJournal /\ ack = 0
    /\ pc = "idle" /\ run = NoRun
    /\ raced = {} /\ inv = TRUE
    /\ left = Edits /\ crashes = 0 /\ losses = 0

-----------------------------------------------------------------------------
(* The editor, external to the engine.  A buffer holds what the editor     *)
(* loaded and what the user typed since.                                   *)

Unsaved(p) == (buf[p] \cap LocalEdits) \ saved[p]

\* The hint of changed paths in the queue.
Hinted(queue, S) ==
    [queue EXCEPT !.hints = @ \cup S,
                  !.status = IF queue.pending = 0 /\ S # {}
                             THEN "queued_local" ELSE @]

\* The buffers of S reach the visible files.
SaveBuffers(S) ==
    /\ file' = [p \in Paths |-> IF p \in S THEN buf[p] ELSE file[p]]
    /\ saved' = [p \in Paths |-> IF p \in S
                                 THEN saved[p] \cup (buf[p] \cap LocalEdits)
                                 ELSE saved[p]]
    /\ stale' = stale \ S /\ events' = events \cup S
    /\ buf' = buf

Type(p, e) ==
    /\ pc # "down" /\ e \in left \cap LocalEdits
    /\ buf' = [buf EXCEPT ![p] = @ \cup {e}]
    /\ left' = left \ {e}
    /\ UNCHANGED <<commits, server, file, stale, saved, flushes, events, st, q, ref,
                   prov, jr, ack, pc, run, notes, crashes, losses>>

Save(p) ==
    /\ pc # "down" /\ Unsaved(p) # {}
    /\ SaveBuffers({p})
    /\ UNCHANGED <<commits, server, flushes, st, q, ref, prov, jr, ack, pc, run,
                   notes, bounds>>

\* The watcher reports the changed paths, the engine's own writes included
\* (recordLocalChangeHint).
Watch ==
    /\ pc # "down" /\ events # {}
    /\ events' = {}
    /\ q' = Hinted(q, events)
    /\ st' = IF st.err = "none" THEN [st EXCEPT !.label = "Checking"] ELSE st
    /\ run' = [run EXCEPT !.moved = pc # "idle"]
    /\ UNCHANGED <<commits, server, file, buf, stale, saved, flushes, ref, prov,
                   jr, ack, pc, notes, bounds>>

Reload(p) ==
    /\ p \in stale
    /\ buf' = [buf EXCEPT ![p] = file[p] \cup Unsaved(p)]
    /\ stale' = stale \ {p}
    /\ UNCHANGED <<commits, server, file, saved, flushes, events, st, q, ref,
                   prov, jr, ack, pc, run, notes, bounds>>

\* Three seconds pass: by then the editor has reloaded what the apply wrote
\* or has saved over it.
Elapse(i) ==
    LET H == {h \in prov.hor : h.id = i}
    IN  /\ pc # "down"
        /\ \E h \in H : ~ h.ready
        /\ \A h \in H : h.path \notin stale
        /\ prov' = [prov EXCEPT !.hor = (@ \ H) \cup {[h EXCEPT !.ready = TRUE] : h \in H}]
    /\ UNCHANGED <<commits, server, file, editor, st, q, ref, jr, ack, pc,
                   run, notes, bounds>>

-----------------------------------------------------------------------------
(* The server as the device meets it: SyncService is its model. *)

Merge3(b, m, d) == (m \cap d) \cup (m \ b) \cup (d \ b)

\* The natural merge base of main and a proposal.
MergeBase(d) ==
    CHOOSE k \in Anc(main) \cap Anc(d) :
        \A c \in Anc(main) \cap Anc(d) : IsAncestor(c, k)

\* The explicit base supplies the ancestor only for paths the device authored.
Authored(d) == Differ(Tree(MergeBase(d)), Tree(d))

MergedTree(d, base) ==
    [p \in Paths |->
        IF p \in Authored(d)
        THEN Merge3(Tree(IF base = 0 THEN MergeBase(d) ELSE base)[p],
                    Tree(main)[p], Tree(d)[p])
        ELSE Tree(main)[p]]

\* Both sides changed an authored path: the server may ask for a review.
Divergent(d, base) ==
    \E p \in Authored(d) :
        LET b == Tree(IF base = 0 THEN MergeBase(d) ELSE base)[p]
        IN  Tree(main)[p] # b /\ Tree(d)[p] # b /\ Tree(main)[p] # Tree(d)[p]

RemotePush(p, e) ==
    /\ e \in left \cap RemoteEdits
    /\ commits' = Commit([Tree(main) EXCEPT ![p] = @ \cup {e}], {main})
    /\ main' = Next1
    /\ left' = left \ {e}
    /\ UNCHANGED <<devRef, conflict, file, editor, st, q, ref, prov, jr, ack,
                   pc, run, notes, crashes, losses>>

\* The owner resolves the review, keeping both sides or the server's.
Resolve(both) ==
    /\ conflict # 0
    /\ commits' = Commit([p \in Paths |->
                            Tree(main)[p] \cup
                            IF both THEN Tree(conflict)[p] ELSE {}],
                         {main, conflict})
    /\ main' = Next1 /\ conflict' = 0
    /\ UNCHANGED <<devRef, file, editor, st, q, ref, prov, jr, ack, pc, run,
                   notes, bounds>>

-----------------------------------------------------------------------------
(* state.json: a cursor is never written back to an ancestor, and a write   *)
(* that would is kept from changing the label and the error too.            *)

Behind(next, cur) == next # cur /\ IsAncestor(next, cur)

Guarded(n) ==
    LET back == Behind(n.main, st.main) \/ Behind(n.head, st.head)
                \/ Behind(n.sref, st.sref)
    IN  [main |-> IF Behind(n.main, st.main) THEN st.main ELSE n.main,
         head |-> IF Behind(n.head, st.head) THEN st.head ELSE n.head,
         sref |-> IF Behind(n.sref, st.sref) THEN st.sref ELSE n.sref,
         label |-> IF back THEN st.label ELSE n.label,
         err |-> IF back THEN st.err ELSE n.err]

-----------------------------------------------------------------------------
(* Stale provenance.  A horizon is one record per touched path: a save seen *)
(* while it stands was authored on its base.  An obligation keeps the base  *)
(* of a path whose bytes still differ until a proposal settles it.          *)

Horizon(i, p, b) == [id |-> i, path |-> p, base |-> b, ready |-> FALSE]

HorizonsOn(pr, p) == {h \in pr.hor : h.path = p}

Evidence(pr, p) ==
    {h.base : h \in HorizonsOn(pr, p)}
      \cup (IF pr.obl[p].base # 0 THEN {pr.obl[p].base} ELSE {})

\* retireStaleObligation: the obligations of S become horizons at their bases.
RetireInto(pr, S, i) ==
    [pr EXCEPT !.obl = [p \in Paths |-> IF p \in S THEN NoObligation ELSE @[p]],
               !.hor = {h \in @ : ~(h.id = i /\ \E p \in S : h.path = p /\ h.base = pr.obl[p].base)}
                       \cup {Horizon(i, p, pr.obl[p].base) : p \in S}]

Retire(pr, S, i) == RetireInto(pr, {p \in S : pr.obl[p].base # 0}, i)


\* retainApplyProvenance
RetainApply(pr, j, mutated) ==
    LET mine == {h \in pr.hor : h.id = j.target}
        known == {h.path : h \in mine}
        kept == IF mutated THEN {[h EXCEPT !.ready = FALSE] : h \in mine} ELSE mine
        hor == (pr.hor \ mine) \cup kept
                 \cup {Horizon(j.target, p, j.base) : p \in j.touched \ known}
        pathBase(p) == IF p \in known
                       THEN Oldest({h.base : h \in {m \in mine : m.path = p}})
                       ELSE j.base
    IN  [pr EXCEPT !.hor = hor,
                   !.obl = [p \in Paths |->
                      IF p \notin j.deferred \cap j.touched THEN @[p]
                      ELSE IF @[p].base = 0
                      THEN [base |-> pathBase(p), gen |-> 0, sig |-> {}]
                      ELSE IF IsAncestor(pathBase(p), @[p].base)
                      THEN [@[p] EXCEPT !.base = pathBase(p)] ELSE @[p]]]

Expiring(pr) == {h \in pr.hor : h.ready /\ h.id # jr.target}

\* The visible files are read again when evidence may end or be renewed.
Drained(pr, snap) ==
    IF Expiring(pr) # {} \/ \E p \in Paths : pr.obl[p].base # 0
    THEN file ELSE snap

\* classifyStaleSnapshot over a snapshot of the files
Classified(pr, target, snap) ==
    LET changed == Differ(snap, Tree(target))
        obl == [p \in Paths |->
                  IF p \in changed /\ Evidence(pr, p) # {}
                  THEN [base |-> Oldest(Evidence(pr, p)),
                        gen |-> IF pr.obl[p].sig # {snap[p]}
                                THEN pr.obl[p].gen + 1 ELSE pr.obl[p].gen,
                        sig |-> {snap[p]}]
                  ELSE pr.obl[p]]
        remaining == {h.path : h \in pr.hor \ Expiring(pr)}
        settled == {p \in Paths \ (changed \cup remaining) :
                      obl[p].base # 0 /\ file[p] = Tree(target)[p]}
    IN  Retire([pr EXCEPT !.obl = obl, !.hor = @ \ Expiring(pr)], settled, 0)

StalePaths(pr, target, snap) ==
    {p \in Differ(snap, Tree(target)) : pr.obl[p].base # 0}

\* finishApplyProvenance
FinishApply(pr0, j) ==
    LET pr == RetainApply(pr0, j, FALSE)
        intent == pr.intent
        acc == IF pr.acc.commit # 0 /\ IsAncestor(pr.acc.commit, j.target)
               THEN NoAccepted ELSE pr.acc
        proven == {p \in DOMAIN intent.caps :
                     /\ pr.obl[p].gen = intent.caps[p]
                     /\ p \notin j.deferred
                     /\ file[p] = Tree(j.target)[p]}
    IN  CASE intent.outcome = "conflicted" ->
               [pr EXCEPT !.acc = acc,
                          !.intent = IF q.status # "conflicted" THEN NoIntent ELSE @]
          [] intent.outcome \in {"merged", "noop"} /\ IsAncestor(intent.main, j.target) ->
               [Retire(pr, proven, j.target) EXCEPT !.acc = acc, !.intent = NoIntent]
          [] OTHER -> [pr EXCEPT !.acc = acc]

-----------------------------------------------------------------------------
(* Starting: every sync begins with what a restart begins with.            *)

\* A buffer that differs from its file is written to it, a clean one the
\* editor has not reloaded included (MaxFlushes times; then it has reloaded).
CleanStale == {p \in stale : Unsaved(p) = {}}

Unflushed == {p \in Paths : buf[p] # file[p]}
               \ (IF flushes < MaxFlushes THEN {} ELSE CleanStale)

FlushBuffers ==
    /\ SaveBuffers(Unflushed)
    /\ flushes' = IF Unflushed \cap CleanStale # {} THEN flushes + 1 ELSE flushes

rest == <<commits, server, notes, bounds>>

\* The sync ends, or fails: what it left on disk stays.
Done == pc' = "idle" /\ run' = NoRun

\* syncOnceOrPollResolvedConflict: a device under review polls instead.
SyncStart ==
    /\ pc = "idle" /\ st.err # "review"
    /\ pc' = "init" /\ run' = [NoRun EXCEPT !.ret = "sync"]
    /\ UNCHANGED <<rest, file, editor, st, q, ref, prov, jr, ack>>

\* The paths whose displaced copy is being written.
Copying == {p \in run.todo \cap run.seen : pc = "write" /\ jr.copy[p] = "none"}

\* A kill while a copy is written leaves part of it.
Crash ==
    /\ pc # "down" /\ crashes < MaxCrashes
    /\ \E S \in SUBSET Copying :
          jr' = [jr EXCEPT !.copy = [p \in Paths |-> IF p \in S THEN "torn" ELSE @[p]]]
    /\ crashes' = crashes + 1
    /\ pc' = "down" /\ run' = NoRun
    /\ buf' = file /\ stale' = {} /\ events' = {} /\ inv' = FALSE
    /\ UNCHANGED <<commits, server, file, saved, flushes, st, q, ref, prov,
                   ack, raced, left, losses>>

\* The restart renews every horizon: downtime is no evidence of a reload.
Start ==
    /\ pc = "down"
    /\ prov' = [prov EXCEPT !.hor = {[h EXCEPT !.ready = FALSE] : h \in @}]
    /\ pc' = "init" /\ run' = [NoRun EXCEPT !.ret = "boot"]
    /\ UNCHANGED <<rest, file, editor, st, q, ref, jr, ack>>

Blocked(code) == [st EXCEPT !.err = code, !.label = "blocked"]

\* The call throws.  The recovery of an incomplete apply records that it is
\* not finished; any other call leaves state.json as it is.
Thrown ==
    /\ Done
    /\ st' = IF run.ret = "repair" THEN Blocked("unfinished") ELSE st

\* The commit a durable intent without an outcome names, or 0: recorded, or
\* found behind the local ref by its tree and parent.
IntentCommit ==
    LET i == prov.intent
        c == IF i.commit # 0 THEN i.commit ELSE ref.local
    IN  IF i.base # 0 /\ i.outcome = "none" /\ Tree(c) = i.tree
           /\ Anc(c) = Anc(i.parent) \cup {c} /\ c # i.parent
        THEN c ELSE 0

\* The recovery of an intent would change nothing.
IntentRecovered ==
    /\ q.pending = IntentCommit /\ prov.intent.commit = IntentCommit
    /\ Guarded([st EXCEPT !.head = IntentCommit]) = st

\* initialize, with no apply journal
InitClean ==
    /\ pc = "init" /\ jr = NoJournal
    /\ IF IntentCommit = 0 \/ IntentRecovered
       THEN /\ pc' = IF run.ret = "boot" \/ st.err # "none" THEN "idle"
                     ELSE IF ack # 0 THEN "ack0" ELSE "flush"
            /\ run' = IF run.ret = "boot" THEN NoRun ELSE run
       ELSE IF q.pending \notin {0, IntentCommit}
       THEN pc' = "idle" /\ run' = NoRun
       ELSE /\ pc' = "icommit"
            /\ run' = [run EXCEPT !.ret = "recover", !.commit = IntentCommit,
                                  !.base = prov.intent.base]
    /\ UNCHANGED <<rest, file, editor, st, q, ref, prov, jr, ack>>

\* What a journal's recovery bundle holds of it: the keys a restart compares.
Frozen(j) == [target |-> j.target, prior |-> j.prior, sref |-> j.sref,
              affected |-> j.affected, pre |-> j.pre]

\* Displaced copies that are not the preflight image.
Spoiled == {p \in jr.affected : jr.copy[p] \notin {"none", "same"}}

Evidenced == IF jr.bundle # NoBundle THEN jr.bundle = Frozen(jr)
             ELSE jr.affected = {} \/ jr.phase = "planned"

\* Mutant: a recovery expects the state of before the apply.
JournalValidPrior ==
    /\ st.main = jr.prior /\ ref.main \in {jr.target, jr.prior}
    /\ ack \in {0, jr.target} /\ Evidenced /\ Spoiled = {}

\* applyRecoveryValidationReason
JournalValid ==
    /\ st.main \in {jr.target, jr.prior} /\ ref.main \in {jr.target, jr.prior}
    /\ ack \in {0, jr.target} /\ Evidenced /\ Spoiled = {}

\* initialize, with an apply journal: a committed one owns its tail, an
\* incomplete one is resumed around what the user changed meanwhile, after its
\* bundle is written if the crash came before it.
InitJournal ==
    /\ pc = "init" /\ jr # NoJournal
    /\ LET active == jr.phase = "writing"
           matched == {p \in jr.affected : file[p] = Tree(jr.target)[p]}
           diverged == {p \in jr.affected : file[p] # jr.pre[p]
                                              /\ ~ (active /\ p \in matched)}
           bare == jr.affected # {} /\ jr.bundle = NoBundle
           j == [jr EXCEPT !.deferred = @ \cup diverged,
                           !.bundle = IF bare THEN Frozen(jr) ELSE @,
                           !.phase = IF bare THEN "bundled" ELSE "writing"]
       IN  CASE ~ JournalValid ->
                  /\ st' = Blocked("recovery") /\ pc' = "idle" /\ run' = NoRun
                  /\ prov' = RetainApply(prov, jr, FALSE) /\ jr' = jr
             [] JournalValid /\ jr.phase = "committed" ->
                  /\ pc' = IF ack = jr.target THEN "clear"
                           ELSE IF jr.step # "none" THEN "ackw" ELSE "bsnap"
                  /\ run' = [NoRun EXCEPT !.target = jr.target, !.ret = "resume"]
                  /\ prov' = RetainApply(prov, jr, FALSE)
                  /\ UNCHANGED <<st, jr>>
             [] OTHER ->
                  /\ pc' = IF bare THEN "rewrite" ELSE "write"
                  /\ jr' = j
                  /\ run' = [NoRun EXCEPT !.target = jr.target, !.ret = "repair",
                                          !.todo = jr.affected \ (matched \cup j.deferred)]
                  /\ prov' = RetainApply(prov, jr, FALSE)
                  /\ st' = st
    /\ UNCHANGED <<rest, file, editor, q, ref, ack>>

Rewrite ==
    /\ pc = "rewrite"
    /\ jr' = [jr EXCEPT !.phase = "writing"]
    /\ pc' = "write"
    /\ UNCHANGED <<rest, file, editor, st, q, ref, prov, ack, run>>

\* The applied acknowledgement is sent until the server has answered.
AckSend(received) ==
    /\ pc \in {"ack0", "ack"}
    /\ IF received
       THEN /\ ack' = 0 /\ losses' = losses /\ run' = run
            /\ pc' = IF pc = "ack0" THEN "flush" ELSE "settle"
       ELSE /\ losses < MaxLosses
            /\ losses' = losses + 1
            /\ pc' = "idle" /\ run' = NoRun /\ ack' = ack
    /\ UNCHANGED <<commits, server, file, editor, st, q, ref, prov, jr, notes,
                   left, crashes>>

-----------------------------------------------------------------------------
(* Capturing local work. *)

Flush ==
    /\ pc = "flush"
    /\ FlushBuffers
    /\ pc' = "repair"
    /\ run' = [run EXCEPT !.cohort = Unflushed]
    /\ UNCHANGED <<rest, st, q, ref, prov, jr, ack>>

\* repairRewoundLocalRef
RepairRef ==
    /\ pc = "repair"
    /\ LET h == st.head
           rewound == /\ st.main = h /\ q.pending = 0 /\ ref.main = h
                      /\ ref.local # h /\ IsAncestor(ref.local, h)
                      /\ \A p \in Differ(Tree(ref.local), Tree(h)) :
                            file[p] # Tree(ref.local)[p]
       IN  ref' = [ref EXCEPT !.local = IF rewound THEN h ELSE @]
    /\ pc' = "reconcile"
    /\ UNCHANGED <<rest, file, editor, st, q, prov, jr, ack, run>>

\* reconcileQueueWithLocalHead, then the read of the queue before the scan
Reconcile ==
    /\ pc = "reconcile"
    /\ LET h == st.head
           settled == h \in {st.main, st.sref}
           busy == q.status # "idle" \/ q.hints # {}
           ours == IsAncestor(st.sref, h) \/ IsAncestor(st.main, h)
       IN  CASE q.pending # 0 -> pc' = "push" /\ UNCHANGED <<st, q>>
             [] q.pending = 0 /\ (settled \/ (busy /\ ~ IsAncestor(h, st.main))) ->
                  pc' = "capture" /\ UNCHANGED <<st, q>>
             [] q.pending = 0 /\ ~ settled /\ IsAncestor(h, st.main) ->
                  /\ st' = [st EXCEPT !.head = st.main, !.label = "Synced"]
                  /\ pc' = "capture" /\ q' = q
             [] q.pending = 0 /\ ~ settled /\ ~ busy /\ ours /\ ~ IsAncestor(h, st.main) ->
                  /\ q' = [q EXCEPT !.pending = h, !.base = 0, !.status = "queued_local"]
                  /\ st' = [st EXCEPT !.label = "Ahead"]
                  /\ pc' = "push"
             [] OTHER -> st' = Blocked("diverged") /\ pc' = "idle" /\ q' = q
    /\ run' = [run EXCEPT !.moved = FALSE]
    /\ UNCHANGED <<rest, file, editor, ref, prov, jr, ack>>

\* The state write before a scan.
Checking == IF st.head = st.main THEN [st EXCEPT !.label = "Checking"] ELSE st

\* captureHintedLocalChanges: only hinted and flushed paths are read, when nothing
\* unusual is pending; a differing path under a horizon needs the full scan.
CaptureHinted ==
    /\ pc = "capture" /\ inv
    /\ st.head = st.main /\ ref.local = st.head
    /\ \A p \in Paths : prov.obl[p].base = 0
    /\ prov.intent.base = 0 \/ prov.intent.outcome \in {"merged", "noop"}
    /\ LET dif == {p \in q.hints \cup run.cohort : file[p] # Tree(st.head)[p]}
           tree == [p \in Paths |-> IF p \in dif THEN file[p] ELSE Tree(st.head)[p]]
       IN  /\ \A p \in dif : HorizonsOn(prov, p) = {}
           /\ IF dif = {}
              THEN pc' = "nochange" /\ UNCHANGED <<commits, ref, run>>
              ELSE /\ commits' = Commit(tree, {st.head})
                   /\ ref' = [ref EXCEPT !.local = Next1]
                   /\ run' = [run EXCEPT !.commit = Next1]
                   /\ pc' = "oqueue"
    /\ st' = Checking
    /\ UNCHANGED <<server, notes, bounds, file, editor, q, prov, jr, ack>>

CaptureFull ==
    /\ pc = "capture"
    /\ pc' = "cohort"
    /\ run' = [run EXCEPT !.target = st.main, !.snap = file]
    /\ st' = Checking
    /\ UNCHANGED <<rest, file, editor, q, ref, prov, jr, ack>>

AfterCapture == CASE run.ret = "sync" -> "push"
                  [] run.ret = "recover" -> "idle"
                  [] run.ret = "repair" -> "ackw"
                  [] OTHER -> "step"

\* queueStaleCohort up to the classification
Cohort ==
    /\ pc = "cohort"
    /\ LET owns == q.pending # 0 /\ q.base # 0 /\ ~ IsAncestor(q.pending, run.target)
           open == /\ prov.intent.base # 0 /\ prov.intent.outcome = "none"
                   /\ (prov.intent.commit = 0 \/ q.pending # prov.intent.commit)
       IN  IF q.pending # 0 /\ q.base = 0
           THEN pc' = "ordinary" /\ UNCHANGED <<run, ref, st>>
           ELSE IF owns
           THEN /\ ref' = [ref EXCEPT !.local = q.pending]
                /\ st' = Guarded([st EXCEPT !.head = q.pending])
                /\ pc' = AfterCapture /\ run' = run
           ELSE IF open /\ ref.local # st.head
           THEN Thrown /\ ref' = ref
           ELSE /\ pc' = IF HasWork(prov) THEN "classify" ELSE "ordinary"
                /\ UNCHANGED <<run, ref, st>>
    /\ UNCHANGED <<rest, file, editor, q, prov, jr, ack>>

\* classifyStaleSnapshot and the choice of the cohort: the stale paths with
\* the oldest base
Classify ==
    /\ pc = "classify"
    /\ LET snap == Drained(prov, run.snap)
           pr == Classified(IF jr = NoJournal THEN prov ELSE RetainApply(prov, jr, FALSE),
                            run.target, snap)
           S == StalePaths(pr, run.target, snap)
           b == Oldest({pr.obl[p].base : p \in S})
       IN  /\ prov' = pr
           /\ IF S = {}
              THEN pc' = "ordinary" /\ run' = [run EXCEPT !.snap = snap]
              ELSE /\ pc' = "intent"
                   /\ run' = [run EXCEPT !.snap = snap, !.base = b,
                                         !.cohort = {p \in S : pr.obl[p].base = b}]
    /\ UNCHANGED <<rest, file, editor, st, q, ref, jr, ack>>

CohortTree == [p \in Paths |-> IF p \in run.cohort THEN run.snap[p]
                               ELSE Tree(run.target)[p]]

\* createStaleCohortCommit: the durable intent precedes the ref.
Intent ==
    /\ pc = "intent"
    /\ IF prov.intent.base # 0 /\ prov.intent.outcome = "none"
       THEN Thrown /\ prov' = prov
       ELSE /\ prov' = [prov EXCEPT !.intent =
                  [NoIntent EXCEPT !.base = run.base, !.parent = run.target,
                                   !.tree = CohortTree,
                                   !.caps = [p \in run.cohort |-> prov.obl[p].gen]]]
            /\ pc' = "cref" /\ UNCHANGED <<run, st>>
    /\ UNCHANGED <<rest, file, editor, q, ref, jr, ack>>

\* commitTree: compare and swap of the local ref
CohortRef ==
    /\ pc = "cref"
    /\ IF ref.local # run.target
       THEN Thrown /\ UNCHANGED <<commits, ref>>
       ELSE /\ commits' = Commit(CohortTree, {run.target})
            /\ ref' = [ref EXCEPT !.local = Next1]
            /\ run' = [run EXCEPT !.commit = Next1]
            /\ pc' = "icommit" /\ st' = st
    /\ UNCHANGED <<server, notes, bounds, file, editor, q, prov, jr, ack>>

IntentCommitted ==
    /\ pc = "icommit"
    /\ prov' = [prov EXCEPT !.intent.commit = run.commit]
    /\ pc' = "iqueue"
    /\ UNCHANGED <<rest, file, editor, st, q, ref, jr, ack, run>>

\* The other differing paths are held as hints for the next capture.
IntentQueued ==
    /\ pc = "iqueue"
    /\ LET held == IF run.ret = "recover" THEN {}
                   ELSE Differ(run.snap, Tree(run.target)) \ run.cohort
       IN  q' = [q EXCEPT !.pending = run.commit, !.base = run.base,
                          !.hints = @ \cup held,
                          !.status = IF run.ret = "recover" /\ q.pending # 0
                                     THEN @ ELSE "queued_local"]
    /\ pc' = "istate"
    /\ UNCHANGED <<rest, file, editor, st, ref, prov, jr, ack, run>>

IntentState ==
    /\ pc = "istate"
    /\ st' = Guarded([st EXCEPT !.head = run.commit,
                                !.label = IF run.ret = "recover" THEN @ ELSE "Ahead"])
    /\ pc' = AfterCapture
    /\ run' = IF run.ret = "recover" THEN NoRun ELSE run
    /\ UNCHANGED <<rest, file, editor, q, ref, prov, jr, ack>>

\* createLocalCommit reads the files again; after an apply the commit is made
\* from the classified snapshot.
Ordinary ==
    /\ pc = "ordinary"
    /\ LET tree == IF run.ret = "sync" THEN file ELSE run.snap
           same == tree = Tree(ref.local)
                     \/ (run.ret # "sync" /\ tree = Tree(run.target))
           under == {p \in Differ(tree, Tree(ref.local)) : Evidence(prov, p) # {}}
       IN  IF same
           THEN /\ pc' = IF run.ret = "sync" THEN "nochange" ELSE AfterCapture
                /\ UNCHANGED <<commits, ref, run, raced>>
           ELSE /\ commits' = Commit(tree, {ref.local})
                /\ ref' = [ref EXCEPT !.local = Next1]
                /\ run' = [run EXCEPT !.commit = Next1]
                /\ raced' = raced \cup under
                /\ pc' = "oqueue"
    /\ inv' = (inv \/ run.ret = "sync")
    /\ UNCHANGED <<server, bounds, file, editor, st, q, prov, jr, ack>>

OrdinaryQueued ==
    /\ pc = "oqueue"
    /\ q' = [pending |-> run.commit, base |-> 0, status |-> "queued_local",
             hints |-> IF run.ret = "sync" /\ ~ run.moved THEN {} ELSE q.hints]
    /\ pc' = "ostate"
    /\ UNCHANGED <<rest, file, editor, st, ref, prov, jr, ack, run>>

OrdinaryState ==
    /\ pc = "ostate"
    /\ st' = Guarded([st EXCEPT !.head = run.commit, !.label = "Ahead"])
    /\ pc' = AfterCapture
    /\ UNCHANGED <<rest, file, editor, q, ref, prov, jr, ack, run>>

\* Mutant: hints that arrived during the scan are cleared with the others.
NoChangeClearsAll ==
    /\ pc = "nochange"
    /\ q' = IF q.status = "queued_local"
            THEN [q EXCEPT !.status = "idle", !.hints = {}] ELSE q
    /\ st' = IF st.head = st.main THEN [st EXCEPT !.label = "Synced"] ELSE st
    /\ IF main # st.main THEN pc' = "pull" /\ run' = run ELSE Done
    /\ UNCHANGED <<rest, file, editor, ref, prov, jr, ack>>

\* Nothing to commit: the hints are cleared if none arrived meanwhile.
NoChange ==
    /\ pc = "nochange"
    /\ LET clear == ~ run.moved /\ q.status = "queued_local"
           q1 == IF clear THEN [q EXCEPT !.status = "idle", !.hints = {}] ELSE q
       IN  /\ q' = q1
           /\ st' = IF ~ run.moved /\ st.head = st.main /\ q1.status # "queued_local"
                    THEN [st EXCEPT !.label = "Synced"] ELSE st
    /\ IF main # st.main THEN pc' = "pull" /\ run' = run ELSE Done
    /\ UNCHANGED <<rest, file, editor, ref, prov, jr, ack>>

-----------------------------------------------------------------------------
(* Proposing the queued commit. *)

\* The server's ref of this device is adopted when it is an ancestor of the
\* proposal: an earlier answer was lost.
Adopted == IF IsAncestor(devRef, q.pending) THEN devRef ELSE st.sref

\* The server answers a proposal of d; the answer may be lost.
Answer(res, received) ==
    IF received
    THEN /\ run' = [run EXCEPT !.result = res, !.base = main']
         /\ pc' = "result" /\ losses' = losses
         /\ st' = Guarded([st EXCEPT !.sref = Adopted, !.label = "Uploading"])
         /\ q' = q
    ELSE /\ losses < MaxLosses /\ losses' = losses + 1
         /\ Done
         /\ st' = Guarded([st EXCEPT !.sref = Adopted, !.label = "Out of sync"])
         /\ q' = [q EXCEPT !.status = "queued_local"]

PushIntegrated(received) ==
    LET d == q.pending
    IN  /\ pc = "push" /\ conflict = 0 /\ IsAncestor(devRef, d) /\ ~ IsAncestor(d, main)
        /\ devRef' = d
        /\ LET ff == IsAncestor(main, d) /\ MergedTree(d, q.base) = Tree(d)
           IN  /\ commits' = IF ff THEN commits
                             ELSE Commit(MergedTree(d, q.base), {main, d})
               /\ main' = IF ff THEN d ELSE Next1
        /\ Answer("merged", received)
        /\ UNCHANGED <<conflict, file, editor, ref, prov, jr, ack, notes, left, crashes>>

PushConflicted(received) ==
    LET d == q.pending
    IN  /\ pc = "push" /\ conflict = 0 /\ IsAncestor(devRef, d) /\ ~ IsAncestor(d, main)
        /\ Divergent(d, q.base)
        /\ devRef' = d /\ conflict' = d /\ main' = main
        /\ Answer("conflicted", received)
        /\ UNCHANGED <<commits, file, editor, ref, prov, jr, ack, notes, left, crashes>>

\* Mutant: the retry of a proposal the server has integrated is taken for a
\* proposal on a foreign ref.
PushAgainForgets(received) ==
    LET d == q.pending
        known == conflict = d
    IN  /\ pc = "push"
        /\ known \/ conflict # 0 \/ IsAncestor(d, main) \/ ~ IsAncestor(devRef, d)
        /\ UNCHANGED server
        /\ IF known THEN Answer("conflicted", received)
           ELSE received /\ st' = Blocked("diverged") /\ Done /\ UNCHANGED <<q, losses>>
        /\ UNCHANGED <<commits, file, editor, ref, prov, jr, ack, notes, left, crashes>>

\* The server already has the commit: a retry after a lost answer, or a
\* review that is open or was resolved meanwhile.  A device ref that is not an
\* ancestor, or another open review, blocks the device.
PushAgain(received) ==
    LET d == q.pending
        known == conflict = d \/ IsAncestor(d, main)
    IN  /\ pc = "push" /\ (known \/ conflict # 0 \/ ~ IsAncestor(devRef, d))
        /\ UNCHANGED server
        /\ IF known
           THEN Answer(IF conflict = d THEN "conflicted" ELSE "noop", received)
           ELSE received /\ st' = Blocked("diverged") /\ Done /\ UNCHANGED <<q, losses>>
        /\ UNCHANGED <<commits, file, editor, ref, prov, jr, ack, notes, left, crashes>>

\* recordStaleProposalResult
ResultRecorded ==
    /\ pc = "result"
    /\ LET acc == IF run.result = "conflicted" THEN prov.acc
                  ELSE [commit |-> q.pending, base |-> q.base]
           pr == [prov EXCEPT !.acc = acc,
                              !.intent = [@ EXCEPT !.outcome = run.result, !.main = run.base]]
       IN  IF q.base = 0
           THEN prov' = [prov EXCEPT !.acc = acc] /\ pc' = "rqueue" /\ run' = run
           ELSE IF prov.intent.commit # q.pending
           THEN prov' = prov /\ Done
           ELSE /\ prov' = IF run.result = "conflicted"
                           THEN Retire(pr, DOMAIN prov.intent.caps, 0) ELSE pr
                /\ pc' = "rqueue" /\ run' = run
    /\ UNCHANGED <<rest, file, editor, st, q, ref, jr, ack>>

ResultQueued ==
    /\ pc = "rqueue"
    /\ run' = [run EXCEPT !.commit = q.pending]
    /\ q' = IF run.result = "conflicted" THEN [q EXCEPT !.status = "conflicted"]
            ELSE [pending |-> 0, base |-> 0, hints |-> q.hints,
                  status |-> IF q.hints # {} THEN "queued_local"
                             ELSE IF run.result = "merged" THEN "merged" ELSE "idle"]
    /\ pc' = "rstate"
    /\ UNCHANGED <<rest, file, editor, st, ref, prov, jr, ack>>

ResultState ==
    /\ pc = "rstate"
    /\ IF run.result = "conflicted"
       THEN /\ st' = Guarded([st EXCEPT !.sref = run.commit, !.label = "Review",
                                        !.err = "review"])
            /\ Done
       ELSE /\ st' = Guarded([st EXCEPT !.sref = run.commit, !.head = run.commit,
                    !.label = IF q.hints # {} THEN "Checking"
                              ELSE IF run.base # st.main THEN "Behind" ELSE "Synced"])
            /\ pc' = "pull" /\ run' = run
    /\ UNCHANGED <<rest, file, editor, q, ref, prov, jr, ack>>

\* pollRemoteEventsAndApply of a device under review: the resolution is an
\* event of the server.
BlockedPoll ==
    /\ pc = "idle" /\ st.err = "review" /\ conflict = 0
    /\ st' = [st EXCEPT !.err = "none", !.label = "Behind"]
    /\ pc' = "pull" /\ run' = [NoRun EXCEPT !.ret = "sync"]
    /\ UNCHANGED <<rest, file, editor, q, ref, prov, jr, ack>>

-----------------------------------------------------------------------------
(* Applying the server's main. *)

\* The target is pinned by the pull; buffers reach the disk once more; a
\* queued proposal that is not under review goes first.  An acknowledgement
\* that is still pending was settled by initialize, a device under review has
\* none: the retry of the pull and of the apply finds nothing to send.
Pull ==
    /\ pc = "pull"
    /\ FlushBuffers
    /\ IF q.pending # 0 /\ q.status # "conflicted"
       THEN /\ st' = [st EXCEPT !.label = "Ahead"] /\ Done
       ELSE /\ pc' = "apply" /\ st' = st
            /\ run' = [run EXCEPT !.target = main, !.ret = "apply"]
    /\ UNCHANGED <<rest, q, ref, prov, jr, ack>>

\* The proposal whose acceptance the target may carry.
AcceptedProposal == IF q.pending # 0 THEN [commit |-> q.pending, base |-> q.base]
                    ELSE prov.acc

FromAccepted(t) ==
    LET a == AcceptedProposal
    IN  /\ a.commit # 0 /\ st.head = a.commit
        /\ IsAncestor(a.commit, t) /\ ~ IsAncestor(a.commit, st.main)
        /\ prov.intent.commit = a.commit => a.base = prov.intent.base

Parent(c) == CHOOSE k \in Anc(c) \ {c} : Anc(c) = Anc(k) \cup {c}

\* staleCohortPathHasOlderEvidence
OlderEvidence(pr, p, a) ==
    \/ \E b \in Evidence(pr, p) : ~ (IsAncestor(a.base, b) /\ IsAncestor(b, a.commit))
    \/ pr.intent.commit # a.commit /\ p \in DOMAIN pr.intent.caps

\* preApplyAuthoringBase of an accepted cohort: where the target carries its
\* bytes, continued edits derive from the cohort, elsewhere from its base.
Rebased(pr, a, t) ==
    LET cohort == Differ(Tree(Parent(a.commit)), Tree(a.commit))
        carried(p) == /\ pr.acc.commit = a.commit
                      /\ Tree(a.commit)[p] = Tree(t)[p]
                      /\ ~ OlderEvidence(pr, p, a)
        moved == {p \in cohort : carried(p)}
    IN  [pr EXCEPT
          !.obl = [p \in Paths |->
             IF p \notin cohort THEN @[p]
             ELSE IF p \in moved THEN [@[p] EXCEPT !.base = a.commit]
             ELSE IF @[p].base = 0 THEN [NoObligation EXCEPT !.base = a.base]
             ELSE IF IsAncestor(a.base, @[p].base) THEN [@[p] EXCEPT !.base = a.base]
             ELSE @[p]],
          !.hor = {IF h.path \in moved THEN [h EXCEPT !.base = a.commit] ELSE h : h \in @}]

\* applyTargetMain up to the authoring base
ApplyBase ==
    /\ pc = "apply"
    /\ IF st.main = run.target
       THEN /\ ack' = run.target
            /\ st' = [st EXCEPT !.label = "Synced"]
            /\ pc' = "ack" /\ UNCHANGED <<prov, run>>
       ELSE /\ LET a == AcceptedProposal
                   from == FromAccepted(run.target)
               IN  /\ run' = [run EXCEPT !.base = IF from THEN a.commit ELSE st.main,
                          !.clean = /\ \A p \in Paths : prov.obl[p].base = 0
                                    /\ prov.intent.base = 0
                                         \/ prov.intent.outcome \in {"merged", "noop"}]
                   /\ prov' = IF from /\ a.base # 0 THEN Rebased(prov, a, run.target)
                              ELSE prov
            /\ st' = [st EXCEPT !.label = "Applying"]
            /\ pc' = "plan" /\ ack' = ack
    /\ UNCHANGED <<rest, file, editor, q, ref, jr>>

\* refOnlyApplyEligible: the base has the target's tree and the files show it.
RefOnly ==
    /\ run.clean /\ st.head = run.base /\ q.hints = {}
    /\ Tree(run.base) = Tree(run.target)
    /\ \A p \in Differ(Tree(st.main), Tree(run.target))
                \cup {k \in Paths : prov.obl[k].base # 0} :
          file[p] = Tree(run.target)[p]

\* The journal and the preflight image of what the apply will change.
Plan ==
    /\ pc = "plan"
    /\ LET t == Tree(run.target)
           j == [NoJournal EXCEPT !.target = run.target, !.base = run.base,
                                  !.prior = st.main, !.sref = st.sref, !.pre = file]
           affected == Differ(Tree(run.base), t)
           known(p) == file[p] \in {t[p], Tree(st.head)[p], Tree(st.main)[p], Tree(st.sref)[p]}
       IN  IF RefOnly
           THEN /\ jr' = [j EXCEPT !.phase = "committed"]
                /\ run' = [run EXCEPT !.ret = "refonly", !.snap = t]
                /\ pc' = "refs"
           ELSE /\ jr' = [j EXCEPT !.phase = "planned", !.affected = affected,
                                   !.deferred = {p \in affected : ~ known(p)},
                                   !.touched = {p \in affected : file[p] # t[p]}]
                /\ pc' = "retain" /\ run' = run
    /\ UNCHANGED <<rest, file, editor, st, q, ref, prov, ack>>

Retain ==
    /\ pc = "retain"
    /\ prov' = RetainApply(prov, jr, FALSE)
    /\ pc' = "bundle"
    /\ UNCHANGED <<rest, file, editor, st, q, ref, jr, ack, run>>

\* finalizeRecoveryBundle publishes by a rename; the bundle counts once the
\* journal names it.
Bundle ==
    /\ pc = "bundle"
    /\ jr' = IF jr.affected = {} THEN jr
             ELSE [jr EXCEPT !.bundle = Frozen(jr), !.phase = "bundled"]
    /\ pc' = "revalidate"
    /\ UNCHANGED <<rest, file, editor, st, q, ref, prov, ack, run>>

\* The first path that changed since the preflight is deferred.
Revalidate ==
    /\ pc = "revalidate"
    /\ LET changed == {p \in jr.affected \ jr.deferred : file[p] # jr.pre[p]}
       IN  \E S \in IF changed = {} THEN {{}} ELSE {{p} : p \in changed} :
             /\ jr' = [jr EXCEPT !.deferred = @ \cup S, !.phase = "writing"]
             /\ run' = [run EXCEPT !.todo = {p \in jr.affected \ (jr.deferred \cup S) :
                                               jr.pre[p] # Tree(jr.target)[p]}]
    /\ pc' = "write"
    /\ UNCHANGED <<rest, file, editor, st, q, ref, prov, ack>>

(* One file is compared with its preflight image, copied to the evidence of *)
(* the apply, and written; the files are worked on concurrently.  The copy  *)
(* is a second read, of what the file shows by then.                        *)

Deferred(p) ==
    LET j == [jr EXCEPT !.deferred = @ \cup {p}]
    IN  jr' = j /\ prov' = RetainApply(prov, j, FALSE)

\* The early return of the batch, and the first comparison of displaceApplyPath
CompareFile(p) ==
    LET written == jr.copy[p] # "none" /\ file[p] = Tree(jr.target)[p]
        same == ~ written /\ file[p] = jr.pre[p]
    IN  /\ pc = "write" /\ p \in run.todo \ run.seen
        /\ run' = IF same THEN [run EXCEPT !.seen = @ \cup {p}]
                  ELSE [run EXCEPT !.todo = @ \ {p}]
        /\ IF written \/ same THEN UNCHANGED <<jr, prov>> ELSE Deferred(p)
        /\ UNCHANGED <<rest, file, editor, st, q, ref, ack, pc>>

\* captureDisplacedCandidate
CopyFile(p) ==
    /\ p \in Copying
    /\ jr' = [jr EXCEPT !.copy[p] = IF file[p] = jr.pre[p] THEN "same" ELSE "edited"]
    /\ UNCHANGED <<rest, file, editor, st, q, ref, prov, ack, pc, run>>

\* Mutant: the file is written whatever it shows.
WriteFileBlind(p) ==
    /\ pc = "write" /\ p \in run.todo \cap run.seen /\ jr.copy[p] # "none"
    /\ run' = [run EXCEPT !.todo = @ \ {p}]
    /\ file' = [file EXCEPT ![p] = Tree(jr.target)[p]]
    /\ stale' = IF buf[p] # file'[p] THEN stale \cup {p} ELSE stale
    /\ events' = events \cup {p}
    /\ UNCHANGED <<rest, jr, prov, buf, saved, flushes, st, q, ref, ack, pc>>

\* Under the path gate: the file is written if its copy and what it shows are
\* the preflight image, deferred if not.
WriteFile(p) ==
    /\ pc = "write" /\ p \in run.todo \cap run.seen /\ jr.copy[p] # "none"
    /\ run' = [run EXCEPT !.todo = @ \ {p}]
    /\ IF jr.copy[p] = "same" /\ file[p] = jr.pre[p]
       THEN /\ file' = [file EXCEPT ![p] = Tree(jr.target)[p]]
            /\ stale' = IF buf[p] # file'[p] THEN stale \cup {p} ELSE stale
            /\ events' = events \cup {p}
            /\ UNCHANGED <<jr, prov>>
       ELSE Deferred(p) /\ UNCHANGED <<file, stale, events>>
    /\ UNCHANGED <<rest, buf, saved, flushes, st, q, ref, ack, pc>>

\* Affected paths that do not show the target are deferred; the horizon runs
\* from here.
Verify ==
    /\ pc = "write" /\ run.todo = {}
    /\ LET j == [jr EXCEPT !.deferred = @ \cup
                    {p \in jr.affected : file[p] # Tree(jr.target)[p]}]
       IN  jr' = j /\ prov' = RetainApply(prov, j, TRUE)
    /\ pc' = "tflush"
    /\ UNCHANGED <<rest, file, editor, st, q, ref, ack, run>>

TailFlush ==
    /\ pc = "tflush"
    /\ FlushBuffers
    /\ pc' = "tsnap" /\ run' = [run EXCEPT !.moved = FALSE]
    /\ UNCHANGED <<rest, st, q, ref, prov, jr, ack>>

\* captureStableLocalChanges
TailCapture ==
    /\ pc = "tsnap"
    /\ LET kept == Differ(file, Tree(jr.target))
           j == IF run.ret = "apply" THEN [jr EXCEPT !.deferred = @ \cup kept] ELSE jr
       IN  /\ jr' = j
           /\ prov' = IF kept # {} /\ run.ret = "apply" THEN RetainApply(prov, j, FALSE) ELSE prov
    /\ run' = [run EXCEPT !.snap = file,
                          !.defer = run.moved \/ (run.ret = "apply" /\ q.hints # {})]
    /\ pc' = "refs"
    /\ UNCHANGED <<rest, file, editor, st, q, ref, ack>>

\* The files kept changing: nothing is captured, every path is hinted.
TailUnstable(p) ==
    /\ pc = "tsnap" /\ (run.moved \/ p \in events)
    /\ LET j == [jr EXCEPT !.deferred = @ \cup {p}]
       IN  jr' = j /\ prov' = RetainApply(prov, j, FALSE)
    /\ q' = Hinted(q, Paths) /\ inv' = FALSE
    /\ run' = [run EXCEPT !.snap = Tree(jr.target), !.defer = TRUE]
    /\ pc' = "refs"
    /\ UNCHANGED <<commits, server, raced, bounds, file, editor, st, ref, ack>>

\* captureTailPreservedChanges of a resumed tail
BootCapture ==
    /\ pc = "bsnap"
    /\ run' = [run EXCEPT !.snap = file]
    /\ pc' = "refs"
    /\ UNCHANGED <<rest, file, editor, st, q, ref, prov, jr, ack>>

\* Both refs are forced to the target, again by a recovery.
Refs ==
    /\ pc = "refs"
    /\ ref' = [main |-> run.target, local |-> run.target]
    /\ pc' = "commitj"
    /\ UNCHANGED <<rest, file, editor, st, q, prov, jr, ack, run>>

CommitJournal ==
    /\ pc = "commitj"
    /\ jr' = [jr EXCEPT !.phase = "committed"]
    /\ pc' = "astate"
    /\ UNCHANGED <<rest, file, editor, st, q, ref, prov, ack, run>>

Preserved == Differ(run.snap, Tree(run.target))

ApplyState ==
    /\ pc = "astate"
    /\ st' = Guarded([st EXCEPT !.main = run.target, !.head = run.target, !.err = "none",
          !.label = CASE run.ret = "refonly" -> IF q.hints # {} THEN "Checking" ELSE "Synced"
                      [] run.ret = "repair" -> IF Preserved # {} THEN "Ahead"
                                               ELSE IF run.defer THEN "Checking" ELSE "Synced"
                      [] run.ret = "apply" -> "Checking"
                      [] OTHER -> @])
    /\ pc' = IF run.ret = "refonly" THEN "ackw"
             ELSE IF Preserved # {} THEN "tqueue" ELSE AfterCapture
    /\ UNCHANGED <<rest, file, editor, q, ref, prov, jr, ack, run>>

\* queuePreservedLocalChanges, when the visible tree is what the server has
\* accepted, up to this apply's own writes: no second proposal is made.
OnlyAccepted ==
    /\ st.sref # run.target /\ prov.acc.base = 0
    /\ q.status = "merged" /\ q.pending = 0
    /\ \A p \in Paths :
         \/ run.snap[p] = Tree(st.sref)[p]
         \/ /\ p \in jr.affected /\ run.snap[p] = Tree(run.target)[p]
            /\ jr.sref = st.sref /\ jr.pre[p] = Tree(st.sref)[p]

TailAccepted ==
    /\ pc = "tqueue" /\ OnlyAccepted
    /\ LET exact == run.snap = Tree(st.sref)
           head == IF exact THEN st.sref ELSE Next1
       IN  /\ commits' = IF exact THEN commits ELSE Commit(run.snap, {ref.local})
           /\ ref' = [ref EXCEPT !.local = head]
           /\ st' = Guarded([st EXCEPT !.main = run.target, !.head = head,
                        !.label = IF q.hints # {} THEN "Checking" ELSE "Behind"])
    /\ pc' = AfterCapture
    /\ UNCHANGED <<server, notes, bounds, file, editor, q, prov, jr, ack, run>>

TailQueue ==
    /\ pc = "tqueue" /\ ~ OnlyAccepted
    /\ prov' = FinishApply(prov, jr)
    /\ pc' = "cohort"
    /\ UNCHANGED <<rest, file, editor, st, q, ref, jr, ack, run>>

\* The step that proves the tail's queue publication, and the final label.
TailStep ==
    /\ pc = "step"
    /\ jr' = [jr EXCEPT !.step = IF run.defer /\ Preserved = {} THEN "deferred" ELSE "queued"]
    /\ pc' = "ackw"
    /\ UNCHANGED <<rest, file, editor, st, q, ref, prov, ack, run>>

AckWrite ==
    /\ pc = "ackw"
    /\ st' = IF run.ret \notin {"apply", "resume"} THEN st
             ELSE [st EXCEPT !.err = "none",
                    !.label = IF q.status = "queued_local" /\ q.pending # 0 THEN "Ahead"
                              ELSE IF run.defer \/ jr.step = "deferred" THEN "Checking"
                              ELSE IF st.main = run.target /\ st.head = run.target
                              THEN "Synced" ELSE @]
    /\ ack' = run.target
    /\ pc' = "clear"
    /\ UNCHANGED <<rest, file, editor, q, ref, prov, jr, run>>

ClearJournal ==
    /\ pc = "clear"
    /\ prov' = FinishApply(prov, jr)
    /\ jr' = NoJournal
    /\ IF run.ret \in {"apply", "refonly"} THEN pc' = "ack" /\ run' = run ELSE Done
    /\ UNCHANGED <<rest, file, editor, st, q, ref, ack>>

\* Mutant: a status the queue's schema does not know.
SettleUnknown ==
    /\ pc = "settle"
    /\ q' = [q EXCEPT !.status = "settled"]
    /\ Done
    /\ UNCHANGED <<rest, file, editor, st, ref, prov, jr, ack>>

\* clearResolvedConflictQueue, settleAppliedQueue
Settle ==
    /\ pc = "settle"
    /\ q' = IF q.status = "conflicted"
            THEN [pending |-> 0, base |-> 0, status |-> "idle", hints |-> {}]
            ELSE IF q.status = "merged" /\ q.pending = 0 /\ st.head = st.main
            THEN [q EXCEPT !.status = "idle", !.hints = {}] ELSE q
    /\ Done
    /\ UNCHANGED <<rest, file, editor, st, ref, prov, jr, ack>>

\* retireElapsedCleanFileHorizons, in the background of an idle device
RetireHorizons ==
    LET old == {h \in prov.hor : h.ready}
    IN  /\ pc = "idle" /\ old # {}
        /\ jr = NoJournal /\ st.head = st.main /\ st.err = "none" /\ q.pending = 0
        /\ \A p \in Paths : prov.obl[p].base = 0
        /\ prov.intent.base = 0 \/ prov.intent.outcome \in {"merged", "noop"}
        /\ FlushBuffers
        /\ prov' = IF \A h \in old : file'[h.path] = Tree(st.main)[h.path]
                   THEN [prov EXCEPT !.hor = @ \ old] ELSE prov
        /\ UNCHANGED <<rest, st, q, ref, jr, ack, pc, run>>

-----------------------------------------------------------------------------

EngineStep ==
    \/ InitClean \/ InitJournal \/ Rewrite \/ AckSend(TRUE)
    \/ Flush \/ RepairRef \/ Reconcile \/ CaptureFull
    \/ Cohort \/ Classify \/ Intent \/ CohortRef
    \/ IntentCommitted \/ IntentQueued \/ IntentState
    \/ Ordinary \/ OrdinaryQueued \/ OrdinaryState \/ NoChange
    \/ PushIntegrated(TRUE) \/ PushAgain(TRUE)
    \/ ResultRecorded \/ ResultQueued \/ ResultState
    \/ Pull \/ ApplyBase \/ Plan \/ Retain \/ Bundle \/ Revalidate
    \/ \E p \in Paths : CompareFile(p) \/ CopyFile(p) \/ WriteFile(p)
    \/ Verify \/ TailFlush \/ TailCapture \/ BootCapture
    \/ Refs \/ CommitJournal \/ ApplyState \/ TailAccepted \/ TailQueue
    \/ TailStep \/ AckWrite \/ ClearJournal \/ Settle

Environment ==
    \/ \E p \in Paths, e \in Edits : Type(p, e) \/ RemotePush(p, e)
    \/ \E p \in Paths : Save(p) \/ Reload(p) \/ TailUnstable(p)
    \/ Watch
    \/ \E i \in {h.id : h \in prov.hor} : Elapse(i)
    \/ \E both \in BOOLEAN : Resolve(both)

Next ==
    \/ SyncStart \/ Start \/ BlockedPoll \/ RetireHorizons
    \/ EngineStep \/ CaptureHinted
    \/ \E r \in BOOLEAN : PushConflicted(r)
    \/ PushIntegrated(FALSE) \/ PushAgain(FALSE) \/ AckSend(FALSE)
    \/ Crash \/ Environment

Fairness ==
    /\ WF_vars(EngineStep) /\ WF_vars(SyncStart) /\ WF_vars(Start) /\ WF_vars(BlockedPoll)
    /\ WF_vars(Watch)
    /\ \A p \in Paths : WF_vars(Save(p)) /\ WF_vars(Reload(p))
    /\ \A i \in 0 .. 9 : WF_vars(Elapse(i))
    /\ WF_vars(\E both \in BOOLEAN : Resolve(both))

Spec == Init /\ [][Next]_vars
FairSpec == Spec /\ Fairness

-----------------------------------------------------------------------------

Labels == {"Synced", "Checking", "Ahead", "Behind", "Review", "Uploading",
           "Out of sync", "Applying", "blocked"}

TypeOK ==
    /\ main \in DOMAIN commits /\ devRef \in DOMAIN commits
    /\ conflict \in {0} \cup DOMAIN commits
    /\ \A c \in DOMAIN commits : Anc(c) \subseteq 1 .. c
    /\ file \in [Paths -> SUBSET Edits] /\ buf \in [Paths -> SUBSET Edits]
    /\ {st.main, st.head, st.sref, ref.main, ref.local} \subseteq DOMAIN commits
    /\ st.label \in Labels
    /\ q.pending \in {0} \cup DOMAIN commits
    /\ q.status \in {"idle", "queued_local", "merged", "conflicted"}
    /\ ack \in {0} \cup DOMAIN commits
    /\ jr.copy \in [Paths -> {"none", "same", "edited", "torn"}]

\* Every edit the user saved is in a visible file, behind a ref, queued, or
\* in the history of the server's main or review: no apply, crash or retry
\* overwrites the only copy (the preflight image and the path gate of
\* writeTargetFiles, the deferred paths of the apply journal).
NoEditLost ==
    \A p \in Paths : \A e \in saved[p] :
        \/ e \in file[p]
        \/ \E c \in UNION {Anc(k) : k \in {main, st.head, ref.local, devRef}
                              \cup ({q.pending} \ {0})} : e \in Tree(c)[p]

\* No crash, lost answer or race leads the device to a head or a proposal that
\* does not descend from what the server has accepted of it, where it refuses
\* to go on (reconcileQueueWithLocalHead, the compare and swap of the device
\* ref at the server).
NeverDiverged == st.err # "diverged"

\* A restart that refuses the apply journal it finds does so for a displaced
\* copy that is not the preflight image, and for nothing else: wherever a kill
\* falls, the journal agrees with state.json, the main ref, the acknowledgement
\* and its recovery bundle (applyRecoveryValidationReason).
RefusedForCopyOnly == st.err = "recovery" => Spoiled # {}


\* The same for every path, as the safety contract states it: a save under a
\* horizon never replaces main as a fresh fast-forward.  Ordinary reads the
\* files again after the classification of an earlier read.
NeverReverted ==
    [][\A p \in Paths : Tree(main)[p] \subseteq commits'[main'].tree[p]]_vars

\* A device that shows Synced and is idle shows main, but for the paths the
\* watcher has yet to report or has reported.
SyncedIsTrue ==
    pc = "idle" /\ st.label = "Synced" =>
        \A p \in Paths \ (events \cup q.hints) : file[p] = Tree(st.main)[p]

\* What reaches a visible file is integrated, or its review is settled.
Integrated ==
    \A p \in Paths : \A e \in LocalEdits :
        e \in saved[p] ~> \E c \in Anc(main) : e \in Tree(c)[p]

=============================================================================
