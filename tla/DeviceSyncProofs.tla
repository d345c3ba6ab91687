-------------------------- MODULE DeviceSyncProofs --------------------------
(***************************************************************************)
(* Proofs about DeviceSync, for any set of files and edits and any number  *)
(* of crashes, lost answers and flushes.                                   *)
(***************************************************************************)
EXTENDS DeviceSync, SequenceTheorems, TLAPS

Trees == [Paths -> SUBSET Edits]
Node == DOMAIN commits
None == {0} \cup Node

\* The history: commits are typed, and ancestry is reflexive, transitive and
\* never points forward.
GitTyped == commits \in Seq([tree : Trees, anc : SUBSET Nat])

GitAncestry ==
  \A c \in Node :
    /\ c \in Anc(c) /\ Anc(c) \subseteq 1 .. c
    /\ \A a \in Anc(c) : Anc(a) \subseteq Anc(c)

Git == GitTyped /\ GitAncestry

\* The commits the server keeps, and the local edits they show of a path.
Server == Anc(main) \cup Anc(devRef)
Local(c, p) == Tree(c)[p] \cap LocalEdits
Served(p) == {e \in LocalEdits : \E c \in Server : e \in Tree(c)[p]}

\* The commit objects and the server only ever grow.
Grows ==
  /\ Node \subseteq Node'
  /\ \A c \in Node : commits'[c] = commits[c]
  /\ Anc(main) \subseteq Anc(main)'
  /\ Server \subseteq Server'

-----------------------------------------------------------------------------

LEMMA NodeRange ==
  ASSUME GitTyped
  PROVE  /\ Len(commits) \in Nat /\ Node = 1 .. Len(commits)
         /\ Next1 = Len(commits) + 1 /\ Next1 \notin Node /\ 0 \notin Node
         /\ Next1 \in Nat /\ Next1 # 0
         /\ \A c \in Node : Tree(c) \in Trees /\ c \in Nat
<1> DEFINE S == [tree : Trees, anc : SUBSET Nat]
<1>1. Len(commits) \in Nat /\ Node = 1 .. Len(commits) /\ \A c \in Node : commits[c] \in S
  BY LenProperties, ElementOfSeq DEF GitTyped, Node
<1>2. \A c \in Node : Tree(c) \in Trees
  BY <1>1 DEF Tree
<1> QED BY <1>1, <1>2 DEF Next1

LEMMA AncNode ==
  ASSUME Git, NEW c \in Node
  PROVE  c \in Anc(c) /\ Anc(c) \subseteq Node /\ (\A a \in Anc(c) : Anc(a) \subseteq Anc(c))
<1>1. c \in Nat /\ Len(commits) \in Nat /\ Node = 1 .. Len(commits)
  BY NodeRange DEF Git
<1>2. Anc(c) \subseteq 1 .. c
  BY DEF Git, GitAncestry
<1>3. 1 .. c \subseteq Node
  BY <1>1
<1> QED BY <1>2, <1>3 DEF Git, GitAncestry

\* A commit appends one object whose history is its own and its parents'.
LEMMA CommitGrows ==
  ASSUME Git, NEW tree \in Trees, NEW parents \in SUBSET Node,
         commits' = Commit(tree, parents)
  PROVE  /\ GitTyped' /\ Node' = Node \cup {Next1}
         /\ \A c \in Node : commits'[c] = commits[c]
         /\ commits'[Next1].tree = tree
         /\ commits'[Next1].anc = {Next1} \cup UNION {Anc(c) : c \in parents}
<1> DEFINE r == [tree |-> tree, anc |-> {Next1} \cup UNION {Anc(c) : c \in parents}]
           S == [tree : Trees, anc : SUBSET Nat]
<1>1. Next1 \in Nat /\ Len(commits) \in Nat /\ Node = 1 .. Len(commits) /\ Next1 = Len(commits) + 1
  BY NodeRange DEF Git
<1>2. \A c \in parents : Anc(c) \subseteq Nat
  BY <1>1, AncNode
<1>3. r \in S
  BY <1>1, <1>2
<1>4. commits' = Append(commits, r) /\ commits \in Seq(S)
  BY DEF Commit, Git, GitTyped
<1> HIDE DEF r, S
<1>5. /\ commits' \in Seq(S) /\ Len(commits') = Len(commits) + 1
      /\ \A i \in 1 .. Len(commits) : commits'[i] = commits[i]
      /\ commits'[Len(commits) + 1] = r
  BY <1>3, <1>4, AppendProperties
<1>6. DOMAIN commits' = 1 .. Len(commits')
  BY <1>5, LenProperties
<1> QED BY <1>1, <1>5, <1>6 DEF GitTyped, Node, r, S

LEMMA CommitAncestry ==
  ASSUME Git, NEW tree \in Trees, NEW parents \in SUBSET Node,
         commits' = Commit(tree, parents)
  PROVE  Git'
<1>1. /\ GitTyped' /\ Node' = Node \cup {Next1}
      /\ \A c \in Node : commits'[c] = commits[c]
      /\ commits'[Next1].anc = {Next1} \cup UNION {Anc(c) : c \in parents}
  BY CommitGrows
<1>2. /\ Len(commits) \in Nat /\ Node = 1 .. Len(commits) /\ Next1 = Len(commits) + 1
  BY NodeRange DEF Git
<1>3. \A c \in Node : Anc(c)' = Anc(c)
  BY <1>1 DEF Anc
<1>4. ASSUME NEW c \in Node
      PROVE  /\ c \in Anc(c)' /\ Anc(c)' \subseteq 1 .. c
             /\ \A a \in Anc(c)' : Anc(a)' \subseteq Anc(c)'
  <2>1. Anc(c) \subseteq Node
    BY AncNode
  <2> QED BY <2>1, <1>3 DEF Git, GitAncestry
<1>5. commits'[Next1].anc \subseteq {Next1} \cup Node
  BY <1>1, AncNode
<1>6. commits'[Next1].anc \subseteq 1 .. Next1
  BY <1>2, <1>5
<1>7. ASSUME NEW a \in commits'[Next1].anc
      PROVE  commits'[a].anc \subseteq commits'[Next1].anc
  <2>1. CASE a = Next1
    BY <2>1
  <2>2. CASE a # Next1
    <3>1. PICK c \in parents : a \in Anc(c)
      BY <2>2, <1>1
    <3>2. a \in Node /\ Anc(a) \subseteq Anc(c)
      BY <3>1, AncNode
    <3>3. commits'[a].anc = Anc(a)
      BY <3>2, <1>1 DEF Anc
    <3> QED BY <3>1, <3>2, <3>3, <1>1
  <2> QED BY <2>1, <2>2
<1>8. Next1 \in commits'[Next1].anc
  BY <1>1
<1>9. ASSUME NEW c \in Node'
      PROVE  /\ c \in Anc(c)' /\ Anc(c)' \subseteq 1 .. c
             /\ \A a \in Anc(c)' : Anc(a)' \subseteq Anc(c)'
  <2>1. CASE c \in Node
    BY <2>1, <1>4
  <2>2. CASE c = Next1
    BY <2>2, <1>6, <1>7, <1>8 DEF Anc
  <2> QED BY <2>1, <2>2, <1>1
<1> QED BY <1>1, <1>9 DEF Git, GitAncestry

-----------------------------------------------------------------------------
(* The inductive invariant.  First the shapes of the state.                *)

Codes == {"none", "review", "diverged", "recovery", "unfinished"}
Marks == {"none", "same", "edited", "torn"}
Statuses == {"idle", "queued_local", "merged", "conflicted"}

ServerTyped == main \in Node /\ devRef \in Node /\ conflict \in None
StateTyped == st \in [main : Node, head : Node, sref : Node, label : Labels, err : Codes]
QueueTyped ==
  /\ DOMAIN q = {"pending", "base", "status", "hints"}
  /\ q.pending \in None /\ q.status \in Statuses
RefTyped == ref \in [main : Node, local : Node]
FilesTyped ==
  /\ file \in Trees /\ buf \in Trees
  /\ saved \in [Paths -> SUBSET LocalEdits]
ProvTyped ==
  /\ DOMAIN prov = {"hor", "obl", "intent", "acc"}
  /\ DOMAIN prov.intent = {"base", "parent", "tree", "commit", "caps", "outcome", "main"}
  /\ prov.intent.commit \in None
JournalTyped ==
  /\ DOMAIN jr = {"target", "base", "prior", "sref", "phase", "affected", "touched", "pre",
                  "deferred", "step", "bundle", "copy"}
  /\ jr.target \in None /\ jr.affected \subseteq Paths /\ jr.copy \in [Paths -> Marks]
RunTyped ==
  /\ DOMAIN run = {"target", "snap", "base", "moved", "clean", "todo", "seen", "cohort",
                   "result", "ret", "commit", "defer"}
  /\ run.target \in None /\ run.commit \in None /\ run.snap \in Trees
AckTyped == ack \in None

\* What the engine holds where it is: the names of the phases are those of pc.
SyncPcs == {"ack0", "flush", "repair", "reconcile", "capture"}
PullPcs == {"apply", "plan"}
TailPcs == {"refs", "commitj", "astate"}
JournalPcs == {"retain", "bundle", "revalidate", "rewrite", "write", "tflush", "tsnap", "bsnap",
               "tqueue", "step"} \cup TailPcs
ScanPcs == {"cohort", "classify", "ordinary"}
CohortPcs == {"classify", "intent", "cref"}
CommitPcs == {"icommit", "iqueue"}
QueuedPcs == {"istate", "ostate"}
TargetPcs == PullPcs \cup (JournalPcs \ {"step"}) \cup ScanPcs \cup CohortPcs
CapturePcs == ScanPcs \cup CohortPcs \cup CommitPcs \cup QueuedPcs \cup {"oqueue"}

PhaseRun ==
  /\ pc = "init" => run.ret \in {"boot", "sync"}
  /\ pc \in SyncPcs => run.ret = "sync"
  /\ pc \in PullPcs \cup (JournalPcs \ {"step"}) => run.ret \notin {"sync", "recover"}
  /\ pc \in ScanPcs \cup CohortPcs => run.ret # "recover"
  /\ pc \in TargetPcs => run.target \in Anc(main)
  /\ pc \in CommitPcs \cup QueuedPcs \cup {"oqueue"} => run.commit \in Node
  /\ pc = "rstate" => run.commit \in Server

PhaseJournal ==
  /\ pc \in JournalPcs => jr.target # 0
  /\ pc \in JournalPcs => run.target = jr.target
  /\ pc \in CapturePcs /\ run.ret \notin {"sync", "recover"} =>
       jr.target # 0 /\ run.target = jr.target

\* An apply writes only paths whose preflight image the server has.
PhaseWrite ==
  /\ pc \in {"retain", "bundle", "revalidate"} => jr.phase \in {"planned", "bundled"}
  /\ pc \in {"rewrite", "write"} =>
       jr.phase \in {"bundled", "writing"} /\ run.todo \subseteq jr.affected \ jr.deferred

\* The queued commit, but for what the server has, shows nothing a tree lacks.
PendingIn(t) ==
  q.pending # 0 => \A p \in Paths : Local(q.pending, p) \subseteq Served(p) \cup t[p]

PhaseQueue ==
  /\ pc = "capture" => q.pending = 0
  /\ pc = "push" => q.pending # 0
  /\ pc \in PullPcs \cup CohortPcs => q.pending = 0 \/ q.pending \in Server
  /\ pc \in {"result", "rqueue"} => q.pending \in Server
  /\ pc \in CommitPcs => q.pending = 0 \/ q.pending \in Server \/ q.pending = run.commit
  /\ pc \in CommitPcs /\ run.ret = "recover" => q.pending \in {0, run.commit}
  /\ pc \in QueuedPcs => q.pending = run.commit

PhaseSnap ==
  /\ pc \in TailPcs => Preserved = {} \/ PendingIn(run.snap)
  /\ pc \in ScanPcs \cup {"tqueue"} => PendingIn(run.snap)
  /\ pc = "oqueue" => PendingIn(Tree(run.commit))

\* Commits, files and snapshots show only local edits that were saved.
TreesSaved == \A c \in Node, p \in Paths : Local(c, p) \subseteq saved[p]
FilesSaved == \A p \in Paths : file[p] \cap LocalEdits \subseteq saved[p]
SnapSaved == \A p \in Paths : run.snap[p] \cap LocalEdits \subseteq saved[p]

\* A saved edit the server lacks is in the visible file and in its buffer.
Held == \A p \in Paths : \A e \in saved[p] : e \in Served(p) \/ e \in file[p] \cap buf[p]

\* What the local head shows, the server has or the queue proposes.
HeadKept ==
  \A p \in Paths : Local(st.head, p) \subseteq
      Served(p) \cup (IF q.pending = 0 THEN {} ELSE Local(q.pending, p))

StateKnown == st.main \in Anc(main) /\ st.sref \in Server
ConflictKnown == conflict # 0 => conflict \in Server
JournalKnown == (jr = NoJournal \/ jr.target # 0) /\ (jr.target # 0 => jr.target \in Anc(main))
ReviewKnown == q.status = "conflicted" => q.pending = 0 \/ q.pending \in Server

JournalKept ==
  jr.phase # "committed" =>
    \A p \in jr.affected \ jr.deferred : jr.pre[p] \cap LocalEdits \subseteq Served(p)

Shapes ==
  /\ Git /\ ServerTyped /\ StateTyped /\ QueueTyped /\ RefTyped /\ FilesTyped
  /\ ProvTyped /\ JournalTyped /\ RunTyped /\ AckTyped

Phases == PhaseRun /\ PhaseJournal /\ PhaseWrite /\ PhaseQueue /\ PhaseSnap

Keeps ==
  /\ TreesSaved /\ FilesSaved /\ SnapSaved /\ Held /\ HeadKept /\ StateKnown
  /\ ConflictKnown /\ JournalKnown /\ ReviewKnown /\ JournalKept

DeviceInv == Shapes /\ Phases /\ Keeps

-----------------------------------------------------------------------------
(* What a step leaves alone stays true while the history grows.            *)

Grown == Grows /\ \A p \in Paths : Served(p) \subseteq Served(p)'

LEMMA ServerNodes ==
  ASSUME Git, ServerTyped
  PROVE  Anc(main) \subseteq Server /\ Server \subseteq Node /\ 0 \notin Server
         /\ main \in Anc(main) /\ devRef \in Server
BY AncNode, NodeRange DEF Server, ServerTyped, Git

LEMMA ServedTree ==
  ASSUME NEW c \in Server, NEW p \in Paths
  PROVE  Local(c, p) \subseteq Served(p)
BY DEF Local, Served

LEMMA GrowsServed ==
  ASSUME Git, ServerTyped, Grows
  PROVE  Grown
<1>1. Server \subseteq Node
  BY ServerNodes
<1>2. ASSUME NEW p \in Paths, NEW e \in Served(p)
      PROVE  e \in Served(p)'
  <2>1. PICK c \in Server : e \in Tree(c)[p]
    BY <1>2 DEF Served
  <2>2. c \in Server' /\ Tree(c)' = Tree(c)
    BY <2>1, <1>1 DEF Grows, Tree
  <2>3. e \in LocalEdits
    BY <1>2 DEF Served
  <2>4. e \in Tree(c)'[p]
    BY <2>1, <2>2
  <2> QED BY <2>2, <2>3, <2>4 DEF Served
<1> QED BY <1>2 DEF Grown

LEMMA StillGrown ==
  ASSUME Git, ServerTyped, UNCHANGED <<commits, main, devRef>>
  PROVE  Grown /\ Git' /\ (Server' = Server) /\ (Anc(main)' = Anc(main))
<1>1. Server' = Server /\ Anc(main)' = Anc(main)
  BY DEF Server, Anc
<1>2. Grows
  BY <1>1 DEF Grows, Node
<1>3. Git'
  BY DEF Git, GitTyped, GitAncestry, Node, Anc
<1> QED BY <1>1, <1>2, <1>3, GrowsServed

\* Trees and ancestors of old commits.
LEMMA OldCommits ==
  ASSUME Grown
  PROVE  /\ \A c \in Node : c \in Node' /\ Tree(c)' = Tree(c) /\ Anc(c)' = Anc(c)
         /\ \A c \in Node, p \in Paths : Local(c, p)' = Local(c, p)
         /\ \A c \in Server : c \in Server'
         /\ \A c \in Anc(main) : c \in Anc(main)'
         /\ \A p \in Paths : Served(p) \subseteq Served(p)'
         /\ None \subseteq None'
BY DEF Grown, Grows, Tree, Anc, Local, None

LEMMA ServerFrame ==
  ASSUME Grown, ServerTyped, UNCHANGED <<main, devRef, conflict>>
  PROVE  ServerTyped'
BY DEF Grown, Grows, ServerTyped, None

LEMMA StateFrame ==
  ASSUME Grown, StateTyped, st' = st
  PROVE  StateTyped'
BY DEF Grown, Grows, StateTyped

LEMMA QueueFrame ==
  ASSUME Grown, QueueTyped, q' = q
  PROVE  QueueTyped'
BY DEF Grown, Grows, QueueTyped, None

LEMMA RefFrame ==
  ASSUME Grown, RefTyped, ref' = ref
  PROVE  RefTyped'
BY DEF Grown, Grows, RefTyped

LEMMA FilesFrame ==
  ASSUME FilesTyped, UNCHANGED <<file, buf, saved>>
  PROVE  FilesTyped'
BY DEF FilesTyped

LEMMA ProvFrame ==
  ASSUME Grown, ProvTyped, prov' = prov
  PROVE  ProvTyped'
BY DEF Grown, Grows, ProvTyped, None

LEMMA JournalFrame ==
  ASSUME Grown, JournalTyped, jr' = jr
  PROVE  JournalTyped'
BY DEF Grown, Grows, JournalTyped, None

LEMMA RunFrame ==
  ASSUME Grown, RunTyped, run' = run
  PROVE  RunTyped'
BY DEF Grown, Grows, RunTyped, None

LEMMA AckFrame ==
  ASSUME Grown, AckTyped, ack' = ack
  PROVE  AckTyped'
BY DEF Grown, Grows, AckTyped, None

LEMMA PhaseRunFrame ==
  ASSUME Grown, PhaseRun, UNCHANGED <<pc, run>>
  PROVE  PhaseRun'
BY DEF Grown, Grows, PhaseRun

LEMMA PhaseJournalFrame ==
  ASSUME PhaseJournal, UNCHANGED <<pc, run, jr>>
  PROVE  PhaseJournal'
BY DEF PhaseJournal

LEMMA PhaseWriteFrame ==
  ASSUME PhaseWrite, UNCHANGED <<pc, run, jr>>
  PROVE  PhaseWrite'
BY DEF PhaseWrite

LEMMA PhaseQueueFrame ==
  ASSUME Grown, PhaseQueue, UNCHANGED <<pc, run, q>>
  PROVE  PhaseQueue'
BY DEF Grown, Grows, PhaseQueue

\* The queued commit stays within a tree, and a tree may be exchanged for one
\* that shows at least as much of what the server lacks.
LEMMA PendingFrame ==
  ASSUME Grown, QueueTyped, NEW t, NEW u, PendingIn(t), q'.pending \in {0, q.pending},
         \A p \in Paths : t[p] \subseteq u[p]
  PROVE  q'.pending # 0 => \A p \in Paths : Local(q.pending, p)' \subseteq Served(p)' \cup u[p]
<1>1. SUFFICES ASSUME q'.pending # 0, NEW p \in Paths
               PROVE  Local(q.pending, p)' \subseteq Served(p)' \cup u[p]
  OBVIOUS
<1>2. q'.pending = q.pending /\ q.pending \in Node
  BY <1>1 DEF QueueTyped, None
<1>3. Local(q.pending, p)' = Local(q.pending, p)
  BY <1>2 DEF Grown, Grows, Local, Tree
<1>4. Local(q.pending, p) \subseteq Served(p) \cup t[p]
  BY <1>1, <1>2 DEF PendingIn
<1> QED BY <1>3, <1>4 DEF Grown

LEMMA PhaseSnapFrame ==
  ASSUME Grown, Git, ServerTyped, QueueTyped, PhaseRun, PhaseSnap, pc' = pc,
         run'.snap = run.snap, run'.target = run.target, run'.commit = run.commit,
         q'.pending = q.pending
  PROVE  PhaseSnap'
<1>1. PendingIn(run.snap) => PendingIn(run.snap)'
  BY PendingFrame DEF PendingIn
<1>2. pc \in TailPcs => Preserved' = Preserved
  <2>1. SUFFICES ASSUME pc \in TailPcs PROVE Preserved' = Preserved
    OBVIOUS
  <2>2. run.target \in Node
    BY <2>1, ServerNodes DEF PhaseRun, TargetPcs, JournalPcs, TailPcs
  <2> QED BY <2>2 DEF Grown, Grows, Preserved, Differ, Tree
<1>3. pc = "oqueue" => PendingIn(Tree(run.commit))'
  <2>1. SUFFICES ASSUME pc = "oqueue" PROVE PendingIn(Tree(run.commit))'
    OBVIOUS
  <2>2. run.commit \in Node /\ PendingIn(Tree(run.commit))
    BY <2>1 DEF PhaseRun, PhaseSnap
  <2>3. Tree(run.commit)' = Tree(run.commit)
    BY <2>2 DEF Grown, Grows, Tree
  <2> QED BY <2>2, <2>3, PendingFrame DEF PendingIn
<1> QED BY <1>1, <1>2, <1>3 DEF PhaseSnap

\* What the proofs of single steps need of the shapes and of the history.
StepFacts ==
  /\ st.main \in Node /\ st.head \in Node /\ st.sref \in Node
  /\ DOMAIN st = {"main", "head", "sref", "label", "err"}
  /\ st.label \in Labels /\ st.err \in Codes
  /\ ref.main \in Node /\ ref.local \in Node /\ DOMAIN ref = {"main", "local"}
  /\ main \in Node /\ devRef \in Node /\ main \in Anc(main) /\ 0 \notin Node
  /\ DOMAIN q = {"pending", "base", "status", "hints"} /\ q.pending \in None
  /\ DOMAIN jr = {"target", "base", "prior", "sref", "phase", "affected", "touched", "pre",
                  "deferred", "step", "bundle", "copy"}
  /\ DOMAIN run = {"target", "snap", "base", "moved", "clean", "todo", "seen", "cohort",
                   "result", "ret", "commit", "defer"}
  /\ run.target \in None /\ run.commit \in None /\ run.snap \in Trees
  /\ jr.target \in None /\ file \in Trees /\ buf \in Trees
  /\ saved \in [Paths -> SUBSET LocalEdits]
  /\ \A c \in Node : c \in Node' /\ Tree(c)' = Tree(c) /\ Anc(c)' = Anc(c) /\ Tree(c) \in Trees
  /\ \A c \in Server : c \in Server' /\ c \in Node
  /\ \A c \in Anc(main) : c \in Anc(main)' /\ c \in Server
  /\ \A p \in Paths : Served(p) \subseteq Served(p)'
  /\ \A c \in None : c \in None' /\ (c # 0 => c \in Node)
  /\ \A c \in Node : c \in None

LEMMA Facts ==
  ASSUME Grown, Shapes
  PROVE  StepFacts
<1>1. st.main \in Node /\ st.head \in Node /\ st.sref \in Node /\ ref.main \in Node
      /\ ref.local \in Node /\ DOMAIN ref = {"main", "local"}
      /\ DOMAIN st = {"main", "head", "sref", "label", "err"}
      /\ st.label \in Labels /\ st.err \in Codes
  BY DEF Shapes, StateTyped, RefTyped
<1>2. main \in Node /\ devRef \in Node /\ main \in Anc(main) /\ 0 \notin Node
      /\ \A c \in Server : c \in Server' /\ c \in Node
  BY ServerNodes, OldCommits, NodeRange DEF Shapes, ServerTyped, Git
<1>3. \A c \in Anc(main) : c \in Anc(main)' /\ c \in Server
  BY ServerNodes, OldCommits DEF Shapes
<1>4. /\ \A c \in Node : c \in Node' /\ Tree(c)' = Tree(c) /\ Anc(c)' = Anc(c) /\ Tree(c) \in Trees
      /\ \A p \in Paths : Served(p) \subseteq Served(p)'
      /\ \A c \in None : c \in None' /\ (c # 0 => c \in Node)
      /\ \A c \in Node : c \in None
  BY OldCommits, NodeRange DEF Shapes, Git, None
<1>5. /\ DOMAIN q = {"pending", "base", "status", "hints"} /\ q.pending \in None
      /\ jr.target \in None /\ file \in Trees /\ buf \in Trees
      /\ DOMAIN jr = {"target", "base", "prior", "sref", "phase", "affected", "touched", "pre",
                      "deferred", "step", "bundle", "copy"}
      /\ saved \in [Paths -> SUBSET LocalEdits]
  BY DEF Shapes, QueueTyped, JournalTyped, FilesTyped
<1>6. /\ DOMAIN run = {"target", "snap", "base", "moved", "clean", "todo", "seen", "cohort",
                       "result", "ret", "commit", "defer"}
      /\ run.target \in None /\ run.commit \in None /\ run.snap \in Trees
  BY DEF Shapes, RunTyped
<1> QED BY <1>1, <1>2, <1>3, <1>4, <1>5, <1>6 DEF StepFacts

LEMMA TreesFrame ==
  ASSUME TreesSaved, UNCHANGED <<commits, saved>>
  PROVE  TreesSaved'
BY DEF TreesSaved, Node, Local, Tree

LEMMA FilesSavedFrame ==
  ASSUME FilesSaved, UNCHANGED <<file, saved>>
  PROVE  FilesSaved'
BY DEF FilesSaved

LEMMA SnapFrame ==
  ASSUME SnapSaved, UNCHANGED <<run, saved>>
  PROVE  SnapSaved'
BY DEF SnapSaved

LEMMA HeldFrame ==
  ASSUME Grown, Held, UNCHANGED <<file, buf, saved>>
  PROVE  Held'
BY DEF Grown, Held

LEMMA HeadFrame ==
  ASSUME Grown, HeadKept, QueueTyped, StateTyped, st'.head = st.head, q'.pending = q.pending
  PROVE  HeadKept'
<1>1. st.head \in Node /\ (q.pending # 0 => q.pending \in Node)
  BY DEF QueueTyped, StateTyped, None
<1>2. ASSUME NEW p \in Paths
      PROVE  /\ Local(st.head, p)' = Local(st.head, p)
             /\ q.pending # 0 => Local(q.pending, p)' = Local(q.pending, p)
  BY <1>1 DEF Grown, Grows, Local, Tree
<1> QED BY <1>2 DEF HeadKept, Grown

LEMMA StateKnownFrame ==
  ASSUME Grown, StateKnown, st'.main = st.main, st'.sref = st.sref
  PROVE  StateKnown'
BY DEF Grown, Grows, StateKnown

LEMMA ConflictFrame ==
  ASSUME Grown, ConflictKnown, conflict' = conflict
  PROVE  ConflictKnown'
BY DEF Grown, Grows, ConflictKnown

LEMMA JournalKnownFrame ==
  ASSUME Grown, JournalKnown, jr' = jr
  PROVE  JournalKnown'
BY DEF Grown, Grows, JournalKnown, NoJournal

LEMMA ReviewFrame ==
  ASSUME Grown, ReviewKnown, q' = q
  PROVE  ReviewKnown'
BY DEF Grown, Grows, ReviewKnown

LEMMA JournalKeptFrame ==
  ASSUME Grown, JournalTyped, JournalKept, jr' = jr
  PROVE  JournalKept'
BY DEF Grown, JournalKept, JournalTyped

-----------------------------------------------------------------------------
(* The operators of the engine. *)

StateRecords(N) == [main : N, head : N, sref : N, label : Labels, err : Codes]

\* A guarded write keeps each cursor or takes the new one.
LEMMA GuardedFields ==
  ASSUME NEW n
  PROVE  /\ DOMAIN Guarded(n) = {"main", "head", "sref", "label", "err"}
         /\ Guarded(n) = [main |-> Guarded(n).main, head |-> Guarded(n).head,
                          sref |-> Guarded(n).sref, label |-> Guarded(n).label,
                          err |-> Guarded(n).err]
         /\ Guarded(n).main \in {st.main, n.main}
         /\ Guarded(n).head \in {st.head, n.head}
         /\ Guarded(n).sref \in {st.sref, n.sref}
         /\ Guarded(n).label \in {st.label, n.label}
         /\ Guarded(n).err \in {st.err, n.err}
BY DEF Guarded

LEMMA GuardedTyped ==
  ASSUME NEW N, NEW n \in StateRecords(N), st \in StateRecords(N)
  PROVE  Guarded(n) \in StateRecords(N)
<1>1. PICK g : g = Guarded(n)
  OBVIOUS
<1>2. /\ g = [main |-> g.main, head |-> g.head, sref |-> g.sref, label |-> g.label,
              err |-> g.err]
      /\ g.main \in {st.main, n.main} /\ g.head \in {st.head, n.head}
      /\ g.sref \in {st.sref, n.sref} /\ g.label \in {st.label, n.label}
      /\ g.err \in {st.err, n.err}
  BY <1>1, GuardedFields
<1>3. g.main \in N /\ g.head \in N /\ g.sref \in N /\ g.label \in Labels /\ g.err \in Codes
  BY <1>2 DEF StateRecords
<1>4. [main |-> g.main, head |-> g.head, sref |-> g.sref, label |-> g.label, err |-> g.err]
        \in StateRecords(N)
  BY <1>3 DEF StateRecords
<1> QED BY <1>1, <1>2, <1>4

\* What is written to the provenance never touches the intent, but to drop it.
LEMMA RetainFields ==
  ASSUME NEW pr, DOMAIN pr = {"hor", "obl", "intent", "acc"}, NEW j, NEW m
  PROVE  /\ DOMAIN RetainApply(pr, j, m) = {"hor", "obl", "intent", "acc"}
         /\ RetainApply(pr, j, m).intent = pr.intent
BY DEF RetainApply

LEMMA RetireFields ==
  ASSUME NEW pr, DOMAIN pr = {"hor", "obl", "intent", "acc"}, NEW S, NEW i
  PROVE  /\ DOMAIN Retire(pr, S, i) = {"hor", "obl", "intent", "acc"}
         /\ Retire(pr, S, i).intent = pr.intent
BY DEF Retire, RetireInto

LEMMA ClassifiedFields ==
  ASSUME NEW pr, DOMAIN pr = {"hor", "obl", "intent", "acc"}, NEW t, NEW s
  PROVE  /\ DOMAIN Classified(pr, t, s) = {"hor", "obl", "intent", "acc"}
         /\ Classified(pr, t, s).intent = pr.intent
<1>1. PICK obl, ex, settled :
        Classified(pr, t, s) = Retire([pr EXCEPT !.obl = obl, !.hor = @ \ ex], settled, 0)
  BY DEF Classified
<1>2. PICK r : r = [pr EXCEPT !.obl = obl, !.hor = @ \ ex]
  OBVIOUS
<1>3. DOMAIN r = {"hor", "obl", "intent", "acc"} /\ r.intent = pr.intent
  BY <1>2
<1>4. Classified(pr, t, s) = Retire(r, settled, 0)
  BY <1>1, <1>2
<1> QED BY <1>3, <1>4, RetireFields

LEMMA RebasedFields ==
  ASSUME NEW pr, DOMAIN pr = {"hor", "obl", "intent", "acc"}, NEW a, NEW t
  PROVE  /\ DOMAIN Rebased(pr, a, t) = {"hor", "obl", "intent", "acc"}
         /\ Rebased(pr, a, t).intent = pr.intent
BY DEF Rebased

LEMMA FinishFields ==
  ASSUME NEW pr, DOMAIN pr = {"hor", "obl", "intent", "acc"}, NEW j
  PROVE  /\ DOMAIN FinishApply(pr, j) = {"hor", "obl", "intent", "acc"}
         /\ FinishApply(pr, j).intent \in {pr.intent, NoIntent}
<1>1. PICK r : r = RetainApply(pr, j, FALSE)
  OBVIOUS
<1>2. DOMAIN r = {"hor", "obl", "intent", "acc"} /\ r.intent = pr.intent
  BY <1>1, RetainFields
<1>3. PICK acc, S, w :
        \/ FinishApply(pr, j) = [r EXCEPT !.acc = acc,
                                   !.intent = IF q.status # "conflicted" THEN NoIntent ELSE @]
        \/ FinishApply(pr, j) = [w EXCEPT !.acc = acc, !.intent = NoIntent]
             /\ w = Retire(r, S, j.target)
        \/ FinishApply(pr, j) = [r EXCEPT !.acc = acc]
  BY <1>1 DEF FinishApply
<1>4. w = Retire(r, S, j.target) => DOMAIN w = {"hor", "obl", "intent", "acc"}
  BY <1>2, RetireFields
<1> QED BY <1>2, <1>3, <1>4

\* The provenance stays well-formed when its intent stays or goes.
LEMMA ProvKept ==
  ASSUME Grown, ProvTyped, DOMAIN prov' = {"hor", "obl", "intent", "acc"},
         prov'.intent \in {prov.intent, NoIntent}
  PROVE  ProvTyped'
<1>1. CASE prov'.intent = prov.intent
  BY <1>1 DEF ProvTyped, Grown, Grows, None
<1>2. CASE prov'.intent = NoIntent
  BY <1>2 DEF ProvTyped, NoIntent, None
<1> QED BY <1>1, <1>2

\* Buffers that reach the visible files: what was saved stays saved.
LEMMA BuffersKept ==
  ASSUME Grown, FilesTyped, Held, FilesSaved, NEW S, SaveBuffers(S)
  PROVE  /\ FilesTyped' /\ Held' /\ FilesSaved' /\ buf' = buf
         /\ \A p \in Paths : saved[p] \subseteq saved'[p]
<1>1. /\ buf' = buf
      /\ file' = [p \in Paths |-> IF p \in S THEN buf[p] ELSE file[p]]
      /\ saved' = [p \in Paths |-> IF p \in S THEN saved[p] \cup (buf[p] \cap LocalEdits)
                                   ELSE saved[p]]
  BY DEF SaveBuffers
<1>2. FilesTyped'
  BY <1>1 DEF FilesTyped, Trees
<1>3. Held'
  <2>1. SUFFICES ASSUME NEW p \in Paths, NEW e \in saved'[p]
                 PROVE  e \in Served(p)' \/ e \in file'[p] \cap buf'[p]
    BY DEF Held
  <2>2. CASE p \in S /\ e \in buf[p]
    BY <2>2, <1>1
  <2>3. CASE ~ (p \in S /\ e \in buf[p])
    <3>1. e \in saved[p]
      BY <2>1, <2>3, <1>1
    <3>2. e \in Served(p) \/ e \in file[p] \cap buf[p]
      BY <3>1 DEF Held
    <3> QED BY <3>2, <1>1, <2>3 DEF Grown
  <2> QED BY <2>2, <2>3
<1>4. FilesSaved'
  BY <1>1 DEF FilesSaved, FilesTyped, Trees
<1> QED BY <1>1, <1>2, <1>3, <1>4

LEMMA SavedGrows ==
  ASSUME Git, FilesTyped, TreesSaved, SnapSaved, commits' = commits,
         \A p \in Paths : saved[p] \subseteq saved'[p]
  PROVE  TreesSaved' /\ (run'.snap = run.snap => SnapSaved')
BY DEF TreesSaved, SnapSaved, Node, Local, Tree

\* What a file shows includes what the queue proposes and the server lacks.
LEMMA FileHolds ==
  ASSUME Git, QueueTyped, TreesSaved, Held
  PROVE  PendingIn(file)
<1>1. SUFFICES ASSUME q.pending # 0, NEW p \in Paths, NEW e \in Local(q.pending, p)
               PROVE  e \in Served(p) \cup file[p]
  BY DEF PendingIn
<1>2. e \in saved[p]
  BY <1>1 DEF TreesSaved, QueueTyped, None
<1> QED BY <1>2 DEF Held

LEMMA NoRunFields ==
  /\ DOMAIN NoRun = {"target", "snap", "base", "moved", "clean", "todo", "seen", "cohort",
                     "result", "ret", "commit", "defer"}
  /\ NoRun.target = 0 /\ NoRun.commit = 0 /\ NoRun.snap \in Trees /\ NoRun.ret = "none"
  /\ \A p \in Paths : NoRun.snap[p] = {}
BY DEF NoRun, Trees

\* A commit the server keeps shows nothing the server lacks.
LEMMA ServerLocal ==
  ASSUME Shapes, Grown
  PROVE  \A c \in Server, p \in Paths :
           /\ Local(c, p) \subseteq Served(p) /\ Local(c, p)' = Local(c, p)
           /\ Local(c, p)' \subseteq Served(p)'
<1>1. \A c \in Server : c \in Node
  BY ServerNodes DEF Shapes
<1>2. \A c \in Server, p \in Paths : Local(c, p) \subseteq Served(p)
  BY ServedTree
<1> QED BY <1>1, <1>2, OldCommits DEF Shapes

\* The local head shows nothing the server lacks when the server keeps it, or
\* when what was queued is the server's; and nothing new when it is queued.
LEMMA HeadServed ==
  ASSUME Shapes, Grown, NEW h \in Server, st'.head = h
  PROVE  HeadKept'
<1>1. \A k \in Paths : Local(h, k)' \subseteq Served(k)'
  BY ServerLocal
<1>2. \A k \in Paths : Local(st.head, k)' = Local(h, k)'
  BY DEF Local, Tree
<1> QED BY <1>1, <1>2 DEF HeadKept

LEMMA HeadSettled ==
  ASSUME Shapes, Grown, HeadKept, st'.head = st.head, q.pending = 0 \/ q.pending \in Server
  PROVE  HeadKept'
<1>1. st.head \in Node
  BY DEF Shapes, StateTyped
<1>2. \A k \in Paths : Local(st.head, k) \subseteq Served(k)
  BY ServerLocal DEF HeadKept
<1>3. \A k \in Paths : Local(st.head, k)' = Local(st.head, k)
  BY <1>1 DEF Grown, Grows, Local, Tree
<1> QED BY <1>2, <1>3 DEF HeadKept, Grown

LEMMA HeadQueued ==
  ASSUME q'.pending # 0, st'.head = q'.pending
  PROVE  HeadKept'
BY DEF HeadKept

LEMMA GuardedKnown ==
  ASSUME StateKnown, Grown, Shapes, NEW n, st' = Guarded(n),
         n.main \in Anc(main), n.sref \in Server'
  PROVE  StateKnown'
<1>1. st'.main \in {st.main, n.main} /\ st'.sref \in {st.sref, n.sref}
  BY GuardedFields
<1> QED BY <1>1 DEF StateKnown, Grown, Grows

LEMMA GuardedState ==
  ASSUME StateTyped, Grown, NEW n \in StateRecords(Node'), st' = Guarded(n)
  PROVE  StateTyped'
<1>1. st \in StateRecords(Node')
  BY DEF StateTyped, StateRecords, Grown, Grows
<1>2. st' \in StateRecords(Node')
  BY <1>1, GuardedTyped
<1> QED BY <1>2 DEF StateTyped, StateRecords

\* A journal that defers more, or is committed, keeps what it kept.
LEMMA JournalStays ==
  ASSUME Grown, JournalTyped, JournalKept, jr'.affected = jr.affected, jr'.pre = jr.pre,
         jr.deferred \subseteq jr'.deferred, jr'.phase # "committed" => jr.phase # "committed"
  PROVE  JournalKept'
BY DEF Grown, JournalTyped, JournalKept

\* So do one whose bundle or copies are written.
LEMMA JournalEdited ==
  ASSUME Grown, JournalTyped, JournalKnown, JournalKept, jr.target # 0 \/ jr' = jr,
         DOMAIN jr' = DOMAIN jr, jr'.target = jr.target, jr'.affected = jr.affected,
         jr'.pre = jr.pre, jr.deferred \subseteq jr'.deferred, jr'.copy \in [Paths -> Marks],
         jr'.phase # "committed" => jr.phase # "committed"
  PROVE  JournalTyped' /\ JournalKnown' /\ JournalKept'
<1>1. JournalTyped'
  BY DEF JournalTyped, None, Grown, Grows
<1>2. JournalKnown'
  <2>1. CASE jr.target # 0
    BY <2>1 DEF JournalKnown, Grown, Grows
  <2>2. CASE jr' = jr
    BY <2>2, JournalKnownFrame
  <2> QED BY <2>1, <2>2
<1> QED BY <1>1, <1>2, JournalStays

\* A call that throws changes the label and the code, and no cursor.
LEMMA ThrownState ==
  ASSUME StateTyped, StateKnown, Grown, NEW e \in Codes, st' \in {st, Blocked(e)}
  PROVE  /\ StateTyped' /\ StateKnown'
         /\ st'.head = st.head /\ st'.main = st.main /\ st'.sref = st.sref
<1>1. /\ st' \in StateRecords(Node)
      /\ st'.head = st.head /\ st'.main = st.main /\ st'.sref = st.sref
  BY DEF StateTyped, StateRecords, Blocked, Labels
<1>2. StateTyped'
  BY <1>1 DEF StateTyped, StateRecords, Grown, Grows
<1> QED BY <1>1, <1>2, StateKnownFrame

LEMMA Relabelled ==
  ASSUME StateTyped, Grown, NEW l \in Labels, st' = [st EXCEPT !.label = l]
  PROVE  StateTyped'
<1>1. st' \in StateRecords(Node)
  BY DEF StateTyped, StateRecords
<1> QED BY <1>1 DEF StateTyped, StateRecords, Grown, Grows

\* The server moves on: main and the device ref only gain ancestors.
LEMMA ServerMoves ==
  ASSUME Shapes, Git', Node \subseteq Node', \A c \in Node : commits'[c] = commits[c],
         Anc(main) \subseteq Anc(main)', Anc(devRef) \subseteq Anc(devRef)'
  PROVE  Grown
<1>1. Server \subseteq Server'
  BY DEF Server
<1>2. Grows
  BY <1>1 DEF Grows
<1> QED BY <1>2, GrowsServed DEF Shapes

LEMMA CommitGrown ==
  ASSUME Shapes, NEW tree \in Trees, NEW parents \in SUBSET Node,
         commits' = Commit(tree, parents),
         main' = main \/ (main' = Next1 /\ main \in parents),
         NEW d \in Node, devRef' = d, devRef \in Anc(d)
  PROVE  /\ Grown /\ Git' /\ Node' = Node \cup {Next1} /\ Next1 \in Node'
         /\ commits'[Next1].tree = tree
         /\ commits'[Next1].anc = {Next1} \cup UNION {Anc(c) : c \in parents}
         /\ Next1 # 0 /\ Next1 \notin Node
<1>0. Git /\ main \in Node /\ devRef \in Node
  BY DEF Shapes, ServerTyped
<1>1. /\ Git' /\ Node' = Node \cup {Next1} /\ \A c \in Node : commits'[c] = commits[c]
      /\ commits'[Next1].anc = {Next1} \cup UNION {Anc(c) : c \in parents}
      /\ commits'[Next1].tree = tree
  BY <1>0, CommitGrows, CommitAncestry
<1>2. Anc(main) \subseteq Anc(main)'
  <2>1. CASE main' = main
    BY <2>1, <1>0, <1>1 DEF Anc
  <2>2. CASE main' = Next1 /\ main \in parents
    BY <2>2, <1>1 DEF Anc
  <2> QED BY <2>1, <2>2
<1>3. Anc(devRef) \subseteq Anc(devRef)'
  <2>1. Anc(devRef) \subseteq Anc(d)
    BY <1>0, AncNode
  <2>2. Anc(devRef)' = Anc(d)
    BY <1>1 DEF Anc
  <2> QED BY <2>1, <2>2
<1>4. Next1 # 0 /\ Next1 \notin Node
  BY <1>0, NodeRange DEF Git
<1> QED BY <1>1, <1>2, <1>3, <1>4, ServerMoves

LEMMA TreesGrow ==
  ASSUME Git, TreesSaved, NEW tree \in Trees, NEW parents \in SUBSET Node,
         commits' = Commit(tree, parents), saved' = saved,
         \A p \in Paths : tree[p] \cap LocalEdits \subseteq saved[p]
  PROVE  TreesSaved'
<1>1. /\ Node' = Node \cup {Next1} /\ \A c \in Node : commits'[c] = commits[c]
      /\ commits'[Next1].tree = tree
  BY CommitGrows
<1>2. SUFFICES ASSUME NEW c \in Node', NEW p \in Paths
               PROVE  commits'[c].tree[p] \cap LocalEdits \subseteq saved[p]
  BY DEF TreesSaved, Local, Tree
<1>3. CASE c \in Node
  BY <1>1, <1>3 DEF TreesSaved, Local, Tree
<1>4. CASE c = Next1
  BY <1>1, <1>4
<1> QED BY <1>1, <1>3, <1>4

\* A merge shows only what main or the proposal shows.
LEMMA MergedTyped ==
  ASSUME Shapes, TreesSaved, NEW d \in Node, NEW base
  PROVE  /\ MergedTree(d, base) \in Trees
         /\ \A p \in Paths : MergedTree(d, base)[p] \cap LocalEdits \subseteq saved[p]
<1>1. main \in Node /\ Tree(main) \in Trees /\ Tree(d) \in Trees
  BY NodeRange DEF Shapes, ServerTyped, Git
<1>2. \A p \in Paths : Tree(main)[p] \in SUBSET Edits /\ Tree(d)[p] \in SUBSET Edits
  BY <1>1 DEF Trees
<1>3. ASSUME NEW p \in Paths
      PROVE  MergedTree(d, base)[p] \subseteq Tree(main)[p] \cup Tree(d)[p]
  <2>1. \A b : Merge3(b, Tree(main)[p], Tree(d)[p]) \subseteq Tree(main)[p] \cup Tree(d)[p]
    BY DEF Merge3
  <2>2. \/ MergedTree(d, base)[p] = Tree(main)[p]
        \/ \E b : MergedTree(d, base)[p] = Merge3(b, Tree(main)[p], Tree(d)[p])
    BY DEF MergedTree
  <2> QED BY <2>1, <2>2
<1>4. \E f : MergedTree(d, base) = [p \in Paths |-> f[p]]
  <2>1. MergedTree(d, base) = [p \in Paths |-> MergedTree(d, base)[p]]
    BY DEF MergedTree
  <2> QED BY <2>1
<1>5. MergedTree(d, base) \in Trees
  BY <1>2, <1>3, <1>4 DEF Trees
<1>6. \A p \in Paths : /\ Tree(main)[p] \cap LocalEdits \subseteq saved[p]
                       /\ Tree(d)[p] \cap LocalEdits \subseteq saved[p]
  BY <1>1 DEF TreesSaved, Local
<1> QED BY <1>3, <1>5, <1>6

LEMMA AfterCaptureCases ==
  \/ run.ret = "sync" /\ AfterCapture = "push"
  \/ run.ret = "recover" /\ AfterCapture = "idle"
  \/ run.ret = "repair" /\ AfterCapture = "ackw"
  \/ run.ret \notin {"sync", "recover", "repair"} /\ AfterCapture = "step"
BY DEF AfterCapture

\* The answer of the server, received or lost, leaves the proposal queued.
LEMMA Answered ==
  ASSUME Shapes, StateKnown, Grown, NEW res, NEW r \in BOOLEAN, Answer(res, r)
  PROVE  /\ StateTyped' /\ StateKnown' /\ st'.head = st.head
         /\ QueueTyped' /\ q'.pending = q.pending /\ q'.status \in {q.status, "queued_local"}
         /\ RunTyped' /\ run'.snap \in {run.snap, NoRun.snap}
         /\ pc' \in {"result", "idle"}
<1>1. PICK n, l : /\ n = [st EXCEPT !.sref = Adopted, !.label = l] /\ st' = Guarded(n)
                  /\ l \in {"Uploading", "Out of sync"}
  BY DEF Answer
<1>2. st \in StateRecords(Node) /\ Adopted \in Server /\ Adopted \in Node
  BY ServerNodes DEF Shapes, StateTyped, StateRecords, StateKnown, Adopted
<1>3. /\ n \in StateRecords(Node) /\ n.head = st.head /\ n.main = st.main /\ n.sref = Adopted
  BY <1>1, <1>2 DEF StateRecords, Labels
<1>4. n \in StateRecords(Node') /\ Adopted \in Server'
  BY <1>2, <1>3 DEF StateRecords, Grown, Grows
<1>5. StateTyped' /\ st'.head = st.head
  BY <1>1, <1>3, <1>4, GuardedState, GuardedFields DEF Shapes
<1>6. StateKnown'
  BY <1>1, <1>2, <1>3, <1>4, GuardedKnown DEF StateKnown
<1>7. /\ q' = q \/ q' = [q EXCEPT !.status = "queued_local"]
      /\ \/ pc' = "result" /\ run' = [run EXCEPT !.result = res, !.base = main']
         \/ pc' = "idle" /\ run' = NoRun
  BY DEF Answer, Done
<1>8. QueueTyped' /\ q'.pending = q.pending /\ q'.status \in {q.status, "queued_local"}
  BY <1>7 DEF Shapes, QueueTyped, Statuses, None, Grown, Grows
<1>9. RunTyped' /\ run'.snap \in {run.snap, NoRun.snap} /\ pc' \in {"result", "idle"}
  <2>1. CASE run' = NoRun
    BY <2>1, <1>7, NoRunFields DEF RunTyped, None
  <2>2. CASE run' = [run EXCEPT !.result = res, !.base = main']
    BY <2>2, <1>7 DEF Shapes, RunTyped, None, Grown, Grows
  <2> QED BY <1>7, <2>1, <2>2
<1> QED BY <1>5, <1>6, <1>8, <1>9

LEMMA TypeKeeps ==
  ASSUME NEW p \in Paths, NEW e \in Edits, DeviceInv, Type(p, e)
  PROVE  DeviceInv'
<1>h. /\ Git /\ ServerTyped /\ StateTyped /\ QueueTyped /\ RefTyped /\ FilesTyped
      /\ ProvTyped /\ JournalTyped /\ RunTyped /\ AckTyped /\ PhaseRun /\ PhaseJournal
      /\ PhaseWrite /\ PhaseQueue /\ PhaseSnap /\ TreesSaved /\ FilesSaved /\ SnapSaved
      /\ Held /\ HeadKept /\ StateKnown /\ ConflictKnown /\ JournalKnown /\ ReviewKnown
      /\ JournalKept
  BY DEF DeviceInv, Shapes, Phases, Keeps
<1>u. UNCHANGED <<commits, main, devRef, conflict, file, saved, st, q, ref, prov, jr, ack, pc, run>>
  BY DEF Type, rest, server, editor
<1>g. Grown /\ Git'
  BY <1>h, <1>u, StillGrown
<1>o. StepFacts
  BY <1>g, Facts DEF DeviceInv
<1>f. /\ ServerTyped' /\ StateTyped' /\ QueueTyped' /\ RefTyped' /\ ProvTyped'
      /\ JournalTyped' /\ RunTyped' /\ AckTyped' /\ PhaseRun' /\ PhaseJournal'
      /\ PhaseWrite' /\ PhaseQueue' /\ PhaseSnap' /\ TreesSaved' /\ FilesSaved'
      /\ SnapSaved' /\ HeadKept' /\ StateKnown' /\ ConflictKnown' /\ JournalKnown'
      /\ ReviewKnown' /\ JournalKept'
  BY <1>h, <1>u, <1>g, ServerFrame, StateFrame, QueueFrame, RefFrame, ProvFrame,
     JournalFrame, RunFrame, AckFrame, PhaseRunFrame, PhaseJournalFrame,
     PhaseWriteFrame, PhaseQueueFrame, PhaseSnapFrame, TreesFrame, FilesSavedFrame,
     SnapFrame, HeadFrame, StateKnownFrame, ConflictFrame, JournalKnownFrame,
     ReviewFrame, JournalKeptFrame
<1>1. FilesTyped'
  BY <1>h, <1>u, <1>g, <1>o DEF StepFacts, Type, FilesTyped, Trees
<1>2. Held'
  BY <1>h, <1>u, <1>g, <1>o DEF StepFacts, Type, Held
<1> QED BY <1>g, <1>f, <1>1, <1>2 DEF DeviceInv, Shapes, Phases, Keeps

LEMMA SaveKeeps ==
  ASSUME NEW p \in Paths, DeviceInv, Save(p)
  PROVE  DeviceInv'
<1>h. /\ Git /\ ServerTyped /\ StateTyped /\ QueueTyped /\ RefTyped /\ FilesTyped
      /\ ProvTyped /\ JournalTyped /\ RunTyped /\ AckTyped /\ PhaseRun /\ PhaseJournal
      /\ PhaseWrite /\ PhaseQueue /\ PhaseSnap /\ TreesSaved /\ FilesSaved /\ SnapSaved
      /\ Held /\ HeadKept /\ StateKnown /\ ConflictKnown /\ JournalKnown /\ ReviewKnown
      /\ JournalKept
  BY DEF DeviceInv, Shapes, Phases, Keeps
<1>u. UNCHANGED <<commits, main, devRef, conflict, buf, st, q, ref, prov, jr, ack, pc, run>>
  BY DEF Save, SaveBuffers, rest, server, editor
<1>g. Grown /\ Git'
  BY <1>h, <1>u, StillGrown
<1>o. StepFacts
  BY <1>g, Facts DEF DeviceInv
<1>s. SaveBuffers({p})
  BY DEF Save
<1>x. /\ FilesTyped' /\ Held' /\ FilesSaved'
      /\ \A p_ \in Paths : saved[p_] \subseteq saved'[p_]
  BY <1>h, <1>g, <1>s, BuffersKept
<1>y. TreesSaved' /\ (run'.snap = run.snap => SnapSaved')
  BY <1>h, <1>u, <1>x, SavedGrows
<1>f. /\ ServerTyped' /\ StateTyped' /\ QueueTyped' /\ RefTyped' /\ ProvTyped'
      /\ JournalTyped' /\ RunTyped' /\ AckTyped' /\ PhaseRun' /\ PhaseJournal'
      /\ PhaseWrite' /\ PhaseQueue' /\ PhaseSnap' /\ HeadKept' /\ StateKnown'
      /\ ConflictKnown' /\ JournalKnown' /\ ReviewKnown' /\ JournalKept'
  BY <1>h, <1>u, <1>g, ServerFrame, StateFrame, QueueFrame, RefFrame, ProvFrame,
     JournalFrame, RunFrame, AckFrame, PhaseRunFrame, PhaseJournalFrame,
     PhaseWriteFrame, PhaseQueueFrame, PhaseSnapFrame, HeadFrame, StateKnownFrame,
     ConflictFrame, JournalKnownFrame, ReviewFrame, JournalKeptFrame
<1>1. FilesTyped'
  BY <1>x
<1>2. TreesSaved'
  BY <1>y
<1>3. FilesSaved'
  BY <1>x
<1>4. SnapSaved'
  BY <1>u, <1>y
<1>5. Held'
  BY <1>x
<1> QED BY <1>g, <1>f, <1>1, <1>2, <1>3, <1>4, <1>5 DEF DeviceInv, Shapes, Phases, Keeps

LEMMA WatchKeeps ==
  ASSUME DeviceInv, Watch
  PROVE  DeviceInv'
<1>h. /\ Git /\ ServerTyped /\ StateTyped /\ QueueTyped /\ RefTyped /\ FilesTyped
      /\ ProvTyped /\ JournalTyped /\ RunTyped /\ AckTyped /\ PhaseRun /\ PhaseJournal
      /\ PhaseWrite /\ PhaseQueue /\ PhaseSnap /\ TreesSaved /\ FilesSaved /\ SnapSaved
      /\ Held /\ HeadKept /\ StateKnown /\ ConflictKnown /\ JournalKnown /\ ReviewKnown
      /\ JournalKept
  BY DEF DeviceInv, Shapes, Phases, Keeps
<1>u. UNCHANGED <<commits, main, devRef, conflict, file, buf, saved, ref, prov, jr, ack, pc>>
  BY DEF Watch, Hinted, rest, server, editor
<1>g. Grown /\ Git'
  BY <1>h, <1>u, StillGrown
<1>o. StepFacts
  BY <1>g, Facts DEF DeviceInv
<1>f. /\ ServerTyped' /\ RefTyped' /\ FilesTyped' /\ ProvTyped' /\ JournalTyped'
      /\ AckTyped' /\ TreesSaved' /\ FilesSaved' /\ Held' /\ ConflictKnown'
      /\ JournalKnown' /\ JournalKept'
  BY <1>h, <1>u, <1>g, ServerFrame, RefFrame, FilesFrame, ProvFrame, JournalFrame,
     AckFrame, TreesFrame, FilesSavedFrame, HeldFrame, ConflictFrame, JournalKnownFrame,
     JournalKeptFrame
<1>1. StateTyped'
  BY <1>h, <1>u, <1>g, <1>o DEF StepFacts, Watch, Hinted, StateTyped, Labels, Codes
<1>2. QueueTyped'
  BY <1>h, <1>u, <1>g, <1>o DEF StepFacts, Watch, Hinted, QueueTyped, None, Statuses
<1>3. RunTyped'
  BY <1>h, <1>u, <1>g, <1>o DEF StepFacts, Watch, Hinted, RunTyped, None, NoRun, Trees
<1>4. PhaseRun'
  BY <1>h, <1>u, <1>g, <1>o DEF StepFacts, Watch, Hinted, PhaseRun, SyncPcs, PullPcs,
     TailPcs, JournalPcs, ScanPcs, CohortPcs, CommitPcs, QueuedPcs, TargetPcs,
     CapturePcs, NoRun
<1>5. PhaseJournal'
  BY <1>h, <1>u, <1>g, <1>o DEF StepFacts, Watch, Hinted, PhaseJournal, SyncPcs,
     PullPcs, TailPcs, JournalPcs, ScanPcs, CohortPcs, CommitPcs, QueuedPcs, TargetPcs,
     CapturePcs, NoRun
<1>6. PhaseWrite'
  BY <1>h, <1>u, <1>g, <1>o DEF StepFacts, Watch, Hinted, PhaseWrite
<1>7. PhaseQueue'
  BY <1>h, <1>u, <1>g, <1>o DEF StepFacts, Watch, Hinted, PhaseQueue, SyncPcs, PullPcs,
     TailPcs, JournalPcs, ScanPcs, CohortPcs, CommitPcs, QueuedPcs, TargetPcs,
     CapturePcs, NoRun
<1>8. PhaseSnap'
  <2>1. pc' = pc /\ q'.pending = q.pending /\ run'.snap = run.snap
        /\ run'.target = run.target /\ run'.commit = run.commit
    BY <1>h, <1>u, <1>o DEF StepFacts, Watch, Hinted
  <2> QED BY <1>h, <1>g, <2>1, PhaseSnapFrame
<1>9. SnapSaved'
  BY <1>h, <1>u, <1>g, <1>o DEF StepFacts, Watch, Hinted, SnapSaved, NoRun
<1>10. HeadKept'
  <2>1. st'.head = st.head /\ q'.pending = q.pending
    BY <1>h, <1>u, <1>o DEF StepFacts, Watch, Hinted
  <2> QED BY <1>h, <1>g, <2>1, HeadFrame
<1>11. StateKnown'
  BY <1>h, <1>u, <1>g, <1>o DEF StepFacts, Watch, Hinted, StateKnown
<1>12. ReviewKnown'
  BY <1>h, <1>u, <1>g, <1>o DEF StepFacts, Watch, Hinted, ReviewKnown
<1> QED BY <1>g, <1>f, <1>1, <1>2, <1>3, <1>4, <1>5, <1>6, <1>7, <1>8, <1>9, <1>10, <1>11,
     <1>12
   DEF DeviceInv, Shapes, Phases, Keeps

LEMMA ReloadKeeps ==
  ASSUME NEW p \in Paths, DeviceInv, Reload(p)
  PROVE  DeviceInv'
<1>h. /\ Git /\ ServerTyped /\ StateTyped /\ QueueTyped /\ RefTyped /\ FilesTyped
      /\ ProvTyped /\ JournalTyped /\ RunTyped /\ AckTyped /\ PhaseRun /\ PhaseJournal
      /\ PhaseWrite /\ PhaseQueue /\ PhaseSnap /\ TreesSaved /\ FilesSaved /\ SnapSaved
      /\ Held /\ HeadKept /\ StateKnown /\ ConflictKnown /\ JournalKnown /\ ReviewKnown
      /\ JournalKept
  BY DEF DeviceInv, Shapes, Phases, Keeps
<1>u. UNCHANGED <<commits, main, devRef, conflict, file, saved, st, q, ref, prov, jr, ack, pc, run>>
  BY DEF Reload, Unsaved, rest, server, editor
<1>g. Grown /\ Git'
  BY <1>h, <1>u, StillGrown
<1>o. StepFacts
  BY <1>g, Facts DEF DeviceInv
<1>f. /\ ServerTyped' /\ StateTyped' /\ QueueTyped' /\ RefTyped' /\ ProvTyped'
      /\ JournalTyped' /\ RunTyped' /\ AckTyped' /\ PhaseRun' /\ PhaseJournal'
      /\ PhaseWrite' /\ PhaseQueue' /\ PhaseSnap' /\ TreesSaved' /\ FilesSaved'
      /\ SnapSaved' /\ HeadKept' /\ StateKnown' /\ ConflictKnown' /\ JournalKnown'
      /\ ReviewKnown' /\ JournalKept'
  BY <1>h, <1>u, <1>g, ServerFrame, StateFrame, QueueFrame, RefFrame, ProvFrame,
     JournalFrame, RunFrame, AckFrame, PhaseRunFrame, PhaseJournalFrame,
     PhaseWriteFrame, PhaseQueueFrame, PhaseSnapFrame, TreesFrame, FilesSavedFrame,
     SnapFrame, HeadFrame, StateKnownFrame, ConflictFrame, JournalKnownFrame,
     ReviewFrame, JournalKeptFrame
<1>1. FilesTyped'
  BY <1>h, <1>u, <1>g, <1>o DEF StepFacts, Reload, Unsaved, FilesTyped, Trees
<1>2. Held'
  BY <1>h, <1>u, <1>g, <1>o DEF StepFacts, Reload, Unsaved, Held
<1> QED BY <1>g, <1>f, <1>1, <1>2 DEF DeviceInv, Shapes, Phases, Keeps

LEMMA ElapseKeeps ==
  ASSUME NEW i, DeviceInv, Elapse(i)
  PROVE  DeviceInv'
<1>h. /\ Git /\ ServerTyped /\ StateTyped /\ QueueTyped /\ RefTyped /\ FilesTyped
      /\ ProvTyped /\ JournalTyped /\ RunTyped /\ AckTyped /\ PhaseRun /\ PhaseJournal
      /\ PhaseWrite /\ PhaseQueue /\ PhaseSnap /\ TreesSaved /\ FilesSaved /\ SnapSaved
      /\ Held /\ HeadKept /\ StateKnown /\ ConflictKnown /\ JournalKnown /\ ReviewKnown
      /\ JournalKept
  BY DEF DeviceInv, Shapes, Phases, Keeps
<1>u. UNCHANGED <<commits, main, devRef, conflict, file, buf, saved, st, q, ref, jr, ack, pc, run>>
  BY DEF Elapse, rest, server, editor
<1>g. Grown /\ Git'
  BY <1>h, <1>u, StillGrown
<1>o. StepFacts
  BY <1>g, Facts DEF DeviceInv
<1>f. /\ ServerTyped' /\ StateTyped' /\ QueueTyped' /\ RefTyped' /\ FilesTyped'
      /\ JournalTyped' /\ RunTyped' /\ AckTyped' /\ PhaseRun' /\ PhaseJournal'
      /\ PhaseWrite' /\ PhaseQueue' /\ PhaseSnap' /\ TreesSaved' /\ FilesSaved'
      /\ SnapSaved' /\ Held' /\ HeadKept' /\ StateKnown' /\ ConflictKnown'
      /\ JournalKnown' /\ ReviewKnown' /\ JournalKept'
  BY <1>h, <1>u, <1>g, ServerFrame, StateFrame, QueueFrame, RefFrame, FilesFrame,
     JournalFrame, RunFrame, AckFrame, PhaseRunFrame, PhaseJournalFrame,
     PhaseWriteFrame, PhaseQueueFrame, PhaseSnapFrame, TreesFrame, FilesSavedFrame,
     SnapFrame, HeldFrame, HeadFrame, StateKnownFrame, ConflictFrame, JournalKnownFrame,
     ReviewFrame, JournalKeptFrame
<1>1. ProvTyped'
  BY <1>h, <1>u, <1>g, <1>o DEF StepFacts, Elapse, ProvTyped, None
<1> QED BY <1>g, <1>f, <1>1 DEF DeviceInv, Shapes, Phases, Keeps

LEMMA SyncStartKeeps ==
  ASSUME DeviceInv, SyncStart
  PROVE  DeviceInv'
<1>h. /\ Git /\ ServerTyped /\ StateTyped /\ QueueTyped /\ RefTyped /\ FilesTyped
      /\ ProvTyped /\ JournalTyped /\ RunTyped /\ AckTyped /\ PhaseRun /\ PhaseJournal
      /\ PhaseWrite /\ PhaseQueue /\ PhaseSnap /\ TreesSaved /\ FilesSaved /\ SnapSaved
      /\ Held /\ HeadKept /\ StateKnown /\ ConflictKnown /\ JournalKnown /\ ReviewKnown
      /\ JournalKept
  BY DEF DeviceInv, Shapes, Phases, Keeps
<1>u. UNCHANGED <<commits, main, devRef, conflict, file, buf, saved, st, q, ref, prov, jr, ack>>
  BY DEF SyncStart, rest, server, editor
<1>g. Grown /\ Git'
  BY <1>h, <1>u, StillGrown
<1>o. StepFacts
  BY <1>g, Facts DEF DeviceInv
<1>f. /\ ServerTyped' /\ StateTyped' /\ QueueTyped' /\ RefTyped' /\ FilesTyped'
      /\ ProvTyped' /\ JournalTyped' /\ AckTyped' /\ TreesSaved' /\ FilesSaved'
      /\ Held' /\ HeadKept' /\ StateKnown' /\ ConflictKnown' /\ JournalKnown'
      /\ ReviewKnown' /\ JournalKept'
  BY <1>h, <1>u, <1>g, ServerFrame, StateFrame, QueueFrame, RefFrame, FilesFrame,
     ProvFrame, JournalFrame, AckFrame, TreesFrame, FilesSavedFrame, HeldFrame,
     HeadFrame, StateKnownFrame, ConflictFrame, JournalKnownFrame, ReviewFrame,
     JournalKeptFrame
<1>1. RunTyped'
  BY <1>h, <1>u, <1>g, <1>o DEF StepFacts, SyncStart, RunTyped, None, NoRun, Trees
<1>2. PhaseRun'
  BY <1>h, <1>u, <1>g, <1>o DEF StepFacts, SyncStart, PhaseRun, SyncPcs, PullPcs,
     TailPcs, JournalPcs, ScanPcs, CohortPcs, CommitPcs, QueuedPcs, TargetPcs,
     CapturePcs, NoRun
<1>3. PhaseJournal'
  BY <1>h, <1>u, <1>g, <1>o DEF StepFacts, SyncStart, PhaseJournal, SyncPcs, PullPcs,
     TailPcs, JournalPcs, ScanPcs, CohortPcs, CommitPcs, QueuedPcs, TargetPcs,
     CapturePcs, NoRun
<1>4. PhaseWrite'
  BY <1>h, <1>u, <1>g, <1>o DEF StepFacts, SyncStart, PhaseWrite
<1>5. PhaseQueue'
  BY <1>h, <1>u, <1>g, <1>o DEF StepFacts, SyncStart, PhaseQueue, SyncPcs, PullPcs,
     TailPcs, JournalPcs, ScanPcs, CohortPcs, CommitPcs, QueuedPcs, TargetPcs,
     CapturePcs, NoRun
<1>6. PhaseSnap'
  BY <1>h, <1>u, <1>g, <1>o DEF StepFacts, SyncStart, PhaseSnap, SyncPcs, PullPcs,
     TailPcs, JournalPcs, ScanPcs, CohortPcs, CommitPcs, QueuedPcs, TargetPcs,
     CapturePcs, PendingIn
<1>7. SnapSaved'
  BY <1>h, <1>u, <1>g, <1>o DEF StepFacts, SyncStart, SnapSaved, NoRun
<1> QED BY <1>g, <1>f, <1>1, <1>2, <1>3, <1>4, <1>5, <1>6, <1>7 DEF DeviceInv, Shapes, Phases,
   Keeps

LEMMA CrashKeeps ==
  ASSUME DeviceInv, Crash
  PROVE  DeviceInv'
<1>h. /\ Git /\ ServerTyped /\ StateTyped /\ QueueTyped /\ RefTyped /\ FilesTyped
      /\ ProvTyped /\ JournalTyped /\ RunTyped /\ AckTyped /\ PhaseRun /\ PhaseJournal
      /\ PhaseWrite /\ PhaseQueue /\ PhaseSnap /\ TreesSaved /\ FilesSaved /\ SnapSaved
      /\ Held /\ HeadKept /\ StateKnown /\ ConflictKnown /\ JournalKnown /\ ReviewKnown
      /\ JournalKept
  BY DEF DeviceInv, Shapes, Phases, Keeps
<1>u. UNCHANGED <<commits, main, devRef, conflict, file, saved, st, q, ref, prov, ack>>
  BY DEF Crash, rest, server, editor
<1>g. Grown /\ Git'
  BY <1>h, <1>u, StillGrown
<1>o. StepFacts
  BY <1>g, Facts DEF DeviceInv
<1>f. /\ ServerTyped' /\ StateTyped' /\ QueueTyped' /\ RefTyped' /\ ProvTyped'
      /\ AckTyped' /\ TreesSaved' /\ FilesSaved' /\ HeadKept'
      /\ StateKnown' /\ ConflictKnown' /\ ReviewKnown'
  BY <1>h, <1>u, <1>g, ServerFrame, StateFrame, QueueFrame, RefFrame, ProvFrame,
     AckFrame, TreesFrame, FilesSavedFrame, HeadFrame, StateKnownFrame,
     ConflictFrame, ReviewFrame
<1>j. JournalTyped' /\ JournalKnown' /\ JournalKept'
  <2>1. PICK S \in SUBSET Copying :
          jr' = [jr EXCEPT !.copy = [p \in Paths |-> IF p \in S THEN "torn" ELSE jr.copy[p]]]
    BY DEF Crash
  <2>2. CASE jr = NoJournal
    <3>1. S = {}
      BY <2>2, <1>h DEF Copying, PhaseJournal, JournalPcs, NoJournal
    <3>2. [p \in Paths |-> IF p \in S THEN "torn" ELSE jr.copy[p]] = NoJournal.copy
      BY <2>2, <3>1 DEF NoJournal
    <3>3. jr' = jr
      BY <2>1, <2>2, <3>2 DEF NoJournal
    <3> QED BY <3>3, <1>h, <1>g, JournalFrame, JournalKnownFrame, JournalKeptFrame
  <2>3. CASE jr # NoJournal
    <3>2. jr.target # 0
      BY <2>3, <1>h DEF JournalKnown
    <3>3. jr'.copy \in [Paths -> Marks]
      BY <2>1, <1>h, <1>o DEF JournalTyped, Marks, StepFacts
    <3>4. /\ DOMAIN jr' = DOMAIN jr /\ jr'.target = jr.target /\ jr'.affected = jr.affected
          /\ jr'.pre = jr.pre /\ jr'.deferred = jr.deferred /\ jr'.phase = jr.phase
      BY <2>1, <1>o DEF StepFacts
    <3> QED BY <3>2, <3>3, <3>4, <1>h, <1>g, JournalEdited
  <2> QED BY <2>2, <2>3
<1>1. FilesTyped'
  BY <1>h, <1>u, <1>g, <1>o DEF StepFacts, Crash, FilesTyped, Trees
<1>2. RunTyped'
  BY <1>h, <1>u, <1>g, <1>o DEF StepFacts, Crash, RunTyped, None, NoRun, Trees
<1>3. PhaseRun'
  BY <1>h, <1>u, <1>g, <1>o DEF StepFacts, Crash, PhaseRun, SyncPcs, PullPcs, TailPcs,
     JournalPcs, ScanPcs, CohortPcs, CommitPcs, QueuedPcs, TargetPcs, CapturePcs, NoRun
<1>4. PhaseJournal'
  BY <1>h, <1>u, <1>g, <1>o DEF StepFacts, Crash, PhaseJournal, SyncPcs, PullPcs,
     TailPcs, JournalPcs, ScanPcs, CohortPcs, CommitPcs, QueuedPcs, TargetPcs,
     CapturePcs, NoRun
<1>5. PhaseWrite'
  BY <1>h, <1>u, <1>g, <1>o DEF StepFacts, Crash, PhaseWrite
<1>6. PhaseQueue'
  BY <1>h, <1>u, <1>g, <1>o DEF StepFacts, Crash, PhaseQueue, SyncPcs, PullPcs, TailPcs,
     JournalPcs, ScanPcs, CohortPcs, CommitPcs, QueuedPcs, TargetPcs, CapturePcs, NoRun
<1>7. PhaseSnap'
  BY <1>h, <1>u, <1>g, <1>o DEF StepFacts, Crash, PhaseSnap, SyncPcs, PullPcs, TailPcs,
     JournalPcs, ScanPcs, CohortPcs, CommitPcs, QueuedPcs, TargetPcs, CapturePcs,
     PendingIn
<1>8. SnapSaved'
  BY <1>h, <1>u, <1>g, <1>o DEF StepFacts, Crash, SnapSaved, NoRun
<1>9. Held'
  BY <1>h, <1>u, <1>g, <1>o DEF StepFacts, Crash, Held
<1> QED BY <1>g, <1>f, <1>j, <1>1, <1>2, <1>3, <1>4, <1>5, <1>6, <1>7, <1>8, <1>9 DEF DeviceInv,
   Shapes, Phases, Keeps

LEMMA StartKeeps ==
  ASSUME DeviceInv, Start
  PROVE  DeviceInv'
<1>h. /\ Git /\ ServerTyped /\ StateTyped /\ QueueTyped /\ RefTyped /\ FilesTyped
      /\ ProvTyped /\ JournalTyped /\ RunTyped /\ AckTyped /\ PhaseRun /\ PhaseJournal
      /\ PhaseWrite /\ PhaseQueue /\ PhaseSnap /\ TreesSaved /\ FilesSaved /\ SnapSaved
      /\ Held /\ HeadKept /\ StateKnown /\ ConflictKnown /\ JournalKnown /\ ReviewKnown
      /\ JournalKept
  BY DEF DeviceInv, Shapes, Phases, Keeps
<1>u. UNCHANGED <<commits, main, devRef, conflict, file, buf, saved, st, q, ref, jr, ack>>
  BY DEF Start, rest, server, editor
<1>g. Grown /\ Git'
  BY <1>h, <1>u, StillGrown
<1>o. StepFacts
  BY <1>g, Facts DEF DeviceInv
<1>f. /\ ServerTyped' /\ StateTyped' /\ QueueTyped' /\ RefTyped' /\ FilesTyped'
      /\ JournalTyped' /\ AckTyped' /\ TreesSaved' /\ FilesSaved' /\ Held' /\ HeadKept'
      /\ StateKnown' /\ ConflictKnown' /\ JournalKnown' /\ ReviewKnown' /\ JournalKept'
  BY <1>h, <1>u, <1>g, ServerFrame, StateFrame, QueueFrame, RefFrame, FilesFrame,
     JournalFrame, AckFrame, TreesFrame, FilesSavedFrame, HeldFrame, HeadFrame,
     StateKnownFrame, ConflictFrame, JournalKnownFrame, ReviewFrame, JournalKeptFrame
<1>1. ProvTyped'
  BY <1>h, <1>u, <1>g, <1>o DEF StepFacts, Start, ProvTyped, None
<1>2. RunTyped'
  BY <1>h, <1>u, <1>g, <1>o DEF StepFacts, Start, RunTyped, None, NoRun, Trees
<1>3. PhaseRun'
  BY <1>h, <1>u, <1>g, <1>o DEF StepFacts, Start, PhaseRun, SyncPcs, PullPcs, TailPcs,
     JournalPcs, ScanPcs, CohortPcs, CommitPcs, QueuedPcs, TargetPcs, CapturePcs, NoRun
<1>4. PhaseJournal'
  BY <1>h, <1>u, <1>g, <1>o DEF StepFacts, Start, PhaseJournal, SyncPcs, PullPcs,
     TailPcs, JournalPcs, ScanPcs, CohortPcs, CommitPcs, QueuedPcs, TargetPcs,
     CapturePcs, NoRun
<1>5. PhaseWrite'
  BY <1>h, <1>u, <1>g, <1>o DEF StepFacts, Start, PhaseWrite
<1>6. PhaseQueue'
  BY <1>h, <1>u, <1>g, <1>o DEF StepFacts, Start, PhaseQueue, SyncPcs, PullPcs, TailPcs,
     JournalPcs, ScanPcs, CohortPcs, CommitPcs, QueuedPcs, TargetPcs, CapturePcs, NoRun
<1>7. PhaseSnap'
  BY <1>h, <1>u, <1>g, <1>o DEF StepFacts, Start, PhaseSnap, SyncPcs, PullPcs, TailPcs,
     JournalPcs, ScanPcs, CohortPcs, CommitPcs, QueuedPcs, TargetPcs, CapturePcs,
     PendingIn
<1>8. SnapSaved'
  BY <1>h, <1>u, <1>g, <1>o DEF StepFacts, Start, SnapSaved, NoRun
<1> QED BY <1>g, <1>f, <1>1, <1>2, <1>3, <1>4, <1>5, <1>6, <1>7, <1>8 DEF DeviceInv, Shapes,
   Phases, Keeps

LEMMA InitCleanKeeps ==
  ASSUME DeviceInv, InitClean
  PROVE  DeviceInv'
<1>h. /\ Git /\ ServerTyped /\ StateTyped /\ QueueTyped /\ RefTyped /\ FilesTyped
      /\ ProvTyped /\ JournalTyped /\ RunTyped /\ AckTyped /\ PhaseRun /\ PhaseJournal
      /\ PhaseWrite /\ PhaseQueue /\ PhaseSnap /\ TreesSaved /\ FilesSaved /\ SnapSaved
      /\ Held /\ HeadKept /\ StateKnown /\ ConflictKnown /\ JournalKnown /\ ReviewKnown
      /\ JournalKept
  BY DEF DeviceInv, Shapes, Phases, Keeps
<1>u. UNCHANGED <<commits, main, devRef, conflict, file, buf, saved, st, q, ref, prov, jr, ack>>
  BY DEF InitClean, rest, server, editor
<1>g. Grown /\ Git'
  BY <1>h, <1>u, StillGrown
<1>o. StepFacts
  BY <1>g, Facts DEF DeviceInv
<1>t. IntentCommit \in None
  BY <1>h, <1>o DEF StepFacts, IntentCommit, ProvTyped, None
<1>x. \/ /\ pc' \in {"idle", "ack0", "flush"} /\ run' \in {NoRun, run}
         /\ pc' # "idle" => run' = run /\ run.ret # "boot"
      \/ /\ pc' = "icommit" /\ IntentCommit # 0 /\ q.pending \in {0, IntentCommit}
         /\ run' = [run EXCEPT !.ret = "recover", !.commit = IntentCommit,
                                !.base = prov.intent.base]
  BY DEF InitClean
<1>p. pc = "init"
  BY DEF InitClean
<1>f. /\ ServerTyped' /\ StateTyped' /\ QueueTyped' /\ RefTyped' /\ FilesTyped'
      /\ ProvTyped' /\ JournalTyped' /\ AckTyped' /\ TreesSaved' /\ FilesSaved'
      /\ Held' /\ HeadKept' /\ StateKnown' /\ ConflictKnown' /\ JournalKnown'
      /\ ReviewKnown' /\ JournalKept'
  BY <1>h, <1>u, <1>g, ServerFrame, StateFrame, QueueFrame, RefFrame, FilesFrame,
     ProvFrame, JournalFrame, AckFrame, TreesFrame, FilesSavedFrame, HeldFrame,
     HeadFrame, StateKnownFrame, ConflictFrame, JournalKnownFrame, ReviewFrame,
     JournalKeptFrame
<1>1. RunTyped'
  <2>1. CASE run' = NoRun
    BY <2>1, NoRunFields DEF RunTyped, None
  <2>2. CASE run' = run
    BY <2>2, <1>o DEF StepFacts, RunTyped
  <2>3. CASE run' = [run EXCEPT !.ret = "recover", !.commit = IntentCommit,
                                !.base = prov.intent.base]
    BY <2>3, <1>o, <1>t DEF StepFacts, RunTyped
  <2> QED BY <1>x, <2>1, <2>2, <2>3
<1>2. PhaseRun'
  BY <1>h, <1>u, <1>g, <1>o, <1>x, <1>t, <1>p DEF StepFacts, PhaseRun, SyncPcs, PullPcs,
     TailPcs, JournalPcs, ScanPcs, CohortPcs, CommitPcs, QueuedPcs, TargetPcs,
     CapturePcs, NoRun
<1>3. PhaseJournal'
  BY <1>h, <1>u, <1>g, <1>o, <1>x, <1>t, <1>p DEF StepFacts, PhaseJournal, SyncPcs,
     PullPcs, TailPcs, JournalPcs, ScanPcs, CohortPcs, CommitPcs, QueuedPcs, TargetPcs,
     CapturePcs, NoRun
<1>4. PhaseWrite'
  BY <1>h, <1>u, <1>g, <1>o, <1>x, <1>t, <1>p DEF StepFacts, PhaseWrite
<1>5. PhaseQueue'
  BY <1>h, <1>u, <1>g, <1>o, <1>x, <1>t, <1>p DEF StepFacts, PhaseQueue, SyncPcs,
     PullPcs, TailPcs, JournalPcs, ScanPcs, CohortPcs, CommitPcs, QueuedPcs, TargetPcs,
     CapturePcs, NoRun
<1>6. PhaseSnap'
  BY <1>h, <1>u, <1>g, <1>o, <1>x, <1>t, <1>p DEF StepFacts, PhaseSnap, SyncPcs,
     PullPcs, TailPcs, JournalPcs, ScanPcs, CohortPcs, CommitPcs, QueuedPcs, TargetPcs,
     CapturePcs, PendingIn
<1>7. SnapSaved'
  <2>1. run'.snap \in {NoRun.snap, run.snap}
    BY <1>x, <1>o DEF StepFacts
  <2> QED BY <2>1, <1>u, <1>h, NoRunFields DEF SnapSaved
<1> QED BY <1>g, <1>f, <1>1, <1>2, <1>3, <1>4, <1>5, <1>6, <1>7 DEF DeviceInv, Shapes, Phases,
   Keeps

LEMMA AckSendKeeps ==
  ASSUME NEW r \in BOOLEAN, DeviceInv, AckSend(r)
  PROVE  DeviceInv'
<1>h. /\ Git /\ ServerTyped /\ StateTyped /\ QueueTyped /\ RefTyped /\ FilesTyped
      /\ ProvTyped /\ JournalTyped /\ RunTyped /\ AckTyped /\ PhaseRun /\ PhaseJournal
      /\ PhaseWrite /\ PhaseQueue /\ PhaseSnap /\ TreesSaved /\ FilesSaved /\ SnapSaved
      /\ Held /\ HeadKept /\ StateKnown /\ ConflictKnown /\ JournalKnown /\ ReviewKnown
      /\ JournalKept
  BY DEF DeviceInv, Shapes, Phases, Keeps
<1>u. UNCHANGED <<commits, main, devRef, conflict, file, buf, saved, st, q, ref, prov, jr>>
  BY DEF AckSend, rest, server, editor
<1>g. Grown /\ Git'
  BY <1>h, <1>u, StillGrown
<1>o. StepFacts
  BY <1>g, Facts DEF DeviceInv
<1>f. /\ ServerTyped' /\ StateTyped' /\ QueueTyped' /\ RefTyped' /\ FilesTyped'
      /\ ProvTyped' /\ JournalTyped' /\ TreesSaved' /\ FilesSaved' /\ Held'
      /\ HeadKept' /\ StateKnown' /\ ConflictKnown' /\ JournalKnown' /\ ReviewKnown'
      /\ JournalKept'
  BY <1>h, <1>u, <1>g, ServerFrame, StateFrame, QueueFrame, RefFrame, FilesFrame,
     ProvFrame, JournalFrame, TreesFrame, FilesSavedFrame, HeldFrame, HeadFrame,
     StateKnownFrame, ConflictFrame, JournalKnownFrame, ReviewFrame, JournalKeptFrame
<1>1. RunTyped'
  BY <1>h, <1>u, <1>g, <1>o DEF StepFacts, AckSend, RunTyped, None, NoRun, Trees
<1>2. AckTyped'
  BY <1>h, <1>u, <1>g, <1>o DEF StepFacts, AckSend, AckTyped, None
<1>3. PhaseRun'
  BY <1>h, <1>u, <1>g, <1>o DEF StepFacts, AckSend, PhaseRun, SyncPcs, PullPcs, TailPcs,
     JournalPcs, ScanPcs, CohortPcs, CommitPcs, QueuedPcs, TargetPcs, CapturePcs, NoRun
<1>4. PhaseJournal'
  BY <1>h, <1>u, <1>g, <1>o DEF StepFacts, AckSend, PhaseJournal, SyncPcs, PullPcs,
     TailPcs, JournalPcs, ScanPcs, CohortPcs, CommitPcs, QueuedPcs, TargetPcs,
     CapturePcs, NoRun
<1>5. PhaseWrite'
  BY <1>h, <1>u, <1>g, <1>o DEF StepFacts, AckSend, PhaseWrite
<1>6. PhaseQueue'
  BY <1>h, <1>u, <1>g, <1>o DEF StepFacts, AckSend, PhaseQueue, SyncPcs, PullPcs,
     TailPcs, JournalPcs, ScanPcs, CohortPcs, CommitPcs, QueuedPcs, TargetPcs,
     CapturePcs, NoRun
<1>7. PhaseSnap'
  BY <1>h, <1>u, <1>g, <1>o DEF StepFacts, AckSend, PhaseSnap, SyncPcs, PullPcs,
     TailPcs, JournalPcs, ScanPcs, CohortPcs, CommitPcs, QueuedPcs, TargetPcs,
     CapturePcs, PendingIn
<1>8. SnapSaved'
  BY <1>h, <1>u, <1>g, <1>o DEF StepFacts, AckSend, SnapSaved, NoRun
<1> QED BY <1>g, <1>f, <1>1, <1>2, <1>3, <1>4, <1>5, <1>6, <1>7, <1>8 DEF DeviceInv, Shapes,
   Phases, Keeps

LEMMA FlushKeeps ==
  ASSUME DeviceInv, Flush
  PROVE  DeviceInv'
<1>h. /\ Git /\ ServerTyped /\ StateTyped /\ QueueTyped /\ RefTyped /\ FilesTyped
      /\ ProvTyped /\ JournalTyped /\ RunTyped /\ AckTyped /\ PhaseRun /\ PhaseJournal
      /\ PhaseWrite /\ PhaseQueue /\ PhaseSnap /\ TreesSaved /\ FilesSaved /\ SnapSaved
      /\ Held /\ HeadKept /\ StateKnown /\ ConflictKnown /\ JournalKnown /\ ReviewKnown
      /\ JournalKept
  BY DEF DeviceInv, Shapes, Phases, Keeps
<1>u. UNCHANGED <<commits, main, devRef, conflict, buf, st, q, ref, prov, jr, ack>>
  BY DEF Flush, FlushBuffers, SaveBuffers, rest, server, editor
<1>g. Grown /\ Git'
  BY <1>h, <1>u, StillGrown
<1>o. StepFacts
  BY <1>g, Facts DEF DeviceInv
<1>s. SaveBuffers(Unflushed)
  BY DEF Flush, FlushBuffers
<1>x. /\ FilesTyped' /\ Held' /\ FilesSaved'
      /\ \A p_ \in Paths : saved[p_] \subseteq saved'[p_]
  BY <1>h, <1>g, <1>s, BuffersKept
<1>y. TreesSaved' /\ (run'.snap = run.snap => SnapSaved')
  BY <1>h, <1>u, <1>x, SavedGrows
<1>f. /\ ServerTyped' /\ StateTyped' /\ QueueTyped' /\ RefTyped' /\ ProvTyped'
      /\ JournalTyped' /\ AckTyped' /\ HeadKept' /\ StateKnown' /\ ConflictKnown'
      /\ JournalKnown' /\ ReviewKnown' /\ JournalKept'
  BY <1>h, <1>u, <1>g, ServerFrame, StateFrame, QueueFrame, RefFrame, ProvFrame,
     JournalFrame, AckFrame, HeadFrame, StateKnownFrame, ConflictFrame,
     JournalKnownFrame, ReviewFrame, JournalKeptFrame
<1>1. FilesTyped'
  BY <1>x
<1>2. RunTyped'
  BY <1>h, <1>u, <1>g, <1>o, <1>x DEF StepFacts, Flush, FlushBuffers, SaveBuffers,
     RunTyped, None, NoRun, Trees
<1>3. PhaseRun'
  BY <1>h, <1>u, <1>g, <1>o, <1>x DEF StepFacts, Flush, FlushBuffers, SaveBuffers,
     PhaseRun, SyncPcs, PullPcs, TailPcs, JournalPcs, ScanPcs, CohortPcs, CommitPcs,
     QueuedPcs, TargetPcs, CapturePcs, NoRun
<1>4. PhaseJournal'
  BY <1>h, <1>u, <1>g, <1>o, <1>x DEF StepFacts, Flush, FlushBuffers, SaveBuffers,
     PhaseJournal, SyncPcs, PullPcs, TailPcs, JournalPcs, ScanPcs, CohortPcs, CommitPcs,
     QueuedPcs, TargetPcs, CapturePcs, NoRun
<1>5. PhaseWrite'
  BY <1>h, <1>u, <1>g, <1>o, <1>x DEF StepFacts, Flush, FlushBuffers, SaveBuffers,
     PhaseWrite
<1>6. PhaseQueue'
  BY <1>h, <1>u, <1>g, <1>o, <1>x DEF StepFacts, Flush, FlushBuffers, SaveBuffers,
     PhaseQueue, SyncPcs, PullPcs, TailPcs, JournalPcs, ScanPcs, CohortPcs, CommitPcs,
     QueuedPcs, TargetPcs, CapturePcs, NoRun
<1>7. PhaseSnap'
  BY <1>h, <1>u, <1>g, <1>o, <1>x DEF StepFacts, Flush, FlushBuffers, SaveBuffers,
     PhaseSnap, SyncPcs, PullPcs, TailPcs, JournalPcs, ScanPcs, CohortPcs, CommitPcs,
     QueuedPcs, TargetPcs, CapturePcs, PendingIn
<1>8. TreesSaved'
  BY <1>y
<1>9. FilesSaved'
  BY <1>x
<1>10. SnapSaved'
  <2>1. run'.snap = run.snap
    BY <1>o DEF StepFacts, Flush
  <2> QED BY <2>1, <1>y
<1>11. Held'
  BY <1>x
<1> QED BY <1>g, <1>f, <1>1, <1>2, <1>3, <1>4, <1>5, <1>6, <1>7, <1>8, <1>9, <1>10, <1>11 DEF
   DeviceInv, Shapes, Phases, Keeps

LEMMA RepairRefKeeps ==
  ASSUME DeviceInv, RepairRef
  PROVE  DeviceInv'
<1>h. /\ Git /\ ServerTyped /\ StateTyped /\ QueueTyped /\ RefTyped /\ FilesTyped
      /\ ProvTyped /\ JournalTyped /\ RunTyped /\ AckTyped /\ PhaseRun /\ PhaseJournal
      /\ PhaseWrite /\ PhaseQueue /\ PhaseSnap /\ TreesSaved /\ FilesSaved /\ SnapSaved
      /\ Held /\ HeadKept /\ StateKnown /\ ConflictKnown /\ JournalKnown /\ ReviewKnown
      /\ JournalKept
  BY DEF DeviceInv, Shapes, Phases, Keeps
<1>u. UNCHANGED <<commits, main, devRef, conflict, file, buf, saved, st, q, prov, jr, ack, run>>
  BY DEF RepairRef, rest, server, editor
<1>g. Grown /\ Git'
  BY <1>h, <1>u, StillGrown
<1>o. StepFacts
  BY <1>g, Facts DEF DeviceInv
<1>f. /\ ServerTyped' /\ StateTyped' /\ QueueTyped' /\ FilesTyped' /\ ProvTyped'
      /\ JournalTyped' /\ RunTyped' /\ AckTyped' /\ TreesSaved' /\ FilesSaved'
      /\ SnapSaved' /\ Held' /\ HeadKept' /\ StateKnown' /\ ConflictKnown'
      /\ JournalKnown' /\ ReviewKnown' /\ JournalKept'
  BY <1>h, <1>u, <1>g, ServerFrame, StateFrame, QueueFrame, FilesFrame, ProvFrame,
     JournalFrame, RunFrame, AckFrame, TreesFrame, FilesSavedFrame, SnapFrame,
     HeldFrame, HeadFrame, StateKnownFrame, ConflictFrame, JournalKnownFrame,
     ReviewFrame, JournalKeptFrame
<1>1. RefTyped'
  BY <1>h, <1>u, <1>g, <1>o DEF StepFacts, RepairRef, RefTyped
<1>2. PhaseRun'
  BY <1>h, <1>u, <1>g, <1>o DEF StepFacts, RepairRef, PhaseRun, SyncPcs, PullPcs,
     TailPcs, JournalPcs, ScanPcs, CohortPcs, CommitPcs, QueuedPcs, TargetPcs,
     CapturePcs, NoRun
<1>3. PhaseJournal'
  BY <1>h, <1>u, <1>g, <1>o DEF StepFacts, RepairRef, PhaseJournal, SyncPcs, PullPcs,
     TailPcs, JournalPcs, ScanPcs, CohortPcs, CommitPcs, QueuedPcs, TargetPcs,
     CapturePcs, NoRun
<1>4. PhaseWrite'
  BY <1>h, <1>u, <1>g, <1>o DEF StepFacts, RepairRef, PhaseWrite
<1>5. PhaseQueue'
  BY <1>h, <1>u, <1>g, <1>o DEF StepFacts, RepairRef, PhaseQueue, SyncPcs, PullPcs,
     TailPcs, JournalPcs, ScanPcs, CohortPcs, CommitPcs, QueuedPcs, TargetPcs,
     CapturePcs, NoRun
<1>6. PhaseSnap'
  BY <1>h, <1>u, <1>g, <1>o DEF StepFacts, RepairRef, PhaseSnap, SyncPcs, PullPcs,
     TailPcs, JournalPcs, ScanPcs, CohortPcs, CommitPcs, QueuedPcs, TargetPcs,
     CapturePcs, PendingIn
<1> QED BY <1>g, <1>f, <1>1, <1>2, <1>3, <1>4, <1>5, <1>6 DEF DeviceInv, Shapes, Phases, Keeps

LEMMA ReconcileKeeps ==
  ASSUME DeviceInv, Reconcile
  PROVE  DeviceInv'
<1>h. /\ Git /\ ServerTyped /\ StateTyped /\ QueueTyped /\ RefTyped /\ FilesTyped
      /\ ProvTyped /\ JournalTyped /\ RunTyped /\ AckTyped /\ PhaseRun /\ PhaseJournal
      /\ PhaseWrite /\ PhaseQueue /\ PhaseSnap /\ TreesSaved /\ FilesSaved /\ SnapSaved
      /\ Held /\ HeadKept /\ StateKnown /\ ConflictKnown /\ JournalKnown /\ ReviewKnown
      /\ JournalKept
  BY DEF DeviceInv, Shapes, Phases, Keeps
<1>u. UNCHANGED <<commits, main, devRef, conflict, file, buf, saved, ref, prov, jr, ack>>
  BY DEF Reconcile, rest, server, editor
<1>g. Grown /\ Git'
  BY <1>h, <1>u, StillGrown
<1>o. StepFacts
  BY <1>g, Facts DEF DeviceInv
<1>x. \/ pc' = "push" /\ q.pending # 0 /\ st' = st /\ q' = q
      \/ pc' = "capture" /\ q.pending = 0 /\ st' = st /\ q' = q
      \/ /\ pc' = "capture" /\ q.pending = 0 /\ q' = q
         /\ st' = [st EXCEPT !.head = st.main, !.label = "Synced"]
      \/ /\ pc' = "push" /\ q.pending = 0
         /\ q' = [q EXCEPT !.pending = st.head, !.base = 0, !.status = "queued_local"]
         /\ st' = [st EXCEPT !.label = "Ahead"]
      \/ pc' = "idle" /\ st' = Blocked("diverged") /\ q' = q
  BY DEF Reconcile
<1>r. pc = "reconcile" /\ run' = [run EXCEPT !.moved = FALSE]
  BY DEF Reconcile
<1>f. /\ ServerTyped' /\ RefTyped' /\ FilesTyped' /\ ProvTyped' /\ JournalTyped'
      /\ AckTyped' /\ TreesSaved' /\ FilesSaved' /\ Held' /\ ConflictKnown'
      /\ JournalKnown' /\ JournalKept'
  BY <1>h, <1>u, <1>g, ServerFrame, RefFrame, FilesFrame, ProvFrame, JournalFrame,
     AckFrame, TreesFrame, FilesSavedFrame, HeldFrame, ConflictFrame, JournalKnownFrame,
     JournalKeptFrame
<1>1. StateTyped'
  <2>1. st' \in StateRecords(Node)
    BY <1>x, <1>h DEF StateTyped, StateRecords, Blocked, Labels, Codes
  <2> QED BY <2>1, <1>o DEF StepFacts, StateTyped, StateRecords
<1>2. QueueTyped'
  BY <1>h, <1>u, <1>g, <1>o, <1>x, <1>r DEF StepFacts, Blocked, QueueTyped, None,
     Statuses
<1>3. RunTyped'
  BY <1>h, <1>u, <1>g, <1>o, <1>x, <1>r DEF StepFacts, Blocked, RunTyped, None, NoRun,
     Trees
<1>4. PhaseRun'
  BY <1>h, <1>u, <1>g, <1>o, <1>x, <1>r DEF StepFacts, Blocked, PhaseRun, SyncPcs,
     PullPcs, TailPcs, JournalPcs, ScanPcs, CohortPcs, CommitPcs, QueuedPcs, TargetPcs,
     CapturePcs, NoRun
<1>5. PhaseJournal'
  BY <1>h, <1>u, <1>g, <1>o, <1>x, <1>r DEF StepFacts, Blocked, PhaseJournal, SyncPcs,
     PullPcs, TailPcs, JournalPcs, ScanPcs, CohortPcs, CommitPcs, QueuedPcs, TargetPcs,
     CapturePcs, NoRun
<1>6. PhaseWrite'
  BY <1>h, <1>u, <1>g, <1>o, <1>x, <1>r DEF StepFacts, Blocked, PhaseWrite
<1>7. PhaseQueue'
  BY <1>x, <1>r, <1>o DEF StepFacts, PhaseQueue, SyncPcs, PullPcs, TailPcs, JournalPcs,
     ScanPcs, CohortPcs, CommitPcs, QueuedPcs, TargetPcs, CapturePcs
<1>8. PhaseSnap'
  BY <1>h, <1>u, <1>g, <1>o, <1>x, <1>r DEF StepFacts, Blocked, PhaseSnap, SyncPcs,
     PullPcs, TailPcs, JournalPcs, ScanPcs, CohortPcs, CommitPcs, QueuedPcs, TargetPcs,
     CapturePcs, PendingIn
<1>9. SnapSaved'
  BY <1>h, <1>u, <1>g, <1>o, <1>x, <1>r DEF StepFacts, Blocked, SnapSaved, NoRun
<1>10. HeadKept'
  <2>1. CASE st'.head = st.head /\ q'.pending = q.pending
    BY <1>h, <1>g, <2>1, HeadFrame
  <2>2. CASE st'.head = st.main
    <3>1. st.main \in Server
      BY <1>h, <1>o DEF StepFacts, StateKnown
    <3> QED BY <2>2, <3>1, <1>g, HeadServed DEF DeviceInv
  <2>3. CASE st'.head = st.head /\ q'.pending = st.head
    BY <2>3, <1>o DEF StepFacts, HeadKept
  <2> QED BY <1>x, <1>o, <2>1, <2>2, <2>3 DEF StepFacts, Blocked
<1>11. StateKnown'
  BY <1>h, <1>u, <1>g, <1>o, <1>x, <1>r DEF StepFacts, Blocked, StateKnown
<1>12. ReviewKnown'
  BY <1>h, <1>u, <1>g, <1>o, <1>x, <1>r DEF StepFacts, Blocked, ReviewKnown
<1> QED BY <1>g, <1>f, <1>1, <1>2, <1>3, <1>4, <1>5, <1>6, <1>7, <1>8, <1>9, <1>10, <1>11,
     <1>12
   DEF DeviceInv, Shapes, Phases, Keeps

LEMMA CaptureFullKeeps ==
  ASSUME DeviceInv, CaptureFull
  PROVE  DeviceInv'
<1>h. /\ Git /\ ServerTyped /\ StateTyped /\ QueueTyped /\ RefTyped /\ FilesTyped
      /\ ProvTyped /\ JournalTyped /\ RunTyped /\ AckTyped /\ PhaseRun /\ PhaseJournal
      /\ PhaseWrite /\ PhaseQueue /\ PhaseSnap /\ TreesSaved /\ FilesSaved /\ SnapSaved
      /\ Held /\ HeadKept /\ StateKnown /\ ConflictKnown /\ JournalKnown /\ ReviewKnown
      /\ JournalKept
  BY DEF DeviceInv, Shapes, Phases, Keeps
<1>u. UNCHANGED <<commits, main, devRef, conflict, file, buf, saved, q, ref, prov, jr, ack>>
  BY DEF CaptureFull, Checking, rest, server, editor
<1>g. Grown /\ Git'
  BY <1>h, <1>u, StillGrown
<1>o. StepFacts
  BY <1>g, Facts DEF DeviceInv
<1>f. /\ ServerTyped' /\ QueueTyped' /\ RefTyped' /\ FilesTyped' /\ ProvTyped'
      /\ JournalTyped' /\ AckTyped' /\ TreesSaved' /\ FilesSaved' /\ Held'
      /\ ConflictKnown' /\ JournalKnown' /\ ReviewKnown' /\ JournalKept'
  BY <1>h, <1>u, <1>g, ServerFrame, QueueFrame, RefFrame, FilesFrame, ProvFrame,
     JournalFrame, AckFrame, TreesFrame, FilesSavedFrame, HeldFrame, ConflictFrame,
     JournalKnownFrame, ReviewFrame, JournalKeptFrame
<1>1. StateTyped'
  BY <1>h, <1>u, <1>g, <1>o DEF StepFacts, CaptureFull, Checking, StateTyped, Labels,
     Codes
<1>2. RunTyped'
  BY <1>h, <1>u, <1>g, <1>o DEF StepFacts, CaptureFull, Checking, RunTyped, None, NoRun,
     Trees
<1>3. PhaseRun'
  BY <1>h, <1>u, <1>g, <1>o DEF StepFacts, CaptureFull, Checking, PhaseRun, SyncPcs,
     PullPcs, TailPcs, JournalPcs, ScanPcs, CohortPcs, CommitPcs, QueuedPcs, TargetPcs,
     CapturePcs, NoRun, StateKnown
<1>4. PhaseJournal'
  BY <1>h, <1>u, <1>g, <1>o DEF StepFacts, CaptureFull, Checking, PhaseJournal, SyncPcs,
     PullPcs, TailPcs, JournalPcs, ScanPcs, CohortPcs, CommitPcs, QueuedPcs, TargetPcs,
     CapturePcs, NoRun, PhaseRun
<1>5. PhaseWrite'
  BY <1>h, <1>u, <1>g, <1>o DEF StepFacts, CaptureFull, Checking, PhaseWrite
<1>6. PhaseQueue'
  BY <1>h, <1>u, <1>g, <1>o DEF StepFacts, CaptureFull, Checking, PhaseQueue, SyncPcs,
     PullPcs, TailPcs, JournalPcs, ScanPcs, CohortPcs, CommitPcs, QueuedPcs, TargetPcs,
     CapturePcs, NoRun
<1>7. PhaseSnap'
  <2>1. PendingIn(file)
    BY <1>h, FileHolds
  <2>2. pc' = "cohort" /\ run'.snap = file
    BY <1>o DEF StepFacts, CaptureFull
  <2>3. PendingIn(run.snap)'
    BY <2>1, <2>2, <1>h, <1>g, <1>u, PendingFrame DEF PendingIn
  <2> QED BY <2>2, <2>3 DEF PhaseSnap, SyncPcs, PullPcs, TailPcs, JournalPcs, ScanPcs,
       CohortPcs, CommitPcs, QueuedPcs, TargetPcs, CapturePcs
<1>8. SnapSaved'
  BY <1>h, <1>u, <1>g, <1>o DEF StepFacts, CaptureFull, Checking, SnapSaved, NoRun,
     FilesSaved
<1>9. HeadKept'
  <2>1. st'.head = st.head /\ q'.pending = q.pending
    BY <1>h, <1>u, <1>o DEF StepFacts, CaptureFull, Checking
  <2> QED BY <1>h, <1>g, <2>1, HeadFrame
<1>10. StateKnown'
  BY <1>h, <1>u, <1>g, <1>o DEF StepFacts, CaptureFull, Checking, StateKnown
<1> QED BY <1>g, <1>f, <1>1, <1>2, <1>3, <1>4, <1>5, <1>6, <1>7, <1>8, <1>9, <1>10 DEF
   DeviceInv, Shapes, Phases, Keeps

LEMMA NoChangeKeeps ==
  ASSUME DeviceInv, NoChange
  PROVE  DeviceInv'
<1>h. /\ Git /\ ServerTyped /\ StateTyped /\ QueueTyped /\ RefTyped /\ FilesTyped
      /\ ProvTyped /\ JournalTyped /\ RunTyped /\ AckTyped /\ PhaseRun /\ PhaseJournal
      /\ PhaseWrite /\ PhaseQueue /\ PhaseSnap /\ TreesSaved /\ FilesSaved /\ SnapSaved
      /\ Held /\ HeadKept /\ StateKnown /\ ConflictKnown /\ JournalKnown /\ ReviewKnown
      /\ JournalKept
  BY DEF DeviceInv, Shapes, Phases, Keeps
<1>u. UNCHANGED <<commits, main, devRef, conflict, file, buf, saved, ref, prov, jr, ack>>
  BY DEF NoChange, Done, rest, server, editor
<1>g. Grown /\ Git'
  BY <1>h, <1>u, StillGrown
<1>o. StepFacts
  BY <1>g, Facts DEF DeviceInv
<1>f. /\ ServerTyped' /\ RefTyped' /\ FilesTyped' /\ ProvTyped' /\ JournalTyped'
      /\ AckTyped' /\ TreesSaved' /\ FilesSaved' /\ Held' /\ ConflictKnown'
      /\ JournalKnown' /\ JournalKept'
  BY <1>h, <1>u, <1>g, ServerFrame, RefFrame, FilesFrame, ProvFrame, JournalFrame,
     AckFrame, TreesFrame, FilesSavedFrame, HeldFrame, ConflictFrame, JournalKnownFrame,
     JournalKeptFrame
<1>1. StateTyped'
  BY <1>h, <1>u, <1>g, <1>o DEF StepFacts, NoChange, Done, StateTyped, Labels, Codes
<1>2. QueueTyped'
  BY <1>h, <1>u, <1>g, <1>o DEF StepFacts, NoChange, Done, QueueTyped, None, Statuses
<1>3. RunTyped'
  BY <1>h, <1>u, <1>g, <1>o DEF StepFacts, NoChange, Done, RunTyped, None, NoRun, Trees
<1>4. PhaseRun'
  BY <1>h, <1>u, <1>g, <1>o DEF StepFacts, NoChange, Done, PhaseRun, SyncPcs, PullPcs,
     TailPcs, JournalPcs, ScanPcs, CohortPcs, CommitPcs, QueuedPcs, TargetPcs,
     CapturePcs, NoRun
<1>5. PhaseJournal'
  BY <1>h, <1>u, <1>g, <1>o DEF StepFacts, NoChange, Done, PhaseJournal, SyncPcs,
     PullPcs, TailPcs, JournalPcs, ScanPcs, CohortPcs, CommitPcs, QueuedPcs, TargetPcs,
     CapturePcs, NoRun
<1>6. PhaseWrite'
  BY <1>h, <1>u, <1>g, <1>o DEF StepFacts, NoChange, Done, PhaseWrite
<1>7. PhaseQueue'
  BY <1>h, <1>u, <1>g, <1>o DEF StepFacts, NoChange, Done, PhaseQueue, SyncPcs, PullPcs,
     TailPcs, JournalPcs, ScanPcs, CohortPcs, CommitPcs, QueuedPcs, TargetPcs,
     CapturePcs, NoRun
<1>8. PhaseSnap'
  BY <1>h, <1>u, <1>g, <1>o DEF StepFacts, NoChange, Done, PhaseSnap, SyncPcs, PullPcs,
     TailPcs, JournalPcs, ScanPcs, CohortPcs, CommitPcs, QueuedPcs, TargetPcs,
     CapturePcs, PendingIn
<1>9. SnapSaved'
  BY <1>h, <1>u, <1>g, <1>o DEF StepFacts, NoChange, Done, SnapSaved, NoRun
<1>10. HeadKept'
  <2>1. st'.head = st.head /\ q'.pending = q.pending
    BY <1>h, <1>u, <1>o DEF StepFacts, NoChange, Done
  <2> QED BY <1>h, <1>g, <2>1, HeadFrame
<1>11. StateKnown'
  BY <1>h, <1>u, <1>g, <1>o DEF StepFacts, NoChange, Done, StateKnown
<1>12. ReviewKnown'
  BY <1>h, <1>u, <1>g, <1>o DEF StepFacts, NoChange, Done, ReviewKnown
<1> QED BY <1>g, <1>f, <1>1, <1>2, <1>3, <1>4, <1>5, <1>6, <1>7, <1>8, <1>9, <1>10, <1>11,
     <1>12
   DEF DeviceInv, Shapes, Phases, Keeps

LEMMA BlockedPollKeeps ==
  ASSUME DeviceInv, BlockedPoll
  PROVE  DeviceInv'
<1>h. /\ Git /\ ServerTyped /\ StateTyped /\ QueueTyped /\ RefTyped /\ FilesTyped
      /\ ProvTyped /\ JournalTyped /\ RunTyped /\ AckTyped /\ PhaseRun /\ PhaseJournal
      /\ PhaseWrite /\ PhaseQueue /\ PhaseSnap /\ TreesSaved /\ FilesSaved /\ SnapSaved
      /\ Held /\ HeadKept /\ StateKnown /\ ConflictKnown /\ JournalKnown /\ ReviewKnown
      /\ JournalKept
  BY DEF DeviceInv, Shapes, Phases, Keeps
<1>u. UNCHANGED <<commits, main, devRef, conflict, file, buf, saved, q, ref, prov, jr, ack>>
  BY DEF BlockedPoll, rest, server, editor
<1>g. Grown /\ Git'
  BY <1>h, <1>u, StillGrown
<1>o. StepFacts
  BY <1>g, Facts DEF DeviceInv
<1>f. /\ ServerTyped' /\ QueueTyped' /\ RefTyped' /\ FilesTyped' /\ ProvTyped'
      /\ JournalTyped' /\ AckTyped' /\ TreesSaved' /\ FilesSaved' /\ Held'
      /\ ConflictKnown' /\ JournalKnown' /\ ReviewKnown' /\ JournalKept'
  BY <1>h, <1>u, <1>g, ServerFrame, QueueFrame, RefFrame, FilesFrame, ProvFrame,
     JournalFrame, AckFrame, TreesFrame, FilesSavedFrame, HeldFrame, ConflictFrame,
     JournalKnownFrame, ReviewFrame, JournalKeptFrame
<1>1. StateTyped'
  BY <1>h, <1>u, <1>g, <1>o DEF StepFacts, BlockedPoll, StateTyped, Labels, Codes
<1>2. RunTyped'
  BY <1>h, <1>u, <1>g, <1>o DEF StepFacts, BlockedPoll, RunTyped, None, NoRun, Trees
<1>3. PhaseRun'
  BY <1>h, <1>u, <1>g, <1>o DEF StepFacts, BlockedPoll, PhaseRun, SyncPcs, PullPcs,
     TailPcs, JournalPcs, ScanPcs, CohortPcs, CommitPcs, QueuedPcs, TargetPcs,
     CapturePcs, NoRun
<1>4. PhaseJournal'
  BY <1>h, <1>u, <1>g, <1>o DEF StepFacts, BlockedPoll, PhaseJournal, SyncPcs, PullPcs,
     TailPcs, JournalPcs, ScanPcs, CohortPcs, CommitPcs, QueuedPcs, TargetPcs,
     CapturePcs, NoRun
<1>5. PhaseWrite'
  BY <1>h, <1>u, <1>g, <1>o DEF StepFacts, BlockedPoll, PhaseWrite
<1>6. PhaseQueue'
  BY <1>h, <1>u, <1>g, <1>o DEF StepFacts, BlockedPoll, PhaseQueue, SyncPcs, PullPcs,
     TailPcs, JournalPcs, ScanPcs, CohortPcs, CommitPcs, QueuedPcs, TargetPcs,
     CapturePcs, NoRun
<1>7. PhaseSnap'
  BY <1>h, <1>u, <1>g, <1>o DEF StepFacts, BlockedPoll, PhaseSnap, SyncPcs, PullPcs,
     TailPcs, JournalPcs, ScanPcs, CohortPcs, CommitPcs, QueuedPcs, TargetPcs,
     CapturePcs, PendingIn
<1>8. SnapSaved'
  BY <1>h, <1>u, <1>g, <1>o DEF StepFacts, BlockedPoll, SnapSaved, NoRun
<1>9. HeadKept'
  <2>1. st'.head = st.head /\ q'.pending = q.pending
    BY <1>h, <1>u, <1>o DEF StepFacts, BlockedPoll
  <2> QED BY <1>h, <1>g, <2>1, HeadFrame
<1>10. StateKnown'
  BY <1>h, <1>u, <1>g, <1>o DEF StepFacts, BlockedPoll, StateKnown
<1> QED BY <1>g, <1>f, <1>1, <1>2, <1>3, <1>4, <1>5, <1>6, <1>7, <1>8, <1>9, <1>10 DEF
   DeviceInv, Shapes, Phases, Keeps

LEMMA BootCaptureKeeps ==
  ASSUME DeviceInv, BootCapture
  PROVE  DeviceInv'
<1>h. /\ Git /\ ServerTyped /\ StateTyped /\ QueueTyped /\ RefTyped /\ FilesTyped
      /\ ProvTyped /\ JournalTyped /\ RunTyped /\ AckTyped /\ PhaseRun /\ PhaseJournal
      /\ PhaseWrite /\ PhaseQueue /\ PhaseSnap /\ TreesSaved /\ FilesSaved /\ SnapSaved
      /\ Held /\ HeadKept /\ StateKnown /\ ConflictKnown /\ JournalKnown /\ ReviewKnown
      /\ JournalKept
  BY DEF DeviceInv, Shapes, Phases, Keeps
<1>u. UNCHANGED <<commits, main, devRef, conflict, file, buf, saved, st, q, ref, prov, jr, ack>>
  BY DEF BootCapture, rest, server, editor
<1>g. Grown /\ Git'
  BY <1>h, <1>u, StillGrown
<1>o. StepFacts
  BY <1>g, Facts DEF DeviceInv
<1>f. /\ ServerTyped' /\ StateTyped' /\ QueueTyped' /\ RefTyped' /\ FilesTyped'
      /\ ProvTyped' /\ JournalTyped' /\ AckTyped' /\ TreesSaved' /\ FilesSaved'
      /\ Held' /\ HeadKept' /\ StateKnown' /\ ConflictKnown' /\ JournalKnown'
      /\ ReviewKnown' /\ JournalKept'
  BY <1>h, <1>u, <1>g, ServerFrame, StateFrame, QueueFrame, RefFrame, FilesFrame,
     ProvFrame, JournalFrame, AckFrame, TreesFrame, FilesSavedFrame, HeldFrame,
     HeadFrame, StateKnownFrame, ConflictFrame, JournalKnownFrame, ReviewFrame,
     JournalKeptFrame
<1>1. RunTyped'
  BY <1>h, <1>u, <1>g, <1>o DEF StepFacts, BootCapture, RunTyped, None, NoRun, Trees
<1>2. PhaseRun'
  BY <1>h, <1>u, <1>g, <1>o DEF StepFacts, BootCapture, PhaseRun, SyncPcs, PullPcs,
     TailPcs, JournalPcs, ScanPcs, CohortPcs, CommitPcs, QueuedPcs, TargetPcs,
     CapturePcs, NoRun
<1>3. PhaseJournal'
  BY <1>h, <1>u, <1>g, <1>o DEF StepFacts, BootCapture, PhaseJournal, SyncPcs, PullPcs,
     TailPcs, JournalPcs, ScanPcs, CohortPcs, CommitPcs, QueuedPcs, TargetPcs,
     CapturePcs, NoRun, PhaseRun
<1>4. PhaseWrite'
  BY <1>h, <1>u, <1>g, <1>o DEF StepFacts, BootCapture, PhaseWrite
<1>5. PhaseQueue'
  BY <1>h, <1>u, <1>g, <1>o DEF StepFacts, BootCapture, PhaseQueue, SyncPcs, PullPcs,
     TailPcs, JournalPcs, ScanPcs, CohortPcs, CommitPcs, QueuedPcs, TargetPcs,
     CapturePcs, NoRun
<1>6. PhaseSnap'
  <2>1. PendingIn(file)
    BY <1>h, FileHolds
  <2>2. pc' = "refs" /\ run'.snap = file
    BY <1>o DEF StepFacts, BootCapture
  <2>3. PendingIn(run.snap)'
    BY <2>1, <2>2, <1>h, <1>g, <1>u, PendingFrame DEF PendingIn
  <2> QED BY <2>2, <2>3 DEF PhaseSnap, SyncPcs, PullPcs, TailPcs, JournalPcs, ScanPcs,
       CohortPcs, CommitPcs, QueuedPcs, TargetPcs, CapturePcs
<1>7. SnapSaved'
  BY <1>h, <1>u, <1>g, <1>o DEF StepFacts, BootCapture, SnapSaved, NoRun, FilesSaved
<1> QED BY <1>g, <1>f, <1>1, <1>2, <1>3, <1>4, <1>5, <1>6, <1>7 DEF DeviceInv, Shapes, Phases,
   Keeps

LEMMA RefsKeeps ==
  ASSUME DeviceInv, Refs
  PROVE  DeviceInv'
<1>h. /\ Git /\ ServerTyped /\ StateTyped /\ QueueTyped /\ RefTyped /\ FilesTyped
      /\ ProvTyped /\ JournalTyped /\ RunTyped /\ AckTyped /\ PhaseRun /\ PhaseJournal
      /\ PhaseWrite /\ PhaseQueue /\ PhaseSnap /\ TreesSaved /\ FilesSaved /\ SnapSaved
      /\ Held /\ HeadKept /\ StateKnown /\ ConflictKnown /\ JournalKnown /\ ReviewKnown
      /\ JournalKept
  BY DEF DeviceInv, Shapes, Phases, Keeps
<1>u. UNCHANGED <<commits, main, devRef, conflict, file, buf, saved, st, q, prov, jr, ack, run>>
  BY DEF Refs, rest, server, editor
<1>g. Grown /\ Git'
  BY <1>h, <1>u, StillGrown
<1>o. StepFacts
  BY <1>g, Facts DEF DeviceInv
<1>f. /\ ServerTyped' /\ StateTyped' /\ QueueTyped' /\ FilesTyped' /\ ProvTyped'
      /\ JournalTyped' /\ RunTyped' /\ AckTyped' /\ TreesSaved' /\ FilesSaved'
      /\ SnapSaved' /\ Held' /\ HeadKept' /\ StateKnown' /\ ConflictKnown'
      /\ JournalKnown' /\ ReviewKnown' /\ JournalKept'
  BY <1>h, <1>u, <1>g, ServerFrame, StateFrame, QueueFrame, FilesFrame, ProvFrame,
     JournalFrame, RunFrame, AckFrame, TreesFrame, FilesSavedFrame, SnapFrame,
     HeldFrame, HeadFrame, StateKnownFrame, ConflictFrame, JournalKnownFrame,
     ReviewFrame, JournalKeptFrame
<1>1. RefTyped'
  BY <1>h, <1>u, <1>g, <1>o DEF StepFacts, Refs, RefTyped, PhaseRun, SyncPcs, PullPcs,
     TailPcs, JournalPcs, ScanPcs, CohortPcs, CommitPcs, QueuedPcs, TargetPcs,
     CapturePcs
<1>2. PhaseRun'
  BY <1>h, <1>u, <1>g, <1>o DEF StepFacts, Refs, PhaseRun, SyncPcs, PullPcs, TailPcs,
     JournalPcs, ScanPcs, CohortPcs, CommitPcs, QueuedPcs, TargetPcs, CapturePcs, NoRun
<1>3. PhaseJournal'
  BY <1>h, <1>u, <1>g, <1>o DEF StepFacts, Refs, PhaseJournal, SyncPcs, PullPcs,
     TailPcs, JournalPcs, ScanPcs, CohortPcs, CommitPcs, QueuedPcs, TargetPcs,
     CapturePcs, NoRun, PhaseRun
<1>4. PhaseWrite'
  BY <1>h, <1>u, <1>g, <1>o DEF StepFacts, Refs, PhaseWrite
<1>5. PhaseQueue'
  BY <1>h, <1>u, <1>g, <1>o DEF StepFacts, Refs, PhaseQueue, SyncPcs, PullPcs, TailPcs,
     JournalPcs, ScanPcs, CohortPcs, CommitPcs, QueuedPcs, TargetPcs, CapturePcs, NoRun
<1>6. PhaseSnap'
  <2>1. pc = "refs" /\ pc' = "commitj" /\ run.target \in Node
    BY <1>h, <1>o DEF Refs, StepFacts, PhaseRun, SyncPcs, PullPcs, TailPcs, JournalPcs,
         ScanPcs, CohortPcs, CommitPcs, QueuedPcs, TargetPcs, CapturePcs
  <2>2. Preserved' = Preserved
    BY <2>1, <1>u, <1>o DEF StepFacts, Preserved, Differ
  <2>3. PendingIn(run.snap) => PendingIn(run.snap)'
    BY <1>h, <1>g, <1>u, PendingFrame DEF PendingIn
  <2> QED BY <1>h, <2>1, <2>2, <2>3 DEF PhaseSnap, SyncPcs, PullPcs, TailPcs, JournalPcs,
       ScanPcs, CohortPcs, CommitPcs, QueuedPcs, TargetPcs, CapturePcs
<1> QED BY <1>g, <1>f, <1>1, <1>2, <1>3, <1>4, <1>5, <1>6 DEF DeviceInv, Shapes, Phases, Keeps

LEMMA CommitJournalKeeps ==
  ASSUME DeviceInv, CommitJournal
  PROVE  DeviceInv'
<1>h. /\ Git /\ ServerTyped /\ StateTyped /\ QueueTyped /\ RefTyped /\ FilesTyped
      /\ ProvTyped /\ JournalTyped /\ RunTyped /\ AckTyped /\ PhaseRun /\ PhaseJournal
      /\ PhaseWrite /\ PhaseQueue /\ PhaseSnap /\ TreesSaved /\ FilesSaved /\ SnapSaved
      /\ Held /\ HeadKept /\ StateKnown /\ ConflictKnown /\ JournalKnown /\ ReviewKnown
      /\ JournalKept
  BY DEF DeviceInv, Shapes, Phases, Keeps
<1>u. UNCHANGED <<commits, main, devRef, conflict, file, buf, saved, st, q, ref, prov, ack, run>>
  BY DEF CommitJournal, rest, server, editor
<1>g. Grown /\ Git'
  BY <1>h, <1>u, StillGrown
<1>o. StepFacts
  BY <1>g, Facts DEF DeviceInv
<1>f. /\ ServerTyped' /\ StateTyped' /\ QueueTyped' /\ RefTyped' /\ FilesTyped'
      /\ ProvTyped' /\ RunTyped' /\ AckTyped' /\ TreesSaved' /\ FilesSaved'
      /\ SnapSaved' /\ Held' /\ HeadKept' /\ StateKnown' /\ ConflictKnown'
      /\ ReviewKnown'
  BY <1>h, <1>u, <1>g, ServerFrame, StateFrame, QueueFrame, RefFrame, FilesFrame,
     ProvFrame, RunFrame, AckFrame, TreesFrame, FilesSavedFrame, SnapFrame, HeldFrame,
     HeadFrame, StateKnownFrame, ConflictFrame, ReviewFrame
<1>1. JournalTyped'
  BY <1>h, <1>u, <1>g, <1>o DEF StepFacts, CommitJournal, JournalTyped, None
<1>2. PhaseRun'
  BY <1>h, <1>u, <1>g, <1>o DEF StepFacts, CommitJournal, PhaseRun, SyncPcs, PullPcs,
     TailPcs, JournalPcs, ScanPcs, CohortPcs, CommitPcs, QueuedPcs, TargetPcs,
     CapturePcs, NoRun
<1>3. PhaseJournal'
  BY <1>h, <1>u, <1>g, <1>o DEF StepFacts, CommitJournal, PhaseJournal, SyncPcs,
     PullPcs, TailPcs, JournalPcs, ScanPcs, CohortPcs, CommitPcs, QueuedPcs, TargetPcs,
     CapturePcs, NoRun
<1>4. PhaseWrite'
  BY <1>h, <1>u, <1>g, <1>o DEF StepFacts, CommitJournal, PhaseWrite
<1>5. PhaseQueue'
  BY <1>h, <1>u, <1>g, <1>o DEF StepFacts, CommitJournal, PhaseQueue, SyncPcs, PullPcs,
     TailPcs, JournalPcs, ScanPcs, CohortPcs, CommitPcs, QueuedPcs, TargetPcs,
     CapturePcs, NoRun
<1>6. PhaseSnap'
  <2>1. pc = "commitj" /\ pc' = "astate" /\ run.target \in Node
    BY <1>h, <1>o DEF CommitJournal, StepFacts, PhaseRun, SyncPcs, PullPcs, TailPcs,
         JournalPcs, ScanPcs, CohortPcs, CommitPcs, QueuedPcs, TargetPcs, CapturePcs
  <2>2. Preserved' = Preserved
    BY <2>1, <1>u, <1>o DEF StepFacts, Preserved, Differ
  <2>3. PendingIn(run.snap) => PendingIn(run.snap)'
    BY <1>h, <1>g, <1>u, PendingFrame DEF PendingIn
  <2> QED BY <1>h, <2>1, <2>2, <2>3 DEF PhaseSnap, SyncPcs, PullPcs, TailPcs, JournalPcs,
       ScanPcs, CohortPcs, CommitPcs, QueuedPcs, TargetPcs, CapturePcs
<1>7. JournalKnown'
  BY <1>h, <1>u, <1>g, <1>o DEF StepFacts, CommitJournal, JournalKnown, PhaseJournal,
     SyncPcs, PullPcs, TailPcs, JournalPcs, ScanPcs, CohortPcs, CommitPcs, QueuedPcs,
     TargetPcs, CapturePcs
<1>8. JournalKept'
  BY <1>h, <1>u, <1>g, <1>o DEF StepFacts, CommitJournal, JournalKept
<1> QED BY <1>g, <1>f, <1>1, <1>2, <1>3, <1>4, <1>5, <1>6, <1>7, <1>8 DEF DeviceInv, Shapes,
   Phases, Keeps

LEMMA TailStepKeeps ==
  ASSUME DeviceInv, TailStep
  PROVE  DeviceInv'
<1>h. /\ Git /\ ServerTyped /\ StateTyped /\ QueueTyped /\ RefTyped /\ FilesTyped
      /\ ProvTyped /\ JournalTyped /\ RunTyped /\ AckTyped /\ PhaseRun /\ PhaseJournal
      /\ PhaseWrite /\ PhaseQueue /\ PhaseSnap /\ TreesSaved /\ FilesSaved /\ SnapSaved
      /\ Held /\ HeadKept /\ StateKnown /\ ConflictKnown /\ JournalKnown /\ ReviewKnown
      /\ JournalKept
  BY DEF DeviceInv, Shapes, Phases, Keeps
<1>u. UNCHANGED <<commits, main, devRef, conflict, file, buf, saved, st, q, ref, prov, ack, run>>
  BY DEF TailStep, rest, server, editor
<1>g. Grown /\ Git'
  BY <1>h, <1>u, StillGrown
<1>o. StepFacts
  BY <1>g, Facts DEF DeviceInv
<1>f. /\ ServerTyped' /\ StateTyped' /\ QueueTyped' /\ RefTyped' /\ FilesTyped'
      /\ ProvTyped' /\ RunTyped' /\ AckTyped' /\ TreesSaved' /\ FilesSaved'
      /\ SnapSaved' /\ Held' /\ HeadKept' /\ StateKnown' /\ ConflictKnown'
      /\ ReviewKnown'
  BY <1>h, <1>u, <1>g, ServerFrame, StateFrame, QueueFrame, RefFrame, FilesFrame,
     ProvFrame, RunFrame, AckFrame, TreesFrame, FilesSavedFrame, SnapFrame, HeldFrame,
     HeadFrame, StateKnownFrame, ConflictFrame, ReviewFrame
<1>1. JournalTyped'
  BY <1>h, <1>u, <1>g, <1>o DEF StepFacts, TailStep, JournalTyped, None
<1>2. PhaseRun'
  BY <1>h, <1>u, <1>g, <1>o DEF StepFacts, TailStep, PhaseRun, SyncPcs, PullPcs,
     TailPcs, JournalPcs, ScanPcs, CohortPcs, CommitPcs, QueuedPcs, TargetPcs,
     CapturePcs, NoRun
<1>3. PhaseJournal'
  BY <1>h, <1>u, <1>g, <1>o DEF StepFacts, TailStep, PhaseJournal, SyncPcs, PullPcs,
     TailPcs, JournalPcs, ScanPcs, CohortPcs, CommitPcs, QueuedPcs, TargetPcs,
     CapturePcs, NoRun
<1>4. PhaseWrite'
  BY <1>h, <1>u, <1>g, <1>o DEF StepFacts, TailStep, PhaseWrite
<1>5. PhaseQueue'
  BY <1>h, <1>u, <1>g, <1>o DEF StepFacts, TailStep, PhaseQueue, SyncPcs, PullPcs,
     TailPcs, JournalPcs, ScanPcs, CohortPcs, CommitPcs, QueuedPcs, TargetPcs,
     CapturePcs, NoRun
<1>6. PhaseSnap'
  BY <1>h, <1>u, <1>g, <1>o DEF StepFacts, TailStep, PhaseSnap, SyncPcs, PullPcs,
     TailPcs, JournalPcs, ScanPcs, CohortPcs, CommitPcs, QueuedPcs, TargetPcs,
     CapturePcs, PendingIn
<1>7. JournalKnown'
  BY <1>h, <1>u, <1>g, <1>o DEF StepFacts, TailStep, JournalKnown, PhaseJournal,
     SyncPcs, PullPcs, TailPcs, JournalPcs, ScanPcs, CohortPcs, CommitPcs, QueuedPcs,
     TargetPcs, CapturePcs
<1>8. JournalKept'
  <2>1. /\ jr'.affected = jr.affected /\ jr'.pre = jr.pre /\ jr.deferred \subseteq jr'.deferred
        /\ jr'.phase # "committed" => jr.phase # "committed"
    BY <1>h, <1>o DEF StepFacts, TailStep
  <2> QED BY <1>h, <1>g, <2>1, JournalStays
<1> QED BY <1>g, <1>f, <1>1, <1>2, <1>3, <1>4, <1>5, <1>6, <1>7, <1>8 DEF DeviceInv, Shapes,
   Phases, Keeps

LEMMA AckWriteKeeps ==
  ASSUME DeviceInv, AckWrite
  PROVE  DeviceInv'
<1>h. /\ Git /\ ServerTyped /\ StateTyped /\ QueueTyped /\ RefTyped /\ FilesTyped
      /\ ProvTyped /\ JournalTyped /\ RunTyped /\ AckTyped /\ PhaseRun /\ PhaseJournal
      /\ PhaseWrite /\ PhaseQueue /\ PhaseSnap /\ TreesSaved /\ FilesSaved /\ SnapSaved
      /\ Held /\ HeadKept /\ StateKnown /\ ConflictKnown /\ JournalKnown /\ ReviewKnown
      /\ JournalKept
  BY DEF DeviceInv, Shapes, Phases, Keeps
<1>u. UNCHANGED <<commits, main, devRef, conflict, file, buf, saved, q, ref, prov, jr, run>>
  BY DEF AckWrite, rest, server, editor
<1>g. Grown /\ Git'
  BY <1>h, <1>u, StillGrown
<1>o. StepFacts
  BY <1>g, Facts DEF DeviceInv
<1>f. /\ ServerTyped' /\ QueueTyped' /\ RefTyped' /\ FilesTyped' /\ ProvTyped'
      /\ JournalTyped' /\ RunTyped' /\ TreesSaved' /\ FilesSaved' /\ SnapSaved'
      /\ Held' /\ ConflictKnown' /\ JournalKnown' /\ ReviewKnown' /\ JournalKept'
  BY <1>h, <1>u, <1>g, ServerFrame, QueueFrame, RefFrame, FilesFrame, ProvFrame,
     JournalFrame, RunFrame, TreesFrame, FilesSavedFrame, SnapFrame, HeldFrame,
     ConflictFrame, JournalKnownFrame, ReviewFrame, JournalKeptFrame
<1>1. StateTyped'
  BY <1>h, <1>u, <1>g, <1>o DEF StepFacts, AckWrite, StateTyped, Labels, Codes
<1>2. AckTyped'
  BY <1>h, <1>u, <1>g, <1>o DEF StepFacts, AckWrite, AckTyped, None
<1>3. PhaseRun'
  BY <1>h, <1>u, <1>g, <1>o DEF StepFacts, AckWrite, PhaseRun, SyncPcs, PullPcs,
     TailPcs, JournalPcs, ScanPcs, CohortPcs, CommitPcs, QueuedPcs, TargetPcs,
     CapturePcs, NoRun
<1>4. PhaseJournal'
  BY <1>h, <1>u, <1>g, <1>o DEF StepFacts, AckWrite, PhaseJournal, SyncPcs, PullPcs,
     TailPcs, JournalPcs, ScanPcs, CohortPcs, CommitPcs, QueuedPcs, TargetPcs,
     CapturePcs, NoRun
<1>5. PhaseWrite'
  BY <1>h, <1>u, <1>g, <1>o DEF StepFacts, AckWrite, PhaseWrite
<1>6. PhaseQueue'
  BY <1>h, <1>u, <1>g, <1>o DEF StepFacts, AckWrite, PhaseQueue, SyncPcs, PullPcs,
     TailPcs, JournalPcs, ScanPcs, CohortPcs, CommitPcs, QueuedPcs, TargetPcs,
     CapturePcs, NoRun
<1>7. PhaseSnap'
  BY <1>h, <1>u, <1>g, <1>o DEF StepFacts, AckWrite, PhaseSnap, SyncPcs, PullPcs,
     TailPcs, JournalPcs, ScanPcs, CohortPcs, CommitPcs, QueuedPcs, TargetPcs,
     CapturePcs, PendingIn
<1>8. HeadKept'
  <2>1. st'.head = st.head /\ q'.pending = q.pending
    BY <1>h, <1>u, <1>o DEF StepFacts, AckWrite
  <2> QED BY <1>h, <1>g, <2>1, HeadFrame
<1>9. StateKnown'
  BY <1>h, <1>u, <1>g, <1>o DEF StepFacts, AckWrite, StateKnown
<1> QED BY <1>g, <1>f, <1>1, <1>2, <1>3, <1>4, <1>5, <1>6, <1>7, <1>8, <1>9 DEF DeviceInv,
   Shapes, Phases, Keeps

LEMMA SettleKeeps ==
  ASSUME DeviceInv, Settle
  PROVE  DeviceInv'
<1>h. /\ Git /\ ServerTyped /\ StateTyped /\ QueueTyped /\ RefTyped /\ FilesTyped
      /\ ProvTyped /\ JournalTyped /\ RunTyped /\ AckTyped /\ PhaseRun /\ PhaseJournal
      /\ PhaseWrite /\ PhaseQueue /\ PhaseSnap /\ TreesSaved /\ FilesSaved /\ SnapSaved
      /\ Held /\ HeadKept /\ StateKnown /\ ConflictKnown /\ JournalKnown /\ ReviewKnown
      /\ JournalKept
  BY DEF DeviceInv, Shapes, Phases, Keeps
<1>u. UNCHANGED <<commits, main, devRef, conflict, file, buf, saved, st, ref, prov, jr, ack>>
  BY DEF Settle, Done, rest, server, editor
<1>g. Grown /\ Git'
  BY <1>h, <1>u, StillGrown
<1>o. StepFacts
  BY <1>g, Facts DEF DeviceInv
<1>f. /\ ServerTyped' /\ StateTyped' /\ RefTyped' /\ FilesTyped' /\ ProvTyped'
      /\ JournalTyped' /\ AckTyped' /\ TreesSaved' /\ FilesSaved' /\ Held'
      /\ StateKnown' /\ ConflictKnown' /\ JournalKnown' /\ JournalKept'
  BY <1>h, <1>u, <1>g, ServerFrame, StateFrame, RefFrame, FilesFrame, ProvFrame,
     JournalFrame, AckFrame, TreesFrame, FilesSavedFrame, HeldFrame, StateKnownFrame,
     ConflictFrame, JournalKnownFrame, JournalKeptFrame
<1>1. QueueTyped'
  BY <1>h, <1>u, <1>g, <1>o DEF StepFacts, Settle, Done, QueueTyped, None, Statuses
<1>2. RunTyped'
  BY <1>h, <1>u, <1>g, <1>o, NoRunFields DEF StepFacts, Settle, Done, RunTyped, None,
     NoRun, Trees
<1>3. PhaseRun'
  BY <1>h, <1>u, <1>g, <1>o DEF StepFacts, Settle, Done, PhaseRun, SyncPcs, PullPcs,
     TailPcs, JournalPcs, ScanPcs, CohortPcs, CommitPcs, QueuedPcs, TargetPcs,
     CapturePcs, NoRun
<1>4. PhaseJournal'
  BY <1>h, <1>u, <1>g, <1>o DEF StepFacts, Settle, Done, PhaseJournal, SyncPcs, PullPcs,
     TailPcs, JournalPcs, ScanPcs, CohortPcs, CommitPcs, QueuedPcs, TargetPcs,
     CapturePcs, NoRun
<1>5. PhaseWrite'
  BY <1>h, <1>u, <1>g, <1>o DEF StepFacts, Settle, Done, PhaseWrite
<1>6. PhaseQueue'
  BY <1>h, <1>u, <1>g, <1>o DEF StepFacts, Settle, Done, PhaseQueue, SyncPcs, PullPcs,
     TailPcs, JournalPcs, ScanPcs, CohortPcs, CommitPcs, QueuedPcs, TargetPcs,
     CapturePcs, NoRun
<1>7. PhaseSnap'
  BY <1>h, <1>u, <1>g, <1>o DEF StepFacts, Settle, Done, PhaseSnap, SyncPcs, PullPcs,
     TailPcs, JournalPcs, ScanPcs, CohortPcs, CommitPcs, QueuedPcs, TargetPcs,
     CapturePcs, PendingIn
<1>8. SnapSaved'
  BY <1>h, <1>u, <1>g, <1>o, NoRunFields DEF StepFacts, Settle, Done, SnapSaved, NoRun
<1>9. HeadKept'
  <2>1. CASE q'.pending = q.pending
    BY <1>h, <1>g, <1>u, <2>1, HeadFrame
  <2>2. CASE q.status = "conflicted"
    <3>1. q.pending = 0 \/ q.pending \in Server
      BY <1>h, <2>2 DEF ReviewKnown
    <3> QED BY <3>1, <1>h, <1>g, <1>u, HeadSettled DEF DeviceInv
  <2> QED BY <2>1, <2>2, <1>o DEF Settle, StepFacts
<1>10. ReviewKnown'
  BY <1>h, <1>u, <1>g, <1>o DEF StepFacts, Settle, Done, ReviewKnown
<1> QED BY <1>g, <1>f, <1>1, <1>2, <1>3, <1>4, <1>5, <1>6, <1>7, <1>8, <1>9, <1>10 DEF
   DeviceInv, Shapes, Phases, Keeps

LEMMA ClearJournalKeeps ==
  ASSUME DeviceInv, ClearJournal
  PROVE  DeviceInv'
<1>h. /\ Git /\ ServerTyped /\ StateTyped /\ QueueTyped /\ RefTyped /\ FilesTyped
      /\ ProvTyped /\ JournalTyped /\ RunTyped /\ AckTyped /\ PhaseRun /\ PhaseJournal
      /\ PhaseWrite /\ PhaseQueue /\ PhaseSnap /\ TreesSaved /\ FilesSaved /\ SnapSaved
      /\ Held /\ HeadKept /\ StateKnown /\ ConflictKnown /\ JournalKnown /\ ReviewKnown
      /\ JournalKept
  BY DEF DeviceInv, Shapes, Phases, Keeps
<1>u. UNCHANGED <<commits, main, devRef, conflict, file, buf, saved, st, q, ref, ack>>
  BY DEF ClearJournal, Done, rest, server, editor
<1>g. Grown /\ Git'
  BY <1>h, <1>u, StillGrown
<1>o. StepFacts
  BY <1>g, Facts DEF DeviceInv
<1>f. /\ ServerTyped' /\ StateTyped' /\ QueueTyped' /\ RefTyped' /\ FilesTyped'
      /\ AckTyped' /\ TreesSaved' /\ FilesSaved' /\ Held' /\ HeadKept' /\ StateKnown'
      /\ ConflictKnown' /\ ReviewKnown'
  BY <1>h, <1>u, <1>g, ServerFrame, StateFrame, QueueFrame, RefFrame, FilesFrame,
     AckFrame, TreesFrame, FilesSavedFrame, HeldFrame, HeadFrame, StateKnownFrame,
     ConflictFrame, ReviewFrame
<1>1. ProvTyped'
  <2>1. prov' = FinishApply(prov, jr)
    BY DEF ClearJournal
  <2>2. /\ DOMAIN prov' = {"hor", "obl", "intent", "acc"}
        /\ prov'.intent \in {prov.intent, NoIntent}
    BY <1>h, <2>1, FinishFields DEF ProvTyped
  <2> QED BY <1>h, <1>g, <2>2, ProvKept
<1>2. JournalTyped'
  BY <1>o DEF StepFacts, ClearJournal, NoJournal, JournalTyped, None, Marks
<1>3. RunTyped'
  BY <1>h, <1>u, <1>g, <1>o, NoRunFields DEF StepFacts, ClearJournal, Done, RunTyped,
     None, NoRun, Trees
<1>4. PhaseRun'
  BY <1>h, <1>u, <1>g, <1>o DEF StepFacts, ClearJournal, Done, PhaseRun, SyncPcs,
     PullPcs, TailPcs, JournalPcs, ScanPcs, CohortPcs, CommitPcs, QueuedPcs, TargetPcs,
     CapturePcs, NoRun
<1>5. PhaseJournal'
  BY <1>h, <1>u, <1>g, <1>o DEF StepFacts, ClearJournal, Done, PhaseJournal, SyncPcs,
     PullPcs, TailPcs, JournalPcs, ScanPcs, CohortPcs, CommitPcs, QueuedPcs, TargetPcs,
     CapturePcs, NoRun
<1>6. PhaseWrite'
  BY <1>h, <1>u, <1>g, <1>o DEF StepFacts, ClearJournal, Done, PhaseWrite
<1>7. PhaseQueue'
  BY <1>h, <1>u, <1>g, <1>o DEF StepFacts, ClearJournal, Done, PhaseQueue, SyncPcs,
     PullPcs, TailPcs, JournalPcs, ScanPcs, CohortPcs, CommitPcs, QueuedPcs, TargetPcs,
     CapturePcs, NoRun
<1>8. PhaseSnap'
  BY <1>h, <1>u, <1>g, <1>o DEF StepFacts, ClearJournal, Done, PhaseSnap, SyncPcs,
     PullPcs, TailPcs, JournalPcs, ScanPcs, CohortPcs, CommitPcs, QueuedPcs, TargetPcs,
     CapturePcs, PendingIn
<1>9. SnapSaved'
  BY <1>h, <1>u, <1>g, <1>o, NoRunFields DEF StepFacts, ClearJournal, Done, SnapSaved,
     NoRun
<1>10. JournalKnown'
  BY <1>o DEF StepFacts, ClearJournal, NoJournal, JournalKnown
<1>11. JournalKept'
  BY <1>o DEF StepFacts, ClearJournal, NoJournal, JournalKept
<1> QED BY <1>g, <1>f, <1>1, <1>2, <1>3, <1>4, <1>5, <1>6, <1>7, <1>8, <1>9, <1>10, <1>11 DEF
   DeviceInv, Shapes, Phases, Keeps

LEMMA TailQueueKeeps ==
  ASSUME DeviceInv, TailQueue
  PROVE  DeviceInv'
<1>h. /\ Git /\ ServerTyped /\ StateTyped /\ QueueTyped /\ RefTyped /\ FilesTyped
      /\ ProvTyped /\ JournalTyped /\ RunTyped /\ AckTyped /\ PhaseRun /\ PhaseJournal
      /\ PhaseWrite /\ PhaseQueue /\ PhaseSnap /\ TreesSaved /\ FilesSaved /\ SnapSaved
      /\ Held /\ HeadKept /\ StateKnown /\ ConflictKnown /\ JournalKnown /\ ReviewKnown
      /\ JournalKept
  BY DEF DeviceInv, Shapes, Phases, Keeps
<1>u. UNCHANGED <<commits, main, devRef, conflict, file, buf, saved, st, q, ref, jr, ack, run>>
  BY DEF TailQueue, rest, server, editor
<1>g. Grown /\ Git'
  BY <1>h, <1>u, StillGrown
<1>o. StepFacts
  BY <1>g, Facts DEF DeviceInv
<1>f. /\ ServerTyped' /\ StateTyped' /\ QueueTyped' /\ RefTyped' /\ FilesTyped'
      /\ JournalTyped' /\ RunTyped' /\ AckTyped' /\ TreesSaved' /\ FilesSaved'
      /\ SnapSaved' /\ Held' /\ HeadKept' /\ StateKnown' /\ ConflictKnown'
      /\ JournalKnown' /\ ReviewKnown' /\ JournalKept'
  BY <1>h, <1>u, <1>g, ServerFrame, StateFrame, QueueFrame, RefFrame, FilesFrame,
     JournalFrame, RunFrame, AckFrame, TreesFrame, FilesSavedFrame, SnapFrame,
     HeldFrame, HeadFrame, StateKnownFrame, ConflictFrame, JournalKnownFrame,
     ReviewFrame, JournalKeptFrame
<1>1. ProvTyped'
  <2>1. prov' = FinishApply(prov, jr)
    BY DEF TailQueue
  <2>2. /\ DOMAIN prov' = {"hor", "obl", "intent", "acc"}
        /\ prov'.intent \in {prov.intent, NoIntent}
    BY <1>h, <2>1, FinishFields DEF ProvTyped
  <2> QED BY <1>h, <1>g, <2>2, ProvKept
<1>2. PhaseRun'
  BY <1>h, <1>u, <1>g, <1>o DEF StepFacts, TailQueue, PhaseRun, SyncPcs, PullPcs,
     TailPcs, JournalPcs, ScanPcs, CohortPcs, CommitPcs, QueuedPcs, TargetPcs,
     CapturePcs, NoRun
<1>3. PhaseJournal'
  BY <1>h, <1>u, <1>g, <1>o DEF StepFacts, TailQueue, PhaseJournal, SyncPcs, PullPcs,
     TailPcs, JournalPcs, ScanPcs, CohortPcs, CommitPcs, QueuedPcs, TargetPcs,
     CapturePcs, NoRun
<1>4. PhaseWrite'
  BY <1>h, <1>u, <1>g, <1>o DEF StepFacts, TailQueue, PhaseWrite
<1>5. PhaseQueue'
  BY <1>h, <1>u, <1>g, <1>o DEF StepFacts, TailQueue, PhaseQueue, SyncPcs, PullPcs,
     TailPcs, JournalPcs, ScanPcs, CohortPcs, CommitPcs, QueuedPcs, TargetPcs,
     CapturePcs, NoRun
<1>6. PhaseSnap'
  <2>1. pc = "tqueue" /\ pc' = "cohort"
    BY DEF TailQueue
  <2>2. PendingIn(run.snap) => PendingIn(run.snap)'
    BY <1>h, <1>g, <1>u, PendingFrame DEF PendingIn
  <2> QED BY <1>h, <2>1, <2>2 DEF PhaseSnap, SyncPcs, PullPcs, TailPcs, JournalPcs,
       ScanPcs, CohortPcs, CommitPcs, QueuedPcs, TargetPcs, CapturePcs
<1> QED BY <1>g, <1>f, <1>1, <1>2, <1>3, <1>4, <1>5, <1>6 DEF DeviceInv, Shapes, Phases, Keeps

LEMMA RetainKeeps ==
  ASSUME DeviceInv, Retain
  PROVE  DeviceInv'
<1>h. /\ Git /\ ServerTyped /\ StateTyped /\ QueueTyped /\ RefTyped /\ FilesTyped
      /\ ProvTyped /\ JournalTyped /\ RunTyped /\ AckTyped /\ PhaseRun /\ PhaseJournal
      /\ PhaseWrite /\ PhaseQueue /\ PhaseSnap /\ TreesSaved /\ FilesSaved /\ SnapSaved
      /\ Held /\ HeadKept /\ StateKnown /\ ConflictKnown /\ JournalKnown /\ ReviewKnown
      /\ JournalKept
  BY DEF DeviceInv, Shapes, Phases, Keeps
<1>u. UNCHANGED <<commits, main, devRef, conflict, file, buf, saved, st, q, ref, jr, ack, run>>
  BY DEF Retain, rest, server, editor
<1>g. Grown /\ Git'
  BY <1>h, <1>u, StillGrown
<1>o. StepFacts
  BY <1>g, Facts DEF DeviceInv
<1>f. /\ ServerTyped' /\ StateTyped' /\ QueueTyped' /\ RefTyped' /\ FilesTyped'
      /\ JournalTyped' /\ RunTyped' /\ AckTyped' /\ TreesSaved' /\ FilesSaved'
      /\ SnapSaved' /\ Held' /\ HeadKept' /\ StateKnown' /\ ConflictKnown'
      /\ JournalKnown' /\ ReviewKnown' /\ JournalKept'
  BY <1>h, <1>u, <1>g, ServerFrame, StateFrame, QueueFrame, RefFrame, FilesFrame,
     JournalFrame, RunFrame, AckFrame, TreesFrame, FilesSavedFrame, SnapFrame,
     HeldFrame, HeadFrame, StateKnownFrame, ConflictFrame, JournalKnownFrame,
     ReviewFrame, JournalKeptFrame
<1>1. ProvTyped'
  <2>1. prov' = RetainApply(prov, jr, FALSE)
    BY DEF Retain
  <2>2. DOMAIN prov' = {"hor", "obl", "intent", "acc"} /\ prov'.intent = prov.intent
    BY <1>h, <2>1, RetainFields DEF ProvTyped
  <2> QED BY <1>h, <1>g, <2>2, ProvKept
<1>2. PhaseRun'
  BY <1>h, <1>u, <1>g, <1>o DEF StepFacts, Retain, PhaseRun, SyncPcs, PullPcs, TailPcs,
     JournalPcs, ScanPcs, CohortPcs, CommitPcs, QueuedPcs, TargetPcs, CapturePcs, NoRun
<1>3. PhaseJournal'
  BY <1>h, <1>u, <1>g, <1>o DEF StepFacts, Retain, PhaseJournal, SyncPcs, PullPcs,
     TailPcs, JournalPcs, ScanPcs, CohortPcs, CommitPcs, QueuedPcs, TargetPcs,
     CapturePcs, NoRun
<1>4. PhaseWrite'
  BY <1>h, <1>u, <1>g, <1>o DEF StepFacts, Retain, PhaseWrite
<1>5. PhaseQueue'
  BY <1>h, <1>u, <1>g, <1>o DEF StepFacts, Retain, PhaseQueue, SyncPcs, PullPcs,
     TailPcs, JournalPcs, ScanPcs, CohortPcs, CommitPcs, QueuedPcs, TargetPcs,
     CapturePcs, NoRun
<1>6. PhaseSnap'
  BY <1>h, <1>u, <1>g, <1>o DEF StepFacts, Retain, PhaseSnap, SyncPcs, PullPcs, TailPcs,
     JournalPcs, ScanPcs, CohortPcs, CommitPcs, QueuedPcs, TargetPcs, CapturePcs,
     PendingIn
<1> QED BY <1>g, <1>f, <1>1, <1>2, <1>3, <1>4, <1>5, <1>6 DEF DeviceInv, Shapes, Phases, Keeps

LEMMA BundleKeeps ==
  ASSUME DeviceInv, Bundle
  PROVE  DeviceInv'
<1>h. /\ Git /\ ServerTyped /\ StateTyped /\ QueueTyped /\ RefTyped /\ FilesTyped
      /\ ProvTyped /\ JournalTyped /\ RunTyped /\ AckTyped /\ PhaseRun /\ PhaseJournal
      /\ PhaseWrite /\ PhaseQueue /\ PhaseSnap /\ TreesSaved /\ FilesSaved /\ SnapSaved
      /\ Held /\ HeadKept /\ StateKnown /\ ConflictKnown /\ JournalKnown /\ ReviewKnown
      /\ JournalKept
  BY DEF DeviceInv, Shapes, Phases, Keeps
<1>u. UNCHANGED <<commits, main, devRef, conflict, file, buf, saved, st, q, ref, prov, run, ack>>
  BY DEF Bundle, rest, server, editor
<1>g. Grown /\ Git'
  BY <1>h, <1>u, StillGrown
<1>o. StepFacts
  BY <1>g, Facts DEF DeviceInv
<1>f. /\ ServerTyped' /\ StateTyped' /\ QueueTyped' /\ RefTyped' /\ FilesTyped'
      /\ ProvTyped' /\ AckTyped' /\ TreesSaved' /\ FilesSaved' /\ Held' /\ HeadKept'
      /\ StateKnown' /\ ConflictKnown' /\ ReviewKnown'
  BY <1>h, <1>u, <1>g, ServerFrame, StateFrame, QueueFrame, RefFrame, FilesFrame,
     ProvFrame, AckFrame, TreesFrame, FilesSavedFrame, HeldFrame, HeadFrame,
     StateKnownFrame, ConflictFrame, ReviewFrame
<1>c. /\ pc = "bundle" /\ pc' = "revalidate"
      /\ DOMAIN jr' = DOMAIN jr /\ jr'.target = jr.target /\ jr'.affected = jr.affected
      /\ jr'.pre = jr.pre /\ jr'.deferred = jr.deferred /\ jr'.copy = jr.copy
      /\ jr'.phase \in {"planned", "bundled"}
  BY <1>h, <1>o DEF Bundle, StepFacts, PhaseWrite
<1>1. RunTyped' /\ SnapSaved'
  BY <1>h, <1>u, <1>g, RunFrame, SnapFrame
<1>2. JournalTyped' /\ JournalKnown' /\ JournalKept'
  <2>1. jr.target # 0 /\ jr.phase # "committed"
    BY <1>h, <1>c DEF PhaseJournal, PhaseWrite, JournalPcs
  <2>2. jr'.copy \in [Paths -> Marks]
    BY <1>h, <1>c DEF JournalTyped
  <2> QED BY <1>h, <1>g, <1>c, <2>1, <2>2, JournalEdited
<1>3. PhaseRun' /\ PhaseJournal'
  BY <1>h, <1>u, <1>c, <1>o DEF StepFacts, PhaseRun, PhaseJournal, SyncPcs, PullPcs, TailPcs,
     JournalPcs, ScanPcs, CohortPcs, CommitPcs, QueuedPcs, TargetPcs, CapturePcs
<1>4. PhaseWrite'
  BY <1>h, <1>u, <1>c DEF PhaseWrite
<1>5. PhaseQueue' /\ PhaseSnap'
  BY <1>c DEF PhaseQueue, PhaseSnap, SyncPcs, PullPcs, TailPcs,
     JournalPcs, ScanPcs, CohortPcs, CommitPcs, QueuedPcs, TargetPcs, CapturePcs
<1> QED BY <1>g, <1>f, <1>1, <1>2, <1>3, <1>4, <1>5 DEF DeviceInv, Shapes, Phases, Keeps

LEMMA RewriteKeeps ==
  ASSUME DeviceInv, Rewrite
  PROVE  DeviceInv'
<1>h. /\ Git /\ ServerTyped /\ StateTyped /\ QueueTyped /\ RefTyped /\ FilesTyped
      /\ ProvTyped /\ JournalTyped /\ RunTyped /\ AckTyped /\ PhaseRun /\ PhaseJournal
      /\ PhaseWrite /\ PhaseQueue /\ PhaseSnap /\ TreesSaved /\ FilesSaved /\ SnapSaved
      /\ Held /\ HeadKept /\ StateKnown /\ ConflictKnown /\ JournalKnown /\ ReviewKnown
      /\ JournalKept
  BY DEF DeviceInv, Shapes, Phases, Keeps
<1>u. UNCHANGED <<commits, main, devRef, conflict, file, buf, saved, st, q, ref, prov, run, ack>>
  BY DEF Rewrite, rest, server, editor
<1>g. Grown /\ Git'
  BY <1>h, <1>u, StillGrown
<1>o. StepFacts
  BY <1>g, Facts DEF DeviceInv
<1>f. /\ ServerTyped' /\ StateTyped' /\ QueueTyped' /\ RefTyped' /\ FilesTyped'
      /\ ProvTyped' /\ AckTyped' /\ TreesSaved' /\ FilesSaved' /\ Held' /\ HeadKept'
      /\ StateKnown' /\ ConflictKnown' /\ ReviewKnown'
  BY <1>h, <1>u, <1>g, ServerFrame, StateFrame, QueueFrame, RefFrame, FilesFrame,
     ProvFrame, AckFrame, TreesFrame, FilesSavedFrame, HeldFrame, HeadFrame,
     StateKnownFrame, ConflictFrame, ReviewFrame
<1>c. /\ pc = "rewrite" /\ pc' = "write"
      /\ DOMAIN jr' = DOMAIN jr /\ jr'.target = jr.target /\ jr'.affected = jr.affected
      /\ jr'.pre = jr.pre /\ jr'.deferred = jr.deferred /\ jr'.copy = jr.copy
      /\ jr'.phase = "writing"
  BY <1>h, <1>o DEF Rewrite, StepFacts, PhaseWrite
<1>1. RunTyped' /\ SnapSaved'
  BY <1>h, <1>u, <1>g, RunFrame, SnapFrame
<1>2. JournalTyped' /\ JournalKnown' /\ JournalKept'
  <2>1. jr.target # 0 /\ jr.phase # "committed"
    BY <1>h, <1>c DEF PhaseJournal, PhaseWrite, JournalPcs
  <2>2. jr'.copy \in [Paths -> Marks]
    BY <1>h, <1>c DEF JournalTyped
  <2> QED BY <1>h, <1>g, <1>c, <2>1, <2>2, JournalEdited
<1>3. PhaseRun' /\ PhaseJournal'
  BY <1>h, <1>u, <1>c, <1>o DEF StepFacts, PhaseRun, PhaseJournal, SyncPcs, PullPcs, TailPcs,
     JournalPcs, ScanPcs, CohortPcs, CommitPcs, QueuedPcs, TargetPcs, CapturePcs
<1>4. PhaseWrite'
  BY <1>h, <1>u, <1>c DEF PhaseWrite
<1>5. PhaseQueue' /\ PhaseSnap'
  BY <1>c DEF PhaseQueue, PhaseSnap, SyncPcs, PullPcs, TailPcs,
     JournalPcs, ScanPcs, CohortPcs, CommitPcs, QueuedPcs, TargetPcs, CapturePcs
<1> QED BY <1>g, <1>f, <1>1, <1>2, <1>3, <1>4, <1>5 DEF DeviceInv, Shapes, Phases, Keeps

LEMMA CompareFileKeeps ==
  ASSUME NEW p \in Paths, DeviceInv, CompareFile(p)
  PROVE  DeviceInv'
<1>h. /\ Git /\ ServerTyped /\ StateTyped /\ QueueTyped /\ RefTyped /\ FilesTyped
      /\ ProvTyped /\ JournalTyped /\ RunTyped /\ AckTyped /\ PhaseRun /\ PhaseJournal
      /\ PhaseWrite /\ PhaseQueue /\ PhaseSnap /\ TreesSaved /\ FilesSaved /\ SnapSaved
      /\ Held /\ HeadKept /\ StateKnown /\ ConflictKnown /\ JournalKnown /\ ReviewKnown
      /\ JournalKept
  BY DEF DeviceInv, Shapes, Phases, Keeps
<1>u. UNCHANGED <<commits, main, devRef, conflict, file, buf, saved, st, q, ref, pc, ack>>
  BY DEF CompareFile, rest, server, editor
<1>g. Grown /\ Git'
  BY <1>h, <1>u, StillGrown
<1>o. StepFacts
  BY <1>g, Facts DEF DeviceInv
<1>f. /\ ServerTyped' /\ StateTyped' /\ QueueTyped' /\ RefTyped' /\ FilesTyped'
      /\ AckTyped' /\ TreesSaved' /\ FilesSaved' /\ Held' /\ HeadKept'
      /\ StateKnown' /\ ConflictKnown' /\ ReviewKnown'
  BY <1>h, <1>u, <1>g, ServerFrame, StateFrame, QueueFrame, RefFrame, FilesFrame,
     AckFrame, TreesFrame, FilesSavedFrame, HeldFrame, HeadFrame,
     StateKnownFrame, ConflictFrame, ReviewFrame
<1>c. /\ pc = "write" /\ p \in run.todo
      /\ \/ run' = [run EXCEPT !.seen = @ \cup {p}] /\ jr' = jr
         \/ /\ run' = [run EXCEPT !.todo = @ \ {p}]
            /\ jr' = jr \/ jr' = [jr EXCEPT !.deferred = @ \cup {p}]
      /\ prov' = prov \/ \E w : prov' = RetainApply(prov, w, FALSE)
  BY DEF CompareFile, Deferred
<1>t. jr.target # 0
  BY <1>c, <1>h DEF PhaseJournal, JournalPcs
<1>x. /\ DOMAIN run' = DOMAIN run /\ run'.target = run.target /\ run'.commit = run.commit
      /\ run'.snap = run.snap /\ run'.ret = run.ret
      /\ run'.todo \subseteq run.todo /\ (jr' # jr => p \notin run'.todo)
  <2>1. CASE run' = [run EXCEPT !.seen = @ \cup {p}] /\ jr' = jr
    BY <2>1, <1>o DEF StepFacts
  <2>2. CASE run' = [run EXCEPT !.todo = @ \ {p}]
    BY <2>2, <1>o DEF StepFacts
  <2> QED BY <1>c, <2>1, <2>2
<1>y. /\ DOMAIN jr' = DOMAIN jr /\ jr'.target = jr.target /\ jr'.affected = jr.affected
      /\ jr'.pre = jr.pre /\ jr.deferred \subseteq jr'.deferred /\ jr'.phase = jr.phase
      /\ jr'.deferred \subseteq jr.deferred \cup {p} /\ jr'.copy = jr.copy
  <2>1. CASE jr' = jr
    BY <2>1
  <2>2. CASE jr' = [jr EXCEPT !.deferred = @ \cup {p}]
    BY <2>2, <1>o DEF StepFacts
  <2> QED BY <1>c, <2>1, <2>2
<1>1. ProvTyped'
  <2>1. CASE prov' = prov
    BY <1>h, <1>g, <2>1, ProvFrame
  <2>2. CASE \E w : prov' = RetainApply(prov, w, FALSE)
    <3>1. PICK w : prov' = RetainApply(prov, w, FALSE)
      BY <2>2
    <3>2. DOMAIN prov' = {"hor", "obl", "intent", "acc"} /\ prov'.intent = prov.intent
      BY <3>1, <1>h, RetainFields DEF ProvTyped
    <3> QED BY <1>h, <1>g, <3>2, ProvKept
  <2> QED BY <1>c, <2>1, <2>2
<1>2. JournalTyped' /\ JournalKnown' /\ JournalKept'
  <2>1. jr'.copy \in [Paths -> Marks]
    BY <1>h, <1>y DEF JournalTyped
  <2> QED BY <1>h, <1>g, <1>t, <1>y, <2>1, JournalEdited
<1>3. RunTyped' /\ SnapSaved'
  BY <1>h, <1>x, <1>o, <1>u DEF StepFacts, RunTyped, SnapSaved
<1>4. PhaseRun' /\ PhaseJournal'
  BY <1>h, <1>c, <1>x, <1>y, <1>t, <1>u, <1>o DEF StepFacts, PhaseRun, PhaseJournal, SyncPcs, PullPcs, TailPcs,
     JournalPcs, ScanPcs, CohortPcs, CommitPcs, QueuedPcs, TargetPcs, CapturePcs
<1>5. PhaseWrite'
  <2>1. jr' = jr \/ p \notin run'.todo
    BY <1>x
  <2> QED BY <2>1, <1>h, <1>c, <1>x, <1>y, <1>u DEF PhaseWrite
<1>6. PhaseQueue' /\ PhaseSnap'
  BY <1>c, <1>u DEF PhaseQueue, PhaseSnap, SyncPcs, PullPcs, TailPcs,
     JournalPcs, ScanPcs, CohortPcs, CommitPcs, QueuedPcs, TargetPcs, CapturePcs
<1> QED BY <1>g, <1>f, <1>1, <1>2, <1>3, <1>4, <1>5, <1>6 DEF DeviceInv, Shapes, Phases, Keeps

LEMMA CopyFileKeeps ==
  ASSUME NEW p \in Paths, DeviceInv, CopyFile(p)
  PROVE  DeviceInv'
<1>h. /\ Git /\ ServerTyped /\ StateTyped /\ QueueTyped /\ RefTyped /\ FilesTyped
      /\ ProvTyped /\ JournalTyped /\ RunTyped /\ AckTyped /\ PhaseRun /\ PhaseJournal
      /\ PhaseWrite /\ PhaseQueue /\ PhaseSnap /\ TreesSaved /\ FilesSaved /\ SnapSaved
      /\ Held /\ HeadKept /\ StateKnown /\ ConflictKnown /\ JournalKnown /\ ReviewKnown
      /\ JournalKept
  BY DEF DeviceInv, Shapes, Phases, Keeps
<1>u. UNCHANGED <<commits, main, devRef, conflict, file, buf, saved, st, q, ref, prov, run, pc, ack>>
  BY DEF CopyFile, rest, server, editor
<1>g. Grown /\ Git'
  BY <1>h, <1>u, StillGrown
<1>o. StepFacts
  BY <1>g, Facts DEF DeviceInv
<1>f. /\ ServerTyped' /\ StateTyped' /\ QueueTyped' /\ RefTyped' /\ FilesTyped'
      /\ ProvTyped' /\ AckTyped' /\ TreesSaved' /\ FilesSaved' /\ Held' /\ HeadKept'
      /\ StateKnown' /\ ConflictKnown' /\ ReviewKnown'
  BY <1>h, <1>u, <1>g, ServerFrame, StateFrame, QueueFrame, RefFrame, FilesFrame,
     ProvFrame, AckFrame, TreesFrame, FilesSavedFrame, HeldFrame, HeadFrame,
     StateKnownFrame, ConflictFrame, ReviewFrame
<1>c. /\ pc = "write"
      /\ \E c \in {"same", "edited"} : jr' = [jr EXCEPT !.copy[p] = c]
  BY DEF CopyFile, Copying
<1>y. /\ DOMAIN jr' = DOMAIN jr /\ jr'.target = jr.target /\ jr'.affected = jr.affected
      /\ jr'.pre = jr.pre /\ jr'.deferred = jr.deferred /\ jr'.phase = jr.phase
      /\ jr'.copy \in [Paths -> Marks]
  <2>1. PICK c \in {"same", "edited"} : jr' = [jr EXCEPT !.copy[p] = c]
    BY <1>c
  <2>2. jr'.copy = [jr.copy EXCEPT ![p] = c]
    BY <2>1, <1>o DEF StepFacts
  <2>3. jr'.copy \in [Paths -> Marks]
    BY <2>2, <1>h DEF JournalTyped, Marks
  <2> QED BY <2>1, <2>3, <1>o DEF StepFacts
<1>1. RunTyped' /\ SnapSaved'
  BY <1>h, <1>u, <1>g, RunFrame, SnapFrame
<1>2. JournalTyped' /\ JournalKnown' /\ JournalKept'
  <2>1. jr.target # 0
    BY <1>h, <1>c DEF PhaseJournal, JournalPcs
  <2> QED BY <1>h, <1>g, <1>y, <2>1, JournalEdited
<1>3. PhaseRun' /\ PhaseJournal'
  BY <1>h, <1>u, <1>c, <1>y, <1>o DEF StepFacts, PhaseRun, PhaseJournal, SyncPcs, PullPcs, TailPcs,
     JournalPcs, ScanPcs, CohortPcs, CommitPcs, QueuedPcs, TargetPcs, CapturePcs
<1>4. PhaseWrite'
  BY <1>h, <1>u, <1>c, <1>y DEF PhaseWrite
<1>5. PhaseQueue' /\ PhaseSnap'
  BY <1>c, <1>u DEF PhaseQueue, PhaseSnap, SyncPcs, PullPcs, TailPcs,
     JournalPcs, ScanPcs, CohortPcs, CommitPcs, QueuedPcs, TargetPcs, CapturePcs
<1> QED BY <1>g, <1>f, <1>1, <1>2, <1>3, <1>4, <1>5 DEF DeviceInv, Shapes, Phases, Keeps

LEMMA VerifyKeeps ==
  ASSUME DeviceInv, Verify
  PROVE  DeviceInv'
<1>h. /\ Git /\ ServerTyped /\ StateTyped /\ QueueTyped /\ RefTyped /\ FilesTyped
      /\ ProvTyped /\ JournalTyped /\ RunTyped /\ AckTyped /\ PhaseRun /\ PhaseJournal
      /\ PhaseWrite /\ PhaseQueue /\ PhaseSnap /\ TreesSaved /\ FilesSaved /\ SnapSaved
      /\ Held /\ HeadKept /\ StateKnown /\ ConflictKnown /\ JournalKnown /\ ReviewKnown
      /\ JournalKept
  BY DEF DeviceInv, Shapes, Phases, Keeps
<1>u. UNCHANGED <<commits, main, devRef, conflict, file, buf, saved, st, q, ref, ack, run>>
  BY DEF Verify, rest, server, editor
<1>g. Grown /\ Git'
  BY <1>h, <1>u, StillGrown
<1>o. StepFacts
  BY <1>g, Facts DEF DeviceInv
<1>f. /\ ServerTyped' /\ StateTyped' /\ QueueTyped' /\ RefTyped' /\ FilesTyped'
      /\ RunTyped' /\ AckTyped' /\ TreesSaved' /\ FilesSaved' /\ SnapSaved' /\ Held'
      /\ HeadKept' /\ StateKnown' /\ ConflictKnown' /\ ReviewKnown'
  BY <1>h, <1>u, <1>g, ServerFrame, StateFrame, QueueFrame, RefFrame, FilesFrame,
     RunFrame, AckFrame, TreesFrame, FilesSavedFrame, SnapFrame, HeldFrame, HeadFrame,
     StateKnownFrame, ConflictFrame, ReviewFrame
<1>1. ProvTyped'
  <2>1. PICK j : prov' = RetainApply(prov, j, TRUE)
    BY DEF Verify
  <2>2. DOMAIN prov' = {"hor", "obl", "intent", "acc"} /\ prov'.intent = prov.intent
    BY <1>h, <2>1, RetainFields DEF ProvTyped
  <2> QED BY <1>h, <1>g, <2>2, ProvKept
<1>2. JournalTyped'
  BY <1>h, <1>u, <1>g, <1>o DEF StepFacts, Verify, JournalTyped, None
<1>3. PhaseRun'
  BY <1>h, <1>u, <1>g, <1>o DEF StepFacts, Verify, PhaseRun, SyncPcs, PullPcs, TailPcs,
     JournalPcs, ScanPcs, CohortPcs, CommitPcs, QueuedPcs, TargetPcs, CapturePcs, NoRun
<1>4. PhaseJournal'
  BY <1>h, <1>u, <1>g, <1>o DEF StepFacts, Verify, PhaseJournal, SyncPcs, PullPcs,
     TailPcs, JournalPcs, ScanPcs, CohortPcs, CommitPcs, QueuedPcs, TargetPcs,
     CapturePcs, NoRun
<1>5. PhaseWrite'
  BY <1>h, <1>u, <1>g, <1>o DEF StepFacts, Verify, PhaseWrite
<1>6. PhaseQueue'
  BY <1>h, <1>u, <1>g, <1>o DEF StepFacts, Verify, PhaseQueue, SyncPcs, PullPcs,
     TailPcs, JournalPcs, ScanPcs, CohortPcs, CommitPcs, QueuedPcs, TargetPcs,
     CapturePcs, NoRun
<1>7. PhaseSnap'
  BY <1>h, <1>u, <1>g, <1>o DEF StepFacts, Verify, PhaseSnap, SyncPcs, PullPcs, TailPcs,
     JournalPcs, ScanPcs, CohortPcs, CommitPcs, QueuedPcs, TargetPcs, CapturePcs,
     PendingIn
<1>8. JournalKnown'
  BY <1>h, <1>u, <1>g, <1>o DEF StepFacts, Verify, JournalKnown, PhaseJournal, SyncPcs,
     PullPcs, TailPcs, JournalPcs, ScanPcs, CohortPcs, CommitPcs, QueuedPcs, TargetPcs,
     CapturePcs
<1>9. JournalKept'
  <2>1. /\ jr'.affected = jr.affected /\ jr'.pre = jr.pre /\ jr.deferred \subseteq jr'.deferred
        /\ jr'.phase # "committed" => jr.phase # "committed"
    BY <1>h, <1>o DEF StepFacts, Verify
  <2> QED BY <1>h, <1>g, <2>1, JournalStays
<1> QED BY <1>g, <1>f, <1>1, <1>2, <1>3, <1>4, <1>5, <1>6, <1>7, <1>8, <1>9 DEF DeviceInv,
   Shapes, Phases, Keeps

LEMMA RevalidateKeeps ==
  ASSUME DeviceInv, Revalidate
  PROVE  DeviceInv'
<1>h. /\ Git /\ ServerTyped /\ StateTyped /\ QueueTyped /\ RefTyped /\ FilesTyped
      /\ ProvTyped /\ JournalTyped /\ RunTyped /\ AckTyped /\ PhaseRun /\ PhaseJournal
      /\ PhaseWrite /\ PhaseQueue /\ PhaseSnap /\ TreesSaved /\ FilesSaved /\ SnapSaved
      /\ Held /\ HeadKept /\ StateKnown /\ ConflictKnown /\ JournalKnown /\ ReviewKnown
      /\ JournalKept
  BY DEF DeviceInv, Shapes, Phases, Keeps
<1>u. UNCHANGED <<commits, main, devRef, conflict, file, buf, saved, st, q, ref, prov, ack>>
  BY DEF Revalidate, rest, server, editor
<1>g. Grown /\ Git'
  BY <1>h, <1>u, StillGrown
<1>o. StepFacts
  BY <1>g, Facts DEF DeviceInv
<1>f. /\ ServerTyped' /\ StateTyped' /\ QueueTyped' /\ RefTyped' /\ FilesTyped'
      /\ ProvTyped' /\ AckTyped' /\ TreesSaved' /\ FilesSaved' /\ Held' /\ HeadKept'
      /\ StateKnown' /\ ConflictKnown' /\ ReviewKnown'
  BY <1>h, <1>u, <1>g, ServerFrame, StateFrame, QueueFrame, RefFrame, FilesFrame,
     ProvFrame, AckFrame, TreesFrame, FilesSavedFrame, HeldFrame, HeadFrame,
     StateKnownFrame, ConflictFrame, ReviewFrame
<1>1. JournalTyped'
  BY <1>h, <1>u, <1>g, <1>o DEF StepFacts, Revalidate, JournalTyped, None
<1>2. RunTyped'
  BY <1>h, <1>u, <1>g, <1>o DEF StepFacts, Revalidate, RunTyped, None, NoRun, Trees
<1>3. PhaseRun'
  BY <1>h, <1>u, <1>g, <1>o DEF StepFacts, Revalidate, PhaseRun, SyncPcs, PullPcs,
     TailPcs, JournalPcs, ScanPcs, CohortPcs, CommitPcs, QueuedPcs, TargetPcs,
     CapturePcs, NoRun
<1>4. PhaseJournal'
  BY <1>h, <1>u, <1>g, <1>o DEF StepFacts, Revalidate, PhaseJournal, SyncPcs, PullPcs,
     TailPcs, JournalPcs, ScanPcs, CohortPcs, CommitPcs, QueuedPcs, TargetPcs,
     CapturePcs, NoRun
<1>5. PhaseWrite'
  BY <1>h, <1>u, <1>g, <1>o DEF StepFacts, Revalidate, PhaseWrite
<1>6. PhaseQueue'
  BY <1>h, <1>u, <1>g, <1>o DEF StepFacts, Revalidate, PhaseQueue, SyncPcs, PullPcs,
     TailPcs, JournalPcs, ScanPcs, CohortPcs, CommitPcs, QueuedPcs, TargetPcs,
     CapturePcs, NoRun
<1>7. PhaseSnap'
  BY <1>h, <1>u, <1>g, <1>o DEF StepFacts, Revalidate, PhaseSnap, SyncPcs, PullPcs,
     TailPcs, JournalPcs, ScanPcs, CohortPcs, CommitPcs, QueuedPcs, TargetPcs,
     CapturePcs, PendingIn
<1>8. SnapSaved'
  BY <1>h, <1>u, <1>g, <1>o DEF StepFacts, Revalidate, SnapSaved, NoRun
<1>9. JournalKnown'
  BY <1>h, <1>u, <1>g, <1>o DEF StepFacts, Revalidate, JournalKnown, PhaseJournal,
     SyncPcs, PullPcs, TailPcs, JournalPcs, ScanPcs, CohortPcs, CommitPcs, QueuedPcs,
     TargetPcs, CapturePcs
<1>10. JournalKept'
  <2>1. /\ jr'.affected = jr.affected /\ jr'.pre = jr.pre /\ jr.deferred \subseteq jr'.deferred
        /\ jr'.phase # "committed" => jr.phase # "committed"
    BY <1>h, <1>o DEF StepFacts, Revalidate, PhaseWrite
  <2> QED BY <1>h, <1>g, <2>1, JournalStays
<1> QED BY <1>g, <1>f, <1>1, <1>2, <1>3, <1>4, <1>5, <1>6, <1>7, <1>8, <1>9, <1>10 DEF
   DeviceInv, Shapes, Phases, Keeps

LEMMA TailFlushKeeps ==
  ASSUME DeviceInv, TailFlush
  PROVE  DeviceInv'
<1>h. /\ Git /\ ServerTyped /\ StateTyped /\ QueueTyped /\ RefTyped /\ FilesTyped
      /\ ProvTyped /\ JournalTyped /\ RunTyped /\ AckTyped /\ PhaseRun /\ PhaseJournal
      /\ PhaseWrite /\ PhaseQueue /\ PhaseSnap /\ TreesSaved /\ FilesSaved /\ SnapSaved
      /\ Held /\ HeadKept /\ StateKnown /\ ConflictKnown /\ JournalKnown /\ ReviewKnown
      /\ JournalKept
  BY DEF DeviceInv, Shapes, Phases, Keeps
<1>u. UNCHANGED <<commits, main, devRef, conflict, buf, st, q, ref, prov, jr, ack>>
  BY DEF TailFlush, FlushBuffers, SaveBuffers, rest, server, editor
<1>g. Grown /\ Git'
  BY <1>h, <1>u, StillGrown
<1>o. StepFacts
  BY <1>g, Facts DEF DeviceInv
<1>s. SaveBuffers(Unflushed)
  BY DEF TailFlush, FlushBuffers
<1>x. /\ FilesTyped' /\ Held' /\ FilesSaved'
      /\ \A p_ \in Paths : saved[p_] \subseteq saved'[p_]
  BY <1>h, <1>g, <1>s, BuffersKept
<1>y. TreesSaved' /\ (run'.snap = run.snap => SnapSaved')
  BY <1>h, <1>u, <1>x, SavedGrows
<1>f. /\ ServerTyped' /\ StateTyped' /\ QueueTyped' /\ RefTyped' /\ ProvTyped'
      /\ JournalTyped' /\ AckTyped' /\ HeadKept' /\ StateKnown' /\ ConflictKnown'
      /\ JournalKnown' /\ ReviewKnown' /\ JournalKept'
  BY <1>h, <1>u, <1>g, ServerFrame, StateFrame, QueueFrame, RefFrame, ProvFrame,
     JournalFrame, AckFrame, HeadFrame, StateKnownFrame, ConflictFrame,
     JournalKnownFrame, ReviewFrame, JournalKeptFrame
<1>1. FilesTyped'
  BY <1>x
<1>2. RunTyped'
  BY <1>h, <1>u, <1>g, <1>o, <1>x DEF StepFacts, TailFlush, FlushBuffers, SaveBuffers,
     RunTyped, None, NoRun, Trees
<1>3. PhaseRun'
  BY <1>h, <1>u, <1>g, <1>o, <1>x DEF StepFacts, TailFlush, FlushBuffers, SaveBuffers,
     PhaseRun, SyncPcs, PullPcs, TailPcs, JournalPcs, ScanPcs, CohortPcs, CommitPcs,
     QueuedPcs, TargetPcs, CapturePcs, NoRun
<1>4. PhaseJournal'
  BY <1>h, <1>u, <1>g, <1>o, <1>x DEF StepFacts, TailFlush, FlushBuffers, SaveBuffers,
     PhaseJournal, SyncPcs, PullPcs, TailPcs, JournalPcs, ScanPcs, CohortPcs, CommitPcs,
     QueuedPcs, TargetPcs, CapturePcs, NoRun
<1>5. PhaseWrite'
  BY <1>h, <1>u, <1>g, <1>o, <1>x DEF StepFacts, TailFlush, FlushBuffers, SaveBuffers,
     PhaseWrite
<1>6. PhaseQueue'
  BY <1>h, <1>u, <1>g, <1>o, <1>x DEF StepFacts, TailFlush, FlushBuffers, SaveBuffers,
     PhaseQueue, SyncPcs, PullPcs, TailPcs, JournalPcs, ScanPcs, CohortPcs, CommitPcs,
     QueuedPcs, TargetPcs, CapturePcs, NoRun
<1>7. PhaseSnap'
  BY <1>h, <1>u, <1>g, <1>o, <1>x DEF StepFacts, TailFlush, FlushBuffers, SaveBuffers,
     PhaseSnap, SyncPcs, PullPcs, TailPcs, JournalPcs, ScanPcs, CohortPcs, CommitPcs,
     QueuedPcs, TargetPcs, CapturePcs, PendingIn
<1>8. TreesSaved'
  BY <1>y
<1>9. FilesSaved'
  BY <1>x
<1>10. SnapSaved'
  <2>1. run'.snap = run.snap
    BY <1>o DEF StepFacts, TailFlush
  <2> QED BY <2>1, <1>y
<1>11. Held'
  BY <1>x
<1> QED BY <1>g, <1>f, <1>1, <1>2, <1>3, <1>4, <1>5, <1>6, <1>7, <1>8, <1>9, <1>10, <1>11 DEF
   DeviceInv, Shapes, Phases, Keeps

LEMMA ResultQueuedKeeps ==
  ASSUME DeviceInv, ResultQueued
  PROVE  DeviceInv'
<1>h. /\ Git /\ ServerTyped /\ StateTyped /\ QueueTyped /\ RefTyped /\ FilesTyped
      /\ ProvTyped /\ JournalTyped /\ RunTyped /\ AckTyped /\ PhaseRun /\ PhaseJournal
      /\ PhaseWrite /\ PhaseQueue /\ PhaseSnap /\ TreesSaved /\ FilesSaved /\ SnapSaved
      /\ Held /\ HeadKept /\ StateKnown /\ ConflictKnown /\ JournalKnown /\ ReviewKnown
      /\ JournalKept
  BY DEF DeviceInv, Shapes, Phases, Keeps
<1>u. UNCHANGED <<commits, main, devRef, conflict, file, buf, saved, st, ref, prov, jr, ack>>
  BY DEF ResultQueued, rest, server, editor
<1>g. Grown /\ Git'
  BY <1>h, <1>u, StillGrown
<1>o. StepFacts
  BY <1>g, Facts DEF DeviceInv
<1>f. /\ ServerTyped' /\ StateTyped' /\ RefTyped' /\ FilesTyped' /\ ProvTyped'
      /\ JournalTyped' /\ AckTyped' /\ TreesSaved' /\ FilesSaved' /\ Held'
      /\ StateKnown' /\ ConflictKnown' /\ JournalKnown' /\ JournalKept'
  BY <1>h, <1>u, <1>g, ServerFrame, StateFrame, RefFrame, FilesFrame, ProvFrame,
     JournalFrame, AckFrame, TreesFrame, FilesSavedFrame, HeldFrame, StateKnownFrame,
     ConflictFrame, JournalKnownFrame, JournalKeptFrame
<1>1. QueueTyped'
  BY <1>h, <1>u, <1>g, <1>o DEF StepFacts, ResultQueued, QueueTyped, None, Statuses
<1>2. RunTyped'
  BY <1>h, <1>u, <1>g, <1>o DEF StepFacts, ResultQueued, RunTyped, None, NoRun, Trees
<1>3. PhaseRun'
  BY <1>h, <1>u, <1>g, <1>o DEF StepFacts, ResultQueued, PhaseRun, SyncPcs, PullPcs,
     TailPcs, JournalPcs, ScanPcs, CohortPcs, CommitPcs, QueuedPcs, TargetPcs,
     CapturePcs, NoRun, PhaseQueue
<1>4. PhaseJournal'
  BY <1>h, <1>u, <1>g, <1>o DEF StepFacts, ResultQueued, PhaseJournal, SyncPcs, PullPcs,
     TailPcs, JournalPcs, ScanPcs, CohortPcs, CommitPcs, QueuedPcs, TargetPcs,
     CapturePcs, NoRun
<1>5. PhaseWrite'
  BY <1>h, <1>u, <1>g, <1>o DEF StepFacts, ResultQueued, PhaseWrite
<1>6. PhaseQueue'
  BY <1>h, <1>u, <1>g, <1>o DEF StepFacts, ResultQueued, PhaseQueue, SyncPcs, PullPcs,
     TailPcs, JournalPcs, ScanPcs, CohortPcs, CommitPcs, QueuedPcs, TargetPcs,
     CapturePcs, NoRun
<1>7. PhaseSnap'
  BY <1>h, <1>u, <1>g, <1>o DEF StepFacts, ResultQueued, PhaseSnap, SyncPcs, PullPcs,
     TailPcs, JournalPcs, ScanPcs, CohortPcs, CommitPcs, QueuedPcs, TargetPcs,
     CapturePcs, PendingIn
<1>8. SnapSaved'
  BY <1>h, <1>u, <1>g, <1>o DEF StepFacts, ResultQueued, SnapSaved, NoRun
<1>9. HeadKept'
  <2>1. q.pending \in Server
    BY <1>h DEF PhaseQueue, ResultQueued
  <2> QED BY <2>1, <1>h, <1>g, <1>u, HeadSettled DEF DeviceInv
<1>10. ReviewKnown'
  BY <1>h, <1>u, <1>g, <1>o DEF StepFacts, ResultQueued, ReviewKnown, PhaseQueue
<1> QED BY <1>g, <1>f, <1>1, <1>2, <1>3, <1>4, <1>5, <1>6, <1>7, <1>8, <1>9, <1>10 DEF
   DeviceInv, Shapes, Phases, Keeps

LEMMA IntentCommittedKeeps ==
  ASSUME DeviceInv, IntentCommitted
  PROVE  DeviceInv'
<1>h. /\ Git /\ ServerTyped /\ StateTyped /\ QueueTyped /\ RefTyped /\ FilesTyped
      /\ ProvTyped /\ JournalTyped /\ RunTyped /\ AckTyped /\ PhaseRun /\ PhaseJournal
      /\ PhaseWrite /\ PhaseQueue /\ PhaseSnap /\ TreesSaved /\ FilesSaved /\ SnapSaved
      /\ Held /\ HeadKept /\ StateKnown /\ ConflictKnown /\ JournalKnown /\ ReviewKnown
      /\ JournalKept
  BY DEF DeviceInv, Shapes, Phases, Keeps
<1>u. UNCHANGED <<commits, main, devRef, conflict, file, buf, saved, st, q, ref, jr, ack, run>>
  BY DEF IntentCommitted, rest, server, editor
<1>g. Grown /\ Git'
  BY <1>h, <1>u, StillGrown
<1>o. StepFacts
  BY <1>g, Facts DEF DeviceInv
<1>f. /\ ServerTyped' /\ StateTyped' /\ QueueTyped' /\ RefTyped' /\ FilesTyped'
      /\ JournalTyped' /\ RunTyped' /\ AckTyped' /\ TreesSaved' /\ FilesSaved'
      /\ SnapSaved' /\ Held' /\ HeadKept' /\ StateKnown' /\ ConflictKnown'
      /\ JournalKnown' /\ ReviewKnown' /\ JournalKept'
  BY <1>h, <1>u, <1>g, ServerFrame, StateFrame, QueueFrame, RefFrame, FilesFrame,
     JournalFrame, RunFrame, AckFrame, TreesFrame, FilesSavedFrame, SnapFrame,
     HeldFrame, HeadFrame, StateKnownFrame, ConflictFrame, JournalKnownFrame,
     ReviewFrame, JournalKeptFrame
<1>1. ProvTyped'
  BY <1>h, <1>u, <1>g, <1>o DEF StepFacts, IntentCommitted, ProvTyped, None, PhaseRun,
     SyncPcs, PullPcs, TailPcs, JournalPcs, ScanPcs, CohortPcs, CommitPcs, QueuedPcs,
     TargetPcs, CapturePcs
<1>2. PhaseRun'
  BY <1>h, <1>u, <1>g, <1>o DEF StepFacts, IntentCommitted, PhaseRun, SyncPcs, PullPcs,
     TailPcs, JournalPcs, ScanPcs, CohortPcs, CommitPcs, QueuedPcs, TargetPcs,
     CapturePcs, NoRun
<1>3. PhaseJournal'
  BY <1>h, <1>u, <1>g, <1>o DEF StepFacts, IntentCommitted, PhaseJournal, SyncPcs,
     PullPcs, TailPcs, JournalPcs, ScanPcs, CohortPcs, CommitPcs, QueuedPcs, TargetPcs,
     CapturePcs, NoRun
<1>4. PhaseWrite'
  BY <1>h, <1>u, <1>g, <1>o DEF StepFacts, IntentCommitted, PhaseWrite
<1>5. PhaseQueue'
  BY <1>h, <1>u, <1>g, <1>o DEF StepFacts, IntentCommitted, PhaseQueue, SyncPcs,
     PullPcs, TailPcs, JournalPcs, ScanPcs, CohortPcs, CommitPcs, QueuedPcs, TargetPcs,
     CapturePcs, NoRun
<1>6. PhaseSnap'
  BY <1>h, <1>u, <1>g, <1>o DEF StepFacts, IntentCommitted, PhaseSnap, SyncPcs, PullPcs,
     TailPcs, JournalPcs, ScanPcs, CohortPcs, CommitPcs, QueuedPcs, TargetPcs,
     CapturePcs, PendingIn
<1> QED BY <1>g, <1>f, <1>1, <1>2, <1>3, <1>4, <1>5, <1>6 DEF DeviceInv, Shapes, Phases, Keeps

LEMMA InitJournalKeeps ==
  ASSUME DeviceInv, InitJournal
  PROVE  DeviceInv'
<1>h. /\ Git /\ ServerTyped /\ StateTyped /\ QueueTyped /\ RefTyped /\ FilesTyped
      /\ ProvTyped /\ JournalTyped /\ RunTyped /\ AckTyped /\ PhaseRun /\ PhaseJournal
      /\ PhaseWrite /\ PhaseQueue /\ PhaseSnap /\ TreesSaved /\ FilesSaved /\ SnapSaved
      /\ Held /\ HeadKept /\ StateKnown /\ ConflictKnown /\ JournalKnown /\ ReviewKnown
      /\ JournalKept
  BY DEF DeviceInv, Shapes, Phases, Keeps
<1>u. UNCHANGED <<commits, main, devRef, conflict, file, buf, saved, q, ref, ack>>
  BY DEF InitJournal, rest, server, editor
<1>g. Grown /\ Git'
  BY <1>h, <1>u, StillGrown
<1>o. StepFacts
  BY <1>g, Facts DEF DeviceInv
<1>c. PICK j, todo :
        /\ pc = "init" /\ jr # NoJournal
        /\ \/ /\ st' = Blocked("recovery") /\ pc' = "idle" /\ run' = NoRun /\ jr' = jr
           \/ /\ jr.phase = "committed" /\ pc' \in {"clear", "ackw", "bsnap"}
              /\ run' = [NoRun EXCEPT !.target = jr.target, !.ret = "resume"]
              /\ st' = st /\ jr' = jr
           \/ /\ jr.phase # "committed" /\ pc' \in {"rewrite", "write"} /\ st' = st /\ jr' = j
              /\ run' = [NoRun EXCEPT !.target = jr.target, !.ret = "repair", !.todo = todo]
              /\ DOMAIN j = DOMAIN jr /\ j.target = jr.target /\ j.affected = jr.affected
              /\ j.pre = jr.pre /\ jr.deferred \subseteq j.deferred /\ j.copy = jr.copy
              /\ j.phase \in {"bundled", "writing"}
              /\ todo \subseteq j.affected \ j.deferred
  <2> DEFINE matched == {p \in jr.affected : file[p] = Tree(jr.target)[p]}
             diverged == {p \in jr.affected : file[p] # jr.pre[p]
                                                /\ ~ (jr.phase = "writing" /\ p \in matched)}
             bare == jr.affected # {} /\ jr.bundle = NoBundle
             j == [jr EXCEPT !.deferred = @ \cup diverged,
                             !.bundle = IF bare THEN Frozen(jr) ELSE @,
                             !.phase = IF bare THEN "bundled" ELSE "writing"]
             todo == jr.affected \ (matched \cup j.deferred)
  <2>1. /\ DOMAIN j = DOMAIN jr /\ j.target = jr.target /\ j.affected = jr.affected
        /\ j.pre = jr.pre /\ jr.deferred \subseteq j.deferred /\ j.copy = jr.copy
        /\ j.phase \in {"bundled", "writing"}
        /\ todo \subseteq j.affected \ j.deferred
    BY <1>o DEF StepFacts
  <2>2. \/ /\ st' = Blocked("recovery") /\ pc' = "idle" /\ run' = NoRun /\ jr' = jr
        \/ /\ jr.phase = "committed" /\ pc' \in {"clear", "ackw", "bsnap"}
           /\ run' = [NoRun EXCEPT !.target = jr.target, !.ret = "resume"]
           /\ st' = st /\ jr' = jr
        \/ /\ jr.phase # "committed" /\ pc' \in {"rewrite", "write"} /\ st' = st /\ jr' = j
           /\ run' = [NoRun EXCEPT !.target = jr.target, !.ret = "repair", !.todo = todo]
    BY DEF InitJournal
  <2>3. pc = "init" /\ jr # NoJournal
    BY DEF InitJournal
  <2> HIDE DEF j, todo
  <2> QED BY <2>1, <2>2, <2>3
<1>v. /\ jr'.target = jr.target /\ jr.target # 0 /\ jr.target \in Anc(main)
      /\ DOMAIN jr' = DOMAIN jr /\ jr'.affected = jr.affected /\ jr'.pre = jr.pre
      /\ jr.deferred \subseteq jr'.deferred /\ (jr'.phase # "committed" => jr.phase # "committed")
      /\ jr'.copy = jr.copy
  BY <1>c, <1>h DEF JournalKnown
<1>w. /\ DOMAIN run' = DOMAIN run /\ run'.commit = 0 /\ run'.snap = NoRun.snap
      /\ run'.target \in {0, jr.target} /\ run'.ret \in {"none", "resume", "repair"}
      /\ pc' # "idle" => run'.target = jr.target
  <2>1. CASE run' = NoRun /\ pc' = "idle"
    BY <2>1, <1>o, NoRunFields DEF StepFacts
  <2>2. CASE run' = [NoRun EXCEPT !.target = jr.target, !.ret = "resume"]
    BY <2>2, <1>o, NoRunFields DEF StepFacts
  <2>3. CASE run' = [NoRun EXCEPT !.target = jr.target, !.ret = "repair", !.todo = todo]
    BY <2>3, <1>o, NoRunFields DEF StepFacts
  <2> QED BY <1>c, <2>1, <2>2, <2>3
<1>x. /\ st'.head = st.head /\ st'.main = st.main /\ st'.sref = st.sref
      /\ pc' \in {"idle", "clear", "ackw", "bsnap", "rewrite", "write"}
  BY <1>c, <1>o DEF StepFacts, Blocked
<1>y. PICK w : prov' = RetainApply(prov, w, FALSE)
  BY DEF InitJournal
<1>f. /\ ServerTyped' /\ QueueTyped' /\ RefTyped' /\ FilesTyped' /\ AckTyped'
      /\ TreesSaved' /\ FilesSaved' /\ Held' /\ ConflictKnown' /\ ReviewKnown'
  BY <1>h, <1>u, <1>g, ServerFrame, QueueFrame, RefFrame, FilesFrame, AckFrame,
     TreesFrame, FilesSavedFrame, HeldFrame, ConflictFrame, ReviewFrame
<1>1. StateTyped'
  <2>1. st' \in {st, Blocked("recovery")}
    BY <1>c
  <2>2. st' \in StateRecords(Node)
    BY <2>1, <1>h DEF StateTyped, StateRecords, Blocked, Labels, Codes
  <2> QED BY <2>2, <1>o DEF StepFacts, StateTyped, StateRecords
<1>2. ProvTyped'
  <2>2. DOMAIN prov' = {"hor", "obl", "intent", "acc"} /\ prov'.intent = prov.intent
    BY <1>h, <1>y, RetainFields DEF ProvTyped
  <2> QED BY <1>h, <1>g, <2>2, ProvKept
<1>3. JournalTyped'
  BY <1>h, <1>v, <1>o DEF StepFacts, JournalTyped
<1>4. RunTyped'
  BY <1>o, <1>v, <1>w, NoRunFields DEF StepFacts, RunTyped, None
<1>5. PhaseRun'
  BY <1>o, <1>v, <1>w, <1>x DEF StepFacts, PhaseRun, SyncPcs, PullPcs, TailPcs,
     JournalPcs, ScanPcs, CohortPcs, CommitPcs, QueuedPcs, TargetPcs, CapturePcs
<1>6. PhaseJournal'
  BY <1>h, <1>u, <1>g, <1>o, <1>x, <1>v, <1>w, <1>c, NoRunFields DEF StepFacts,
     PhaseJournal, SyncPcs, PullPcs, TailPcs, JournalPcs, ScanPcs, CohortPcs, CommitPcs,
     QueuedPcs, TargetPcs, CapturePcs, NoRun
<1>7. PhaseWrite'
  BY <1>h, <1>u, <1>g, <1>o, <1>x, <1>v, <1>w, <1>c, NoRunFields DEF StepFacts,
     PhaseWrite
<1>8. PhaseQueue'
  BY <1>h, <1>u, <1>g, <1>o, <1>x, <1>v, <1>w, <1>c, NoRunFields DEF StepFacts,
     PhaseQueue, SyncPcs, PullPcs, TailPcs, JournalPcs, ScanPcs, CohortPcs, CommitPcs,
     QueuedPcs, TargetPcs, CapturePcs, NoRun
<1>9. PhaseSnap'
  BY <1>h, <1>u, <1>g, <1>o, <1>x, <1>v, <1>w, <1>c, NoRunFields DEF StepFacts,
     PhaseSnap, SyncPcs, PullPcs, TailPcs, JournalPcs, ScanPcs, CohortPcs, CommitPcs,
     QueuedPcs, TargetPcs, CapturePcs, PendingIn
<1>10. SnapSaved'
  BY <1>h, <1>u, <1>g, <1>o, <1>x, <1>v, <1>w, <1>c, NoRunFields DEF StepFacts,
     SnapSaved, NoRun
<1>11. HeadKept'
  <2>1. st'.head = st.head /\ q'.pending = q.pending
    BY <1>h, <1>u, <1>o, <1>x, <1>v, <1>w, <1>c, NoRunFields DEF StepFacts
  <2> QED BY <1>h, <1>g, <2>1, HeadFrame
<1>12. StateKnown'
  BY <1>h, <1>g, <1>x, StateKnownFrame
<1>13. JournalKnown'
  <2>1. jr'.target # 0 /\ jr'.target \in Anc(main)'
    BY <1>v, <1>o DEF StepFacts
  <2> QED BY <2>1 DEF JournalKnown
<1>14. JournalKept'
  BY <1>h, <1>g, <1>v, JournalStays
<1> QED BY <1>g, <1>f, <1>1, <1>2, <1>3, <1>4, <1>5, <1>6, <1>7, <1>8, <1>9, <1>10, <1>11,
   <1>12, <1>13, <1>14 DEF DeviceInv, Shapes, Phases, Keeps

LEMMA PullKeeps ==
  ASSUME DeviceInv, Pull
  PROVE  DeviceInv'
<1>h. /\ Git /\ ServerTyped /\ StateTyped /\ QueueTyped /\ RefTyped /\ FilesTyped
      /\ ProvTyped /\ JournalTyped /\ RunTyped /\ AckTyped /\ PhaseRun /\ PhaseJournal
      /\ PhaseWrite /\ PhaseQueue /\ PhaseSnap /\ TreesSaved /\ FilesSaved /\ SnapSaved
      /\ Held /\ HeadKept /\ StateKnown /\ ConflictKnown /\ JournalKnown /\ ReviewKnown
      /\ JournalKept
  BY DEF DeviceInv, Shapes, Phases, Keeps
<1>u. UNCHANGED <<commits, main, devRef, conflict, buf, q, ref, prov, jr, ack>>
  BY DEF Pull, FlushBuffers, SaveBuffers, Done, rest, server, editor
<1>g. Grown /\ Git'
  BY <1>h, <1>u, StillGrown
<1>o. StepFacts
  BY <1>g, Facts DEF DeviceInv
<1>s. SaveBuffers(Unflushed)
  BY DEF Pull, FlushBuffers
<1>x. /\ FilesTyped' /\ Held' /\ FilesSaved'
      /\ \A p_ \in Paths : saved[p_] \subseteq saved'[p_]
  BY <1>h, <1>g, <1>s, BuffersKept
<1>y. TreesSaved' /\ (run'.snap = run.snap => SnapSaved')
  BY <1>h, <1>u, <1>x, SavedGrows
<1>z. /\ pc' \in {"idle", "apply"} /\ run'.snap \in {run.snap, NoRun.snap}
      /\ pc' = "apply" => /\ run' = [run EXCEPT !.target = main, !.ret = "apply"]
                          /\ q.pending # 0 => q.status = "conflicted"
      /\ pc' = "idle" => run' = NoRun
      /\ st'.main = st.main /\ st'.head = st.head /\ st'.sref = st.sref
      /\ st' \in {st, [st EXCEPT !.label = "Ahead"]}
  BY <1>o DEF StepFacts, Pull, Done
<1>f. /\ ServerTyped' /\ QueueTyped' /\ RefTyped' /\ ProvTyped' /\ JournalTyped'
      /\ AckTyped' /\ ConflictKnown' /\ JournalKnown' /\ ReviewKnown' /\ JournalKept'
  BY <1>h, <1>u, <1>g, ServerFrame, QueueFrame, RefFrame, ProvFrame, JournalFrame,
     AckFrame, ConflictFrame, JournalKnownFrame, ReviewFrame, JournalKeptFrame
<1>1. StateTyped'
  BY <1>h, <1>u, <1>g, <1>o, <1>x, <1>z DEF StepFacts, StateTyped, Labels, Codes
<1>2. FilesTyped'
  BY <1>x
<1>3. RunTyped'
  <2>1. CASE run' = NoRun
    BY <2>1, NoRunFields DEF RunTyped, None
  <2>2. CASE run' = [run EXCEPT !.target = main, !.ret = "apply"]
    BY <2>2, <1>o DEF StepFacts, RunTyped
  <2> QED BY <1>z, <2>1, <2>2
<1>4. PhaseRun'
  <2>1. CASE pc' = "idle"
    BY <2>1 DEF PhaseRun, SyncPcs, PullPcs, TailPcs, JournalPcs, ScanPcs, CohortPcs,
         CommitPcs, QueuedPcs, TargetPcs, CapturePcs
  <2>2. CASE pc' = "apply"
    <3>1. run'.target = main /\ run'.ret = "apply"
      BY <2>2, <1>z, <1>o DEF StepFacts
    <3> QED BY <2>2, <3>1, <1>o DEF StepFacts, PhaseRun, SyncPcs, PullPcs, TailPcs,
         JournalPcs, ScanPcs, CohortPcs, CommitPcs, QueuedPcs, TargetPcs, CapturePcs
  <2> QED BY <1>z, <2>1, <2>2
<1>5. PhaseJournal'
  BY <1>h, <1>u, <1>g, <1>o, <1>x, <1>z DEF StepFacts, PhaseJournal, SyncPcs, PullPcs,
     TailPcs, JournalPcs, ScanPcs, CohortPcs, CommitPcs, QueuedPcs, TargetPcs,
     CapturePcs, NoRun
<1>6. PhaseWrite'
  BY <1>h, <1>u, <1>g, <1>o, <1>x, <1>z DEF StepFacts, PhaseWrite
<1>7. PhaseQueue'
  BY <1>h, <1>u, <1>g, <1>o, <1>x, <1>z DEF StepFacts, PhaseQueue, SyncPcs, PullPcs,
     TailPcs, JournalPcs, ScanPcs, CohortPcs, CommitPcs, QueuedPcs, TargetPcs,
     CapturePcs, NoRun, ReviewKnown
<1>8. PhaseSnap'
  BY <1>h, <1>u, <1>g, <1>o, <1>x, <1>z DEF StepFacts, PhaseSnap, SyncPcs, PullPcs,
     TailPcs, JournalPcs, ScanPcs, CohortPcs, CommitPcs, QueuedPcs, TargetPcs,
     CapturePcs, PendingIn
<1>9. TreesSaved'
  BY <1>y
<1>10. FilesSaved'
  BY <1>x
<1>11. SnapSaved'
  <2>1. CASE run'.snap = run.snap
    BY <2>1, <1>y
  <2>2. CASE run'.snap = NoRun.snap
    BY <2>2, NoRunFields DEF SnapSaved
  <2> QED BY <1>z, <2>1, <2>2
<1>12. Held'
  BY <1>x
<1>13. HeadKept'
  <2>1. st'.head = st.head /\ q'.pending = q.pending
    BY <1>h, <1>u, <1>o, <1>x, <1>z DEF StepFacts
  <2> QED BY <1>h, <1>g, <2>1, HeadFrame
<1>14. StateKnown'
  BY <1>h, <1>u, <1>g, <1>o, <1>x, <1>z DEF StepFacts, StateKnown
<1> QED BY <1>g, <1>f, <1>1, <1>2, <1>3, <1>4, <1>5, <1>6, <1>7, <1>8, <1>9, <1>10, <1>11,
   <1>12, <1>13, <1>14 DEF DeviceInv, Shapes, Phases, Keeps

LEMMA ApplyBaseKeeps ==
  ASSUME DeviceInv, ApplyBase
  PROVE  DeviceInv'
<1>h. /\ Git /\ ServerTyped /\ StateTyped /\ QueueTyped /\ RefTyped /\ FilesTyped
      /\ ProvTyped /\ JournalTyped /\ RunTyped /\ AckTyped /\ PhaseRun /\ PhaseJournal
      /\ PhaseWrite /\ PhaseQueue /\ PhaseSnap /\ TreesSaved /\ FilesSaved /\ SnapSaved
      /\ Held /\ HeadKept /\ StateKnown /\ ConflictKnown /\ JournalKnown /\ ReviewKnown
      /\ JournalKept
  BY DEF DeviceInv, Shapes, Phases, Keeps
<1>u. UNCHANGED <<commits, main, devRef, conflict, file, buf, saved, q, ref, jr>>
  BY DEF ApplyBase, rest, server, editor
<1>g. Grown /\ Git'
  BY <1>h, <1>u, StillGrown
<1>o. StepFacts
  BY <1>g, Facts DEF DeviceInv
<1>f. /\ ServerTyped' /\ QueueTyped' /\ RefTyped' /\ FilesTyped' /\ JournalTyped'
      /\ TreesSaved' /\ FilesSaved' /\ Held' /\ ConflictKnown' /\ JournalKnown'
      /\ ReviewKnown' /\ JournalKept'
  BY <1>h, <1>u, <1>g, ServerFrame, QueueFrame, RefFrame, FilesFrame, JournalFrame,
     TreesFrame, FilesSavedFrame, HeldFrame, ConflictFrame, JournalKnownFrame,
     ReviewFrame, JournalKeptFrame
<1>1. StateTyped'
  <2>1. CASE st' = [st EXCEPT !.label = "Synced"]
    BY <2>1, <1>h, <1>g, Relabelled DEF Labels
  <2>2. CASE st' = [st EXCEPT !.label = "Applying"]
    BY <2>2, <1>h, <1>g, Relabelled DEF Labels
  <2> QED BY <2>1, <2>2 DEF ApplyBase
<1>2. ProvTyped'
  <2>1. \/ prov' = prov
        \/ \E a : prov' = Rebased(prov, a, run.target)
    BY DEF ApplyBase
  <2>2. DOMAIN prov' = {"hor", "obl", "intent", "acc"} /\ prov'.intent = prov.intent
    BY <1>h, <2>1, RebasedFields DEF ProvTyped
  <2> QED BY <1>h, <1>g, <2>2, ProvKept
<1>3. RunTyped'
  BY <1>h, <1>u, <1>g, <1>o DEF StepFacts, ApplyBase, RunTyped, None, NoRun, Trees
<1>4. AckTyped'
  BY <1>h, <1>u, <1>g, <1>o DEF StepFacts, ApplyBase, AckTyped, None
<1>5. PhaseRun'
  BY <1>h, <1>u, <1>g, <1>o DEF StepFacts, ApplyBase, PhaseRun, SyncPcs, PullPcs,
     TailPcs, JournalPcs, ScanPcs, CohortPcs, CommitPcs, QueuedPcs, TargetPcs,
     CapturePcs, NoRun
<1>6. PhaseJournal'
  BY <1>h, <1>u, <1>g, <1>o DEF StepFacts, ApplyBase, PhaseJournal, SyncPcs, PullPcs,
     TailPcs, JournalPcs, ScanPcs, CohortPcs, CommitPcs, QueuedPcs, TargetPcs,
     CapturePcs, NoRun
<1>7. PhaseWrite'
  BY <1>h, <1>u, <1>g, <1>o DEF StepFacts, ApplyBase, PhaseWrite
<1>8. PhaseQueue'
  BY <1>h, <1>u, <1>g, <1>o DEF StepFacts, ApplyBase, PhaseQueue, SyncPcs, PullPcs,
     TailPcs, JournalPcs, ScanPcs, CohortPcs, CommitPcs, QueuedPcs, TargetPcs,
     CapturePcs, NoRun
<1>9. PhaseSnap'
  BY <1>h, <1>u, <1>g, <1>o DEF StepFacts, ApplyBase, PhaseSnap, SyncPcs, PullPcs,
     TailPcs, JournalPcs, ScanPcs, CohortPcs, CommitPcs, QueuedPcs, TargetPcs,
     CapturePcs, PendingIn
<1>10. SnapSaved'
  BY <1>h, <1>u, <1>g, <1>o DEF StepFacts, ApplyBase, SnapSaved, NoRun
<1>11. HeadKept'
  <2>1. st'.head = st.head /\ q'.pending = q.pending
    BY <1>h, <1>u, <1>o DEF StepFacts, ApplyBase
  <2> QED BY <1>h, <1>g, <2>1, HeadFrame
<1>12. StateKnown'
  BY <1>h, <1>u, <1>g, <1>o DEF StepFacts, ApplyBase, StateKnown
<1> QED BY <1>g, <1>f, <1>1, <1>2, <1>3, <1>4, <1>5, <1>6, <1>7, <1>8, <1>9, <1>10, <1>11,
     <1>12
   DEF DeviceInv, Shapes, Phases, Keeps

LEMMA PlanKeeps ==
  ASSUME DeviceInv, Plan
  PROVE  DeviceInv'
<1>h. /\ Git /\ ServerTyped /\ StateTyped /\ QueueTyped /\ RefTyped /\ FilesTyped
      /\ ProvTyped /\ JournalTyped /\ RunTyped /\ AckTyped /\ PhaseRun /\ PhaseJournal
      /\ PhaseWrite /\ PhaseQueue /\ PhaseSnap /\ TreesSaved /\ FilesSaved /\ SnapSaved
      /\ Held /\ HeadKept /\ StateKnown /\ ConflictKnown /\ JournalKnown /\ ReviewKnown
      /\ JournalKept
  BY DEF DeviceInv, Shapes, Phases, Keeps
<1>u. UNCHANGED <<commits, main, devRef, conflict, file, buf, saved, st, q, ref, prov, ack>>
  BY DEF Plan, rest, server, editor
<1>g. Grown /\ Git'
  BY <1>h, <1>u, StillGrown
<1>o. StepFacts
  BY <1>g, Facts DEF DeviceInv
<1>c. /\ pc = "plan" /\ pc' \in {"refs", "retain"}
      /\ DOMAIN jr' = DOMAIN jr /\ jr'.target = run.target /\ jr'.affected \subseteq Paths
      /\ jr'.pre = file /\ jr'.phase \in {"planned", "committed"} /\ jr'.prior = st.main
      /\ jr'.copy \in [Paths -> Marks]
      /\ pc' = "retain" => jr'.phase = "planned" /\ run' = run
      /\ pc' = "refs" => /\ jr'.phase = "committed"
                         /\ run' = [run EXCEPT !.ret = "refonly", !.snap = Tree(run.target)]
      /\ jr'.phase = "planned" =>
           \A p \in jr'.affected \ jr'.deferred :
             file[p] \in {Tree(run.target)[p], Tree(st.head)[p], Tree(st.main)[p], Tree(st.sref)[p]}
  <2> DEFINE t == Tree(run.target)
             af == Differ(Tree(run.base), t)
             de == {p \in af : ~ (file[p] \in {t[p], Tree(st.head)[p], Tree(st.main)[p],
                                               Tree(st.sref)[p]})}
             to == {p \in af : file[p] # t[p]}
  <2>1. af \subseteq Paths
    BY DEF Differ
  <2>2. \A p \in af \ de :
          file[p] \in {Tree(run.target)[p], Tree(st.head)[p], Tree(st.main)[p], Tree(st.sref)[p]}
    OBVIOUS
  <2>j. PICK j : j = [NoJournal EXCEPT !.target = run.target, !.base = run.base,
                            !.prior = st.main, !.sref = st.sref, !.pre = file]
    OBVIOUS
  <2>3. \/ /\ jr' = [j EXCEPT !.phase = "committed"]
           /\ run' = [run EXCEPT !.ret = "refonly", !.snap = Tree(run.target)]
           /\ pc' = "refs"
        \/ /\ jr' = [j EXCEPT !.phase = "planned", !.affected = af, !.deferred = de,
                              !.touched = to]
           /\ pc' = "retain" /\ run' = run
    BY <2>j DEF Plan
  <2>4. pc = "plan"
    BY DEF Plan
  <2> HIDE DEF af, de, to, t
  <2>5. /\ DOMAIN j = DOMAIN jr /\ j.target = run.target /\ j.affected = {} /\ j.pre = file
        /\ j.deferred = {} /\ j.prior = st.main /\ j.copy \in [Paths -> Marks]
    BY <2>j, <1>o DEF StepFacts, NoJournal, Marks
  <2>6. CASE pc' = "refs"
    BY <2>3, <2>4, <2>5, <2>6, <1>o DEF StepFacts
  <2>7. CASE pc' = "retain"
    <3>1. jr' = [j EXCEPT !.phase = "planned", !.affected = af, !.deferred = de, !.touched = to]
          /\ run' = run
      BY <2>3, <2>7
    <3>2. /\ DOMAIN jr' = DOMAIN jr /\ jr'.target = run.target /\ jr'.affected = af
          /\ jr'.pre = file /\ jr'.deferred = de /\ jr'.phase = "planned" /\ jr'.prior = st.main
          /\ jr'.copy = j.copy
      BY <3>1, <2>5, <1>o DEF StepFacts
    <3> QED BY <3>1, <3>2, <2>1, <2>2, <2>4, <2>5, <2>7
  <2> QED BY <2>3, <2>6, <2>7
<1>t. run.target \in Anc(main) /\ run.target \in Server /\ run.target \in Node /\ run.target # 0
      /\ run.ret \notin {"sync", "recover"} /\ (q.pending = 0 \/ q.pending \in Server)
  BY <1>c, <1>h, <1>o DEF StepFacts, PhaseRun, PhaseQueue, SyncPcs, PullPcs, TailPcs,
       JournalPcs, ScanPcs, CohortPcs, CommitPcs, QueuedPcs, TargetPcs, CapturePcs
<1>x. /\ DOMAIN run' = DOMAIN run /\ run'.target = run.target /\ run'.commit = run.commit
      /\ run'.ret \notin {"sync", "recover"} /\ run'.snap \in {run.snap, Tree(run.target)}
      /\ pc' = "refs" => run'.snap = Tree(run.target)
  <2>1. CASE pc' = "retain"
    BY <2>1, <1>c, <1>t
  <2>2. CASE pc' = "refs"
    <3>1. run' = [run EXCEPT !.ret = "refonly", !.snap = Tree(run.target)]
      BY <2>2, <1>c
    <3> QED BY <3>1, <1>o DEF StepFacts
  <2> QED BY <1>c, <2>1, <2>2
<1>f. /\ ServerTyped' /\ StateTyped' /\ QueueTyped' /\ RefTyped' /\ FilesTyped'
      /\ ProvTyped' /\ AckTyped' /\ TreesSaved' /\ FilesSaved' /\ Held' /\ HeadKept'
      /\ StateKnown' /\ ConflictKnown' /\ ReviewKnown'
  BY <1>h, <1>u, <1>g, ServerFrame, StateFrame, QueueFrame, RefFrame, FilesFrame,
     ProvFrame, AckFrame, TreesFrame, FilesSavedFrame, HeldFrame, HeadFrame,
     StateKnownFrame, ConflictFrame, ReviewFrame
<1>1. JournalTyped'
  BY <1>c, <1>o, <1>t DEF StepFacts, JournalTyped, None
<1>2. RunTyped'
  BY <1>x, <1>t, <1>o DEF StepFacts, RunTyped
<1>3. PhaseRun'
  BY <1>h, <1>u, <1>g, <1>o, <1>x, <1>c, <1>t DEF StepFacts, PhaseRun, SyncPcs, PullPcs,
     TailPcs, JournalPcs, ScanPcs, CohortPcs, CommitPcs, QueuedPcs, TargetPcs,
     CapturePcs, NoRun
<1>4. PhaseJournal'
  BY <1>c, <1>t, <1>x DEF PhaseJournal, SyncPcs, PullPcs, TailPcs, JournalPcs, ScanPcs,
     CohortPcs, CommitPcs, QueuedPcs, TargetPcs, CapturePcs
<1>5. PhaseWrite'
  BY <1>c DEF PhaseWrite
<1>6. PhaseQueue'
  BY <1>h, <1>u, <1>g, <1>o, <1>x, <1>c, <1>t DEF StepFacts, PhaseQueue, SyncPcs,
     PullPcs, TailPcs, JournalPcs, ScanPcs, CohortPcs, CommitPcs, QueuedPcs, TargetPcs,
     CapturePcs, NoRun
<1>7. PhaseSnap'
  <2>1. pc' = "refs" => Preserved' = {}
    BY <1>c, <1>x, <1>t, <1>o DEF StepFacts, Preserved, Differ
  <2> QED BY <2>1, <1>c DEF PhaseSnap, SyncPcs, PullPcs, TailPcs, JournalPcs, ScanPcs,
       CohortPcs, CommitPcs, QueuedPcs, TargetPcs, CapturePcs
<1>8. SnapSaved'
  <2>1. \A p \in Paths : Tree(run.target)[p] \cap LocalEdits \subseteq saved[p]
    BY <1>h, <1>t DEF TreesSaved, Local
  <2> QED BY <1>x, <1>u, <1>h, <2>1 DEF SnapSaved
<1>9. JournalKnown'
  <2>1. jr'.target # 0 /\ jr'.target \in Anc(main)'
    BY <1>c, <1>t, <1>o DEF StepFacts
  <2> QED BY <2>1 DEF JournalKnown
<1>10. JournalKept'
  <2>1. SUFFICES ASSUME jr'.phase = "planned", NEW p \in jr'.affected \ jr'.deferred
                 PROVE  file[p] \cap LocalEdits \subseteq Served(p)'
    BY <1>c DEF JournalKept
  <2>2. p \in Paths
    BY <1>c
  <2>3. file[p] \in {Tree(run.target)[p], Tree(st.head)[p], Tree(st.main)[p], Tree(st.sref)[p]}
    BY <2>1, <1>c
  <2>4. ASSUME NEW c \in Server PROVE Tree(c)[p] \cap LocalEdits \subseteq Served(p)
    BY <2>2, ServedTree DEF Local
  <2>5. Tree(st.head)[p] \cap LocalEdits \subseteq Served(p)
    <3>1. Local(st.head, p) \subseteq Served(p) \cup (IF q.pending = 0 THEN {} ELSE Local(q.pending, p))
      BY <2>2, <1>h DEF HeadKept
    <3>2. q.pending # 0 => Local(q.pending, p) \subseteq Served(p)
      BY <1>t, <2>4 DEF Local
    <3> QED BY <3>1, <3>2 DEF Local
  <2>6. st.main \in Server /\ st.sref \in Server
    BY <1>h, <1>o DEF StateKnown, StepFacts
  <2>7. file[p] \cap LocalEdits \subseteq Served(p)
    BY <2>3, <2>4, <2>5, <2>6, <1>t
  <2> QED BY <2>2, <2>7, <1>o DEF StepFacts
<1> QED BY <1>g, <1>f, <1>1, <1>2, <1>3, <1>4, <1>5, <1>6, <1>7, <1>8, <1>9, <1>10 DEF
   DeviceInv, Shapes, Phases, Keeps

LEMMA WriteFileKeeps ==
  ASSUME NEW p \in Paths, DeviceInv, WriteFile(p)
  PROVE  DeviceInv'
<1>h. /\ Git /\ ServerTyped /\ StateTyped /\ QueueTyped /\ RefTyped /\ FilesTyped
      /\ ProvTyped /\ JournalTyped /\ RunTyped /\ AckTyped /\ PhaseRun /\ PhaseJournal
      /\ PhaseWrite /\ PhaseQueue /\ PhaseSnap /\ TreesSaved /\ FilesSaved /\ SnapSaved
      /\ Held /\ HeadKept /\ StateKnown /\ ConflictKnown /\ JournalKnown /\ ReviewKnown
      /\ JournalKept
  BY DEF DeviceInv, Shapes, Phases, Keeps
<1>u. UNCHANGED <<commits, main, devRef, conflict, buf, saved, st, q, ref, ack, pc>>
  BY DEF WriteFile, rest, server, editor
<1>g. Grown /\ Git'
  BY <1>h, <1>u, StillGrown
<1>o. StepFacts
  BY <1>g, Facts DEF DeviceInv
<1>c. /\ pc = "write" /\ p \in run.todo /\ run' = [run EXCEPT !.todo = @ \ {p}]
      /\ \/ /\ file[p] = jr.pre[p] /\ file' = [file EXCEPT ![p] = Tree(jr.target)[p]]
            /\ jr' = jr /\ prov' = prov
         \/ /\ jr' = [jr EXCEPT !.deferred = @ \cup {p}] /\ file' = file
            /\ \E w : prov' = RetainApply(prov, w, FALSE)
  BY DEF WriteFile, Deferred
<1>t. jr.target # 0 /\ jr.target \in Anc(main) /\ jr.target \in Node /\ jr.target \in Server
  BY <1>c, <1>h, <1>o DEF StepFacts, PhaseJournal, JournalKnown, SyncPcs, PullPcs,
       TailPcs, JournalPcs, ScanPcs, CohortPcs, CommitPcs, QueuedPcs, TargetPcs,
       CapturePcs
<1>x. /\ DOMAIN run' = DOMAIN run /\ run'.target = run.target /\ run'.commit = run.commit
      /\ run'.snap = run.snap /\ run'.ret = run.ret /\ run'.todo = run.todo \ {p}
  BY <1>c, <1>o DEF StepFacts
<1>y. /\ DOMAIN jr' = DOMAIN jr /\ jr'.target = jr.target /\ jr'.affected = jr.affected
      /\ jr'.pre = jr.pre /\ jr.deferred \subseteq jr'.deferred /\ jr'.phase = jr.phase
      /\ jr'.copy = jr.copy
      /\ jr'.deferred \subseteq jr.deferred \cup {p}
  <2>1. CASE jr' = jr
    BY <2>1
  <2>2. CASE jr' = [jr EXCEPT !.deferred = @ \cup {p}]
    BY <2>2, <1>o DEF StepFacts
  <2> QED BY <1>c, <2>1, <2>2
<1>k. /\ jr.phase \in {"bundled", "writing"} /\ p \in jr.affected \ jr.deferred
      /\ jr.pre[p] \cap LocalEdits \subseteq Served(p)
  BY <1>c, <1>h DEF PhaseWrite, JournalKept
<1>l. Tree(jr.target)[p] \cap LocalEdits \subseteq Served(p)
      /\ Tree(jr.target)[p] \cap LocalEdits \subseteq saved[p] /\ Tree(jr.target)[p] \in SUBSET Edits
  BY <1>h, <1>t, <1>o, ServedTree DEF TreesSaved, Local, StepFacts, Trees
<1>f. /\ ServerTyped' /\ StateTyped' /\ QueueTyped' /\ RefTyped' /\ AckTyped'
      /\ TreesSaved' /\ HeadKept' /\ StateKnown' /\ ConflictKnown' /\ ReviewKnown'
  BY <1>h, <1>u, <1>g, ServerFrame, StateFrame, QueueFrame, RefFrame, AckFrame,
     TreesFrame, HeadFrame, StateKnownFrame, ConflictFrame, ReviewFrame
<1>1. FilesTyped'
  BY <1>c, <1>l, <1>u, <1>o DEF StepFacts, FilesTyped, Trees
<1>2. ProvTyped'
  <2>1. CASE prov' = prov
    BY <1>h, <1>g, <2>1, ProvFrame
  <2>2. CASE \E w : prov' = RetainApply(prov, w, FALSE)
    <3>1. PICK w : prov' = RetainApply(prov, w, FALSE)
      BY <2>2
    <3>2. DOMAIN prov' = {"hor", "obl", "intent", "acc"} /\ prov'.intent = prov.intent
      BY <3>1, <1>h, RetainFields DEF ProvTyped
    <3> QED BY <1>h, <1>g, <3>2, ProvKept
  <2> QED BY <1>c, <2>1, <2>2
<1>3. JournalTyped'
  BY <1>h, <1>y, <1>o DEF StepFacts, JournalTyped
<1>4. RunTyped'
  BY <1>h, <1>x, <1>o DEF StepFacts, RunTyped
<1>5. PhaseRun'
  BY <1>h, <1>c, <1>x, <1>u, <1>o DEF StepFacts, PhaseRun, SyncPcs, PullPcs, TailPcs,
       JournalPcs, ScanPcs, CohortPcs, CommitPcs, QueuedPcs, TargetPcs, CapturePcs
<1>6. PhaseJournal'
  BY <1>h, <1>c, <1>x, <1>y, <1>t, <1>u DEF PhaseJournal, SyncPcs, PullPcs, TailPcs,
       JournalPcs, ScanPcs, CohortPcs, CommitPcs, QueuedPcs, TargetPcs, CapturePcs
<1>7. PhaseWrite'
  BY <1>h, <1>c, <1>x, <1>y, <1>u DEF PhaseWrite
<1>8. PhaseQueue'
  BY <1>h, <1>c, <1>u DEF PhaseQueue, SyncPcs, PullPcs, TailPcs, JournalPcs, ScanPcs,
       CohortPcs, CommitPcs, QueuedPcs, TargetPcs, CapturePcs
<1>9. PhaseSnap'
  BY <1>c, <1>u DEF PhaseSnap, SyncPcs, PullPcs, TailPcs, JournalPcs, ScanPcs, CohortPcs,
       CommitPcs, QueuedPcs, TargetPcs, CapturePcs
<1>10. FilesSaved'
  BY <1>h, <1>c, <1>l, <1>u, <1>o DEF StepFacts, FilesSaved, Trees
<1>11. SnapSaved'
  BY <1>h, <1>x, <1>u DEF SnapSaved
<1>12. Held'
  <2>1. SUFFICES ASSUME NEW k \in Paths, NEW e \in saved[k]
                 PROVE  e \in Served(k)' \/ e \in file'[k] \cap buf[k]
    BY <1>u DEF Held
  <2>2. e \in Served(k) \/ e \in file[k] \cap buf[k]
    BY <1>h DEF Held
  <2>3. e \in Served(k) => e \in Served(k)'
    BY <1>o DEF StepFacts
  <2>4. CASE k # p
    BY <2>2, <2>3, <2>4, <1>c, <1>o DEF StepFacts, Trees
  <2>5. CASE k = p /\ file[p] = jr.pre[p]
    <3>1. e \in LocalEdits
      BY <1>o DEF StepFacts
    <3>2. e \in Served(p)
      BY <2>2, <2>5, <3>1, <1>k
    <3> QED BY <2>3, <2>5, <3>2
  <2>6. CASE file' = file
    BY <2>2, <2>3, <2>6
  <2> QED BY <1>c, <2>4, <2>5, <2>6
<1>13. JournalKnown'
  <2>1. jr'.target # 0 /\ jr'.target \in Anc(main)'
    BY <1>y, <1>t, <1>o DEF StepFacts
  <2> QED BY <2>1 DEF JournalKnown
<1>14. JournalKept'
  BY <1>h, <1>g, <1>y, JournalStays
<1> QED BY <1>g, <1>f, <1>1, <1>2, <1>3, <1>4, <1>5, <1>6, <1>7, <1>8, <1>9, <1>10, <1>11,
   <1>12, <1>13, <1>14 DEF DeviceInv, Shapes, Phases, Keeps

LEMMA TailCaptureKeeps ==
  ASSUME DeviceInv, TailCapture
  PROVE  DeviceInv'
<1>h. /\ Git /\ ServerTyped /\ StateTyped /\ QueueTyped /\ RefTyped /\ FilesTyped
      /\ ProvTyped /\ JournalTyped /\ RunTyped /\ AckTyped /\ PhaseRun /\ PhaseJournal
      /\ PhaseWrite /\ PhaseQueue /\ PhaseSnap /\ TreesSaved /\ FilesSaved /\ SnapSaved
      /\ Held /\ HeadKept /\ StateKnown /\ ConflictKnown /\ JournalKnown /\ ReviewKnown
      /\ JournalKept
  BY DEF DeviceInv, Shapes, Phases, Keeps
<1>u. UNCHANGED <<commits, main, devRef, conflict, file, buf, saved, st, q, ref, ack>>
  BY DEF TailCapture, rest, server, editor
<1>g. Grown /\ Git'
  BY <1>h, <1>u, StillGrown
<1>o. StepFacts
  BY <1>g, Facts DEF DeviceInv
<1>c. /\ pc = "tsnap" /\ pc' = "refs"
      /\ DOMAIN jr' = DOMAIN jr /\ jr'.target = jr.target /\ jr'.affected = jr.affected
      /\ jr'.pre = jr.pre /\ jr.deferred \subseteq jr'.deferred /\ jr'.phase = jr.phase
      /\ jr'.copy = jr.copy /\ DOMAIN run' = DOMAIN run /\ run'.target = run.target /\ run'.commit = run.commit
      /\ run'.ret = run.ret /\ run'.snap = file
  BY <1>o DEF StepFacts, TailCapture
<1>t. jr.target # 0 /\ jr.target \in Anc(main) /\ jr.target \in Node /\ jr.target \in Server
  BY <1>c, <1>h, <1>o DEF StepFacts, PhaseJournal, JournalKnown, SyncPcs, PullPcs,
       TailPcs, JournalPcs, ScanPcs, CohortPcs, CommitPcs, QueuedPcs, TargetPcs,
       CapturePcs
<1>x. prov' = prov \/ \E w : prov' = RetainApply(prov, w, FALSE)
  BY DEF TailCapture
<1>f. /\ ServerTyped' /\ StateTyped' /\ QueueTyped' /\ RefTyped' /\ FilesTyped'
      /\ AckTyped' /\ TreesSaved' /\ FilesSaved' /\ Held' /\ HeadKept' /\ StateKnown'
      /\ ConflictKnown' /\ ReviewKnown'
  BY <1>h, <1>u, <1>g, ServerFrame, StateFrame, QueueFrame, RefFrame, FilesFrame,
     AckFrame, TreesFrame, FilesSavedFrame, HeldFrame, HeadFrame, StateKnownFrame,
     ConflictFrame, ReviewFrame
<1>1. ProvTyped'
  <2>1. CASE prov' = prov
    BY <1>h, <1>g, <2>1, ProvFrame
  <2>2. CASE \E w : prov' = RetainApply(prov, w, FALSE)
    <3>1. PICK w : prov' = RetainApply(prov, w, FALSE)
      BY <2>2
    <3>2. DOMAIN prov' = {"hor", "obl", "intent", "acc"} /\ prov'.intent = prov.intent
      BY <3>1, <1>h, RetainFields DEF ProvTyped
    <3> QED BY <1>h, <1>g, <3>2, ProvKept
  <2> QED BY <1>x, <2>1, <2>2
<1>2. JournalTyped'
  BY <1>h, <1>c, <1>o DEF StepFacts, JournalTyped
<1>3. RunTyped'
  BY <1>h, <1>c, <1>t, <1>o DEF StepFacts, RunTyped
<1>4. PhaseRun'
  BY <1>h, <1>c, <1>u, <1>o DEF StepFacts, PhaseRun, SyncPcs, PullPcs, TailPcs,
       JournalPcs, ScanPcs, CohortPcs, CommitPcs, QueuedPcs, TargetPcs, CapturePcs
<1>5. PhaseJournal'
  BY <1>h, <1>c, <1>t, <1>u DEF PhaseJournal, SyncPcs, PullPcs, TailPcs, JournalPcs,
       ScanPcs, CohortPcs, CommitPcs, QueuedPcs, TargetPcs, CapturePcs
<1>6. PhaseWrite'
  BY <1>c DEF PhaseWrite
<1>7. PhaseQueue'
  BY <1>c DEF PhaseQueue, SyncPcs, PullPcs, TailPcs, JournalPcs, ScanPcs, CohortPcs,
       CommitPcs, QueuedPcs, TargetPcs, CapturePcs
<1>8. PhaseSnap'
  <2>1. PendingIn(file)
    BY <1>h, FileHolds
  <2>3. PendingIn(run.snap)'
    BY <2>1, <1>c, <1>h, <1>g, <1>u, PendingFrame DEF PendingIn
  <2> QED BY <1>c, <2>3 DEF PhaseSnap, SyncPcs, PullPcs, TailPcs, JournalPcs, ScanPcs,
       CohortPcs, CommitPcs, QueuedPcs, TargetPcs, CapturePcs
<1>9. SnapSaved'
  BY <1>h, <1>c, <1>u DEF SnapSaved, FilesSaved
<1>10. JournalKnown'
  <2>1. jr'.target # 0 /\ jr'.target \in Anc(main)'
    BY <1>c, <1>t, <1>o DEF StepFacts
  <2> QED BY <2>1 DEF JournalKnown
<1>11. JournalKept'
  BY <1>h, <1>g, <1>c, JournalStays
<1> QED BY <1>g, <1>f, <1>1, <1>2, <1>3, <1>4, <1>5, <1>6, <1>7, <1>8, <1>9, <1>10, <1>11 DEF
   DeviceInv, Shapes, Phases, Keeps

LEMMA TailUnstableKeeps ==
  ASSUME NEW p \in Paths, DeviceInv, TailUnstable(p)
  PROVE  DeviceInv'
<1>h. /\ Git /\ ServerTyped /\ StateTyped /\ QueueTyped /\ RefTyped /\ FilesTyped
      /\ ProvTyped /\ JournalTyped /\ RunTyped /\ AckTyped /\ PhaseRun /\ PhaseJournal
      /\ PhaseWrite /\ PhaseQueue /\ PhaseSnap /\ TreesSaved /\ FilesSaved /\ SnapSaved
      /\ Held /\ HeadKept /\ StateKnown /\ ConflictKnown /\ JournalKnown /\ ReviewKnown
      /\ JournalKept
  BY DEF DeviceInv, Shapes, Phases, Keeps
<1>u. UNCHANGED <<commits, main, devRef, conflict, file, buf, saved, st, ref, ack>>
  BY DEF TailUnstable, Hinted, rest, server, editor
<1>g. Grown /\ Git'
  BY <1>h, <1>u, StillGrown
<1>o. StepFacts
  BY <1>g, Facts DEF DeviceInv
<1>c. /\ pc = "tsnap" /\ pc' = "refs"
      /\ DOMAIN jr' = DOMAIN jr /\ jr'.target = jr.target /\ jr'.affected = jr.affected
      /\ jr'.pre = jr.pre /\ jr.deferred \subseteq jr'.deferred /\ jr'.phase = jr.phase
      /\ jr'.copy = jr.copy /\ DOMAIN run' = DOMAIN run /\ run'.target = run.target /\ run'.commit = run.commit
      /\ run'.ret = run.ret /\ run'.snap = Tree(jr.target)
  BY <1>o DEF StepFacts, TailUnstable
<1>t. jr.target # 0 /\ jr.target \in Anc(main) /\ jr.target \in Node /\ jr.target \in Server
  BY <1>c, <1>h, <1>o DEF StepFacts, PhaseJournal, JournalKnown, SyncPcs, PullPcs,
       TailPcs, JournalPcs, ScanPcs, CohortPcs, CommitPcs, QueuedPcs, TargetPcs,
       CapturePcs
<1>x. prov' = prov \/ \E w : prov' = RetainApply(prov, w, FALSE)
  BY DEF TailUnstable
<1>r. run.target = jr.target
  BY <1>c, <1>h DEF PhaseJournal, SyncPcs, PullPcs, TailPcs, JournalPcs, ScanPcs,
       CohortPcs, CommitPcs, QueuedPcs, TargetPcs, CapturePcs
<1>f. /\ ServerTyped' /\ StateTyped' /\ RefTyped' /\ FilesTyped' /\ AckTyped'
      /\ TreesSaved' /\ FilesSaved' /\ Held' /\ StateKnown' /\ ConflictKnown'
  BY <1>h, <1>u, <1>g, ServerFrame, StateFrame, RefFrame, FilesFrame, AckFrame,
     TreesFrame, FilesSavedFrame, HeldFrame, StateKnownFrame, ConflictFrame
<1>1. QueueTyped'
  BY <1>h, <1>u, <1>g, <1>o, <1>x, <1>c DEF StepFacts, TailUnstable, Hinted, QueueTyped,
     None, Statuses
<1>2. ProvTyped'
  <2>1. CASE prov' = prov
    BY <1>h, <1>g, <2>1, ProvFrame
  <2>2. CASE \E w : prov' = RetainApply(prov, w, FALSE)
    <3>1. PICK w : prov' = RetainApply(prov, w, FALSE)
      BY <2>2
    <3>2. DOMAIN prov' = {"hor", "obl", "intent", "acc"} /\ prov'.intent = prov.intent
      BY <3>1, <1>h, RetainFields DEF ProvTyped
    <3> QED BY <1>h, <1>g, <3>2, ProvKept
  <2> QED BY <1>x, <2>1, <2>2
<1>3. JournalTyped'
  BY <1>h, <1>c, <1>o DEF StepFacts, JournalTyped
<1>4. RunTyped'
  BY <1>h, <1>c, <1>t, <1>o DEF StepFacts, RunTyped
<1>5. PhaseRun'
  BY <1>h, <1>c, <1>u, <1>o DEF StepFacts, PhaseRun, SyncPcs, PullPcs, TailPcs,
       JournalPcs, ScanPcs, CohortPcs, CommitPcs, QueuedPcs, TargetPcs, CapturePcs
<1>6. PhaseJournal'
  BY <1>h, <1>c, <1>t, <1>u DEF PhaseJournal, SyncPcs, PullPcs, TailPcs, JournalPcs,
       ScanPcs, CohortPcs, CommitPcs, QueuedPcs, TargetPcs, CapturePcs
<1>7. PhaseWrite'
  BY <1>c DEF PhaseWrite
<1>8. PhaseQueue'
  BY <1>c DEF PhaseQueue, SyncPcs, PullPcs, TailPcs, JournalPcs, ScanPcs, CohortPcs,
       CommitPcs, QueuedPcs, TargetPcs, CapturePcs
<1>9. PhaseSnap'
  <2>1. Preserved' = {}
    BY <1>c, <1>t, <1>r, <1>o DEF StepFacts, Preserved, Differ
  <2> QED BY <1>c, <2>1 DEF PhaseSnap, SyncPcs, PullPcs, TailPcs, JournalPcs, ScanPcs,
       CohortPcs, CommitPcs, QueuedPcs, TargetPcs, CapturePcs
<1>10. SnapSaved'
  <2>1. \A k \in Paths : Tree(jr.target)[k] \cap LocalEdits \subseteq saved[k]
    BY <1>h, <1>t DEF TreesSaved, Local
  <2> QED BY <1>c, <1>u, <2>1 DEF SnapSaved
<1>11. HeadKept'
  <2>1. st'.head = st.head /\ q'.pending = q.pending
    BY <1>h, <1>u, <1>o, <1>x, <1>c DEF StepFacts, TailUnstable, Hinted
  <2> QED BY <1>h, <1>g, <2>1, HeadFrame
<1>12. JournalKnown'
  <2>1. jr'.target # 0 /\ jr'.target \in Anc(main)'
    BY <1>c, <1>t, <1>o DEF StepFacts
  <2> QED BY <2>1 DEF JournalKnown
<1>13. ReviewKnown'
  BY <1>h, <1>u, <1>g, <1>o, <1>x, <1>c DEF StepFacts, TailUnstable, Hinted, ReviewKnown
<1>14. JournalKept'
  BY <1>h, <1>g, <1>c, JournalStays
<1> QED BY <1>g, <1>f, <1>1, <1>2, <1>3, <1>4, <1>5, <1>6, <1>7, <1>8, <1>9, <1>10, <1>11,
   <1>12, <1>13, <1>14 DEF DeviceInv, Shapes, Phases, Keeps

LEMMA RemotePushKeeps ==
  ASSUME NEW p \in Paths, NEW e \in Edits, DeviceInv, RemotePush(p, e)
  PROVE  DeviceInv'
<1>h. /\ Git /\ ServerTyped /\ StateTyped /\ QueueTyped /\ RefTyped /\ FilesTyped
      /\ ProvTyped /\ JournalTyped /\ RunTyped /\ AckTyped /\ PhaseRun /\ PhaseJournal
      /\ PhaseWrite /\ PhaseQueue /\ PhaseSnap /\ TreesSaved /\ FilesSaved /\ SnapSaved
      /\ Held /\ HeadKept /\ StateKnown /\ ConflictKnown /\ JournalKnown /\ ReviewKnown
      /\ JournalKept
  BY DEF DeviceInv, Shapes, Phases, Keeps
<1>u. UNCHANGED <<devRef, conflict, file, buf, saved, st, q, ref, prov, jr, ack, pc, run>>
  BY DEF RemotePush, rest, server, editor
<1>b. PICK tree :
        /\ tree = [Tree(main) EXCEPT ![p] = @ \cup {e}]
        /\ commits' = Commit(tree, {main}) /\ main' = Next1 /\ e \in RemoteEdits
  BY DEF RemotePush
<1>m. main \in Node /\ {main} \in SUBSET Node /\ Tree(main) \in Trees
  BY <1>h, NodeRange DEF ServerTyped, Git
<1>t. /\ tree \in Trees
      /\ \A k \in Paths : tree[k] \cap LocalEdits \subseteq Tree(main)[k] \cap LocalEdits
  BY <1>b, <1>m, DeviceAssumption DEF Trees, Edits
<1>e. Grown /\ Git' /\ Node' = Node \cup {Next1}
  <2>1. devRef \in Node /\ devRef \in Anc(devRef) /\ main \in Node
    BY <1>h, AncNode DEF ServerTyped
  <2> QED BY <2>1, <1>b, <1>t, <1>u, CommitGrown DEF DeviceInv
<1>g. Grown /\ Git'
  BY <1>e
<1>o. StepFacts
  BY <1>g, Facts DEF DeviceInv
<1>f. /\ StateTyped' /\ QueueTyped' /\ RefTyped' /\ FilesTyped' /\ ProvTyped'
      /\ JournalTyped' /\ RunTyped' /\ AckTyped' /\ PhaseRun' /\ PhaseJournal'
      /\ PhaseWrite' /\ PhaseQueue' /\ PhaseSnap' /\ FilesSaved' /\ SnapSaved' /\ Held'
      /\ HeadKept' /\ StateKnown' /\ ConflictKnown' /\ JournalKnown' /\ ReviewKnown'
      /\ JournalKept'
  BY <1>h, <1>u, <1>g, StateFrame, QueueFrame, RefFrame, FilesFrame, ProvFrame,
     JournalFrame, RunFrame, AckFrame, PhaseRunFrame, PhaseJournalFrame,
     PhaseWriteFrame, PhaseQueueFrame, PhaseSnapFrame, FilesSavedFrame, SnapFrame,
     HeldFrame, HeadFrame, StateKnownFrame, ConflictFrame, JournalKnownFrame,
     ReviewFrame, JournalKeptFrame
<1>1. ServerTyped'
  BY <1>h, <1>b, <1>e, <1>u DEF ServerTyped, None
<1>2. TreesSaved'
  <2>1. \A k \in Paths : tree[k] \cap LocalEdits \subseteq saved[k]
    BY <1>h, <1>m, <1>t DEF TreesSaved, Local
  <2> QED BY <1>h, <1>b, <1>t, <1>u, <1>m, <2>1, TreesGrow
<1> QED BY <1>g, <1>f, <1>1, <1>2 DEF DeviceInv, Shapes, Phases, Keeps

LEMMA ResolveKeeps ==
  ASSUME NEW both \in BOOLEAN, DeviceInv, Resolve(both)
  PROVE  DeviceInv'
<1>h. /\ Git /\ ServerTyped /\ StateTyped /\ QueueTyped /\ RefTyped /\ FilesTyped
      /\ ProvTyped /\ JournalTyped /\ RunTyped /\ AckTyped /\ PhaseRun /\ PhaseJournal
      /\ PhaseWrite /\ PhaseQueue /\ PhaseSnap /\ TreesSaved /\ FilesSaved /\ SnapSaved
      /\ Held /\ HeadKept /\ StateKnown /\ ConflictKnown /\ JournalKnown /\ ReviewKnown
      /\ JournalKept
  BY DEF DeviceInv, Shapes, Phases, Keeps
<1>u. UNCHANGED <<devRef, file, buf, saved, st, q, ref, prov, jr, ack, pc, run>>
  BY DEF Resolve, rest, server, editor
<1>b. PICK tree :
        /\ tree = [p \in Paths |-> Tree(main)[p] \cup IF both THEN Tree(conflict)[p] ELSE {}]
        /\ commits' = Commit(tree, {main, conflict}) /\ main' = Next1
        /\ conflict # 0 /\ conflict' = 0
  BY DEF Resolve
<1>m. /\ main \in Node /\ Tree(main) \in Trees
      /\ conflict \in Node /\ Tree(conflict) \in Trees
  BY <1>h, <1>b, NodeRange DEF ServerTyped, Git, None
<1>t. /\ tree \in Trees
      /\ \A k \in Paths : tree[k] \subseteq Tree(main)[k] \cup Tree(conflict)[k]
  BY <1>b, <1>m DEF Trees
<1>e. Grown /\ Git' /\ Node' = Node \cup {Next1}
  <2>1. devRef \in Node /\ devRef \in Anc(devRef) /\ main \in Node
    BY <1>h, AncNode DEF ServerTyped
  <2> QED BY <2>1, <1>b, <1>m, <1>t, <1>u, CommitGrown DEF DeviceInv
<1>g. Grown /\ Git'
  BY <1>e
<1>o. StepFacts
  BY <1>g, Facts DEF DeviceInv
<1>f. /\ StateTyped' /\ QueueTyped' /\ RefTyped' /\ FilesTyped' /\ ProvTyped'
      /\ JournalTyped' /\ RunTyped' /\ AckTyped' /\ PhaseRun' /\ PhaseJournal'
      /\ PhaseWrite' /\ PhaseQueue' /\ PhaseSnap' /\ FilesSaved' /\ SnapSaved' /\ Held'
      /\ HeadKept' /\ StateKnown' /\ JournalKnown' /\ ReviewKnown' /\ JournalKept'
  BY <1>h, <1>u, <1>g, StateFrame, QueueFrame, RefFrame, FilesFrame, ProvFrame,
     JournalFrame, RunFrame, AckFrame, PhaseRunFrame, PhaseJournalFrame,
     PhaseWriteFrame, PhaseQueueFrame, PhaseSnapFrame, FilesSavedFrame, SnapFrame,
     HeldFrame, HeadFrame, StateKnownFrame, JournalKnownFrame, ReviewFrame,
     JournalKeptFrame
<1>1. ServerTyped'
  BY <1>h, <1>b, <1>e, <1>u DEF ServerTyped, None
<1>2. TreesSaved'
  <2>1. \A k \in Paths : /\ Tree(main)[k] \cap LocalEdits \subseteq saved[k]
                          /\ Tree(conflict)[k] \cap LocalEdits \subseteq saved[k]
    BY <1>h, <1>m DEF TreesSaved, Local
  <2>2. \A k \in Paths : tree[k] \cap LocalEdits \subseteq saved[k]
    BY <1>t, <2>1
  <2> QED BY <1>h, <1>b, <1>t, <1>u, <1>m, <2>2, TreesGrow
<1>3. ConflictKnown'
  BY <1>b DEF ConflictKnown
<1> QED BY <1>g, <1>f, <1>1, <1>2, <1>3 DEF DeviceInv, Shapes, Phases, Keeps

LEMMA CohortRefKeeps ==
  ASSUME DeviceInv, CohortRef
  PROVE  DeviceInv'
<1>h. /\ Git /\ ServerTyped /\ StateTyped /\ QueueTyped /\ RefTyped /\ FilesTyped
      /\ ProvTyped /\ JournalTyped /\ RunTyped /\ AckTyped /\ PhaseRun /\ PhaseJournal
      /\ PhaseWrite /\ PhaseQueue /\ PhaseSnap /\ TreesSaved /\ FilesSaved /\ SnapSaved
      /\ Held /\ HeadKept /\ StateKnown /\ ConflictKnown /\ JournalKnown /\ ReviewKnown
      /\ JournalKept
  BY DEF DeviceInv, Shapes, Phases, Keeps
<1>u. UNCHANGED <<main, devRef, conflict, file, buf, saved, q, prov, jr, ack>>
  BY DEF CohortRef, Thrown, Done, rest, server, editor
<1>b. PICK tree :
        /\ tree = [p \in Paths |-> IF p \in run.cohort THEN run.snap[p] ELSE Tree(run.target)[p]]
        /\ pc = "cref"
        /\ \/ pc' = "idle" /\ run' = NoRun /\ commits' = commits /\ ref' = ref
           \/ /\ ref.local = run.target /\ commits' = Commit(tree, {run.target})
              /\ ref' = [ref EXCEPT !.local = Next1]
              /\ run' = [run EXCEPT !.commit = Next1] /\ pc' = "icommit"
  BY DEF CohortRef, CohortTree, Thrown, Done
<1>t. /\ run.target \in Node /\ tree \in Trees
      /\ \A k \in Paths : tree[k] \cap LocalEdits \subseteq saved[k]
  <2>1. run.target \in Node
    BY <1>h, <1>b, ServerNodes DEF PhaseRun, SyncPcs, PullPcs, TailPcs, JournalPcs,
         ScanPcs, CohortPcs, CommitPcs, QueuedPcs, TargetPcs, CapturePcs
  <2>2. Tree(run.target) \in Trees /\ run.snap \in Trees
    BY <2>1, <1>h, NodeRange DEF Git, RunTyped
  <2>3. \A k \in Paths : /\ Tree(run.target)[k] \cap LocalEdits \subseteq saved[k]
                          /\ run.snap[k] \cap LocalEdits \subseteq saved[k]
    BY <1>h, <2>1 DEF TreesSaved, SnapSaved, Local
  <2> QED BY <1>b, <2>1, <2>2, <2>3 DEF Trees
<1>e. /\ Grown /\ Git'
      /\ \/ commits' = commits
         \/ /\ commits' = Commit(tree, {run.target}) /\ Node' = Node \cup {Next1} /\ Next1 # 0
            /\ Next1 \in Node' /\ commits'[Next1].tree = tree
            /\ commits'[Next1].anc = {Next1} \cup Anc(run.target)
  <2>1. devRef \in Node /\ devRef \in Anc(devRef) /\ {run.target} \in SUBSET Node
    BY <1>h, <1>t, AncNode DEF ServerTyped
  <2>2. CASE commits' = commits
    BY <2>2, <1>h, <1>u, StillGrown
  <2>3. CASE commits' = Commit(tree, {run.target})
    <3>1. /\ Grown /\ Git' /\ Node' = Node \cup {Next1} /\ Next1 # 0 /\ Next1 \in Node'
          /\ commits'[Next1].tree = tree
          /\ commits'[Next1].anc = {Next1} \cup UNION {Anc(c) : c \in {run.target}}
      BY <2>1, <2>3, <1>t, <1>u, CommitGrown DEF DeviceInv
    <3>2. UNION {Anc(c) : c \in {run.target}} = Anc(run.target)
      OBVIOUS
    <3> QED BY <2>3, <3>1, <3>2
  <2> QED BY <1>b, <2>2, <2>3
<1>g. Grown /\ Git'
  BY <1>e
<1>o. StepFacts
  BY <1>g, Facts DEF DeviceInv
<1>s. st' \in {st, Blocked("unfinished")}
  BY DEF CohortRef, Thrown
<1>d. StateTyped' /\ StateKnown' /\ st'.head = st.head
  BY <1>h, <1>g, <1>s, ThrownState DEF Codes
<1>x. /\ run'.snap \in {run.snap, NoRun.snap} /\ pc' \in {"idle", "icommit"}
      /\ DOMAIN run' = DOMAIN run /\ run'.target \in {0, run.target}
      /\ run'.commit \in {0} \cup Node' /\ (pc' = "icommit" => run'.commit \in Node' /\ run'.commit # 0)
      /\ pc' = "icommit" => run'.ret = run.ret /\ run'.target = run.target
  <2>1. CASE run' = NoRun /\ pc' = "idle"
    BY <2>1, <1>o, NoRunFields DEF StepFacts
  <2>2. CASE run' = [run EXCEPT !.commit = Next1] /\ pc' = "icommit" /\ Next1 \in Node' /\ Next1 # 0
    BY <2>2, <1>o DEF StepFacts
  <2>3. pc' = "icommit" => Next1 \in Node' /\ Next1 # 0
    <3>1. pc' = "icommit" => commits' = Commit(tree, {run.target})
      BY <1>b
    <3>2. devRef \in Node /\ devRef \in Anc(devRef)
      BY <1>h, AncNode DEF ServerTyped
    <3> QED BY <3>1, <3>2, <1>t, <1>u, CommitGrown DEF DeviceInv
  <2> QED BY <1>b, <2>1, <2>2, <2>3
<1>f. /\ ServerTyped' /\ QueueTyped' /\ FilesTyped' /\ ProvTyped'
      /\ JournalTyped' /\ AckTyped' /\ FilesSaved' /\ Held' /\ HeadKept'
      /\ ConflictKnown' /\ JournalKnown' /\ ReviewKnown' /\ JournalKept'
  BY <1>h, <1>u, <1>g, <1>d, ServerFrame, QueueFrame, FilesFrame, ProvFrame,
     JournalFrame, AckFrame, FilesSavedFrame, HeldFrame, HeadFrame,
     ConflictFrame, JournalKnownFrame, ReviewFrame, JournalKeptFrame
<1>1. RefTyped'
  <2>1. CASE ref' = ref
    BY <2>1, <1>h, <1>g, RefFrame
  <2>2. CASE ref' = [ref EXCEPT !.local = Next1] /\ Next1 \in Node'
    BY <2>2, <1>o DEF StepFacts, RefTyped
  <2>3. pc' = "icommit" => Next1 \in Node'
    <3>1. pc' = "icommit" => commits' = Commit(tree, {run.target})
      BY <1>b
    <3>2. devRef \in Node /\ devRef \in Anc(devRef)
      BY <1>h, AncNode DEF ServerTyped
    <3> QED BY <3>1, <3>2, <1>t, <1>u, CommitGrown DEF DeviceInv
  <2> QED BY <1>b, <2>1, <2>2, <2>3
<1>2. RunTyped'
  BY <1>x, <1>o, NoRunFields DEF StepFacts, RunTyped, None
<1>3. PhaseRun'
  BY <1>x DEF PhaseRun, SyncPcs, PullPcs, TailPcs, JournalPcs, ScanPcs, CohortPcs,
       CommitPcs, QueuedPcs, TargetPcs, CapturePcs
<1>4. PhaseJournal'
  BY <1>x, <1>b, <1>h, <1>u DEF PhaseJournal, SyncPcs, PullPcs, TailPcs, JournalPcs,
       ScanPcs, CohortPcs, CommitPcs, QueuedPcs, TargetPcs, CapturePcs
<1>5. PhaseWrite'
  BY <1>x DEF PhaseWrite
<1>6. PhaseQueue'
  <2>1. q.pending = 0 \/ q.pending \in Server
    BY <1>b, <1>h DEF PhaseQueue, SyncPcs, PullPcs, TailPcs, JournalPcs, ScanPcs,
         CohortPcs, CommitPcs, QueuedPcs, TargetPcs, CapturePcs
  <2>2. pc' = "icommit" => run'.ret # "recover" \/ q.pending \in {0, run'.commit}
    BY <1>x, <1>b, <1>h DEF PhaseRun, SyncPcs, PullPcs, TailPcs, JournalPcs, ScanPcs,
         CohortPcs, CommitPcs, QueuedPcs, TargetPcs, CapturePcs
  <2> QED BY <2>1, <2>2, <1>x, <1>u, <1>o DEF StepFacts, PhaseQueue, SyncPcs, PullPcs,
       TailPcs, JournalPcs, ScanPcs, CohortPcs, CommitPcs, QueuedPcs, TargetPcs,
       CapturePcs
<1>7. PhaseSnap'
  BY <1>x DEF PhaseSnap, SyncPcs, PullPcs, TailPcs, JournalPcs, ScanPcs, CohortPcs,
       CommitPcs, QueuedPcs, TargetPcs, CapturePcs
<1>8. TreesSaved'
  <2>1. CASE commits' = commits
    BY <2>1, <1>h, <1>u, TreesFrame
  <2>2. CASE commits' = Commit(tree, {run.target})
    BY <2>2, <1>h, <1>t, <1>u, TreesGrow
  <2> QED BY <1>e, <2>1, <2>2
<1>9. SnapSaved'
  BY <1>x, <1>h, <1>u, NoRunFields DEF SnapSaved
<1> QED BY <1>g, <1>d, <1>f, <1>1, <1>2, <1>3, <1>4, <1>5, <1>6, <1>7, <1>8, <1>9 DEF DeviceInv,
   Shapes, Phases, Keeps

LEMMA PushIntegratedKeeps ==
  ASSUME NEW r \in BOOLEAN, DeviceInv, PushIntegrated(r)
  PROVE  DeviceInv'
<1>h. /\ Git /\ ServerTyped /\ StateTyped /\ QueueTyped /\ RefTyped /\ FilesTyped
      /\ ProvTyped /\ JournalTyped /\ RunTyped /\ AckTyped /\ PhaseRun /\ PhaseJournal
      /\ PhaseWrite /\ PhaseQueue /\ PhaseSnap /\ TreesSaved /\ FilesSaved /\ SnapSaved
      /\ Held /\ HeadKept /\ StateKnown /\ ConflictKnown /\ JournalKnown /\ ReviewKnown
      /\ JournalKept
  BY DEF DeviceInv, Shapes, Phases, Keeps
<1>u. UNCHANGED <<conflict, file, buf, saved, ref, prov, jr, ack>>
  BY DEF PushIntegrated, Answer, Done, rest, server, editor
<1>b. PICK tree :
        /\ pc = "push" /\ devRef \in Anc(q.pending) /\ devRef' = q.pending
        /\ tree = MergedTree(q.pending, q.base)
        /\ \/ main \in Anc(q.pending) /\ commits' = commits /\ main' = q.pending
           \/ commits' = Commit(tree, {main, q.pending}) /\ main' = Next1
  BY DEF PushIntegrated, IsAncestor
<1>d. q.pending \in Node /\ devRef' = q.pending
  BY <1>b, <1>h DEF PhaseQueue, QueueTyped, None
<1>t. /\ tree \in Trees /\ \A k \in Paths : tree[k] \cap LocalEdits \subseteq saved[k]
  BY <1>b, <1>d, <1>h, MergedTyped DEF DeviceInv
<1>m. main \in Node /\ devRef \in Node /\ {main, q.pending} \in SUBSET Node
  BY <1>d, <1>h DEF ServerTyped
<1>e. Grown /\ Git' /\ main' \in Node' /\ devRef' \in Node'
  <2>1. CASE main \in Anc(q.pending) /\ commits' = commits /\ main' = q.pending
    <3>1. Anc(main) \subseteq Anc(q.pending) /\ Anc(devRef) \subseteq Anc(q.pending)
      BY <2>1, <1>b, <1>d, <1>h, AncNode
    <3>2. Anc(main)' = Anc(q.pending) /\ Anc(devRef)' = Anc(q.pending)
      BY <2>1, <1>d DEF Anc
    <3>3. Git' /\ Node' = Node
      BY <2>1, <1>h DEF Git, GitTyped, GitAncestry, Node, Anc
    <3> QED BY <3>1, <3>2, <3>3, <2>1, <1>d, ServerMoves DEF DeviceInv
  <2>2. CASE commits' = Commit(tree, {main, q.pending}) /\ main' = Next1
    <3>1. Grown /\ Git' /\ Node' = Node \cup {Next1}
      BY <2>2, <1>t, <1>m, <1>d, <1>b, CommitGrown DEF DeviceInv
    <3> QED BY <3>1, <2>2, <1>d
  <2> QED BY <1>b, <2>1, <2>2
<1>g. Grown /\ Git'
  BY <1>e
<1>o. StepFacts
  BY <1>g, Facts DEF DeviceInv
<1>a. /\ StateTyped' /\ StateKnown' /\ st'.head = st.head
      /\ QueueTyped' /\ q'.pending = q.pending /\ q'.status \in {q.status, "queued_local"}
      /\ RunTyped' /\ run'.snap \in {run.snap, NoRun.snap} /\ pc' \in {"result", "idle"}
  BY <1>h, <1>g, Answered DEF DeviceInv, PushIntegrated
<1>k. q.pending \in Server'
  <2>1. q.pending \in Anc(q.pending)
    BY <1>h, <1>d, AncNode
  <2>2. commits'[q.pending] = commits[q.pending]
    BY <1>g, <1>d DEF Grown, Grows
  <2> QED BY <2>1, <2>2, <1>d DEF Server, Anc
<1>f. /\ RefTyped' /\ FilesTyped' /\ ProvTyped' /\ JournalTyped' /\ AckTyped'
      /\ FilesSaved' /\ Held' /\ ConflictKnown' /\ JournalKnown' /\ JournalKept'
  BY <1>h, <1>u, <1>g, RefFrame, FilesFrame, ProvFrame, JournalFrame, AckFrame,
     FilesSavedFrame, HeldFrame, ConflictFrame, JournalKnownFrame, JournalKeptFrame
<1>1. ServerTyped'
  <2>1. conflict \in None'
    BY <1>h, <1>o DEF StepFacts, ServerTyped
  <2> QED BY <2>1, <1>e, <1>u DEF ServerTyped
<1>2. StateTyped'
  BY <1>a
<1>3. QueueTyped'
  BY <1>a
<1>4. RunTyped'
  BY <1>a
<1>5. PhaseRun'
  BY <1>a DEF PhaseRun, SyncPcs, PullPcs, TailPcs, JournalPcs, ScanPcs, CohortPcs,
       CommitPcs, QueuedPcs, TargetPcs, CapturePcs
<1>6. PhaseJournal'
  BY <1>a DEF PhaseJournal, SyncPcs, PullPcs, TailPcs, JournalPcs, ScanPcs, CohortPcs,
       CommitPcs, QueuedPcs, TargetPcs, CapturePcs
<1>7. PhaseWrite'
  BY <1>a DEF PhaseWrite
<1>8. PhaseQueue'
  BY <1>a, <1>k DEF PhaseQueue, SyncPcs, PullPcs, TailPcs, JournalPcs, ScanPcs, CohortPcs,
       CommitPcs, QueuedPcs, TargetPcs, CapturePcs
<1>9. PhaseSnap'
  BY <1>a DEF PhaseSnap, SyncPcs, PullPcs, TailPcs, JournalPcs, ScanPcs, CohortPcs,
       CommitPcs, QueuedPcs, TargetPcs, CapturePcs
<1>10. TreesSaved'
  <2>1. CASE commits' = commits
    BY <2>1, <1>h, <1>u, TreesFrame
  <2>2. CASE commits' = Commit(tree, {main, q.pending})
    BY <2>2, <1>h, <1>t, <1>u, <1>m, TreesGrow
  <2> QED BY <1>b, <2>1, <2>2
<1>11. SnapSaved'
  BY <1>a, <1>h, <1>u, NoRunFields DEF SnapSaved
<1>12. HeadKept'
  BY <1>a, <1>h, <1>g, HeadFrame
<1>13. StateKnown'
  BY <1>a
<1>14. ReviewKnown'
  BY <1>a, <1>k DEF ReviewKnown
<1> QED BY <1>g, <1>f, <1>1, <1>2, <1>3, <1>4, <1>5, <1>6, <1>7, <1>8, <1>9, <1>10, <1>11,
   <1>12, <1>13, <1>14 DEF DeviceInv, Shapes, Phases, Keeps

LEMMA PushConflictedKeeps ==
  ASSUME NEW r \in BOOLEAN, DeviceInv, PushConflicted(r)
  PROVE  DeviceInv'
<1>h. /\ Git /\ ServerTyped /\ StateTyped /\ QueueTyped /\ RefTyped /\ FilesTyped
      /\ ProvTyped /\ JournalTyped /\ RunTyped /\ AckTyped /\ PhaseRun /\ PhaseJournal
      /\ PhaseWrite /\ PhaseQueue /\ PhaseSnap /\ TreesSaved /\ FilesSaved /\ SnapSaved
      /\ Held /\ HeadKept /\ StateKnown /\ ConflictKnown /\ JournalKnown /\ ReviewKnown
      /\ JournalKept
  BY DEF DeviceInv, Shapes, Phases, Keeps
<1>u. UNCHANGED <<commits, main, file, buf, saved, ref, prov, jr, ack>>
  BY DEF PushConflicted, Answer, Done, rest, server, editor
<1>b. pc = "push" /\ devRef \in Anc(q.pending) /\ devRef' = q.pending /\ conflict' = q.pending
  BY DEF PushConflicted, IsAncestor
<1>d. q.pending \in Node /\ devRef' = q.pending
  BY <1>b, <1>h DEF PhaseQueue, QueueTyped, None
<1>e. Grown /\ Git' /\ Node' = Node
  <2>1. Anc(devRef) \subseteq Anc(q.pending)
    BY <1>b, <1>d, <1>h, AncNode
  <2>2. Anc(main)' = Anc(main) /\ Anc(devRef)' = Anc(q.pending)
    BY <1>u, <1>d DEF Anc
  <2>3. Git' /\ Node' = Node
    BY <1>u, <1>h DEF Git, GitTyped, GitAncestry, Node, Anc
  <2> QED BY <2>1, <2>2, <2>3, <1>u, ServerMoves DEF DeviceInv
<1>g. Grown /\ Git'
  BY <1>e
<1>o. StepFacts
  BY <1>g, Facts DEF DeviceInv
<1>a. /\ StateTyped' /\ StateKnown' /\ st'.head = st.head
      /\ QueueTyped' /\ q'.pending = q.pending /\ q'.status \in {q.status, "queued_local"}
      /\ RunTyped' /\ run'.snap \in {run.snap, NoRun.snap} /\ pc' \in {"result", "idle"}
  BY <1>h, <1>g, Answered DEF DeviceInv, PushConflicted
<1>k. q.pending \in Server'
  <2>1. q.pending \in Anc(q.pending)
    BY <1>h, <1>d, AncNode
  <2>2. commits'[q.pending] = commits[q.pending]
    BY <1>g, <1>d DEF Grown, Grows
  <2> QED BY <2>1, <2>2, <1>d DEF Server, Anc
<1>f. /\ RefTyped' /\ FilesTyped' /\ ProvTyped' /\ JournalTyped' /\ AckTyped'
      /\ TreesSaved' /\ FilesSaved' /\ Held' /\ JournalKnown' /\ JournalKept'
  BY <1>h, <1>u, <1>g, RefFrame, FilesFrame, ProvFrame, JournalFrame, AckFrame,
     TreesFrame, FilesSavedFrame, HeldFrame, JournalKnownFrame, JournalKeptFrame
<1>1. ServerTyped'
  BY <1>h, <1>e, <1>b, <1>d, <1>u DEF ServerTyped, None
<1>2. StateTyped'
  BY <1>a
<1>3. QueueTyped'
  BY <1>a
<1>4. RunTyped'
  BY <1>a
<1>5. PhaseRun'
  BY <1>a DEF PhaseRun, SyncPcs, PullPcs, TailPcs, JournalPcs, ScanPcs, CohortPcs,
       CommitPcs, QueuedPcs, TargetPcs, CapturePcs
<1>6. PhaseJournal'
  BY <1>a DEF PhaseJournal, SyncPcs, PullPcs, TailPcs, JournalPcs, ScanPcs, CohortPcs,
       CommitPcs, QueuedPcs, TargetPcs, CapturePcs
<1>7. PhaseWrite'
  BY <1>a DEF PhaseWrite
<1>8. PhaseQueue'
  BY <1>a, <1>k DEF PhaseQueue, SyncPcs, PullPcs, TailPcs, JournalPcs, ScanPcs, CohortPcs,
       CommitPcs, QueuedPcs, TargetPcs, CapturePcs
<1>9. PhaseSnap'
  BY <1>a DEF PhaseSnap, SyncPcs, PullPcs, TailPcs, JournalPcs, ScanPcs, CohortPcs,
       CommitPcs, QueuedPcs, TargetPcs, CapturePcs
<1>10. SnapSaved'
  BY <1>a, <1>h, <1>u, NoRunFields DEF SnapSaved
<1>11. HeadKept'
  BY <1>a, <1>h, <1>g, HeadFrame
<1>12. StateKnown'
  BY <1>a
<1>13. ConflictKnown'
  BY <1>b, <1>k DEF ConflictKnown
<1>14. ReviewKnown'
  BY <1>a, <1>k DEF ReviewKnown
<1> QED BY <1>g, <1>f, <1>1, <1>2, <1>3, <1>4, <1>5, <1>6, <1>7, <1>8, <1>9, <1>10, <1>11,
   <1>12, <1>13, <1>14 DEF DeviceInv, Shapes, Phases, Keeps

LEMMA PushAgainKeeps ==
  ASSUME NEW r \in BOOLEAN, DeviceInv, PushAgain(r)
  PROVE  DeviceInv'
<1>h. /\ Git /\ ServerTyped /\ StateTyped /\ QueueTyped /\ RefTyped /\ FilesTyped
      /\ ProvTyped /\ JournalTyped /\ RunTyped /\ AckTyped /\ PhaseRun /\ PhaseJournal
      /\ PhaseWrite /\ PhaseQueue /\ PhaseSnap /\ TreesSaved /\ FilesSaved /\ SnapSaved
      /\ Held /\ HeadKept /\ StateKnown /\ ConflictKnown /\ JournalKnown /\ ReviewKnown
      /\ JournalKept
  BY DEF DeviceInv, Shapes, Phases, Keeps
<1>u. UNCHANGED <<commits, main, devRef, conflict, file, buf, saved, ref, prov, jr, ack>>
  BY DEF PushAgain, Answer, Done, rest, server, editor
<1>g. Grown /\ Git'
  BY <1>h, <1>u, StillGrown
<1>o. StepFacts
  BY <1>g, Facts DEF DeviceInv
<1>b. /\ pc = "push"
      /\ \/ /\ q.pending = conflict \/ q.pending \in Anc(main)
            /\ \E res : Answer(res, r)
         \/ st' = Blocked("diverged") /\ pc' = "idle" /\ run' = NoRun /\ q' = q
  BY DEF PushAgain, IsAncestor, Done
<1>n. q.pending # 0
  BY <1>b, <1>h DEF PhaseQueue
<1>a. /\ StateTyped' /\ StateKnown' /\ st'.head = st.head
      /\ QueueTyped' /\ q'.pending = q.pending /\ q'.status \in {q.status, "queued_local"}
      /\ RunTyped' /\ run'.snap \in {run.snap, NoRun.snap} /\ pc' \in {"result", "idle"}
  <2>1. CASE \E res : Answer(res, r)
    <3>1. PICK res : Answer(res, r)
      BY <2>1
    <3> QED BY <3>1, <1>h, <1>g, Answered DEF DeviceInv
  <2>2. CASE st' = Blocked("diverged") /\ pc' = "idle" /\ run' = NoRun /\ q' = q
    <3>1. QueueTyped' /\ q'.pending = q.pending /\ q'.status = q.status
      BY <2>2, <1>h, <1>g, QueueFrame
    <3>2. RunTyped' /\ run'.snap = NoRun.snap
      BY <2>2, NoRunFields DEF RunTyped, None
    <3>3. /\ StateTyped' /\ st'.head = st.head /\ st'.main = st.main /\ st'.sref = st.sref
      BY <2>2, <1>o, <1>h DEF StepFacts, Blocked, StateTyped, Labels, Codes
    <3>4. StateKnown'
      BY <3>3, <1>h, <1>g, StateKnownFrame
    <3> QED BY <2>2, <3>1, <3>2, <3>3, <3>4
  <2> QED BY <1>b, <2>1, <2>2
<1>k. pc' = "result" => q.pending \in Server'
  <2>1. q.pending = conflict \/ q.pending \in Anc(main) => q.pending \in Server
    BY <1>n, <1>h, <1>o DEF StepFacts, ConflictKnown
  <2> QED BY <2>1, <1>b, <1>o DEF StepFacts
<1>f. /\ ServerTyped' /\ RefTyped' /\ FilesTyped' /\ ProvTyped' /\ JournalTyped'
      /\ AckTyped' /\ TreesSaved' /\ FilesSaved' /\ Held' /\ ConflictKnown'
      /\ JournalKnown' /\ JournalKept'
  BY <1>h, <1>u, <1>g, ServerFrame, RefFrame, FilesFrame, ProvFrame, JournalFrame,
     AckFrame, TreesFrame, FilesSavedFrame, HeldFrame, ConflictFrame, JournalKnownFrame,
     JournalKeptFrame
<1>1. StateTyped'
  BY <1>a
<1>2. QueueTyped'
  BY <1>a
<1>3. RunTyped'
  BY <1>a
<1>4. PhaseRun'
  BY <1>a DEF PhaseRun, SyncPcs, PullPcs, TailPcs, JournalPcs, ScanPcs, CohortPcs,
       CommitPcs, QueuedPcs, TargetPcs, CapturePcs
<1>5. PhaseJournal'
  BY <1>a DEF PhaseJournal, SyncPcs, PullPcs, TailPcs, JournalPcs, ScanPcs, CohortPcs,
       CommitPcs, QueuedPcs, TargetPcs, CapturePcs
<1>6. PhaseWrite'
  BY <1>a DEF PhaseWrite
<1>7. PhaseQueue'
  BY <1>a, <1>k DEF PhaseQueue, SyncPcs, PullPcs, TailPcs, JournalPcs, ScanPcs, CohortPcs,
       CommitPcs, QueuedPcs, TargetPcs, CapturePcs
<1>8. PhaseSnap'
  BY <1>a DEF PhaseSnap, SyncPcs, PullPcs, TailPcs, JournalPcs, ScanPcs, CohortPcs,
       CommitPcs, QueuedPcs, TargetPcs, CapturePcs
<1>9. SnapSaved'
  BY <1>a, <1>h, <1>u, NoRunFields DEF SnapSaved
<1>10. HeadKept'
  BY <1>a, <1>h, <1>g, HeadFrame
<1>11. StateKnown'
  BY <1>a
<1>12. ReviewKnown'
  BY <1>a, <1>h, <1>o DEF ReviewKnown, StepFacts
<1> QED BY <1>g, <1>f, <1>1, <1>2, <1>3, <1>4, <1>5, <1>6, <1>7, <1>8, <1>9, <1>10, <1>11,
     <1>12
   DEF DeviceInv, Shapes, Phases, Keeps

LEMMA RetireHorizonsKeeps ==
  ASSUME DeviceInv, RetireHorizons
  PROVE  DeviceInv'
<1>h. /\ Git /\ ServerTyped /\ StateTyped /\ QueueTyped /\ RefTyped /\ FilesTyped
      /\ ProvTyped /\ JournalTyped /\ RunTyped /\ AckTyped /\ PhaseRun /\ PhaseJournal
      /\ PhaseWrite /\ PhaseQueue /\ PhaseSnap /\ TreesSaved /\ FilesSaved /\ SnapSaved
      /\ Held /\ HeadKept /\ StateKnown /\ ConflictKnown /\ JournalKnown /\ ReviewKnown
      /\ JournalKept
  BY DEF DeviceInv, Shapes, Phases, Keeps
<1>u. UNCHANGED <<commits, main, devRef, conflict, buf, st, q, ref, jr, ack, pc, run>>
  BY DEF RetireHorizons, FlushBuffers, SaveBuffers, rest, server, editor
<1>g. Grown /\ Git'
  BY <1>h, <1>u, StillGrown
<1>o. StepFacts
  BY <1>g, Facts DEF DeviceInv
<1>s. SaveBuffers(Unflushed)
  BY DEF RetireHorizons, FlushBuffers
<1>x. /\ FilesTyped' /\ Held' /\ FilesSaved'
      /\ \A p_ \in Paths : saved[p_] \subseteq saved'[p_]
  BY <1>h, <1>g, <1>s, BuffersKept
<1>y. TreesSaved' /\ (run'.snap = run.snap => SnapSaved')
  BY <1>h, <1>u, <1>x, SavedGrows
<1>f. /\ ServerTyped' /\ StateTyped' /\ QueueTyped' /\ RefTyped' /\ JournalTyped'
      /\ RunTyped' /\ AckTyped' /\ PhaseRun' /\ PhaseJournal' /\ PhaseWrite'
      /\ PhaseQueue' /\ PhaseSnap' /\ HeadKept' /\ StateKnown' /\ ConflictKnown'
      /\ JournalKnown' /\ ReviewKnown' /\ JournalKept'
  BY <1>h, <1>u, <1>g, ServerFrame, StateFrame, QueueFrame, RefFrame, JournalFrame,
     RunFrame, AckFrame, PhaseRunFrame, PhaseJournalFrame, PhaseWriteFrame,
     PhaseQueueFrame, PhaseSnapFrame, HeadFrame, StateKnownFrame, ConflictFrame,
     JournalKnownFrame, ReviewFrame, JournalKeptFrame
<1>1. FilesTyped'
  BY <1>x
<1>2. ProvTyped'
  <2>1. prov' = prov \/ \E S : prov' = [prov EXCEPT !.hor = S]
    BY DEF RetireHorizons
  <2>2. DOMAIN prov' = {"hor", "obl", "intent", "acc"} /\ prov'.intent = prov.intent
    BY <1>h, <2>1 DEF ProvTyped
  <2> QED BY <1>h, <1>g, <2>2, ProvKept
<1>3. TreesSaved'
  BY <1>y
<1>4. FilesSaved'
  BY <1>x
<1>5. SnapSaved'
  BY <1>u, <1>y
<1>6. Held'
  BY <1>x
<1> QED BY <1>g, <1>f, <1>1, <1>2, <1>3, <1>4, <1>5, <1>6 DEF DeviceInv, Shapes, Phases, Keeps

LEMMA OrdinaryStateKeeps ==
  ASSUME DeviceInv, OrdinaryState
  PROVE  DeviceInv'
<1>h. /\ Git /\ ServerTyped /\ StateTyped /\ QueueTyped /\ RefTyped /\ FilesTyped
      /\ ProvTyped /\ JournalTyped /\ RunTyped /\ AckTyped /\ PhaseRun /\ PhaseJournal
      /\ PhaseWrite /\ PhaseQueue /\ PhaseSnap /\ TreesSaved /\ FilesSaved /\ SnapSaved
      /\ Held /\ HeadKept /\ StateKnown /\ ConflictKnown /\ JournalKnown /\ ReviewKnown
      /\ JournalKept
  BY DEF DeviceInv, Shapes, Phases, Keeps
<1>u. UNCHANGED <<commits, main, devRef, conflict, file, buf, saved, q, ref, prov, jr, ack, run>>
  BY DEF OrdinaryState, rest, server, editor
<1>g. Grown /\ Git'
  BY <1>h, <1>u, StillGrown
<1>o. StepFacts
  BY <1>g, Facts DEF DeviceInv
<1>c. /\ pc = "ostate" /\ pc' = AfterCapture
      /\ run.commit \in Node /\ q.pending = run.commit
  BY <1>h DEF OrdinaryState, PhaseRun, PhaseQueue, SyncPcs, PullPcs, TailPcs, JournalPcs,
       ScanPcs, CohortPcs, CommitPcs, QueuedPcs, TargetPcs, CapturePcs
<1>n. PICK n, l : /\ n = [st EXCEPT !.head = run.commit, !.label = l] /\ st' = Guarded(n)
                  /\ l \in {st.label, "Ahead"}
  BY DEF OrdinaryState
<1>x. /\ st'.head \in {st.head, run.commit} /\ n.main = st.main /\ n.sref = st.sref
      /\ pc' \in {"push", "idle", "ackw", "step"}
  BY <1>c, <1>n, <1>o, GuardedFields, AfterCaptureCases DEF StepFacts
<1>f. /\ ServerTyped' /\ QueueTyped' /\ RefTyped' /\ FilesTyped' /\ ProvTyped'
      /\ JournalTyped' /\ RunTyped' /\ AckTyped' /\ TreesSaved' /\ FilesSaved'
      /\ SnapSaved' /\ Held' /\ ConflictKnown' /\ JournalKnown' /\ ReviewKnown'
      /\ JournalKept'
  BY <1>h, <1>u, <1>g, ServerFrame, QueueFrame, RefFrame, FilesFrame, ProvFrame,
     JournalFrame, RunFrame, AckFrame, TreesFrame, FilesSavedFrame, SnapFrame,
     HeldFrame, ConflictFrame, JournalKnownFrame, ReviewFrame, JournalKeptFrame
<1>1. StateTyped'
  <2>1. n \in StateRecords(Node')
    BY <1>h, <1>n, <1>o, <1>c DEF StepFacts, StateTyped, StateRecords, Labels, Codes
  <2> QED BY <2>1, <1>h, <1>g, <1>n, GuardedState
<1>2. PhaseRun'
  BY <1>x DEF PhaseRun, SyncPcs, PullPcs, TailPcs, JournalPcs, ScanPcs, CohortPcs,
       CommitPcs, QueuedPcs, TargetPcs, CapturePcs
<1>3. PhaseJournal'
  BY <1>x, <1>c, <1>h, <1>u, AfterCaptureCases DEF PhaseJournal, SyncPcs, PullPcs,
       TailPcs, JournalPcs, ScanPcs, CohortPcs, CommitPcs, QueuedPcs, TargetPcs,
       CapturePcs
<1>4. PhaseWrite'
  BY <1>x DEF PhaseWrite
<1>5. PhaseQueue'
  BY <1>x, <1>c, <1>u, <1>o DEF StepFacts, PhaseQueue, SyncPcs, PullPcs, TailPcs,
       JournalPcs, ScanPcs, CohortPcs, CommitPcs, QueuedPcs, TargetPcs, CapturePcs
<1>6. PhaseSnap'
  BY <1>x DEF PhaseSnap, SyncPcs, PullPcs, TailPcs, JournalPcs, ScanPcs, CohortPcs,
       CommitPcs, QueuedPcs, TargetPcs, CapturePcs
<1>7. HeadKept'
  <2>1. CASE st'.head = st.head
    BY <2>1, <1>h, <1>g, <1>u, HeadFrame
  <2>2. CASE st'.head = run.commit
    <3>1. q'.pending # 0 /\ st'.head = q'.pending
      BY <2>2, <1>c, <1>u, <1>o DEF StepFacts
    <3> QED BY <3>1, HeadQueued
  <2> QED BY <1>x, <2>1, <2>2
<1>8. StateKnown'
  <2>1. n.main \in Anc(main) /\ n.sref \in Server'
    BY <1>x, <1>h, <1>o DEF StepFacts, StateKnown
  <2> QED BY <2>1, <1>n, <1>h, <1>g, GuardedKnown DEF DeviceInv
<1> QED BY <1>g, <1>f, <1>1, <1>2, <1>3, <1>4, <1>5, <1>6, <1>7, <1>8 DEF DeviceInv, Shapes,
   Phases, Keeps

LEMMA IntentStateKeeps ==
  ASSUME DeviceInv, IntentState
  PROVE  DeviceInv'
<1>h. /\ Git /\ ServerTyped /\ StateTyped /\ QueueTyped /\ RefTyped /\ FilesTyped
      /\ ProvTyped /\ JournalTyped /\ RunTyped /\ AckTyped /\ PhaseRun /\ PhaseJournal
      /\ PhaseWrite /\ PhaseQueue /\ PhaseSnap /\ TreesSaved /\ FilesSaved /\ SnapSaved
      /\ Held /\ HeadKept /\ StateKnown /\ ConflictKnown /\ JournalKnown /\ ReviewKnown
      /\ JournalKept
  BY DEF DeviceInv, Shapes, Phases, Keeps
<1>u. UNCHANGED <<commits, main, devRef, conflict, file, buf, saved, q, ref, prov, jr, ack>>
  BY DEF IntentState, rest, server, editor
<1>g. Grown /\ Git'
  BY <1>h, <1>u, StillGrown
<1>o. StepFacts
  BY <1>g, Facts DEF DeviceInv
<1>c. /\ pc = "istate" /\ pc' = AfterCapture
      /\ run.commit \in Node /\ q.pending = run.commit
  BY <1>h DEF IntentState, PhaseRun, PhaseQueue, SyncPcs, PullPcs, TailPcs, JournalPcs,
       ScanPcs, CohortPcs, CommitPcs, QueuedPcs, TargetPcs, CapturePcs
<1>n. PICK n, l : /\ n = [st EXCEPT !.head = run.commit, !.label = l] /\ st' = Guarded(n)
                  /\ l \in {st.label, "Ahead"}
  BY DEF IntentState
<1>x. /\ st'.head \in {st.head, run.commit} /\ n.main = st.main /\ n.sref = st.sref
      /\ pc' \in {"push", "idle", "ackw", "step"}
  BY <1>c, <1>n, <1>o, GuardedFields, AfterCaptureCases DEF StepFacts
<1>y. run' \in {run, NoRun} /\ (pc' # "idle" => run' = run)
  BY <1>c, AfterCaptureCases DEF IntentState
<1>f. /\ ServerTyped' /\ QueueTyped' /\ RefTyped' /\ FilesTyped' /\ ProvTyped'
      /\ JournalTyped' /\ AckTyped' /\ TreesSaved' /\ FilesSaved' /\ Held'
      /\ ConflictKnown' /\ JournalKnown' /\ ReviewKnown' /\ JournalKept'
  BY <1>h, <1>u, <1>g, ServerFrame, QueueFrame, RefFrame, FilesFrame, ProvFrame,
     JournalFrame, AckFrame, TreesFrame, FilesSavedFrame, HeldFrame, ConflictFrame,
     JournalKnownFrame, ReviewFrame, JournalKeptFrame
<1>1. StateTyped'
  <2>1. n \in StateRecords(Node')
    BY <1>h, <1>n, <1>o, <1>c DEF StepFacts, StateTyped, StateRecords, Labels, Codes
  <2> QED BY <2>1, <1>h, <1>g, <1>n, GuardedState
<1>2. RunTyped'
  <2>1. CASE run' = NoRun
    BY <2>1, NoRunFields DEF RunTyped, None
  <2>2. CASE run' = run
    BY <2>2, <1>h, <1>g, RunFrame
  <2> QED BY <1>y, <2>1, <2>2
<1>3. PhaseRun'
  BY <1>x DEF PhaseRun, SyncPcs, PullPcs, TailPcs, JournalPcs, ScanPcs, CohortPcs,
       CommitPcs, QueuedPcs, TargetPcs, CapturePcs
<1>4. PhaseJournal'
  BY <1>x, <1>y, <1>c, <1>h, <1>u, AfterCaptureCases DEF PhaseJournal, SyncPcs, PullPcs,
       TailPcs, JournalPcs, ScanPcs, CohortPcs, CommitPcs, QueuedPcs, TargetPcs,
       CapturePcs
<1>5. PhaseWrite'
  BY <1>x DEF PhaseWrite
<1>6. PhaseQueue'
  BY <1>x, <1>c, <1>u, <1>o DEF StepFacts, PhaseQueue, SyncPcs, PullPcs, TailPcs,
       JournalPcs, ScanPcs, CohortPcs, CommitPcs, QueuedPcs, TargetPcs, CapturePcs
<1>7. PhaseSnap'
  BY <1>x DEF PhaseSnap, SyncPcs, PullPcs, TailPcs, JournalPcs, ScanPcs, CohortPcs,
       CommitPcs, QueuedPcs, TargetPcs, CapturePcs
<1>8. SnapSaved'
  BY <1>y, <1>h, <1>u, NoRunFields DEF SnapSaved
<1>9. HeadKept'
  <2>1. CASE st'.head = st.head
    BY <2>1, <1>h, <1>g, <1>u, HeadFrame
  <2>2. CASE st'.head = run.commit
    <3>1. q'.pending # 0 /\ st'.head = q'.pending
      BY <2>2, <1>c, <1>u, <1>o DEF StepFacts
    <3> QED BY <3>1, HeadQueued
  <2> QED BY <1>x, <2>1, <2>2
<1>10. StateKnown'
  <2>1. n.main \in Anc(main) /\ n.sref \in Server'
    BY <1>x, <1>h, <1>o DEF StepFacts, StateKnown
  <2> QED BY <2>1, <1>n, <1>h, <1>g, GuardedKnown DEF DeviceInv
<1> QED BY <1>g, <1>f, <1>1, <1>2, <1>3, <1>4, <1>5, <1>6, <1>7, <1>8, <1>9, <1>10 DEF
   DeviceInv, Shapes, Phases, Keeps

LEMMA OrdinaryQueuedKeeps ==
  ASSUME DeviceInv, OrdinaryQueued
  PROVE  DeviceInv'
<1>h. /\ Git /\ ServerTyped /\ StateTyped /\ QueueTyped /\ RefTyped /\ FilesTyped
      /\ ProvTyped /\ JournalTyped /\ RunTyped /\ AckTyped /\ PhaseRun /\ PhaseJournal
      /\ PhaseWrite /\ PhaseQueue /\ PhaseSnap /\ TreesSaved /\ FilesSaved /\ SnapSaved
      /\ Held /\ HeadKept /\ StateKnown /\ ConflictKnown /\ JournalKnown /\ ReviewKnown
      /\ JournalKept
  BY DEF DeviceInv, Shapes, Phases, Keeps
<1>u. UNCHANGED <<commits, main, devRef, conflict, file, buf, saved, st, ref, prov, jr, ack, run>>
  BY DEF OrdinaryQueued, rest, server, editor
<1>g. Grown /\ Git'
  BY <1>h, <1>u, StillGrown
<1>o. StepFacts
  BY <1>g, Facts DEF DeviceInv
<1>c. /\ pc = "oqueue" /\ pc' = "ostate" /\ q'.pending = run.commit /\ q'.status = "queued_local"
      /\ DOMAIN q' = {"pending", "base", "status", "hints"}
  BY DEF OrdinaryQueued
<1>x. /\ run.commit \in Node /\ run.commit # 0
      /\ q.pending # 0 => \A k \in Paths : Local(q.pending, k) \subseteq Served(k) \cup Tree(run.commit)[k]
  BY <1>c, <1>h, <1>o DEF PhaseRun, PhaseSnap, PendingIn, StepFacts, SyncPcs, PullPcs,
       TailPcs, JournalPcs, ScanPcs, CohortPcs, CommitPcs, QueuedPcs, TargetPcs,
       CapturePcs
<1>f. /\ ServerTyped' /\ StateTyped' /\ RefTyped' /\ FilesTyped' /\ ProvTyped'
      /\ JournalTyped' /\ RunTyped' /\ AckTyped' /\ TreesSaved' /\ FilesSaved'
      /\ SnapSaved' /\ Held' /\ StateKnown' /\ ConflictKnown' /\ JournalKnown'
      /\ JournalKept'
  BY <1>h, <1>u, <1>g, ServerFrame, StateFrame, RefFrame, FilesFrame, ProvFrame,
     JournalFrame, RunFrame, AckFrame, TreesFrame, FilesSavedFrame, SnapFrame,
     HeldFrame, StateKnownFrame, ConflictFrame, JournalKnownFrame, JournalKeptFrame
<1>1. QueueTyped'
  BY <1>h, <1>u, <1>g, <1>o, <1>x, <1>c DEF StepFacts, QueueTyped, None, Statuses
<1>2. PhaseRun'
  BY <1>c, <1>x, <1>u, <1>o DEF StepFacts, PhaseRun, SyncPcs, PullPcs, TailPcs,
       JournalPcs, ScanPcs, CohortPcs, CommitPcs, QueuedPcs, TargetPcs, CapturePcs
<1>3. PhaseJournal'
  BY <1>h, <1>u, <1>g, <1>o, <1>x, <1>c DEF StepFacts, PhaseJournal, SyncPcs, PullPcs,
     TailPcs, JournalPcs, ScanPcs, CohortPcs, CommitPcs, QueuedPcs, TargetPcs,
     CapturePcs, NoRun
<1>4. PhaseWrite'
  BY <1>h, <1>u, <1>g, <1>o, <1>x, <1>c DEF StepFacts, PhaseWrite
<1>5. PhaseQueue'
  BY <1>c, <1>u DEF PhaseQueue, SyncPcs, PullPcs, TailPcs, JournalPcs, ScanPcs, CohortPcs,
       CommitPcs, QueuedPcs, TargetPcs, CapturePcs
<1>6. PhaseSnap'
  BY <1>c DEF PhaseSnap, SyncPcs, PullPcs, TailPcs, JournalPcs, ScanPcs, CohortPcs,
       CommitPcs, QueuedPcs, TargetPcs, CapturePcs
<1>7. HeadKept'
  <2>1. ASSUME NEW k \in Paths
        PROVE  Local(st.head, k) \subseteq Served(k) \cup Local(run.commit, k)
    <3>1. Local(st.head, k) \subseteq Served(k) \cup (IF q.pending = 0 THEN {} ELSE Local(q.pending, k))
      BY <1>h DEF HeadKept
    <3>2. Local(q.pending, k) \subseteq LocalEdits
      BY DEF Local
    <3> QED BY <3>1, <3>2, <1>x DEF Local
  <2>2. ASSUME NEW k \in Paths
        PROVE  /\ Local(st.head, k)' = Local(st.head, k)
               /\ Local(q.pending, k)' = Local(run.commit, k)
    BY <1>c, <1>x, <1>u, <1>o DEF StepFacts, Local, Tree
  <2>3. ASSUME NEW k \in Paths
        PROVE  Local(st.head, k)' \subseteq Served(k)' \cup Local(q.pending, k)'
    BY <2>1, <2>2, <1>o DEF StepFacts
  <2> QED BY <2>3, <1>c, <1>x DEF HeadKept
<1>8. ReviewKnown'
  BY <1>h, <1>u, <1>g, <1>o, <1>x, <1>c DEF StepFacts, ReviewKnown
<1> QED BY <1>g, <1>f, <1>1, <1>2, <1>3, <1>4, <1>5, <1>6, <1>7, <1>8 DEF DeviceInv, Shapes,
   Phases, Keeps

LEMMA IntentQueuedKeeps ==
  ASSUME DeviceInv, IntentQueued
  PROVE  DeviceInv'
<1>h. /\ Git /\ ServerTyped /\ StateTyped /\ QueueTyped /\ RefTyped /\ FilesTyped
      /\ ProvTyped /\ JournalTyped /\ RunTyped /\ AckTyped /\ PhaseRun /\ PhaseJournal
      /\ PhaseWrite /\ PhaseQueue /\ PhaseSnap /\ TreesSaved /\ FilesSaved /\ SnapSaved
      /\ Held /\ HeadKept /\ StateKnown /\ ConflictKnown /\ JournalKnown /\ ReviewKnown
      /\ JournalKept
  BY DEF DeviceInv, Shapes, Phases, Keeps
<1>u. UNCHANGED <<commits, main, devRef, conflict, file, buf, saved, st, ref, prov, jr, ack, run>>
  BY DEF IntentQueued, rest, server, editor
<1>g. Grown /\ Git'
  BY <1>h, <1>u, StillGrown
<1>o. StepFacts
  BY <1>g, Facts DEF DeviceInv
<1>c. /\ pc = "iqueue" /\ pc' = "istate" /\ q'.pending = run.commit
      /\ DOMAIN q' = {"pending", "base", "status", "hints"}
      /\ q'.status = "queued_local" \/ (q'.status = q.status /\ run.ret = "recover" /\ q.pending # 0)
  BY <1>o DEF StepFacts, IntentQueued
<1>x. /\ run.commit \in Node /\ run.commit # 0
      /\ q.pending = 0 \/ q.pending \in Server \/ q.pending = run.commit
      /\ run.ret = "recover" => q.pending \in {0, run.commit}
  BY <1>c, <1>h, <1>o DEF PhaseRun, PhaseQueue, StepFacts, SyncPcs, PullPcs, TailPcs,
       JournalPcs, ScanPcs, CohortPcs, CommitPcs, QueuedPcs, TargetPcs, CapturePcs
<1>f. /\ ServerTyped' /\ StateTyped' /\ RefTyped' /\ FilesTyped' /\ ProvTyped'
      /\ JournalTyped' /\ RunTyped' /\ AckTyped' /\ TreesSaved' /\ FilesSaved'
      /\ SnapSaved' /\ Held' /\ StateKnown' /\ ConflictKnown' /\ JournalKnown'
      /\ JournalKept'
  BY <1>h, <1>u, <1>g, ServerFrame, StateFrame, RefFrame, FilesFrame, ProvFrame,
     JournalFrame, RunFrame, AckFrame, TreesFrame, FilesSavedFrame, SnapFrame,
     HeldFrame, StateKnownFrame, ConflictFrame, JournalKnownFrame, JournalKeptFrame
<1>1. QueueTyped'
  BY <1>c, <1>x, <1>h, <1>o DEF StepFacts, QueueTyped, Statuses
<1>2. PhaseRun'
  BY <1>c, <1>x, <1>u, <1>o DEF StepFacts, PhaseRun, SyncPcs, PullPcs, TailPcs,
       JournalPcs, ScanPcs, CohortPcs, CommitPcs, QueuedPcs, TargetPcs, CapturePcs
<1>3. PhaseJournal'
  BY <1>h, <1>u, <1>g, <1>o, <1>x, <1>c DEF StepFacts, PhaseJournal, SyncPcs, PullPcs,
     TailPcs, JournalPcs, ScanPcs, CohortPcs, CommitPcs, QueuedPcs, TargetPcs,
     CapturePcs, NoRun
<1>4. PhaseWrite'
  BY <1>h, <1>u, <1>g, <1>o, <1>x, <1>c DEF StepFacts, PhaseWrite
<1>5. PhaseQueue'
  BY <1>c, <1>u DEF PhaseQueue, SyncPcs, PullPcs, TailPcs, JournalPcs, ScanPcs, CohortPcs,
       CommitPcs, QueuedPcs, TargetPcs, CapturePcs
<1>6. PhaseSnap'
  BY <1>c DEF PhaseSnap, SyncPcs, PullPcs, TailPcs, JournalPcs, ScanPcs, CohortPcs,
       CommitPcs, QueuedPcs, TargetPcs, CapturePcs
<1>7. HeadKept'
  <2>1. CASE q.pending = 0 \/ q.pending \in Server
    BY <2>1, <1>h, <1>g, <1>u, HeadSettled DEF DeviceInv
  <2>2. CASE q.pending = run.commit
    BY <2>2, <1>c, <1>h, <1>g, <1>u, HeadFrame
  <2> QED BY <1>x, <2>1, <2>2
<1>8. ReviewKnown'
  BY <1>h, <1>u, <1>g, <1>o, <1>x, <1>c DEF StepFacts, ReviewKnown
<1> QED BY <1>g, <1>f, <1>1, <1>2, <1>3, <1>4, <1>5, <1>6, <1>7, <1>8 DEF DeviceInv, Shapes,
   Phases, Keeps

LEMMA IntentKeeps ==
  ASSUME DeviceInv, Intent
  PROVE  DeviceInv'
<1>h. /\ Git /\ ServerTyped /\ StateTyped /\ QueueTyped /\ RefTyped /\ FilesTyped
      /\ ProvTyped /\ JournalTyped /\ RunTyped /\ AckTyped /\ PhaseRun /\ PhaseJournal
      /\ PhaseWrite /\ PhaseQueue /\ PhaseSnap /\ TreesSaved /\ FilesSaved /\ SnapSaved
      /\ Held /\ HeadKept /\ StateKnown /\ ConflictKnown /\ JournalKnown /\ ReviewKnown
      /\ JournalKept
  BY DEF DeviceInv, Shapes, Phases, Keeps
<1>u. UNCHANGED <<commits, main, devRef, conflict, file, buf, saved, q, ref, jr, ack>>
  BY DEF Intent, Thrown, Done, rest, server, editor
<1>g. Grown /\ Git'
  BY <1>h, <1>u, StillGrown
<1>o. StepFacts
  BY <1>g, Facts DEF DeviceInv
<1>s. st' \in {st, Blocked("unfinished")}
  BY DEF Intent, Thrown
<1>d. StateTyped' /\ StateKnown' /\ st'.head = st.head
  BY <1>h, <1>g, <1>s, ThrownState DEF Codes
<1>c. /\ pc = "intent"
      /\ \/ pc' = "idle" /\ run' = NoRun /\ prov' = prov
         \/ /\ pc' = "cref" /\ run' = run
            /\ \E i : /\ prov' = [prov EXCEPT !.intent = i]
                      /\ DOMAIN i = DOMAIN NoIntent /\ i.commit = 0
  <2>1. pc = "intent"
    BY DEF Intent
  <2>2. CASE prov.intent.base # 0 /\ prov.intent.outcome = "none"
    BY <2>1, <2>2 DEF Intent, Thrown, Done
  <2>3. CASE ~ (prov.intent.base # 0 /\ prov.intent.outcome = "none")
    <3>1. PICK i : i = [NoIntent EXCEPT !.base = run.base, !.parent = run.target,
                                   !.tree = CohortTree,
                                   !.caps = [p \in run.cohort |-> prov.obl[p].gen]]
      OBVIOUS
    <3>2. prov' = [prov EXCEPT !.intent = i] /\ pc' = "cref" /\ run' = run
      BY <2>3, <3>1 DEF Intent
    <3>3. DOMAIN i = DOMAIN NoIntent /\ i.commit = 0
      BY <3>1 DEF NoIntent
    <3> QED BY <2>1, <3>2, <3>3
  <2> QED BY <2>2, <2>3
<1>x. run' \in {run, NoRun} /\ (pc' # "idle" => run' = run) /\ pc' \in {"idle", "cref"}
  BY <1>c
<1>f. /\ ServerTyped' /\ QueueTyped' /\ RefTyped' /\ FilesTyped'
      /\ JournalTyped' /\ AckTyped' /\ TreesSaved' /\ FilesSaved' /\ Held' /\ HeadKept'
      /\ ConflictKnown' /\ JournalKnown' /\ ReviewKnown' /\ JournalKept'
  BY <1>h, <1>u, <1>g, <1>d, ServerFrame, QueueFrame, RefFrame, FilesFrame,
     JournalFrame, AckFrame, TreesFrame, FilesSavedFrame, HeldFrame, HeadFrame,
     ConflictFrame, JournalKnownFrame, ReviewFrame, JournalKeptFrame
<1>1. ProvTyped'
  <2>1. CASE prov' = prov
    BY <2>1, <1>h, <1>g, ProvFrame
  <2>2. CASE pc' = "cref"
    <3>3. PICK i : /\ prov' = [prov EXCEPT !.intent = i]
                   /\ DOMAIN i = DOMAIN NoIntent /\ i.commit = 0
      BY <1>c, <2>2
    <3>4. DOMAIN NoIntent = {"base", "parent", "tree", "commit", "caps", "outcome", "main"}
      BY DEF NoIntent
    <3> QED BY <3>3, <3>4, <1>h DEF ProvTyped, None
  <2> QED BY <1>c, <2>1, <2>2
<1>2. RunTyped'
  <2>1. CASE run' = NoRun
    BY <2>1, NoRunFields DEF RunTyped, None
  <2>2. CASE run' = run
    BY <2>2, <1>h, <1>g, RunFrame
  <2> QED BY <1>x, <2>1, <2>2
<1>3. PhaseRun'
  BY <1>h, <1>u, <1>g, <1>o, <1>x, <1>c DEF StepFacts, PhaseRun, SyncPcs, PullPcs,
     TailPcs, JournalPcs, ScanPcs, CohortPcs, CommitPcs, QueuedPcs, TargetPcs,
     CapturePcs, NoRun
<1>4. PhaseJournal'
  BY <1>h, <1>u, <1>g, <1>o, <1>x, <1>c DEF StepFacts, PhaseJournal, SyncPcs, PullPcs,
     TailPcs, JournalPcs, ScanPcs, CohortPcs, CommitPcs, QueuedPcs, TargetPcs,
     CapturePcs, NoRun
<1>5. PhaseWrite'
  BY <1>h, <1>u, <1>g, <1>o, <1>x, <1>c DEF StepFacts, PhaseWrite
<1>6. PhaseQueue'
  BY <1>h, <1>u, <1>g, <1>o, <1>x, <1>c DEF StepFacts, PhaseQueue, SyncPcs, PullPcs,
     TailPcs, JournalPcs, ScanPcs, CohortPcs, CommitPcs, QueuedPcs, TargetPcs,
     CapturePcs, NoRun
<1>7. PhaseSnap'
  BY <1>x DEF PhaseSnap, SyncPcs, PullPcs, TailPcs, JournalPcs, ScanPcs, CohortPcs,
       CommitPcs, QueuedPcs, TargetPcs, CapturePcs
<1>8. SnapSaved'
  BY <1>x, <1>h, <1>u, NoRunFields DEF SnapSaved
<1> QED BY <1>g, <1>d, <1>f, <1>1, <1>2, <1>3, <1>4, <1>5, <1>6, <1>7, <1>8 DEF DeviceInv, Shapes,
   Phases, Keeps

LEMMA ResultRecordedKeeps ==
  ASSUME DeviceInv, ResultRecorded
  PROVE  DeviceInv'
<1>h. /\ Git /\ ServerTyped /\ StateTyped /\ QueueTyped /\ RefTyped /\ FilesTyped
      /\ ProvTyped /\ JournalTyped /\ RunTyped /\ AckTyped /\ PhaseRun /\ PhaseJournal
      /\ PhaseWrite /\ PhaseQueue /\ PhaseSnap /\ TreesSaved /\ FilesSaved /\ SnapSaved
      /\ Held /\ HeadKept /\ StateKnown /\ ConflictKnown /\ JournalKnown /\ ReviewKnown
      /\ JournalKept
  BY DEF DeviceInv, Shapes, Phases, Keeps
<1>u. UNCHANGED <<commits, main, devRef, conflict, file, buf, saved, st, q, ref, jr, ack>>
  BY DEF ResultRecorded, Done, rest, server, editor
<1>g. Grown /\ Git'
  BY <1>h, <1>u, StillGrown
<1>o. StepFacts
  BY <1>g, Facts DEF DeviceInv
<1>c. /\ pc = "result" /\ pc' \in {"rqueue", "idle"} /\ run' \in {run, NoRun}
      /\ pc' = "rqueue" => run' = run
  BY DEF ResultRecorded, Done
<1>x. \/ prov' = prov
      \/ \E a : prov' = [prov EXCEPT !.acc = a]
      \/ \E a, o, m, S : \/ prov' = [prov EXCEPT !.acc = a, !.intent = [@ EXCEPT !.outcome = o, !.main = m]]
                          \/ prov' = Retire([prov EXCEPT !.acc = a,
                                 !.intent = [@ EXCEPT !.outcome = o, !.main = m]], S, 0)
  <2>1. PICK a : a = IF run.result = "conflicted" THEN prov.acc
                     ELSE [commit |-> q.pending, base |-> q.base]
    OBVIOUS
  <2>2. PICK w : w = [prov EXCEPT !.acc = a,
                        !.intent = [@ EXCEPT !.outcome = run.result, !.main = run.base]]
    OBVIOUS
  <2>3. \/ prov' = prov \/ prov' = [prov EXCEPT !.acc = a]
        \/ prov' = w \/ prov' = Retire(w, DOMAIN prov.intent.caps, 0)
    BY <2>1, <2>2 DEF ResultRecorded
  <2> QED BY <2>2, <2>3

<1>f. /\ ServerTyped' /\ StateTyped' /\ QueueTyped' /\ RefTyped' /\ FilesTyped'
      /\ JournalTyped' /\ AckTyped' /\ TreesSaved' /\ FilesSaved' /\ Held' /\ HeadKept'
      /\ StateKnown' /\ ConflictKnown' /\ JournalKnown' /\ ReviewKnown' /\ JournalKept'
  BY <1>h, <1>u, <1>g, ServerFrame, StateFrame, QueueFrame, RefFrame, FilesFrame,
     JournalFrame, AckFrame, TreesFrame, FilesSavedFrame, HeldFrame, HeadFrame,
     StateKnownFrame, ConflictFrame, JournalKnownFrame, ReviewFrame, JournalKeptFrame
<1>1. ProvTyped'
  <2>1. CASE prov' = prov
    BY <2>1, <1>h, <1>g, ProvFrame
  <2>2. CASE \E a : prov' = [prov EXCEPT !.acc = a]
    <3>1. DOMAIN prov' = {"hor", "obl", "intent", "acc"} /\ prov'.intent = prov.intent
      BY <2>2, <1>h DEF ProvTyped
    <3> QED BY <1>h, <1>g, <3>1, ProvKept
  <2>3. ASSUME NEW a, NEW o, NEW m, NEW S,
               \/ prov' = [prov EXCEPT !.acc = a, !.intent = [@ EXCEPT !.outcome = o, !.main = m]]
               \/ prov' = Retire([prov EXCEPT !.acc = a,
                      !.intent = [@ EXCEPT !.outcome = o, !.main = m]], S, 0)
        PROVE  ProvTyped'
    <3>1. PICK w : w = [prov EXCEPT !.acc = a, !.intent = [@ EXCEPT !.outcome = o, !.main = m]]
      OBVIOUS
    <3>2. /\ DOMAIN w = {"hor", "obl", "intent", "acc"}
          /\ w.intent = [prov.intent EXCEPT !.outcome = o, !.main = m]
      BY <3>1, <1>h DEF ProvTyped
    <3>3. prov' = w \/ prov' = Retire(w, S, 0)
      BY <2>3, <3>1
    <3>4. /\ DOMAIN prov' = {"hor", "obl", "intent", "acc"}
          /\ prov'.intent = [prov.intent EXCEPT !.outcome = o, !.main = m]
      BY <3>2, <3>3, RetireFields
    <3> QED BY <3>4, <1>h, <1>o DEF StepFacts, ProvTyped
  <2> QED BY <1>x, <2>1, <2>2, <2>3
<1>2. RunTyped'
  <2>1. CASE run' = NoRun
    BY <2>1, NoRunFields DEF RunTyped, None
  <2>2. CASE run' = run
    BY <2>2, <1>h, <1>g, RunFrame
  <2> QED BY <1>c, <2>1, <2>2
<1>3. PhaseRun'
  BY <1>c DEF PhaseRun, SyncPcs, PullPcs, TailPcs, JournalPcs, ScanPcs, CohortPcs,
       CommitPcs, QueuedPcs, TargetPcs, CapturePcs
<1>4. PhaseJournal'
  BY <1>c DEF PhaseJournal, SyncPcs, PullPcs, TailPcs, JournalPcs, ScanPcs, CohortPcs,
       CommitPcs, QueuedPcs, TargetPcs, CapturePcs
<1>5. PhaseWrite'
  BY <1>c DEF PhaseWrite
<1>6. PhaseQueue'
  BY <1>c, <1>h, <1>u, <1>o DEF StepFacts, PhaseQueue, SyncPcs, PullPcs, TailPcs,
       JournalPcs, ScanPcs, CohortPcs, CommitPcs, QueuedPcs, TargetPcs, CapturePcs
<1>7. PhaseSnap'
  BY <1>c DEF PhaseSnap, SyncPcs, PullPcs, TailPcs, JournalPcs, ScanPcs, CohortPcs,
       CommitPcs, QueuedPcs, TargetPcs, CapturePcs
<1>8. SnapSaved'
  BY <1>c, <1>h, <1>u, NoRunFields DEF SnapSaved
<1> QED BY <1>g, <1>f, <1>1, <1>2, <1>3, <1>4, <1>5, <1>6, <1>7, <1>8 DEF DeviceInv, Shapes,
   Phases, Keeps

LEMMA CohortKeeps ==
  ASSUME DeviceInv, Cohort
  PROVE  DeviceInv'
<1>h. /\ Git /\ ServerTyped /\ StateTyped /\ QueueTyped /\ RefTyped /\ FilesTyped
      /\ ProvTyped /\ JournalTyped /\ RunTyped /\ AckTyped /\ PhaseRun /\ PhaseJournal
      /\ PhaseWrite /\ PhaseQueue /\ PhaseSnap /\ TreesSaved /\ FilesSaved /\ SnapSaved
      /\ Held /\ HeadKept /\ StateKnown /\ ConflictKnown /\ JournalKnown /\ ReviewKnown
      /\ JournalKept
  BY DEF DeviceInv, Shapes, Phases, Keeps
<1>u. UNCHANGED <<commits, main, devRef, conflict, file, buf, saved, q, prov, jr, ack>>
  BY DEF Cohort, Thrown, Done, rest, server, editor
<1>g. Grown /\ Git'
  BY <1>h, <1>u, StillGrown
<1>o. StepFacts
  BY <1>g, Facts DEF DeviceInv
<1>c. /\ pc = "cohort" /\ run' \in {run, NoRun} /\ (pc' # "idle" => run' = run)
      /\ \/ /\ pc' = "idle" /\ ref' = ref /\ st' \in {st, Blocked("unfinished")}
         \/ /\ pc' = "ordinary" /\ ref' = ref /\ st' = st
         \/ /\ pc' = AfterCapture /\ q.pending # 0
            /\ ref' = [ref EXCEPT !.local = q.pending]
            /\ \E n : n = [st EXCEPT !.head = q.pending] /\ st' = Guarded(n)
         \/ /\ pc' \in {"classify", "ordinary"} /\ ref' = ref /\ st' = st
            /\ q.pending = 0 \/ q.pending \in Anc(run.target)
  <2>1. PICK n : n = [st EXCEPT !.head = q.pending]
    OBVIOUS
  <2>2. pc = "cohort"
    BY DEF Cohort
  <2>3. CASE q.pending # 0 /\ q.base = 0
    BY <2>2, <2>3 DEF Cohort
  <2>4. CASE q.pending # 0 /\ q.base # 0 /\ ~ IsAncestor(q.pending, run.target)
    BY <2>1, <2>2, <2>4 DEF Cohort
  <2>5. CASE q.pending = 0 \/ (q.base # 0 /\ IsAncestor(q.pending, run.target))
    BY <2>2, <2>5 DEF Cohort, Thrown, Done, IsAncestor
  <2> QED BY <2>3, <2>4, <2>5
<1>t. run.target \in Anc(main) /\ run.target \in Node /\ Anc(run.target) \subseteq Anc(main)
  BY <1>c, <1>h, <1>o, AncNode DEF StepFacts, PhaseRun, SyncPcs, PullPcs, TailPcs,
       JournalPcs, ScanPcs, CohortPcs, CommitPcs, QueuedPcs, TargetPcs, CapturePcs
<1>x. /\ pc' \in {"classify", "ordinary", "idle", "push", "ackw", "step"}
      /\ pc' = "classify" => q.pending = 0 \/ q.pending \in Server
      /\ pc' = "push" => q.pending # 0
      /\ pc' \in {"classify", "ordinary", "step"} /\ (pc' # "step" => run.ret \notin {"sync", "recover"})
           => jr.target # 0 /\ run.target = jr.target
      /\ run.ret # "recover"
  BY <1>c, <1>t, <1>h, <1>o, AfterCaptureCases DEF StepFacts, PhaseRun, PhaseJournal,
       SyncPcs, PullPcs, TailPcs, JournalPcs, ScanPcs, CohortPcs, CommitPcs, QueuedPcs,
       TargetPcs, CapturePcs
<1>y. \/ st' \in {st, Blocked("unfinished")} /\ ref' = ref
      \/ /\ q.pending # 0 /\ q.pending \in Node /\ ref' = [ref EXCEPT !.local = q.pending]
         /\ \E n : /\ n = [st EXCEPT !.head = q.pending] /\ st' = Guarded(n)
                   /\ n.main = st.main /\ n.head = q.pending /\ n.sref = st.sref
                   /\ n.label = st.label /\ n.err = st.err
  BY <1>c, <1>o DEF StepFacts
<1>f. /\ ServerTyped' /\ QueueTyped' /\ FilesTyped' /\ ProvTyped' /\ JournalTyped'
      /\ AckTyped' /\ TreesSaved' /\ FilesSaved' /\ Held' /\ ConflictKnown'
      /\ JournalKnown' /\ ReviewKnown' /\ JournalKept'
  BY <1>h, <1>u, <1>g, ServerFrame, QueueFrame, FilesFrame, ProvFrame, JournalFrame,
     AckFrame, TreesFrame, FilesSavedFrame, HeldFrame, ConflictFrame, JournalKnownFrame,
     ReviewFrame, JournalKeptFrame
<1>1. StateTyped'
  <2>1. CASE st' \in {st, Blocked("unfinished")}
    BY <2>1, <1>h, <1>g, ThrownState DEF Codes
  <2>2. CASE st' \notin {st, Blocked("unfinished")}
    <3>1. PICK n : /\ n = [st EXCEPT !.head = q.pending] /\ st' = Guarded(n)
                   /\ q.pending \in Node
      BY <1>y, <2>2
    <3>2. n \in StateRecords(Node')
      BY <3>1, <1>h, <1>o DEF StepFacts, StateTyped, StateRecords
    <3> QED BY <3>1, <3>2, <1>h, <1>g, GuardedState
  <2> QED BY <2>1, <2>2
<1>2. RefTyped'
  <2>1. CASE ref' = ref
    BY <2>1, <1>h, <1>g, RefFrame
  <2>2. CASE ref' = [ref EXCEPT !.local = q.pending] /\ q.pending \in Node
    BY <2>2, <1>h, <1>o DEF StepFacts, RefTyped
  <2> QED BY <1>y, <2>1, <2>2
<1>3. RunTyped'
  <2>1. CASE run' = NoRun
    BY <2>1, NoRunFields DEF RunTyped, None
  <2>2. CASE run' = run
    BY <2>2, <1>h, <1>g, RunFrame
  <2> QED BY <1>c, <2>1, <2>2
<1>4. PhaseRun'
  BY <1>x, <1>c, <1>h, <1>t, <1>o DEF StepFacts, PhaseRun, SyncPcs, PullPcs, TailPcs,
       JournalPcs, ScanPcs, CohortPcs, CommitPcs, QueuedPcs, TargetPcs, CapturePcs
<1>5. PhaseJournal'
  BY <1>x, <1>c, <1>u DEF PhaseJournal, SyncPcs, PullPcs, TailPcs, JournalPcs, ScanPcs,
       CohortPcs, CommitPcs, QueuedPcs, TargetPcs, CapturePcs
<1>6. PhaseWrite'
  BY <1>x DEF PhaseWrite
<1>7. PhaseQueue'
  BY <1>x, <1>u, <1>o DEF StepFacts, PhaseQueue, SyncPcs, PullPcs, TailPcs, JournalPcs,
       ScanPcs, CohortPcs, CommitPcs, QueuedPcs, TargetPcs, CapturePcs
<1>8. PhaseSnap'
  <2>1. PendingIn(run.snap) /\ run'.snap = run.snap => PendingIn(run.snap)'
    BY <1>h, <1>g, <1>u, PendingFrame DEF PendingIn
  <2>2. PendingIn(run.snap)
    BY <1>c, <1>h DEF PhaseSnap, SyncPcs, PullPcs, TailPcs, JournalPcs, ScanPcs,
         CohortPcs, CommitPcs, QueuedPcs, TargetPcs, CapturePcs
  <2> QED BY <2>1, <2>2, <1>x, <1>c DEF PhaseSnap, SyncPcs, PullPcs, TailPcs, JournalPcs,
       ScanPcs, CohortPcs, CommitPcs, QueuedPcs, TargetPcs, CapturePcs
<1>9. SnapSaved'
  BY <1>c, <1>h, <1>u, NoRunFields DEF SnapSaved
<1>10. HeadKept'
  <2>1. st'.head = st.head \/ (q.pending # 0 /\ st'.head = q.pending)
    BY <1>y, <1>h, <1>g, ThrownState, GuardedFields DEF Codes
  <2>2. CASE st'.head = st.head
    BY <2>2, <1>h, <1>g, <1>u, HeadFrame
  <2>3. CASE q.pending # 0 /\ st'.head = q.pending
    BY <2>3, <1>u, HeadQueued
  <2> QED BY <2>1, <2>2, <2>3
<1>11. StateKnown'
  <2>1. CASE st' \in {st, Blocked("unfinished")}
    BY <2>1, <1>h, <1>g, ThrownState DEF Codes
  <2>2. CASE st' \notin {st, Blocked("unfinished")}
    <3>1. PICK n : st' = Guarded(n) /\ n.main = st.main /\ n.sref = st.sref
      BY <1>y, <2>2
    <3>2. n.main \in Anc(main) /\ n.sref \in Server'
      BY <3>1, <1>h, <1>o DEF StepFacts, StateKnown
    <3> QED BY <3>1, <3>2, <1>h, <1>g, GuardedKnown DEF DeviceInv
  <2> QED BY <2>1, <2>2
<1> QED BY <1>g, <1>f, <1>1, <1>2, <1>3, <1>4, <1>5, <1>6, <1>7, <1>8, <1>9, <1>10, <1>11 DEF
   DeviceInv, Shapes, Phases, Keeps

LEMMA ClassifyKeeps ==
  ASSUME DeviceInv, Classify
  PROVE  DeviceInv'
<1>h. /\ Git /\ ServerTyped /\ StateTyped /\ QueueTyped /\ RefTyped /\ FilesTyped
      /\ ProvTyped /\ JournalTyped /\ RunTyped /\ AckTyped /\ PhaseRun /\ PhaseJournal
      /\ PhaseWrite /\ PhaseQueue /\ PhaseSnap /\ TreesSaved /\ FilesSaved /\ SnapSaved
      /\ Held /\ HeadKept /\ StateKnown /\ ConflictKnown /\ JournalKnown /\ ReviewKnown
      /\ JournalKept
  BY DEF DeviceInv, Shapes, Phases, Keeps
<1>u. UNCHANGED <<commits, main, devRef, conflict, file, buf, saved, st, q, ref, jr, ack>>
  BY DEF Classify, rest, server, editor
<1>g. Grown /\ Git'
  BY <1>h, <1>u, StillGrown
<1>o. StepFacts
  BY <1>g, Facts DEF DeviceInv
<1>c. /\ pc = "classify" /\ pc' \in {"ordinary", "intent"}
      /\ DOMAIN run' = DOMAIN run /\ run'.target = run.target /\ run'.commit = run.commit
      /\ run'.ret = run.ret /\ run'.snap \in {file, run.snap}
      /\ \E w_, s_ : /\ w_ = prov \/ w_ = RetainApply(prov, jr, FALSE)
                     /\ prov' = Classified(w_, run.target, s_)
  <2> DEFINE s == Drained(prov, run.snap)
             w == IF jr = NoJournal THEN prov ELSE RetainApply(prov, jr, FALSE)
             v == Classified(w, run.target, s)
             S == StalePaths(v, run.target, s)
             b == Oldest({v.obl[p].base : p \in S})
             k == {p \in S : v.obl[p].base = b}
  <2>1. /\ pc = "classify" /\ pc' \in {"ordinary", "intent"} /\ prov' = v
        /\ \/ run' = [run EXCEPT !.snap = s]
           \/ run' = [run EXCEPT !.snap = s, !.base = b, !.cohort = k]
    BY DEF Classify
  <2>2. s \in {file, run.snap}
    BY DEF Drained
  <2>3. w = prov \/ w = RetainApply(prov, jr, FALSE)
    OBVIOUS
  <2>4. v = Classified(w, run.target, s)
    OBVIOUS
  <2> HIDE DEF s, w, v, S, b, k
  <2>5. \E w_, s_ : /\ w_ = prov \/ w_ = RetainApply(prov, jr, FALSE)
                    /\ prov' = Classified(w_, run.target, s_)
    BY <2>1, <2>3, <2>4
  <2>6. /\ DOMAIN run' = DOMAIN run /\ run'.target = run.target /\ run'.commit = run.commit
        /\ run'.ret = run.ret /\ run'.snap \in {file, run.snap}
    BY <2>1, <2>2, <1>o DEF StepFacts
  <2> QED BY <2>1, <2>5, <2>6
<1>x. /\ DOMAIN run' = DOMAIN run /\ run'.target = run.target /\ run'.commit = run.commit
      /\ run'.ret = run.ret /\ run'.snap \in {file, run.snap}
  BY <1>c
<1>f. /\ ServerTyped' /\ StateTyped' /\ QueueTyped' /\ RefTyped' /\ FilesTyped'
      /\ JournalTyped' /\ AckTyped' /\ TreesSaved' /\ FilesSaved' /\ Held' /\ HeadKept'
      /\ StateKnown' /\ ConflictKnown' /\ JournalKnown' /\ ReviewKnown' /\ JournalKept'
  BY <1>h, <1>u, <1>g, ServerFrame, StateFrame, QueueFrame, RefFrame, FilesFrame,
     JournalFrame, AckFrame, TreesFrame, FilesSavedFrame, HeldFrame, HeadFrame,
     StateKnownFrame, ConflictFrame, JournalKnownFrame, ReviewFrame, JournalKeptFrame
<1>1. ProvTyped'
  <2>1. PICK w, s : /\ w = prov \/ w = RetainApply(prov, jr, FALSE)
                    /\ prov' = Classified(w, run.target, s)
    BY <1>c
  <2>2. DOMAIN w = {"hor", "obl", "intent", "acc"} /\ w.intent = prov.intent
    <3>1. DOMAIN prov = {"hor", "obl", "intent", "acc"}
      BY <1>h DEF ProvTyped
    <3>2. CASE w = prov
      BY <3>1, <3>2
    <3>3. CASE w = RetainApply(prov, jr, FALSE)
      BY <3>1, <3>3, RetainFields
    <3> QED BY <2>1, <3>2, <3>3
  <2>3. DOMAIN prov' = {"hor", "obl", "intent", "acc"} /\ prov'.intent = prov.intent
    BY <2>1, <2>2, ClassifiedFields
  <2> QED BY <1>h, <1>g, <2>3, ProvKept
<1>2. RunTyped'
  BY <1>x, <1>o DEF StepFacts, RunTyped
<1>3. PhaseRun'
  BY <1>x, <1>c, <1>h, <1>o DEF StepFacts, PhaseRun, SyncPcs, PullPcs, TailPcs,
       JournalPcs, ScanPcs, CohortPcs, CommitPcs, QueuedPcs, TargetPcs, CapturePcs
<1>4. PhaseJournal'
  BY <1>x, <1>c, <1>h, <1>u DEF PhaseJournal, SyncPcs, PullPcs, TailPcs, JournalPcs,
       ScanPcs, CohortPcs, CommitPcs, QueuedPcs, TargetPcs, CapturePcs
<1>5. PhaseWrite'
  BY <1>c DEF PhaseWrite
<1>6. PhaseQueue'
  BY <1>c, <1>h, <1>u, <1>o DEF StepFacts, PhaseQueue, SyncPcs, PullPcs, TailPcs,
       JournalPcs, ScanPcs, CohortPcs, CommitPcs, QueuedPcs, TargetPcs, CapturePcs
<1>7. PhaseSnap'
  <2>1. PendingIn(file) /\ PendingIn(run.snap)
    BY <1>c, <1>h, FileHolds DEF PhaseSnap, SyncPcs, PullPcs, TailPcs, JournalPcs,
         ScanPcs, CohortPcs, CommitPcs, QueuedPcs, TargetPcs, CapturePcs
  <2>2. PendingIn(run.snap)'
    <3>1. CASE run'.snap = file
      BY <3>1, <2>1, <1>h, <1>g, <1>u, PendingFrame DEF PendingIn
    <3>2. CASE run'.snap = run.snap
      BY <3>2, <2>1, <1>h, <1>g, <1>u, PendingFrame DEF PendingIn
    <3> QED BY <1>x, <3>1, <3>2
  <2> QED BY <2>2, <1>c DEF PhaseSnap, SyncPcs, PullPcs, TailPcs, JournalPcs, ScanPcs,
       CohortPcs, CommitPcs, QueuedPcs, TargetPcs, CapturePcs
<1>8. SnapSaved'
  BY <1>x, <1>h, <1>u DEF SnapSaved, FilesSaved
<1> QED BY <1>g, <1>f, <1>1, <1>2, <1>3, <1>4, <1>5, <1>6, <1>7, <1>8 DEF DeviceInv, Shapes,
   Phases, Keeps

LEMMA ApplyStateKeeps ==
  ASSUME DeviceInv, ApplyState
  PROVE  DeviceInv'
<1>h. /\ Git /\ ServerTyped /\ StateTyped /\ QueueTyped /\ RefTyped /\ FilesTyped
      /\ ProvTyped /\ JournalTyped /\ RunTyped /\ AckTyped /\ PhaseRun /\ PhaseJournal
      /\ PhaseWrite /\ PhaseQueue /\ PhaseSnap /\ TreesSaved /\ FilesSaved /\ SnapSaved
      /\ Held /\ HeadKept /\ StateKnown /\ ConflictKnown /\ JournalKnown /\ ReviewKnown
      /\ JournalKept
  BY DEF DeviceInv, Shapes, Phases, Keeps
<1>u. UNCHANGED <<commits, main, devRef, conflict, file, buf, saved, q, ref, prov, jr, ack, run>>
  BY DEF ApplyState, rest, server, editor
<1>g. Grown /\ Git'
  BY <1>h, <1>u, StillGrown
<1>o. StepFacts
  BY <1>g, Facts DEF DeviceInv
<1>n. PICK l, n : /\ n = [st EXCEPT !.main = run.target, !.head = run.target, !.err = "none",
                               !.label = l]
                  /\ st' = Guarded(n) /\ l \in {st.label, "Checking", "Synced", "Ahead"}
  <2>1. PICK l : l = CASE run.ret = "refonly" -> IF q.hints # {} THEN "Checking" ELSE "Synced"
                      [] run.ret = "repair" -> IF Preserved # {} THEN "Ahead"
                                               ELSE IF run.defer THEN "Checking" ELSE "Synced"
                      [] run.ret = "apply" -> "Checking"
                      [] OTHER -> st.label
    OBVIOUS
  <2>2. l \in {st.label, "Checking", "Synced", "Ahead"}
    BY <2>1
  <2>3. PICK n : n = [st EXCEPT !.main = run.target, !.head = run.target, !.err = "none",
                               !.label = l]
    OBVIOUS
  <2>4. st' = Guarded(n)
    BY <2>1, <2>3, <1>o DEF ApplyState, StepFacts
  <2> QED BY <2>2, <2>3, <2>4
<1>c. /\ pc = "astate" /\ pc' \in {"ackw", "tqueue", AfterCapture}
      /\ pc' = "tqueue" => Preserved # {}
  <2>1. AfterCapture # "tqueue"
    BY AfterCaptureCases
  <2> QED BY <2>1 DEF ApplyState
<1>t. /\ run.target \in Anc(main) /\ run.target \in Node /\ run.target \in Server
      /\ run.ret \notin {"sync", "recover"} /\ jr.target # 0 /\ run.target = jr.target
  BY <1>c, <1>h, <1>o DEF StepFacts, PhaseRun, PhaseJournal, SyncPcs, PullPcs, TailPcs,
       JournalPcs, ScanPcs, CohortPcs, CommitPcs, QueuedPcs, TargetPcs, CapturePcs
<1>x. /\ pc' \in {"ackw", "tqueue", "step"} /\ n.main = run.target /\ n.sref = st.sref
      /\ n.head = run.target /\ st'.head \in {st.head, run.target}
  <2>1. pc' \in {"ackw", "tqueue", "step"}
    BY <1>c, <1>t, AfterCaptureCases
  <2>2. n.main = run.target /\ n.sref = st.sref /\ n.head = run.target
    BY <1>n, <1>o DEF StepFacts
  <2>3. st'.head \in {st.head, n.head}
    BY <1>n, GuardedFields
  <2> QED BY <2>1, <2>2, <2>3
<1>f. /\ ServerTyped' /\ QueueTyped' /\ RefTyped' /\ FilesTyped' /\ ProvTyped'
      /\ JournalTyped' /\ RunTyped' /\ AckTyped' /\ TreesSaved' /\ FilesSaved'
      /\ SnapSaved' /\ Held' /\ ConflictKnown' /\ JournalKnown' /\ ReviewKnown'
      /\ JournalKept'
  BY <1>h, <1>u, <1>g, ServerFrame, QueueFrame, RefFrame, FilesFrame, ProvFrame,
     JournalFrame, RunFrame, AckFrame, TreesFrame, FilesSavedFrame, SnapFrame,
     HeldFrame, ConflictFrame, JournalKnownFrame, ReviewFrame, JournalKeptFrame
<1>1. StateTyped'
  <2>1. n \in StateRecords(Node')
    BY <1>h, <1>n, <1>o, <1>t DEF StepFacts, StateTyped, StateRecords, Labels, Codes
  <2> QED BY <2>1, <1>h, <1>g, <1>n, GuardedState
<1>2. PhaseRun'
  BY <1>x, <1>t, <1>u, <1>o DEF StepFacts, PhaseRun, SyncPcs, PullPcs, TailPcs,
       JournalPcs, ScanPcs, CohortPcs, CommitPcs, QueuedPcs, TargetPcs, CapturePcs
<1>3. PhaseJournal'
  BY <1>x, <1>t, <1>u DEF PhaseJournal, SyncPcs, PullPcs, TailPcs, JournalPcs, ScanPcs,
       CohortPcs, CommitPcs, QueuedPcs, TargetPcs, CapturePcs
<1>4. PhaseWrite'
  BY <1>x DEF PhaseWrite
<1>5. PhaseQueue'
  BY <1>x DEF PhaseQueue, SyncPcs, PullPcs, TailPcs, JournalPcs, ScanPcs, CohortPcs,
       CommitPcs, QueuedPcs, TargetPcs, CapturePcs
<1>6. PhaseSnap'
  <2>1. PendingIn(run.snap) => PendingIn(run.snap)'
    BY <1>h, <1>g, <1>u, PendingFrame DEF PendingIn
  <2> QED BY <2>1, <1>c, <1>x, <1>h DEF PhaseSnap, SyncPcs, PullPcs, TailPcs, JournalPcs,
       ScanPcs, CohortPcs, CommitPcs, QueuedPcs, TargetPcs, CapturePcs
<1>7. HeadKept'
  <2>1. CASE st'.head = st.head
    BY <2>1, <1>h, <1>g, <1>u, HeadFrame
  <2>2. CASE st'.head = run.target
    BY <2>2, <1>t, <1>g, HeadServed DEF DeviceInv
  <2> QED BY <1>x, <2>1, <2>2
<1>8. StateKnown'
  <2>1. n.main \in Anc(main) /\ n.sref \in Server'
    BY <1>x, <1>t, <1>h, <1>o DEF StepFacts, StateKnown
  <2> QED BY <2>1, <1>n, <1>h, <1>g, GuardedKnown DEF DeviceInv
<1> QED BY <1>g, <1>f, <1>1, <1>2, <1>3, <1>4, <1>5, <1>6, <1>7, <1>8 DEF DeviceInv, Shapes,
   Phases, Keeps

LEMMA ResultStateKeeps ==
  ASSUME DeviceInv, ResultState
  PROVE  DeviceInv'
<1>h. /\ Git /\ ServerTyped /\ StateTyped /\ QueueTyped /\ RefTyped /\ FilesTyped
      /\ ProvTyped /\ JournalTyped /\ RunTyped /\ AckTyped /\ PhaseRun /\ PhaseJournal
      /\ PhaseWrite /\ PhaseQueue /\ PhaseSnap /\ TreesSaved /\ FilesSaved /\ SnapSaved
      /\ Held /\ HeadKept /\ StateKnown /\ ConflictKnown /\ JournalKnown /\ ReviewKnown
      /\ JournalKept
  BY DEF DeviceInv, Shapes, Phases, Keeps
<1>u. UNCHANGED <<commits, main, devRef, conflict, file, buf, saved, q, ref, prov, jr, ack>>
  BY DEF ResultState, Done, rest, server, editor
<1>g. Grown /\ Git'
  BY <1>h, <1>u, StillGrown
<1>o. StepFacts
  BY <1>g, Facts DEF DeviceInv
<1>c. pc = "rstate" /\ run.commit \in Server /\ run.commit \in Node
  BY <1>h, <1>o DEF StepFacts, ResultState, PhaseRun, SyncPcs, PullPcs, TailPcs,
       JournalPcs, ScanPcs, CohortPcs, CommitPcs, QueuedPcs, TargetPcs, CapturePcs
<1>n. PICK n, l, e :
        /\ \/ n = [st EXCEPT !.sref = run.commit, !.label = l, !.err = e]
           \/ n = [st EXCEPT !.sref = run.commit, !.head = run.commit, !.label = l]
        /\ st' = Guarded(n) /\ e = "review"
        /\ l \in {"Review", "Checking", "Behind", "Synced"}
  BY DEF ResultState
<1>x. /\ pc' \in {"idle", "pull"} /\ run' \in {run, NoRun} /\ (pc' = "pull" => run' = run)
      /\ n.main = st.main /\ n.sref = run.commit /\ n.head \in {st.head, run.commit}
      /\ st'.head \in {st.head, run.commit}
  <2>1. /\ pc' \in {"idle", "pull"} /\ run' \in {run, NoRun} /\ (pc' = "pull" => run' = run)
    BY DEF ResultState, Done
  <2>2. n.main = st.main /\ n.sref = run.commit /\ n.head \in {st.head, run.commit}
    BY <1>n, <1>o DEF StepFacts
  <2>3. st'.head \in {st.head, n.head}
    BY <1>n, GuardedFields
  <2> QED BY <2>1, <2>2, <2>3
<1>f. /\ ServerTyped' /\ QueueTyped' /\ RefTyped' /\ FilesTyped' /\ ProvTyped'
      /\ JournalTyped' /\ AckTyped' /\ TreesSaved' /\ FilesSaved' /\ Held'
      /\ ConflictKnown' /\ JournalKnown' /\ ReviewKnown' /\ JournalKept'
  BY <1>h, <1>u, <1>g, ServerFrame, QueueFrame, RefFrame, FilesFrame, ProvFrame,
     JournalFrame, AckFrame, TreesFrame, FilesSavedFrame, HeldFrame, ConflictFrame,
     JournalKnownFrame, ReviewFrame, JournalKeptFrame
<1>1. StateTyped'
  <2>1. n \in StateRecords(Node')
    <3>1. st \in StateRecords(Node') /\ run.commit \in Node' /\ l \in Labels /\ e \in Codes
      BY <1>h, <1>n, <1>o, <1>c DEF StepFacts, StateTyped, StateRecords, Labels, Codes
    <3> QED BY <3>1, <1>n DEF StateRecords
  <2> QED BY <2>1, <1>h, <1>g, <1>n, GuardedState
<1>2. RunTyped'
  <2>1. CASE run' = NoRun
    BY <2>1, NoRunFields DEF RunTyped, None
  <2>2. CASE run' = run
    BY <2>2, <1>h, <1>g, RunFrame
  <2> QED BY <1>x, <2>1, <2>2
<1>3. PhaseRun'
  BY <1>x DEF PhaseRun, SyncPcs, PullPcs, TailPcs, JournalPcs, ScanPcs, CohortPcs,
       CommitPcs, QueuedPcs, TargetPcs, CapturePcs
<1>4. PhaseJournal'
  BY <1>x DEF PhaseJournal, SyncPcs, PullPcs, TailPcs, JournalPcs, ScanPcs, CohortPcs,
       CommitPcs, QueuedPcs, TargetPcs, CapturePcs
<1>5. PhaseWrite'
  BY <1>x DEF PhaseWrite
<1>6. PhaseQueue'
  BY <1>x DEF PhaseQueue, SyncPcs, PullPcs, TailPcs, JournalPcs, ScanPcs, CohortPcs,
       CommitPcs, QueuedPcs, TargetPcs, CapturePcs
<1>7. PhaseSnap'
  BY <1>x DEF PhaseSnap, SyncPcs, PullPcs, TailPcs, JournalPcs, ScanPcs, CohortPcs,
       CommitPcs, QueuedPcs, TargetPcs, CapturePcs
<1>8. SnapSaved'
  BY <1>x, <1>h, <1>u, NoRunFields DEF SnapSaved
<1>9. HeadKept'
  <2>1. CASE st'.head = st.head
    BY <2>1, <1>h, <1>g, <1>u, HeadFrame
  <2>2. CASE st'.head = run.commit
    BY <2>2, <1>c, <1>g, HeadServed DEF DeviceInv
  <2> QED BY <1>x, <2>1, <2>2
<1>10. StateKnown'
  <2>1. n.main \in Anc(main) /\ n.sref \in Server'
    BY <1>x, <1>c, <1>h, <1>o DEF StepFacts, StateKnown
  <2> QED BY <2>1, <1>n, <1>h, <1>g, GuardedKnown DEF DeviceInv
<1> QED BY <1>g, <1>f, <1>1, <1>2, <1>3, <1>4, <1>5, <1>6, <1>7, <1>8, <1>9, <1>10 DEF
   DeviceInv, Shapes, Phases, Keeps

LEMMA OrdinaryKeeps ==
  ASSUME DeviceInv, Ordinary
  PROVE  DeviceInv'
<1>h. /\ Git /\ ServerTyped /\ StateTyped /\ QueueTyped /\ RefTyped /\ FilesTyped
      /\ ProvTyped /\ JournalTyped /\ RunTyped /\ AckTyped /\ PhaseRun /\ PhaseJournal
      /\ PhaseWrite /\ PhaseQueue /\ PhaseSnap /\ TreesSaved /\ FilesSaved /\ SnapSaved
      /\ Held /\ HeadKept /\ StateKnown /\ ConflictKnown /\ JournalKnown /\ ReviewKnown
      /\ JournalKept
  BY DEF DeviceInv, Shapes, Phases, Keeps
<1>u. UNCHANGED <<main, devRef, conflict, file, buf, saved, st, q, prov, jr, ack>>
  BY DEF Ordinary, rest, server, editor
<1>b. PICK tree :
        /\ tree = (IF run.ret = "sync" THEN file ELSE run.snap)
        /\ pc = "ordinary"
        /\ \/ /\ pc' \in {"nochange", AfterCapture} /\ (pc' # "nochange" => run.ret # "sync")
              /\ run' = run /\ commits' = commits /\ ref' = ref
           \/ /\ commits' = Commit(tree, {ref.local}) /\ ref' = [ref EXCEPT !.local = Next1]
              /\ run' = [run EXCEPT !.commit = Next1] /\ pc' = "oqueue"
  BY DEF Ordinary
<1>t. /\ ref.local \in Node /\ tree \in Trees
      /\ \A k \in Paths : tree[k] \cap LocalEdits \subseteq saved[k]
  BY <1>h, <1>b DEF RefTyped, RunTyped, FilesTyped, FilesSaved, SnapSaved
<1>r. run.ret # "recover"
  BY <1>h, <1>b DEF PhaseRun, SyncPcs, PullPcs, TailPcs, JournalPcs, ScanPcs, CohortPcs,
       CommitPcs, QueuedPcs, TargetPcs, CapturePcs
<1>e. /\ Grown /\ Git'
      /\ \/ commits' = commits
         \/ /\ commits' = Commit(tree, {ref.local}) /\ Node' = Node \cup {Next1} /\ Next1 # 0
            /\ Next1 \in Node' /\ commits'[Next1].tree = tree
            /\ commits'[Next1].anc = {Next1} \cup Anc(ref.local)
  <2>1. devRef \in Node /\ devRef \in Anc(devRef) /\ {ref.local} \in SUBSET Node
    BY <1>h, <1>t, AncNode DEF ServerTyped
  <2>2. CASE commits' = commits
    BY <2>2, <1>h, <1>u, StillGrown
  <2>3. CASE commits' = Commit(tree, {ref.local})
    <3>1. /\ Grown /\ Git' /\ Node' = Node \cup {Next1} /\ Next1 # 0 /\ Next1 \in Node'
          /\ commits'[Next1].tree = tree
          /\ commits'[Next1].anc = {Next1} \cup UNION {Anc(c) : c \in {ref.local}}
      BY <2>1, <2>3, <1>t, <1>u, CommitGrown DEF DeviceInv
    <3>2. UNION {Anc(c) : c \in {ref.local}} = Anc(ref.local)
      OBVIOUS
    <3> QED BY <2>3, <3>1, <3>2
  <2> QED BY <1>b, <2>2, <2>3
<1>g. Grown /\ Git'
  BY <1>e
<1>o. StepFacts
  BY <1>g, Facts DEF DeviceInv
<1>x. /\ DOMAIN run' = DOMAIN run /\ run'.target = run.target /\ run'.ret = run.ret
      /\ run'.snap = run.snap /\ run'.commit \in None'
      /\ pc' = "oqueue" => /\ commits' = Commit(tree, {ref.local}) /\ run'.commit = Next1
                           /\ Next1 \in Node' /\ Next1 # 0 /\ commits'[Next1].tree = tree
      /\ pc' \in {"nochange", "ackw", "step", "oqueue"}
  <2>1. CASE run' = run /\ pc' # "oqueue"
    BY <2>1, <1>b, <1>o, <1>r, AfterCaptureCases DEF StepFacts
  <2>2. CASE /\ run' = [run EXCEPT !.commit = Next1] /\ commits' = Commit(tree, {ref.local})
             /\ pc' = "oqueue" /\ Next1 \in Node' /\ Next1 # 0 /\ commits'[Next1].tree = tree
    BY <2>2, <1>o DEF StepFacts, None
  <2>3. commits' = Commit(tree, {ref.local}) => Next1 \in Node' /\ Next1 # 0 /\ commits'[Next1].tree = tree
    <3>1. HAVE commits' = Commit(tree, {ref.local})
    <3>2. devRef \in Node /\ devRef \in Anc(devRef) /\ {ref.local} \in SUBSET Node
      BY <1>h, <1>t, AncNode DEF ServerTyped
    <3> QED BY <3>1, <3>2, <1>t, <1>u, CommitGrown DEF DeviceInv
  <2> QED BY <1>b, <2>1, <2>2, <2>3, <1>r, AfterCaptureCases
<1>f. /\ ServerTyped' /\ StateTyped' /\ QueueTyped' /\ FilesTyped' /\ ProvTyped'
      /\ JournalTyped' /\ AckTyped' /\ FilesSaved' /\ Held' /\ HeadKept' /\ StateKnown'
      /\ ConflictKnown' /\ JournalKnown' /\ ReviewKnown' /\ JournalKept'
  BY <1>h, <1>u, <1>g, ServerFrame, StateFrame, QueueFrame, FilesFrame, ProvFrame,
     JournalFrame, AckFrame, FilesSavedFrame, HeldFrame, HeadFrame, StateKnownFrame,
     ConflictFrame, JournalKnownFrame, ReviewFrame, JournalKeptFrame
<1>1. RefTyped'
  <2>1. CASE ref' = ref
    BY <2>1, <1>h, <1>g, RefFrame
  <2>2. CASE ref' = [ref EXCEPT !.local = Next1] /\ Next1 \in Node'
    BY <2>2, <1>o DEF StepFacts, RefTyped
  <2> QED BY <1>b, <1>x, <2>1, <2>2
<1>2. RunTyped'
  BY <1>x, <1>o DEF StepFacts, RunTyped
<1>3. PhaseRun'
  BY <1>x DEF PhaseRun, SyncPcs, PullPcs, TailPcs, JournalPcs, ScanPcs, CohortPcs,
       CommitPcs, QueuedPcs, TargetPcs, CapturePcs
<1>4. PhaseJournal'
  BY <1>x, <1>b, <1>r, <1>h, <1>u, AfterCaptureCases DEF PhaseJournal, SyncPcs, PullPcs,
       TailPcs, JournalPcs, ScanPcs, CohortPcs, CommitPcs, QueuedPcs, TargetPcs,
       CapturePcs
<1>5. PhaseWrite'
  BY <1>x DEF PhaseWrite
<1>6. PhaseQueue'
  BY <1>x DEF PhaseQueue, SyncPcs, PullPcs, TailPcs, JournalPcs, ScanPcs, CohortPcs,
       CommitPcs, QueuedPcs, TargetPcs, CapturePcs
<1>7. PhaseSnap'
  <2>1. PendingIn(tree)
    BY <1>h, <1>b, FileHolds DEF PhaseSnap, SyncPcs, PullPcs, TailPcs, JournalPcs,
         ScanPcs, CohortPcs, CommitPcs, QueuedPcs, TargetPcs, CapturePcs
  <2>2. SUFFICES ASSUME pc' = "oqueue", q'.pending # 0, NEW k \in Paths
                 PROVE  Local(q.pending, k)' \subseteq Served(k)' \cup Tree(run.commit)'[k]
    BY <1>x DEF PhaseSnap, PendingIn, SyncPcs, PullPcs, TailPcs, JournalPcs, ScanPcs,
         CohortPcs, CommitPcs, QueuedPcs, TargetPcs, CapturePcs
  <2>3. Tree(run.commit)' = tree
    BY <2>2, <1>x DEF Tree
  <2> QED BY <2>1, <2>2, <2>3, <1>h, <1>g, <1>u, PendingFrame
<1>8. TreesSaved'
  <2>1. CASE commits' = commits
    BY <2>1, <1>h, <1>u, TreesFrame
  <2>2. CASE commits' = Commit(tree, {ref.local})
    BY <2>2, <1>h, <1>t, <1>u, TreesGrow
  <2> QED BY <1>e, <2>1, <2>2
<1>9. SnapSaved'
  BY <1>x, <1>h, <1>u DEF SnapSaved
<1> QED BY <1>g, <1>f, <1>1, <1>2, <1>3, <1>4, <1>5, <1>6, <1>7, <1>8, <1>9 DEF DeviceInv,
   Shapes, Phases, Keeps

LEMMA CaptureHintedKeeps ==
  ASSUME DeviceInv, CaptureHinted
  PROVE  DeviceInv'
<1>h. /\ Git /\ ServerTyped /\ StateTyped /\ QueueTyped /\ RefTyped /\ FilesTyped
      /\ ProvTyped /\ JournalTyped /\ RunTyped /\ AckTyped /\ PhaseRun /\ PhaseJournal
      /\ PhaseWrite /\ PhaseQueue /\ PhaseSnap /\ TreesSaved /\ FilesSaved /\ SnapSaved
      /\ Held /\ HeadKept /\ StateKnown /\ ConflictKnown /\ JournalKnown /\ ReviewKnown
      /\ JournalKept
  BY DEF DeviceInv, Shapes, Phases, Keeps
<1>u. UNCHANGED <<main, devRef, conflict, file, buf, saved, q, prov, jr, ack>>
  BY DEF CaptureHinted, Checking, rest, server, editor
<1>b. PICK tree, d :
        /\ tree = [p \in Paths |-> IF p \in d THEN file[p] ELSE Tree(st.head)[p]]
        /\ pc = "capture"
        /\ \/ pc' = "nochange" /\ run' = run /\ commits' = commits /\ ref' = ref
           \/ /\ commits' = Commit(tree, {st.head}) /\ ref' = [ref EXCEPT !.local = Next1]
              /\ run' = [run EXCEPT !.commit = Next1] /\ pc' = "oqueue"
  BY DEF CaptureHinted
<1>t. /\ st.head \in Node /\ tree \in Trees
      /\ \A k \in Paths : tree[k] \cap LocalEdits \subseteq saved[k]
  <2>1. st.head \in Node
    BY <1>h DEF StateTyped
  <2>2. Tree(st.head) \in Trees /\ file \in Trees
    BY <2>1, <1>h, NodeRange DEF Git, FilesTyped
  <2>3. \A k \in Paths : /\ Tree(st.head)[k] \cap LocalEdits \subseteq saved[k]
                          /\ file[k] \cap LocalEdits \subseteq saved[k]
    BY <1>h, <2>1 DEF TreesSaved, FilesSaved, Local
  <2> QED BY <1>b, <2>1, <2>2, <2>3 DEF Trees
<1>e. /\ Grown /\ Git'
      /\ \/ commits' = commits
         \/ /\ commits' = Commit(tree, {st.head}) /\ Node' = Node \cup {Next1} /\ Next1 # 0
            /\ Next1 \in Node' /\ commits'[Next1].tree = tree
            /\ commits'[Next1].anc = {Next1} \cup Anc(st.head)
  <2>1. devRef \in Node /\ devRef \in Anc(devRef) /\ {st.head} \in SUBSET Node
    BY <1>h, <1>t, AncNode DEF ServerTyped
  <2>2. CASE commits' = commits
    BY <2>2, <1>h, <1>u, StillGrown
  <2>3. CASE commits' = Commit(tree, {st.head})
    <3>1. /\ Grown /\ Git' /\ Node' = Node \cup {Next1} /\ Next1 # 0 /\ Next1 \in Node'
          /\ commits'[Next1].tree = tree
          /\ commits'[Next1].anc = {Next1} \cup UNION {Anc(c) : c \in {st.head}}
      BY <2>1, <2>3, <1>t, <1>u, CommitGrown DEF DeviceInv
    <3>2. UNION {Anc(c) : c \in {st.head}} = Anc(st.head)
      OBVIOUS
    <3> QED BY <2>3, <3>1, <3>2
  <2> QED BY <1>b, <2>2, <2>3
<1>g. Grown /\ Git'
  BY <1>e
<1>o. StepFacts
  BY <1>g, Facts DEF DeviceInv
<1>x. /\ DOMAIN run' = DOMAIN run /\ run'.target = run.target /\ run'.ret = run.ret
      /\ run'.snap = run.snap /\ run'.commit \in None'
      /\ pc' = "oqueue" => /\ commits' = Commit(tree, {st.head}) /\ run'.commit = Next1
                           /\ Next1 \in Node' /\ Next1 # 0 /\ commits'[Next1].tree = tree
      /\ pc' \in {"nochange", "oqueue"}
  <2>1. CASE run' = run /\ pc' # "oqueue"
    BY <2>1, <1>b, <1>o DEF StepFacts
  <2>2. CASE /\ run' = [run EXCEPT !.commit = Next1] /\ commits' = Commit(tree, {st.head})
             /\ pc' = "oqueue" /\ Next1 \in Node' /\ Next1 # 0 /\ commits'[Next1].tree = tree
    BY <2>2, <1>o DEF StepFacts, None
  <2>3. commits' = Commit(tree, {st.head}) => Next1 \in Node' /\ Next1 # 0 /\ commits'[Next1].tree = tree
    <3>1. HAVE commits' = Commit(tree, {st.head})
    <3>2. devRef \in Node /\ devRef \in Anc(devRef) /\ {st.head} \in SUBSET Node
      BY <1>h, <1>t, AncNode DEF ServerTyped
    <3> QED BY <3>1, <3>2, <1>t, <1>u, CommitGrown DEF DeviceInv
  <2> QED BY <1>b, <2>1, <2>2, <2>3
<1>r. run.ret = "sync" /\ q.pending = 0
  BY <1>b, <1>h DEF PhaseRun, PhaseQueue, SyncPcs, PullPcs, TailPcs, JournalPcs, ScanPcs,
       CohortPcs, CommitPcs, QueuedPcs, TargetPcs, CapturePcs
<1>s. st' = st \/ st' = [st EXCEPT !.label = "Checking"]
  BY DEF CaptureHinted, Checking
<1>y. /\ st'.main = st.main /\ st'.head = st.head /\ st'.sref = st.sref /\ st'.err = st.err
      /\ st' = [main |-> st.main, head |-> st.head, sref |-> st.sref, label |-> st'.label,
                err |-> st.err] /\ st'.label \in {st.label, "Checking"}
  <2>1. CASE st' = st
    BY <2>1, <1>h DEF StateTyped
  <2>2. CASE st' = [st EXCEPT !.label = "Checking"]
    BY <2>2, <1>h DEF StateTyped
  <2> QED BY <1>s, <2>1, <2>2
<1>f. /\ ServerTyped' /\ QueueTyped' /\ FilesTyped' /\ ProvTyped' /\ JournalTyped'
      /\ AckTyped' /\ FilesSaved' /\ Held' /\ ConflictKnown' /\ JournalKnown'
      /\ ReviewKnown' /\ JournalKept'
  BY <1>h, <1>u, <1>g, ServerFrame, QueueFrame, FilesFrame, ProvFrame, JournalFrame,
     AckFrame, FilesSavedFrame, HeldFrame, ConflictFrame, JournalKnownFrame,
     ReviewFrame, JournalKeptFrame
<1>1. StateTyped'
  <2>1. CASE st' = st
    BY <2>1, <1>h, <1>g, StateFrame
  <2>2. CASE st' = [st EXCEPT !.label = "Checking"]
    BY <2>2, <1>h, <1>g, Relabelled DEF Labels
  <2> QED BY <1>s, <2>1, <2>2
<1>2. RefTyped'
  <2>1. CASE ref' = ref
    BY <2>1, <1>h, <1>g, RefFrame
  <2>2. CASE ref' = [ref EXCEPT !.local = Next1] /\ Next1 \in Node'
    BY <2>2, <1>o DEF StepFacts, RefTyped
  <2> QED BY <1>b, <1>x, <2>1, <2>2
<1>3. RunTyped'
  BY <1>x, <1>o DEF StepFacts, RunTyped
<1>4. PhaseRun'
  BY <1>x DEF PhaseRun, SyncPcs, PullPcs, TailPcs, JournalPcs, ScanPcs, CohortPcs,
       CommitPcs, QueuedPcs, TargetPcs, CapturePcs
<1>5. PhaseJournal'
  BY <1>x, <1>r DEF PhaseJournal, SyncPcs, PullPcs, TailPcs, JournalPcs, ScanPcs,
       CohortPcs, CommitPcs, QueuedPcs, TargetPcs, CapturePcs
<1>6. PhaseWrite'
  BY <1>x DEF PhaseWrite
<1>7. PhaseQueue'
  BY <1>x DEF PhaseQueue, SyncPcs, PullPcs, TailPcs, JournalPcs, ScanPcs, CohortPcs,
       CommitPcs, QueuedPcs, TargetPcs, CapturePcs
<1>8. PhaseSnap'
  BY <1>x, <1>r, <1>u DEF PhaseSnap, PendingIn, SyncPcs, PullPcs, TailPcs, JournalPcs,
       ScanPcs, CohortPcs, CommitPcs, QueuedPcs, TargetPcs, CapturePcs
<1>9. TreesSaved'
  <2>1. CASE commits' = commits
    BY <2>1, <1>h, <1>u, TreesFrame
  <2>2. CASE commits' = Commit(tree, {st.head})
    BY <2>2, <1>h, <1>t, <1>u, TreesGrow
  <2> QED BY <1>e, <2>1, <2>2
<1>10. SnapSaved'
  BY <1>x, <1>h, <1>u DEF SnapSaved
<1>11. HeadKept'
  BY <1>y, <1>h, <1>g, <1>u, HeadFrame
<1>12. StateKnown'
  BY <1>y, <1>h, <1>g, StateKnownFrame
<1> QED BY <1>g, <1>f, <1>1, <1>2, <1>3, <1>4, <1>5, <1>6, <1>7, <1>8, <1>9, <1>10, <1>11,
     <1>12
   DEF DeviceInv, Shapes, Phases, Keeps

LEMMA TailAcceptedKeeps ==
  ASSUME DeviceInv, TailAccepted
  PROVE  DeviceInv'
<1>h. /\ Git /\ ServerTyped /\ StateTyped /\ QueueTyped /\ RefTyped /\ FilesTyped
      /\ ProvTyped /\ JournalTyped /\ RunTyped /\ AckTyped /\ PhaseRun /\ PhaseJournal
      /\ PhaseWrite /\ PhaseQueue /\ PhaseSnap /\ TreesSaved /\ FilesSaved /\ SnapSaved
      /\ Held /\ HeadKept /\ StateKnown /\ ConflictKnown /\ JournalKnown /\ ReviewKnown
      /\ JournalKept
  BY DEF DeviceInv, Shapes, Phases, Keeps
<1>u. UNCHANGED <<main, devRef, conflict, file, buf, saved, q, prov, jr, ack, run>>
  BY DEF TailAccepted, rest, server, editor
<1>b. PICK tree, h, n, l :
        /\ tree = run.snap /\ pc = "tqueue" /\ pc' = AfterCapture
        /\ \/ commits' = commits /\ h = st.sref
           \/ commits' = Commit(tree, {ref.local}) /\ h = Next1
        /\ ref' = [ref EXCEPT !.local = h]
        /\ n = [st EXCEPT !.main = run.target, !.head = h, !.label = l] /\ st' = Guarded(n)
        /\ l \in {"Checking", "Behind"}
        /\ q.pending = 0
        /\ \A p \in Paths : tree[p] = Tree(st.sref)[p] \/ tree[p] = Tree(run.target)[p]
  BY DEF TailAccepted, OnlyAccepted
<1>t. /\ ref.local \in Node /\ tree \in Trees
      /\ \A k \in Paths : tree[k] \cap LocalEdits \subseteq saved[k]
  BY <1>h, <1>b DEF RefTyped, RunTyped, SnapSaved
<1>r. /\ run.target \in Anc(main) /\ run.target \in Server /\ run.target \in Node
      /\ run.ret \notin {"sync", "recover"} /\ jr.target # 0 /\ run.target = jr.target
      /\ st.sref \in Server /\ st.main \in Anc(main)
  BY <1>h, <1>b, ServerNodes DEF PhaseRun, PhaseJournal, StateKnown, SyncPcs, PullPcs,
       TailPcs, JournalPcs, ScanPcs, CohortPcs, CommitPcs, QueuedPcs, TargetPcs,
       CapturePcs
<1>e. /\ Grown /\ Git'
      /\ \/ commits' = commits
         \/ /\ commits' = Commit(tree, {ref.local}) /\ Node' = Node \cup {Next1} /\ Next1 # 0
            /\ Next1 \in Node' /\ commits'[Next1].tree = tree
            /\ commits'[Next1].anc = {Next1} \cup Anc(ref.local)
  <2>1. devRef \in Node /\ devRef \in Anc(devRef) /\ {ref.local} \in SUBSET Node
    BY <1>h, <1>t, AncNode DEF ServerTyped
  <2>2. CASE commits' = commits
    BY <2>2, <1>h, <1>u, StillGrown
  <2>3. CASE commits' = Commit(tree, {ref.local})
    <3>1. /\ Grown /\ Git' /\ Node' = Node \cup {Next1} /\ Next1 # 0 /\ Next1 \in Node'
          /\ commits'[Next1].tree = tree
          /\ commits'[Next1].anc = {Next1} \cup UNION {Anc(c) : c \in {ref.local}}
      BY <2>1, <2>3, <1>t, <1>u, CommitGrown DEF DeviceInv
    <3>2. UNION {Anc(c) : c \in {ref.local}} = Anc(ref.local)
      OBVIOUS
    <3> QED BY <2>3, <3>1, <3>2
  <2> QED BY <1>b, <2>2, <2>3
<1>g. Grown /\ Git'
  BY <1>e
<1>o. StepFacts
  BY <1>g, Facts DEF DeviceInv
<1>x. /\ pc' \in {"ackw", "step"} /\ h \in Node' /\ n.main = run.target /\ n.sref = st.sref
      /\ n.head = h /\ st'.head \in {st.head, h}
  <2>1. pc' \in {"ackw", "step"}
    BY <1>b, <1>r, AfterCaptureCases
  <2>3. commits' = Commit(tree, {ref.local}) => Next1 \in Node' /\ Next1 # 0 /\ commits'[Next1].tree = tree
    <3>1. HAVE commits' = Commit(tree, {ref.local})
    <3>2. devRef \in Node /\ devRef \in Anc(devRef) /\ {ref.local} \in SUBSET Node
      BY <1>h, <1>t, AncNode DEF ServerTyped
    <3> QED BY <3>1, <3>2, <1>t, <1>u, CommitGrown DEF DeviceInv
  <2>4. h \in Node'
    BY <2>3, <1>b, <1>o DEF StepFacts
  <2>5. n.main = run.target /\ n.sref = st.sref /\ n.head = h
    BY <1>b, <1>o DEF StepFacts
  <2>6. st'.head \in {st.head, n.head}
    BY <1>b, GuardedFields
  <2> QED BY <2>1, <2>4, <2>5, <2>6
<1>y. \A k \in Paths : commits'[h].tree[k] \cap LocalEdits \subseteq Served(k)
  <2>3. commits' = Commit(tree, {ref.local}) => Next1 \in Node' /\ Next1 # 0 /\ commits'[Next1].tree = tree
    <3>1. HAVE commits' = Commit(tree, {ref.local})
    <3>2. devRef \in Node /\ devRef \in Anc(devRef) /\ {ref.local} \in SUBSET Node
      BY <1>h, <1>t, AncNode DEF ServerTyped
    <3> QED BY <3>1, <3>2, <1>t, <1>u, CommitGrown DEF DeviceInv
  <2>1. \A k \in Paths : /\ Tree(st.sref)[k] \cap LocalEdits \subseteq Served(k)
                          /\ Tree(run.target)[k] \cap LocalEdits \subseteq Served(k)
    BY <1>r, ServedTree DEF Local
  <2>4. CASE h = st.sref
    BY <2>1, <2>4, <1>o DEF StepFacts, Tree
  <2>5. CASE commits' = Commit(tree, {ref.local}) /\ h = Next1
    <3>1. commits'[h].tree = tree
      BY <2>3, <2>5
    <3> QED BY <3>1, <2>1, <1>b
  <2> QED BY <1>b, <2>4, <2>5
<1>f. /\ ServerTyped' /\ QueueTyped' /\ FilesTyped' /\ ProvTyped' /\ JournalTyped'
      /\ RunTyped' /\ AckTyped' /\ FilesSaved' /\ SnapSaved' /\ Held' /\ ConflictKnown'
      /\ JournalKnown' /\ ReviewKnown' /\ JournalKept'
  BY <1>h, <1>u, <1>g, ServerFrame, QueueFrame, FilesFrame, ProvFrame, JournalFrame,
     RunFrame, AckFrame, FilesSavedFrame, SnapFrame, HeldFrame, ConflictFrame,
     JournalKnownFrame, ReviewFrame, JournalKeptFrame
<1>1. StateTyped'
  <2>1. n = [st EXCEPT !.main = run.target, !.head = h, !.label = l] /\ l \in Labels
        /\ st' = Guarded(n)
    BY <1>b DEF Labels
  <2>2. run.target \in Node' /\ st.sref \in Node' /\ h \in Node'
    BY <1>r, <1>x, <1>o DEF StepFacts
  <2>3. n \in StateRecords(Node')
    BY <2>1, <2>2, <1>o DEF StepFacts, StateRecords
  <2> QED BY <2>1, <2>3, <1>h, <1>g, GuardedState
<1>2. RefTyped'
  <2>1. ref' = [ref EXCEPT !.local = h] /\ h \in Node'
    BY <1>b, <1>x
  <2> QED BY <2>1, <1>o DEF StepFacts, RefTyped
<1>3. PhaseRun'
  BY <1>x DEF PhaseRun, SyncPcs, PullPcs, TailPcs, JournalPcs, ScanPcs, CohortPcs,
       CommitPcs, QueuedPcs, TargetPcs, CapturePcs
<1>4. PhaseJournal'
  BY <1>x, <1>r, <1>u DEF PhaseJournal, SyncPcs, PullPcs, TailPcs, JournalPcs, ScanPcs,
       CohortPcs, CommitPcs, QueuedPcs, TargetPcs, CapturePcs
<1>5. PhaseWrite'
  BY <1>x DEF PhaseWrite
<1>6. PhaseQueue'
  BY <1>x DEF PhaseQueue, SyncPcs, PullPcs, TailPcs, JournalPcs, ScanPcs, CohortPcs,
       CommitPcs, QueuedPcs, TargetPcs, CapturePcs
<1>7. PhaseSnap'
  BY <1>x DEF PhaseSnap, SyncPcs, PullPcs, TailPcs, JournalPcs, ScanPcs, CohortPcs,
       CommitPcs, QueuedPcs, TargetPcs, CapturePcs
<1>8. TreesSaved'
  <2>1. CASE commits' = commits
    BY <2>1, <1>h, <1>u, TreesFrame
  <2>2. CASE commits' = Commit(tree, {ref.local})
    BY <2>2, <1>h, <1>t, <1>u, TreesGrow
  <2> QED BY <1>e, <2>1, <2>2
<1>9. HeadKept'
  <2>1. CASE st'.head = st.head
    BY <2>1, <1>h, <1>g, <1>u, HeadFrame
  <2>2. CASE st'.head = h
    <3>1. \A k \in Paths : Local(st.head, k)' \subseteq Served(k)'
      BY <2>2, <1>y, <1>o DEF StepFacts, Local, Tree
    <3> QED BY <3>1 DEF HeadKept
  <2> QED BY <1>x, <2>1, <2>2
<1>10. StateKnown'
  <2>1. n.main \in Anc(main) /\ n.sref \in Server'
    BY <1>x, <1>r, <1>o DEF StepFacts
  <2>2. st' = Guarded(n)
    BY <1>b
  <2> QED BY <2>1, <2>2, <1>h, <1>g, GuardedKnown DEF DeviceInv
<1> QED BY <1>g, <1>f, <1>1, <1>2, <1>3, <1>4, <1>5, <1>6, <1>7, <1>8, <1>9, <1>10 DEF
   DeviceInv, Shapes, Phases, Keeps

-----------------------------------------------------------------------------

LEMMA InitInv == Init => DeviceInv
<1> SUFFICES ASSUME Init PROVE DeviceInv
  OBVIOUS
<1> DEFINE e == [p \in Paths |-> {}]
           r == [tree |-> e, anc |-> {1}]
<1>e. e \in Trees /\ \A p \in Paths : e[p] = {}
  BY DEF Trees
<1>r. r \in [tree : Trees, anc : SUBSET Nat]
  BY <1>e
<1> HIDE DEF e
<1>c. commits = <<r>> /\ DOMAIN commits = {1} /\ commits[1] = r
  BY DEF Init, e
<1>s. commits \in Seq([tree : Trees, anc : SUBSET Nat])
  BY <1>c, <1>r
<1>1. Node = {1} /\ Tree(1) = e /\ Anc(1) = {1}
  BY <1>c DEF Node, Tree, Anc
<1>2. Git
  BY <1>s, <1>1 DEF Git, GitTyped, GitAncestry
<1>3. Server = {1} /\ main = 1 /\ devRef = 1
  BY <1>1 DEF Init, Server
<1>4. /\ file = e /\ buf = e /\ saved = e /\ conflict = 0 /\ pc = "idle" /\ run = NoRun
      /\ jr = NoJournal /\ ack = 0
  BY DEF Init, e
<1>5. ServerTyped /\ StateTyped /\ QueueTyped /\ RefTyped /\ AckTyped
  BY <1>1, <1>3, <1>4 DEF Init, ServerTyped, StateTyped, QueueTyped, RefTyped, AckTyped, None,
     Labels, Codes, Statuses
<1>6. FilesTyped
  BY <1>e, <1>4 DEF FilesTyped, Trees
<1>7. ProvTyped
  BY DEF Init, ProvTyped, NoIntent, None
<1>8. JournalTyped
  BY <1>4 DEF JournalTyped, NoJournal, None, Marks
<1>9. RunTyped
  BY <1>4, NoRunFields DEF RunTyped, None
<1>10. Phases
  BY <1>4 DEF Phases, PhaseRun, PhaseJournal, PhaseWrite, PhaseQueue, PhaseSnap, SyncPcs,
       PullPcs, TailPcs, JournalPcs, ScanPcs, CohortPcs, CommitPcs, QueuedPcs, TargetPcs,
       CapturePcs
<1>11. TreesSaved /\ FilesSaved /\ Held
  BY <1>1, <1>4, <1>e DEF TreesSaved, FilesSaved, Held, Local
<1>12. SnapSaved
  BY <1>4, NoRunFields DEF SnapSaved
<1>13. HeadKept
  BY <1>1, <1>e DEF Init, HeadKept, Local
<1>14. StateKnown /\ ConflictKnown /\ JournalKnown /\ ReviewKnown
  BY <1>1, <1>3, <1>4 DEF Init, StateKnown, ConflictKnown, JournalKnown, ReviewKnown,
       NoJournal
<1>15. JournalKept
  BY <1>4 DEF JournalKept, NoJournal
<1> QED BY <1>2, <1>5, <1>6, <1>7, <1>8, <1>9, <1>10, <1>11, <1>12, <1>13, <1>14, <1>15
        DEF DeviceInv, Shapes, Keeps

LEMMA StutterKeeps ==
  ASSUME DeviceInv, UNCHANGED vars
  PROVE  DeviceInv'
<1>u. UNCHANGED <<commits, main, devRef, conflict, file, buf, saved, st, q, ref, prov, jr, ack, pc,
                  run>>
  BY DEF vars, server, editor
<1>h. /\ Git /\ ServerTyped /\ StateTyped /\ QueueTyped /\ RefTyped /\ FilesTyped
      /\ ProvTyped /\ JournalTyped /\ RunTyped /\ AckTyped
      /\ PhaseRun /\ PhaseJournal /\ PhaseWrite /\ PhaseQueue /\ PhaseSnap
      /\ TreesSaved /\ FilesSaved /\ SnapSaved /\ Held /\ HeadKept /\ StateKnown
      /\ ConflictKnown /\ JournalKnown /\ ReviewKnown /\ JournalKept
  BY DEF DeviceInv, Shapes, Phases, Keeps
<1>g. Grown /\ Git'
  BY <1>h, <1>u, StillGrown
<1>1. Shapes'
  BY <1>h, <1>u, <1>g, ServerFrame, StateFrame, QueueFrame, RefFrame, FilesFrame, ProvFrame,
     JournalFrame, RunFrame, AckFrame DEF Shapes
<1>2. Phases'
  BY <1>h, <1>u, <1>g, PhaseRunFrame, PhaseJournalFrame, PhaseWriteFrame, PhaseQueueFrame,
     PhaseSnapFrame DEF Phases
<1>3. Keeps'
  BY <1>h, <1>u, <1>g, TreesFrame, FilesSavedFrame, SnapFrame, HeldFrame, HeadFrame,
     StateKnownFrame, ConflictFrame, JournalKnownFrame, ReviewFrame, JournalKeptFrame DEF Keeps
<1> QED BY <1>1, <1>2, <1>3 DEF DeviceInv

LEMMA EngineKeeps ==
  ASSUME DeviceInv, EngineStep
  PROVE  DeviceInv'
<1>1. CASE InitClean
  BY <1>1, InitCleanKeeps
<1>2. CASE InitJournal
  BY <1>2, InitJournalKeeps
<1>3. CASE AckSend(TRUE)
  BY <1>3, AckSendKeeps
<1>4. CASE Flush
  BY <1>4, FlushKeeps
<1>5. CASE RepairRef
  BY <1>5, RepairRefKeeps
<1>6. CASE Reconcile
  BY <1>6, ReconcileKeeps
<1>7. CASE CaptureFull
  BY <1>7, CaptureFullKeeps
<1>8. CASE Cohort
  BY <1>8, CohortKeeps
<1>9. CASE Classify
  BY <1>9, ClassifyKeeps
<1>10. CASE Intent
  BY <1>10, IntentKeeps
<1>11. CASE CohortRef
  BY <1>11, CohortRefKeeps
<1>12. CASE IntentCommitted
  BY <1>12, IntentCommittedKeeps
<1>13. CASE IntentQueued
  BY <1>13, IntentQueuedKeeps
<1>14. CASE IntentState
  BY <1>14, IntentStateKeeps
<1>15. CASE Ordinary
  BY <1>15, OrdinaryKeeps
<1>16. CASE OrdinaryQueued
  BY <1>16, OrdinaryQueuedKeeps
<1>17. CASE OrdinaryState
  BY <1>17, OrdinaryStateKeeps
<1>18. CASE NoChange
  BY <1>18, NoChangeKeeps
<1>19. CASE PushIntegrated(TRUE)
  BY <1>19, PushIntegratedKeeps
<1>20. CASE PushAgain(TRUE)
  BY <1>20, PushAgainKeeps
<1>21. CASE ResultRecorded
  BY <1>21, ResultRecordedKeeps
<1>22. CASE ResultQueued
  BY <1>22, ResultQueuedKeeps
<1>23. CASE ResultState
  BY <1>23, ResultStateKeeps
<1>24. CASE Pull
  BY <1>24, PullKeeps
<1>25. CASE ApplyBase
  BY <1>25, ApplyBaseKeeps
<1>26. CASE Plan
  BY <1>26, PlanKeeps
<1>27. CASE Retain
  BY <1>27, RetainKeeps
<1>28. CASE Revalidate
  BY <1>28, RevalidateKeeps
<1>29. CASE Verify
  BY <1>29, VerifyKeeps
<1>30. CASE TailFlush
  BY <1>30, TailFlushKeeps
<1>31. CASE TailCapture
  BY <1>31, TailCaptureKeeps
<1>32. CASE BootCapture
  BY <1>32, BootCaptureKeeps
<1>33. CASE Refs
  BY <1>33, RefsKeeps
<1>34. CASE CommitJournal
  BY <1>34, CommitJournalKeeps
<1>35. CASE ApplyState
  BY <1>35, ApplyStateKeeps
<1>36. CASE TailAccepted
  BY <1>36, TailAcceptedKeeps
<1>37. CASE TailQueue
  BY <1>37, TailQueueKeeps
<1>38. CASE TailStep
  BY <1>38, TailStepKeeps
<1>39. CASE AckWrite
  BY <1>39, AckWriteKeeps
<1>40. CASE ClearJournal
  BY <1>40, ClearJournalKeeps
<1>41. CASE Settle
  BY <1>41, SettleKeeps
<1>42. CASE \E p \in Paths : CompareFile(p) \/ CopyFile(p) \/ WriteFile(p)
  BY <1>42, CompareFileKeeps, CopyFileKeeps, WriteFileKeeps
<1>43. CASE Rewrite \/ Bundle
  BY <1>43, RewriteKeeps, BundleKeeps
<1> QED BY <1>1, <1>2, <1>3, <1>4, <1>5, <1>6, <1>7, <1>8, <1>9, <1>10, <1>11, <1>12,
     <1>13, <1>14, <1>15, <1>16, <1>17, <1>18, <1>19, <1>20, <1>21, <1>22, <1>23, <1>24,
     <1>25, <1>26, <1>27, <1>28, <1>29, <1>30, <1>31, <1>32, <1>33, <1>34, <1>35, <1>36,
     <1>37, <1>38, <1>39, <1>40, <1>41, <1>42, <1>43 DEF EngineStep

LEMMA EnvironmentKeeps ==
  ASSUME DeviceInv, Environment
  PROVE  DeviceInv'
<1>1. CASE \E p \in Paths, e \in Edits : Type(p, e) \/ RemotePush(p, e)
  BY <1>1, TypeKeeps, RemotePushKeeps
<1>2. CASE \E p \in Paths : Save(p) \/ Reload(p) \/ TailUnstable(p)
  BY <1>2, SaveKeeps, ReloadKeeps, TailUnstableKeeps
<1>3. CASE Watch
  BY <1>3, WatchKeeps
<1>4. CASE \E i \in {h.id : h \in prov.hor} : Elapse(i)
  BY <1>4, ElapseKeeps
<1>5. CASE \E both \in BOOLEAN : Resolve(both)
  BY <1>5, ResolveKeeps
<1> QED BY <1>1, <1>2, <1>3, <1>4, <1>5 DEF Environment

LEMMA NextKeeps ==
  ASSUME DeviceInv, [Next]_vars
  PROVE  DeviceInv'
<1>1. CASE EngineStep
  BY <1>1, EngineKeeps
<1>2. CASE Environment
  BY <1>2, EnvironmentKeeps
<1>3. CASE SyncStart \/ Start \/ BlockedPoll \/ RetireHorizons \/ CaptureHinted \/ Crash
  BY <1>3, SyncStartKeeps, StartKeeps, BlockedPollKeeps, RetireHorizonsKeeps,
       CaptureHintedKeeps,
     CrashKeeps
<1>4. CASE \E r \in BOOLEAN : PushConflicted(r)
  BY <1>4, PushConflictedKeeps
<1>5. CASE PushIntegrated(FALSE) \/ PushAgain(FALSE) \/ AckSend(FALSE)
  BY <1>5, PushIntegratedKeeps, PushAgainKeeps, AckSendKeeps
<1>6. CASE UNCHANGED vars
  BY <1>6, StutterKeeps
<1> QED BY <1>1, <1>2, <1>3, <1>4, <1>5, <1>6 DEF Next

\* The inductive invariant holds in every reachable state of the device and of
\* the server, whatever the number of crashes, lost answers and stale saves.
THEOREM InvariantHolds == Spec => []DeviceInv
<1>1. DeviceInv /\ [Next]_vars => DeviceInv'
  BY NextKeeps
<1> QED BY <1>1, InitInv, PTL DEF Spec

\* The state files, refs and buffers of the engine are well-formed and name
\* commits that exist (state.json, queue.json, the refs of the local clone).
THEOREM TypeCorrect == Spec => []TypeOK
<1>1. DeviceInv => TypeOK
  <2> SUFFICES ASSUME DeviceInv PROVE TypeOK
    OBVIOUS
  <2>1. /\ main \in Node /\ devRef \in Node /\ conflict \in None
        /\ \A c \in Node : Anc(c) \subseteq 1 .. c
    BY DEF DeviceInv, Shapes, ServerTyped, Git, GitAncestry
  <2>2. file \in Trees /\ buf \in Trees /\ q.pending \in None /\ q.status \in Statuses
        /\ ack \in None /\ jr.copy \in [Paths -> Marks]
    BY DEF DeviceInv, Shapes, FilesTyped, QueueTyped, AckTyped, JournalTyped
  <2>3. {st.main, st.head, st.sref, ref.main, ref.local} \subseteq Node /\ st.label \in Labels
    BY DEF DeviceInv, Shapes, StateTyped, RefTyped
  <2> QED BY <2>1, <2>2, <2>3 DEF TypeOK, Node, None, Trees, Statuses, Marks
<1> QED BY <1>1, InvariantHolds, PTL

\* No edit that reached a visible file is ever lost: neither the apply, nor a
\* crash between any two durable writes, nor a retry overwrites the only copy
\* (writeTargetFiles and the deferred paths of the apply journal).
THEOREM EditsKept == Spec => []NoEditLost
<1>1. DeviceInv => NoEditLost
  <2> SUFFICES ASSUME DeviceInv, NEW p \in Paths, NEW e \in saved[p], e \notin file[p]
               PROVE  \E c \in UNION {Anc(k) : k \in {main, st.head, ref.local, devRef}
                              \cup ({q.pending} \ {0})} : e \in Tree(c)[p]
    BY DEF NoEditLost
  <2>1. e \in Served(p)
    BY DEF DeviceInv, Keeps, Held
  <2>2. PICK c \in Server : e \in Tree(c)[p]
    BY <2>1 DEF Served
  <2>3. c \in UNION {Anc(k) : k \in {main, st.head, ref.local, devRef} \cup ({q.pending} \ {0})}
    BY <2>2 DEF Server
  <2> QED BY <2>2, <2>3
<1> QED BY <1>1, InvariantHolds, PTL

=============================================================================
