----------------------- MODULE DeviceRecoveryProofs -----------------------
(***************************************************************************)
(* The apply journal of DeviceSync: wherever and however often the host    *)
(* was killed, a recovery finds a journal that agrees with state.json, the *)
(* refs, the acknowledgement and its bundle, and refuses it only for a     *)
(* displaced copy.  And, until it is first killed, the device never        *)
(* diverges from the server.                                               *)
(***************************************************************************)
EXTENDS DeviceSyncProofs

AppliedPcs == {"tqueue", "step", "ackw", "clear"}
RunPcs == {"flush", "repair", "reconcile", "capture", "nochange", "push", "result", "rqueue",
           "rstate", "pull", "apply", "plan"}
RecoverPcs == {"icommit", "iqueue", "istate"}

\* A journal is open exactly if it names a target.
Open == jr.target # 0

\* An open journal names the main the device shows, before the apply or after.
JournalPrior ==
  Open => /\ st.main \in {jr.target, jr.prior} /\ ref.main \in {jr.target, jr.prior}
          /\ ack \in {0, jr.target} /\ jr.prior \in Anc(jr.target)

\* Without one, state.json and the ref agree.
RefAgrees == ~ Open => ref.main = st.main

\* The refs move before the state, and the acknowledgement and the steps of
\* the tail follow both.
Moved == pc \in {"commitj", "astate"} => ref.main = jr.target

Applied ==
  /\ Open /\ (ack # 0 \/ jr.step # "none") => st.main = jr.target /\ ref.main = jr.target
  /\ pc \in AppliedPcs => /\ Open /\ st.main = jr.target /\ ref.main = jr.target
                          /\ run.target = jr.target
  /\ pc \in CapturePcs /\ run.ret \notin {"sync", "recover"} =>
       st.main = jr.target /\ ref.main = jr.target

\* A sync that captures, proposes or pulls has no journal, and has sent the
\* acknowledgement of the last apply.
Unjournaled ==
  /\ pc \in RunPcs => ~ Open /\ ack = 0
  /\ pc \in CapturePcs /\ run.ret = "sync" => ~ Open /\ ack = 0
  /\ pc \in CapturePcs /\ run.ret = "recover" => ~ Open
  /\ pc \in {"ack0", "ack", "settle"} => ~ Open

\* A device under review is idle, down, or has just been restarted.
Reviewed ==
  st.err = "review" =>
    /\ ~ Open /\ ack = 0
    /\ pc \in {"idle", "down", "init"} \cup RecoverPcs
    /\ pc = "init" => run.ret = "boot"
    /\ pc \in RecoverPcs => run.ret = "recover"

\* The pulled target carries the main the device shows.
Pulled == pc \in PullPcs => st.main \in Anc(run.target)

\* The bundle is named by the journal before any file is touched, and holds
\* what the journal holds.
EvidencePcs == {"revalidate", "rewrite", "write", "tflush", "tsnap", "bsnap", "refs", "commitj"}
Bundled == jr.bundle # NoBundle \/ jr.affected = {}
Evident == (Open => Evidenced) /\ (pc \in EvidencePcs => Bundled)

\* A journal is refused for a copy, and nothing runs until the next start.
Refused == st.err = "recovery" => Spoiled # {} /\ pc \in {"idle", "down", "init"}

RecoveryInv ==
  /\ JournalPrior /\ RefAgrees /\ Moved /\ Applied /\ Unjournaled /\ Reviewed /\ Pulled
  /\ Evident /\ Refused

-----------------------------------------------------------------------------

LEMMA JournalSame ==
  ASSUME jr' = jr
  PROVE  (Evidenced => Evidenced') /\ (Bundled' <=> Bundled) /\ Spoiled' = Spoiled
BY DEF Evidenced, Bundled, Spoiled, Frozen

\* The evidence outlives every change of the journal but those of its bundle,
\* and a change of phase if there is a bundle.
LEMMA EvidenceStays ==
  ASSUME jr'.target = jr.target, jr'.prior = jr.prior, jr'.sref = jr.sref,
         jr'.affected = jr.affected, jr'.pre = jr.pre, jr'.bundle = jr.bundle,
         jr'.phase = jr.phase \/ Bundled
  PROVE  /\ (Evidenced => Evidenced') /\ (Bundled' <=> Bundled)
         /\ jr'.copy = jr.copy => Spoiled' = Spoiled
BY DEF Evidenced, Bundled, Spoiled, Frozen

\* What the steps below need of the first invariant.
RecoveryFacts ==
  /\ DOMAIN st = {"main", "head", "sref", "label", "err"}
  /\ DOMAIN ref = {"main", "local"}
  /\ DOMAIN jr = {"target", "base", "prior", "sref", "phase", "affected", "touched", "pre",
                  "deferred", "step", "bundle", "copy"}
  /\ DOMAIN run = {"target", "snap", "base", "moved", "clean", "todo", "seen", "cohort",
                   "result", "ret", "commit", "defer"}
  /\ Open <=> jr # NoJournal
  /\ Open => jr.target \in Node
  /\ pc \in PullPcs => run.target \in Node
  /\ st.main \in Anc(main)
  /\ 0 \notin Node
  /\ \A a, c \in Node : a \in Anc(c) /\ c \in Anc(a) => a = c
  /\ \A c \in Node : Anc(c) \subseteq Node

LEMMA RecoveryFact ==
  ASSUME DeviceInv
  PROVE  RecoveryFacts
<1>1. Git /\ ServerTyped /\ PhaseRun /\ JournalKnown /\ StateKnown
  BY DEF DeviceInv, Shapes, Phases, Keeps
<1>2. Anc(main) \subseteq Node /\ 0 \notin Node
  <2>1. Anc(main) \subseteq Server /\ Server \subseteq Node /\ 0 \notin Server
    BY <1>1, ServerNodes
  <2> QED BY <2>1, <1>1, NodeRange DEF Git
<1>3. ASSUME NEW a \in Node, NEW c \in Node, a \in Anc(c), c \in Anc(a)
      PROVE  a = c
  <2>1. a \in 1 .. c /\ c \in 1 .. a
    BY <1>1, <1>3 DEF Git, GitAncestry
  <2>2. a \in Nat /\ c \in Nat
    BY <1>1, NodeRange DEF Git
  <2> QED BY <2>1, <2>2
<1>4. Open <=> jr # NoJournal
  BY <1>1 DEF JournalKnown, NoJournal, Open
<1>5. /\ DOMAIN st = {"main", "head", "sref", "label", "err"}
      /\ DOMAIN ref = {"main", "local"}
      /\ DOMAIN jr = {"target", "base", "prior", "sref", "phase", "affected", "touched", "pre",
                      "deferred", "step", "bundle", "copy"}
      /\ DOMAIN run = {"target", "snap", "base", "moved", "clean", "todo", "seen", "cohort",
                       "result", "ret", "commit", "defer"}
  BY DEF DeviceInv, Shapes, StateTyped, RefTyped, JournalTyped, RunTyped
<1>6. /\ Open => jr.target \in Node
      /\ pc \in PullPcs => run.target \in Node
      /\ st.main \in Anc(main)
  BY <1>1, <1>2 DEF JournalKnown, Open, PhaseRun, TargetPcs, StateKnown
<1>7. \A c \in Node : Anc(c) \subseteq Node
  BY <1>1, AncNode
<1> QED BY <1>2, <1>3, <1>4, <1>5, <1>6, <1>7 DEF RecoveryFacts

\* A commit never changes the ancestors of an older one.
LEMMA AncestorsStay ==
  ASSUME DeviceInv, commits' = commits \/ \E t, s : commits' = Commit(t, s)
  PROVE  \A c \in Node : Anc(c)' = Anc(c)
<1>1. CASE commits' = commits
  BY <1>1 DEF Anc
<1>2. CASE \E t, s : commits' = Commit(t, s)
  <2>1. PICK t, s : commits' = Commit(t, s)
    BY <1>2
  <2>2. PICK r : commits' = Append(commits, r)
    BY <2>1 DEF Commit
  <2>3. GitTyped
    BY DEF DeviceInv, Shapes, Git
  <2>4. Len(commits) \in Nat /\ Node = 1 .. Len(commits)
    BY <2>3, NodeRange
  <2>5. commits \in Seq([tree : Trees, anc : SUBSET Nat])
    BY <2>3 DEF GitTyped
  <2>6. \A c \in 1 .. Len(commits) : commits'[c] = commits[c]
    BY <2>2, <2>4, <2>5
  <2> QED BY <2>4, <2>6 DEF Anc
<1> QED BY <1>1, <1>2

\* The cursors, the journal and the phase are what they were.
LEMMA RecoveryFrame ==
  ASSUME RecoveryFacts, RecoveryInv, \A c \in Node : Anc(c)' = Anc(c),
         st'.main = st.main, st'.err = st.err, ref'.main = ref.main, ack' = ack, pc' = pc,
         jr'.target = jr.target, jr'.prior = jr.prior, jr'.step = jr.step,
         run'.ret = run.ret, run'.target = run.target,
         Evidenced => Evidenced', Bundled' <=> Bundled, Spoiled' = Spoiled
  PROVE  RecoveryInv'
<1>1. JournalPrior'
  BY DEF RecoveryInv, RecoveryFacts, JournalPrior, Open
<1>2. Pulled'
  BY DEF RecoveryInv, RecoveryFacts, Pulled
<1>3. RefAgrees' /\ Moved' /\ Applied' /\ Unjournaled' /\ Reviewed'
  BY DEF RecoveryInv, RefAgrees, Moved, Applied, Unjournaled, Reviewed, Open
<1>4. Evident' /\ Refused'
  BY DEF RecoveryInv, Evident, Refused, Open
<1> QED BY <1>1, <1>2, <1>3, <1>4 DEF RecoveryInv

LEMMA TypeRecovers ==
  ASSUME NEW p, NEW e, DeviceInv, RecoveryInv, Type(p, e)
  PROVE  RecoveryInv'
<1>f. RecoveryFacts /\ PhaseRun /\ PhaseJournal
  BY RecoveryFact DEF DeviceInv, Phases
<1>a. \A c \in Node : Anc(c)' = Anc(c)
  BY AncestorsStay DEF Type, rest
<1>1. UNCHANGED <<st, ref, jr, ack, pc, run>>
  BY <1>f DEF Type, RecoveryFacts
<1> QED BY <1>f, <1>a, <1>1, JournalSame, RecoveryFrame

LEMMA SaveRecovers ==
  ASSUME NEW p, DeviceInv, RecoveryInv, Save(p)
  PROVE  RecoveryInv'
<1>f. RecoveryFacts /\ PhaseRun /\ PhaseJournal
  BY RecoveryFact DEF DeviceInv, Phases
<1>a. \A c \in Node : Anc(c)' = Anc(c)
  BY AncestorsStay DEF Save, rest
<1>1. UNCHANGED <<st, ref, jr, ack, pc, run>>
  BY <1>f DEF Save, RecoveryFacts
<1> QED BY <1>f, <1>a, <1>1, JournalSame, RecoveryFrame

LEMMA WatchRecovers ==
  ASSUME DeviceInv, RecoveryInv, Watch
  PROVE  RecoveryInv'
<1>f. RecoveryFacts /\ PhaseRun /\ PhaseJournal
  BY RecoveryFact DEF DeviceInv, Phases
<1>a. \A c \in Node : Anc(c)' = Anc(c)
  BY AncestorsStay DEF Watch, rest
<1>1. /\ UNCHANGED <<ref, jr, ack, pc>>
      /\ st'.main = st.main /\ st'.err = st.err
      /\ run'.ret = run.ret /\ run'.target = run.target
  BY <1>f DEF Watch, RecoveryFacts
<1> QED BY <1>f, <1>a, <1>1, JournalSame, RecoveryFrame

LEMMA ReloadRecovers ==
  ASSUME NEW p, DeviceInv, RecoveryInv, Reload(p)
  PROVE  RecoveryInv'
<1>f. RecoveryFacts /\ PhaseRun /\ PhaseJournal
  BY RecoveryFact DEF DeviceInv, Phases
<1>a. \A c \in Node : Anc(c)' = Anc(c)
  BY AncestorsStay DEF Reload, rest
<1>1. UNCHANGED <<st, ref, jr, ack, pc, run>>
  BY <1>f DEF Reload, RecoveryFacts
<1> QED BY <1>f, <1>a, <1>1, JournalSame, RecoveryFrame

LEMMA ElapseRecovers ==
  ASSUME NEW i, DeviceInv, RecoveryInv, Elapse(i)
  PROVE  RecoveryInv'
<1>f. RecoveryFacts /\ PhaseRun /\ PhaseJournal
  BY RecoveryFact DEF DeviceInv, Phases
<1>a. \A c \in Node : Anc(c)' = Anc(c)
  BY AncestorsStay DEF Elapse, rest
<1>1. UNCHANGED <<st, ref, jr, ack, pc, run>>
  BY <1>f DEF Elapse, RecoveryFacts
<1> QED BY <1>f, <1>a, <1>1, JournalSame, RecoveryFrame

LEMMA RemotePushRecovers ==
  ASSUME NEW p, NEW e, DeviceInv, RecoveryInv, RemotePush(p, e)
  PROVE  RecoveryInv'
<1>f. RecoveryFacts /\ PhaseRun /\ PhaseJournal
  BY RecoveryFact DEF DeviceInv, Phases
<1>a. \A c \in Node : Anc(c)' = Anc(c)
  BY AncestorsStay DEF RemotePush, rest
<1>1. UNCHANGED <<st, ref, jr, ack, pc, run>>
  BY <1>f DEF RemotePush, RecoveryFacts
<1> QED BY <1>f, <1>a, <1>1, JournalSame, RecoveryFrame

LEMMA ResolveRecovers ==
  ASSUME NEW both, DeviceInv, RecoveryInv, Resolve(both)
  PROVE  RecoveryInv'
<1>f. RecoveryFacts /\ PhaseRun /\ PhaseJournal
  BY RecoveryFact DEF DeviceInv, Phases
<1>a. \A c \in Node : Anc(c)' = Anc(c)
  BY AncestorsStay DEF Resolve, rest
<1>1. UNCHANGED <<st, ref, jr, ack, pc, run>>
  BY <1>f DEF Resolve, RecoveryFacts
<1> QED BY <1>f, <1>a, <1>1, JournalSame, RecoveryFrame

LEMMA RetireHorizonsRecovers ==
  ASSUME DeviceInv, RecoveryInv, RetireHorizons
  PROVE  RecoveryInv'
<1>f. RecoveryFacts /\ PhaseRun /\ PhaseJournal
  BY RecoveryFact DEF DeviceInv, Phases
<1>a. \A c \in Node : Anc(c)' = Anc(c)
  BY AncestorsStay DEF RetireHorizons, rest
<1>1. UNCHANGED <<st, ref, jr, ack, pc, run>>
  BY <1>f DEF RetireHorizons, RecoveryFacts
<1> QED BY <1>f, <1>a, <1>1, JournalSame, RecoveryFrame

LEMMA WriteFileRecovers ==
  ASSUME NEW p, DeviceInv, RecoveryInv, WriteFile(p)
  PROVE  RecoveryInv'
<1>f. RecoveryFacts /\ PhaseRun /\ PhaseJournal
  BY RecoveryFact DEF DeviceInv, Phases
<1>a. \A c \in Node : Anc(c)' = Anc(c)
  BY AncestorsStay DEF WriteFile, rest
<1>1. /\ UNCHANGED <<st, ref, ack, pc>>
      /\ run'.ret = run.ret /\ run'.target = run.target
      /\ jr'.target = jr.target /\ jr'.prior = jr.prior /\ jr'.step = jr.step
  BY <1>f DEF WriteFile, Deferred, RecoveryFacts
<1>v. (Evidenced => Evidenced') /\ (Bundled' <=> Bundled) /\ Spoiled' = Spoiled
  <2>1. /\ jr'.sref = jr.sref /\ jr'.affected = jr.affected /\ jr'.pre = jr.pre
        /\ jr'.bundle = jr.bundle /\ jr'.copy = jr.copy /\ jr'.phase = jr.phase
    BY <1>f DEF WriteFile, Deferred, RecoveryFacts
  <2> QED BY <1>1, <2>1, EvidenceStays
<1> QED BY <1>f, <1>a, <1>1, <1>v, RecoveryFrame

LEMMA CompareFileRecovers ==
  ASSUME NEW p, DeviceInv, RecoveryInv, CompareFile(p)
  PROVE  RecoveryInv'
<1>f. RecoveryFacts /\ PhaseRun /\ PhaseJournal
  BY RecoveryFact DEF DeviceInv, Phases
<1>a. \A c \in Node : Anc(c)' = Anc(c)
  BY AncestorsStay DEF CompareFile, rest
<1>1. /\ UNCHANGED <<st, ref, ack, pc>>
      /\ run'.ret = run.ret /\ run'.target = run.target
      /\ jr'.target = jr.target /\ jr'.prior = jr.prior /\ jr'.step = jr.step
  BY <1>f DEF CompareFile, Deferred, RecoveryFacts
<1>v. (Evidenced => Evidenced') /\ (Bundled' <=> Bundled) /\ Spoiled' = Spoiled
  <2>1. /\ jr'.sref = jr.sref /\ jr'.affected = jr.affected /\ jr'.pre = jr.pre
        /\ jr'.bundle = jr.bundle /\ jr'.copy = jr.copy /\ jr'.phase = jr.phase
    BY <1>f DEF CompareFile, Deferred, RecoveryFacts
  <2> QED BY <1>1, <2>1, EvidenceStays
<1> QED BY <1>f, <1>a, <1>1, <1>v, RecoveryFrame

LEMMA SyncStartRecovers ==
  ASSUME DeviceInv, RecoveryInv, SyncStart
  PROVE  RecoveryInv'
<1>f. RecoveryFacts /\ PhaseRun /\ PhaseJournal
  BY RecoveryFact DEF DeviceInv, Phases
<1>a. \A c \in Node : Anc(c)' = Anc(c)
  BY AncestorsStay DEF SyncStart, rest
<1>1. /\ UNCHANGED <<st, ref, jr, ack>>
      /\ pc = "idle" /\ st.err # "review" /\ pc' = "init" /\ run'.ret = "sync"
  BY <1>f DEF SyncStart, RecoveryFacts, NoRun
<1> QED BY <1>f, <1>a, <1>1, JournalSame DEF RecoveryInv, RecoveryFacts, PhaseRun,
   PhaseJournal, JournalPrior, RefAgrees, Moved, Applied, Unjournaled, Reviewed, Pulled,
   Evident, Refused, EvidencePcs, Open, AppliedPcs, RunPcs, RecoverPcs, PullPcs,
   TailPcs, JournalPcs, ScanPcs, CohortPcs, CommitPcs, QueuedPcs, TargetPcs, CapturePcs,
   SyncPcs

LEMMA CrashRecovers ==
  ASSUME DeviceInv, RecoveryInv, Crash
  PROVE  RecoveryInv'
<1>f. RecoveryFacts /\ PhaseRun /\ PhaseJournal
  BY RecoveryFact DEF DeviceInv, Phases
<1>a. \A c \in Node : Anc(c)' = Anc(c)
  BY AncestorsStay DEF Crash, rest
<1>1. /\ UNCHANGED <<st, ref, ack>>
      /\ pc' = "down"
      /\ jr'.target = jr.target /\ jr'.prior = jr.prior /\ jr'.step = jr.step
  BY <1>f DEF Crash, RecoveryFacts
<1>v. (Evidenced => Evidenced') /\ (Bundled' <=> Bundled) /\ (Spoiled # {} => Spoiled' # {})
  <2>1. PICK S \in SUBSET Copying :
          jr' = [jr EXCEPT !.copy = [p \in Paths |-> IF p \in S THEN "torn" ELSE jr.copy[p]]]
    BY DEF Crash
  <2>2. /\ jr'.sref = jr.sref /\ jr'.affected = jr.affected /\ jr'.pre = jr.pre
        /\ jr'.bundle = jr.bundle /\ jr'.phase = jr.phase
        /\ jr'.copy = [p \in Paths |-> IF p \in S THEN "torn" ELSE jr.copy[p]]
    BY <2>1, <1>f DEF RecoveryFacts
  <2>3. jr.affected \subseteq Paths
    BY DEF DeviceInv, Shapes, JournalTyped
  <2>4. Spoiled \subseteq Spoiled'
    BY <2>2, <2>3 DEF Spoiled
  <2> QED BY <1>1, <2>2, <2>4, EvidenceStays
<1> QED BY <1>f, <1>a, <1>1, <1>v DEF RecoveryInv, RecoveryFacts, PhaseRun,
   PhaseJournal, JournalPrior, RefAgrees, Moved, Applied, Unjournaled, Reviewed, Pulled,
   Evident, Refused, EvidencePcs, Open, AppliedPcs, RunPcs, RecoverPcs, PullPcs,
   TailPcs, JournalPcs, ScanPcs, CohortPcs, CommitPcs, QueuedPcs, TargetPcs, CapturePcs,
   SyncPcs

LEMMA StartRecovers ==
  ASSUME DeviceInv, RecoveryInv, Start
  PROVE  RecoveryInv'
<1>f. RecoveryFacts /\ PhaseRun /\ PhaseJournal
  BY RecoveryFact DEF DeviceInv, Phases
<1>a. \A c \in Node : Anc(c)' = Anc(c)
  BY AncestorsStay DEF Start, rest
<1>1. /\ UNCHANGED <<st, ref, jr, ack>>
      /\ pc' = "init" /\ run'.ret = "boot" /\ pc = "down"
  BY <1>f DEF Start, RecoveryFacts, NoRun
<1> QED BY <1>f, <1>a, <1>1, JournalSame DEF RecoveryInv, RecoveryFacts, PhaseRun,
   PhaseJournal, JournalPrior, RefAgrees, Moved, Applied, Unjournaled, Reviewed, Pulled,
   Evident, Refused, EvidencePcs, Open, AppliedPcs, RunPcs, RecoverPcs, PullPcs,
   TailPcs, JournalPcs, ScanPcs, CohortPcs, CommitPcs, QueuedPcs, TargetPcs, CapturePcs,
   SyncPcs

LEMMA InitCleanRecovers ==
  ASSUME DeviceInv, RecoveryInv, InitClean
  PROVE  RecoveryInv'
<1>f. RecoveryFacts /\ PhaseRun /\ PhaseJournal
  BY RecoveryFact DEF DeviceInv, Phases
<1>a. \A c \in Node : Anc(c)' = Anc(c)
  BY AncestorsStay DEF InitClean, rest
<1>1. /\ UNCHANGED <<st, ref, jr, ack>>
      /\ ~ Open /\ pc = "init"
      /\ \/ pc' = "idle"
         \/ pc' = "ack0" /\ run' = run /\ st.err = "none" /\ run.ret # "boot"
         \/ pc' = "flush" /\ run' = run /\ st.err = "none" /\ ack = 0 /\ run.ret # "boot"
         \/ pc' = "icommit" /\ run'.ret = "recover"
  BY <1>f DEF InitClean, RecoveryFacts
<1>2. Spoiled = {}
  <2>1. jr = NoJournal
    BY DEF InitClean
  <2>2. jr.affected = {}
    BY <2>1 DEF NoJournal
  <2> QED BY <2>2 DEF Spoiled
<1> QED BY <1>f, <1>a, <1>1, <1>2, JournalSame DEF RecoveryInv, RecoveryFacts, PhaseRun,
   PhaseJournal, JournalPrior, RefAgrees, Moved, Applied, Unjournaled, Reviewed, Pulled,
   Evident, Refused, EvidencePcs, Open, AppliedPcs, RunPcs, RecoverPcs, PullPcs,
   TailPcs, JournalPcs, ScanPcs, CohortPcs, CommitPcs, QueuedPcs, TargetPcs, CapturePcs,
   SyncPcs

LEMMA AckSendRecovers ==
  ASSUME NEW r \in BOOLEAN, DeviceInv, RecoveryInv, AckSend(r)
  PROVE  RecoveryInv'
<1>f. RecoveryFacts /\ PhaseRun /\ PhaseJournal
  BY RecoveryFact DEF DeviceInv, Phases
<1>a. \A c \in Node : Anc(c)' = Anc(c)
  BY AncestorsStay DEF AckSend, rest
<1>1. /\ UNCHANGED <<st, ref, jr>> /\ pc \in {"ack0", "ack"}
      /\ \/ pc' \in {"flush", "settle"} /\ ack' = 0
         \/ pc' = "idle" /\ ack' = ack
  BY <1>f DEF AckSend, RecoveryFacts
<1> QED BY <1>f, <1>a, <1>1, JournalSame DEF RecoveryInv, RecoveryFacts, PhaseRun,
   PhaseJournal, JournalPrior, RefAgrees, Moved, Applied, Unjournaled, Reviewed, Pulled,
   Evident, Refused, EvidencePcs, Open, AppliedPcs, RunPcs, RecoverPcs, PullPcs,
   TailPcs, JournalPcs, ScanPcs, CohortPcs, CommitPcs, QueuedPcs, TargetPcs, CapturePcs,
   SyncPcs

LEMMA FlushRecovers ==
  ASSUME DeviceInv, RecoveryInv, Flush
  PROVE  RecoveryInv'
<1>f. RecoveryFacts /\ PhaseRun /\ PhaseJournal
  BY RecoveryFact DEF DeviceInv, Phases
<1>a. \A c \in Node : Anc(c)' = Anc(c)
  BY AncestorsStay DEF Flush, rest
<1>1. /\ UNCHANGED <<st, ref, jr, ack>> /\ run'.ret = run.ret /\ run'.target = run.target
      /\ pc = "flush" /\ pc' = "repair"
  BY <1>f DEF Flush, RecoveryFacts
<1> QED BY <1>f, <1>a, <1>1, JournalSame DEF RecoveryInv, RecoveryFacts, PhaseRun,
   PhaseJournal, JournalPrior, RefAgrees, Moved, Applied, Unjournaled, Reviewed, Pulled,
   Evident, Refused, EvidencePcs, Open, AppliedPcs, RunPcs, RecoverPcs, PullPcs,
   TailPcs, JournalPcs, ScanPcs, CohortPcs, CommitPcs, QueuedPcs, TargetPcs, CapturePcs,
   SyncPcs

LEMMA RepairRefRecovers ==
  ASSUME DeviceInv, RecoveryInv, RepairRef
  PROVE  RecoveryInv'
<1>f. RecoveryFacts /\ PhaseRun /\ PhaseJournal
  BY RecoveryFact DEF DeviceInv, Phases
<1>a. \A c \in Node : Anc(c)' = Anc(c)
  BY AncestorsStay DEF RepairRef, rest
<1>1. /\ UNCHANGED <<st, jr, ack, run>> /\ ref'.main = ref.main
      /\ pc = "repair" /\ pc' = "reconcile"
  BY <1>f DEF RepairRef, RecoveryFacts
<1> QED BY <1>f, <1>a, <1>1, JournalSame DEF RecoveryInv, RecoveryFacts, PhaseRun,
   PhaseJournal, JournalPrior, RefAgrees, Moved, Applied, Unjournaled, Reviewed, Pulled,
   Evident, Refused, EvidencePcs, Open, AppliedPcs, RunPcs, RecoverPcs, PullPcs,
   TailPcs, JournalPcs, ScanPcs, CohortPcs, CommitPcs, QueuedPcs, TargetPcs, CapturePcs,
   SyncPcs

LEMMA ReconcileRecovers ==
  ASSUME DeviceInv, RecoveryInv, Reconcile
  PROVE  RecoveryInv'
<1>f. RecoveryFacts /\ PhaseRun /\ PhaseJournal
  BY RecoveryFact DEF DeviceInv, Phases
<1>a. \A c \in Node : Anc(c)' = Anc(c)
  BY AncestorsStay DEF Reconcile, rest
<1>1. /\ UNCHANGED <<ref, jr, ack>> /\ st'.main = st.main /\ st'.err \in {st.err, "diverged"}
      /\ pc = "reconcile" /\ pc' \in {"push", "capture", "idle"} /\ run'.ret = run.ret
  BY <1>f DEF Reconcile, RecoveryFacts, Blocked
<1> QED BY <1>f, <1>a, <1>1, JournalSame DEF RecoveryInv, RecoveryFacts, PhaseRun,
   PhaseJournal, JournalPrior, RefAgrees, Moved, Applied, Unjournaled, Reviewed, Pulled,
   Evident, Refused, EvidencePcs, Open, AppliedPcs, RunPcs, RecoverPcs, PullPcs,
   TailPcs, JournalPcs, ScanPcs, CohortPcs, CommitPcs, QueuedPcs, TargetPcs, CapturePcs,
   SyncPcs

LEMMA CaptureHintedRecovers ==
  ASSUME DeviceInv, RecoveryInv, CaptureHinted
  PROVE  RecoveryInv'
<1>f. RecoveryFacts /\ PhaseRun /\ PhaseJournal
  BY RecoveryFact DEF DeviceInv, Phases
<1>a. \A c \in Node : Anc(c)' = Anc(c)
  BY AncestorsStay DEF CaptureHinted, rest
<1>1. /\ UNCHANGED <<jr, ack>> /\ st'.main = st.main /\ st'.err = st.err /\ ref'.main = ref.main
      /\ pc = "capture" /\ pc' \in {"nochange", "oqueue"} /\ run'.ret = run.ret
  BY <1>f DEF CaptureHinted, RecoveryFacts, Checking
<1> QED BY <1>f, <1>a, <1>1, JournalSame DEF RecoveryInv, RecoveryFacts, PhaseRun,
   PhaseJournal, JournalPrior, RefAgrees, Moved, Applied, Unjournaled, Reviewed, Pulled,
   Evident, Refused, EvidencePcs, Open, AppliedPcs, RunPcs, RecoverPcs, PullPcs,
   TailPcs, JournalPcs, ScanPcs, CohortPcs, CommitPcs, QueuedPcs, TargetPcs, CapturePcs,
   SyncPcs

LEMMA CaptureFullRecovers ==
  ASSUME DeviceInv, RecoveryInv, CaptureFull
  PROVE  RecoveryInv'
<1>f. RecoveryFacts /\ PhaseRun /\ PhaseJournal
  BY RecoveryFact DEF DeviceInv, Phases
<1>a. \A c \in Node : Anc(c)' = Anc(c)
  BY AncestorsStay DEF CaptureFull, rest
<1>1. /\ UNCHANGED <<ref, jr, ack>> /\ st'.main = st.main /\ st'.err = st.err
      /\ pc = "capture" /\ pc' = "cohort" /\ run'.ret = run.ret
  BY <1>f DEF CaptureFull, RecoveryFacts, Checking
<1> QED BY <1>f, <1>a, <1>1, JournalSame DEF RecoveryInv, RecoveryFacts, PhaseRun,
   PhaseJournal, JournalPrior, RefAgrees, Moved, Applied, Unjournaled, Reviewed, Pulled,
   Evident, Refused, EvidencePcs, Open, AppliedPcs, RunPcs, RecoverPcs, PullPcs,
   TailPcs, JournalPcs, ScanPcs, CohortPcs, CommitPcs, QueuedPcs, TargetPcs, CapturePcs,
   SyncPcs

LEMMA CohortRecovers ==
  ASSUME DeviceInv, RecoveryInv, Cohort
  PROVE  RecoveryInv'
<1>f. RecoveryFacts /\ PhaseRun /\ PhaseJournal
  BY RecoveryFact DEF DeviceInv, Phases
<1>a. \A c \in Node : Anc(c)' = Anc(c)
  BY AncestorsStay DEF Cohort, rest
<1>s0. st'.main = st.main /\ st'.err \in {st.err, "unfinished"}
  <2>1. CASE st' \in {st, Blocked("unfinished")}
    BY <2>1, <1>f DEF Blocked, RecoveryFacts
  <2>2. CASE st' = Guarded([st EXCEPT !.head = q.pending])
    <3>1. PICK n : n = [st EXCEPT !.head = q.pending] /\ st' = Guarded(n)
      BY <2>2
    <3>2. n.main = st.main /\ n.err = st.err
      BY <3>1, <1>f DEF RecoveryFacts
    <3> QED BY <3>1, <3>2, GuardedFields
  <2> QED BY <2>1, <2>2 DEF Cohort, Thrown
<1>1. /\ UNCHANGED <<jr, ack>> /\ ref'.main = ref.main /\ pc = "cohort"
      /\ \/ pc' = "idle"
         \/ pc' \in {"ordinary", "classify", AfterCapture} /\ run' = run
  BY <1>f DEF Cohort, RecoveryFacts, Thrown, Done
<1> QED BY <1>f, <1>a, <1>1, <1>s0, AfterCaptureCases, JournalSame DEF RecoveryInv,
   RecoveryFacts, PhaseRun, PhaseJournal, JournalPrior, RefAgrees, Moved, Applied,
   Unjournaled, Reviewed, Pulled, Evident, Refused, EvidencePcs, Open, AppliedPcs,
   RunPcs, RecoverPcs, PullPcs, TailPcs, JournalPcs, ScanPcs, CohortPcs, CommitPcs,
   QueuedPcs, TargetPcs, CapturePcs, SyncPcs

LEMMA ClassifyRecovers ==
  ASSUME DeviceInv, RecoveryInv, Classify
  PROVE  RecoveryInv'
<1>f. RecoveryFacts /\ PhaseRun /\ PhaseJournal
  BY RecoveryFact DEF DeviceInv, Phases
<1>a. \A c \in Node : Anc(c)' = Anc(c)
  BY AncestorsStay DEF Classify, rest
<1>1. /\ UNCHANGED <<st, ref, jr, ack>>
      /\ pc = "classify" /\ pc' \in {"ordinary", "intent"}
      /\ run'.ret = run.ret /\ run'.target = run.target
  BY <1>f DEF Classify, RecoveryFacts
<1> QED BY <1>f, <1>a, <1>1, JournalSame DEF RecoveryInv, RecoveryFacts, PhaseRun,
   PhaseJournal, JournalPrior, RefAgrees, Moved, Applied, Unjournaled, Reviewed, Pulled,
   Evident, Refused, EvidencePcs, Open, AppliedPcs, RunPcs, RecoverPcs, PullPcs,
   TailPcs, JournalPcs, ScanPcs, CohortPcs, CommitPcs, QueuedPcs, TargetPcs, CapturePcs,
   SyncPcs

LEMMA IntentRecovers ==
  ASSUME DeviceInv, RecoveryInv, Intent
  PROVE  RecoveryInv'
<1>f. RecoveryFacts /\ PhaseRun /\ PhaseJournal
  BY RecoveryFact DEF DeviceInv, Phases
<1>a. \A c \in Node : Anc(c)' = Anc(c)
  BY AncestorsStay DEF Intent, rest
<1>s0. st'.main = st.main /\ st'.err \in {st.err, "unfinished"}
  BY <1>f DEF Intent, Thrown, Blocked, RecoveryFacts
<1>1. /\ UNCHANGED <<ref, jr, ack>> /\ pc = "intent"
      /\ pc' = "idle" \/ (pc' = "cref" /\ run' = run)
  BY <1>f DEF Intent, RecoveryFacts, Thrown, Done
<1> QED BY <1>f, <1>a, <1>1, <1>s0, JournalSame DEF RecoveryInv, RecoveryFacts, PhaseRun,
   PhaseJournal, JournalPrior, RefAgrees, Moved, Applied, Unjournaled, Reviewed, Pulled,
   Evident, Refused, EvidencePcs, Open, AppliedPcs, RunPcs, RecoverPcs, PullPcs,
   TailPcs, JournalPcs, ScanPcs, CohortPcs, CommitPcs, QueuedPcs, TargetPcs, CapturePcs,
   SyncPcs

LEMMA CohortRefRecovers ==
  ASSUME DeviceInv, RecoveryInv, CohortRef
  PROVE  RecoveryInv'
<1>f. RecoveryFacts /\ PhaseRun /\ PhaseJournal
  BY RecoveryFact DEF DeviceInv, Phases
<1>a. \A c \in Node : Anc(c)' = Anc(c)
  BY AncestorsStay DEF CohortRef, rest
<1>s0. st'.main = st.main /\ st'.err \in {st.err, "unfinished"}
  BY <1>f DEF CohortRef, Thrown, Blocked, RecoveryFacts
<1>1. /\ UNCHANGED <<jr, ack>> /\ ref'.main = ref.main /\ pc = "cref"
      /\ \/ pc' = "idle"
         \/ pc' = "icommit" /\ run'.ret = run.ret /\ run'.target = run.target
  BY <1>f DEF CohortRef, RecoveryFacts, Thrown, Done
<1> QED BY <1>f, <1>a, <1>1, <1>s0, JournalSame DEF RecoveryInv, RecoveryFacts, PhaseRun,
   PhaseJournal, JournalPrior, RefAgrees, Moved, Applied, Unjournaled, Reviewed, Pulled,
   Evident, Refused, EvidencePcs, Open, AppliedPcs, RunPcs, RecoverPcs, PullPcs,
   TailPcs, JournalPcs, ScanPcs, CohortPcs, CommitPcs, QueuedPcs, TargetPcs, CapturePcs,
   SyncPcs

LEMMA IntentCommittedRecovers ==
  ASSUME DeviceInv, RecoveryInv, IntentCommitted
  PROVE  RecoveryInv'
<1>f. RecoveryFacts /\ PhaseRun /\ PhaseJournal
  BY RecoveryFact DEF DeviceInv, Phases
<1>a. \A c \in Node : Anc(c)' = Anc(c)
  BY AncestorsStay DEF IntentCommitted, rest
<1>1. UNCHANGED <<st, ref, jr, ack, run>> /\ pc = "icommit" /\ pc' = "iqueue"
  BY <1>f DEF IntentCommitted, RecoveryFacts
<1> QED BY <1>f, <1>a, <1>1, JournalSame DEF RecoveryInv, RecoveryFacts, PhaseRun,
   PhaseJournal, JournalPrior, RefAgrees, Moved, Applied, Unjournaled, Reviewed, Pulled,
   Evident, Refused, EvidencePcs, Open, AppliedPcs, RunPcs, RecoverPcs, PullPcs,
   TailPcs, JournalPcs, ScanPcs, CohortPcs, CommitPcs, QueuedPcs, TargetPcs, CapturePcs,
   SyncPcs

LEMMA IntentQueuedRecovers ==
  ASSUME DeviceInv, RecoveryInv, IntentQueued
  PROVE  RecoveryInv'
<1>f. RecoveryFacts /\ PhaseRun /\ PhaseJournal
  BY RecoveryFact DEF DeviceInv, Phases
<1>a. \A c \in Node : Anc(c)' = Anc(c)
  BY AncestorsStay DEF IntentQueued, rest
<1>1. UNCHANGED <<st, ref, jr, ack, run>> /\ pc = "iqueue" /\ pc' = "istate"
  BY <1>f DEF IntentQueued, RecoveryFacts
<1> QED BY <1>f, <1>a, <1>1, JournalSame DEF RecoveryInv, RecoveryFacts, PhaseRun,
   PhaseJournal, JournalPrior, RefAgrees, Moved, Applied, Unjournaled, Reviewed, Pulled,
   Evident, Refused, EvidencePcs, Open, AppliedPcs, RunPcs, RecoverPcs, PullPcs,
   TailPcs, JournalPcs, ScanPcs, CohortPcs, CommitPcs, QueuedPcs, TargetPcs, CapturePcs,
   SyncPcs

LEMMA IntentStateRecovers ==
  ASSUME DeviceInv, RecoveryInv, IntentState
  PROVE  RecoveryInv'
<1>f. RecoveryFacts /\ PhaseRun /\ PhaseJournal
  BY RecoveryFact DEF DeviceInv, Phases
<1>a. \A c \in Node : Anc(c)' = Anc(c)
  BY AncestorsStay DEF IntentState, rest
<1>g. PICK l, n : n = [st EXCEPT !.head = run.commit, !.label = l] /\ st' = Guarded(n)
  BY <1>f DEF IntentState, RecoveryFacts
<1>h. n.main = st.main /\ n.err = st.err
  BY <1>g, <1>f DEF RecoveryFacts
<1>s0. st'.main = st.main /\ st'.err = st.err
  BY <1>g, <1>h, GuardedFields
<1>1. /\ UNCHANGED <<ref, jr, ack>> /\ pc = "istate" /\ pc' = AfterCapture
      /\ run.ret = "recover" \/ run' = run
  BY <1>f DEF IntentState, RecoveryFacts
<1> QED BY <1>f, <1>a, <1>1, <1>s0, AfterCaptureCases, JournalSame DEF RecoveryInv,
   RecoveryFacts, PhaseRun, PhaseJournal, JournalPrior, RefAgrees, Moved, Applied,
   Unjournaled, Reviewed, Pulled, Evident, Refused, EvidencePcs, Open, AppliedPcs,
   RunPcs, RecoverPcs, PullPcs, TailPcs, JournalPcs, ScanPcs, CohortPcs, CommitPcs,
   QueuedPcs, TargetPcs, CapturePcs, SyncPcs

LEMMA OrdinaryRecovers ==
  ASSUME DeviceInv, RecoveryInv, Ordinary
  PROVE  RecoveryInv'
<1>f. RecoveryFacts /\ PhaseRun /\ PhaseJournal
  BY RecoveryFact DEF DeviceInv, Phases
<1>a. \A c \in Node : Anc(c)' = Anc(c)
  BY AncestorsStay DEF Ordinary, rest
<1>1. /\ UNCHANGED <<st, jr, ack>> /\ ref'.main = ref.main /\ pc = "ordinary"
      /\ run'.ret = run.ret /\ run'.target = run.target
      /\ \/ pc' = "nochange" /\ run.ret = "sync"
         \/ pc' \in {"oqueue", AfterCapture}
  BY <1>f DEF Ordinary, RecoveryFacts
<1> QED BY <1>f, <1>a, <1>1, AfterCaptureCases, JournalSame DEF RecoveryInv,
   RecoveryFacts, PhaseRun, PhaseJournal, JournalPrior, RefAgrees, Moved, Applied,
   Unjournaled, Reviewed, Pulled, Evident, Refused, EvidencePcs, Open, AppliedPcs,
   RunPcs, RecoverPcs, PullPcs, TailPcs, JournalPcs, ScanPcs, CohortPcs, CommitPcs,
   QueuedPcs, TargetPcs, CapturePcs, SyncPcs

LEMMA OrdinaryQueuedRecovers ==
  ASSUME DeviceInv, RecoveryInv, OrdinaryQueued
  PROVE  RecoveryInv'
<1>f. RecoveryFacts /\ PhaseRun /\ PhaseJournal
  BY RecoveryFact DEF DeviceInv, Phases
<1>a. \A c \in Node : Anc(c)' = Anc(c)
  BY AncestorsStay DEF OrdinaryQueued, rest
<1>1. UNCHANGED <<st, ref, jr, ack, run>> /\ pc = "oqueue" /\ pc' = "ostate"
  BY <1>f DEF OrdinaryQueued, RecoveryFacts
<1> QED BY <1>f, <1>a, <1>1, JournalSame DEF RecoveryInv, RecoveryFacts, PhaseRun,
   PhaseJournal, JournalPrior, RefAgrees, Moved, Applied, Unjournaled, Reviewed, Pulled,
   Evident, Refused, EvidencePcs, Open, AppliedPcs, RunPcs, RecoverPcs, PullPcs,
   TailPcs, JournalPcs, ScanPcs, CohortPcs, CommitPcs, QueuedPcs, TargetPcs, CapturePcs,
   SyncPcs

LEMMA OrdinaryStateRecovers ==
  ASSUME DeviceInv, RecoveryInv, OrdinaryState
  PROVE  RecoveryInv'
<1>f. RecoveryFacts /\ PhaseRun /\ PhaseJournal
  BY RecoveryFact DEF DeviceInv, Phases
<1>a. \A c \in Node : Anc(c)' = Anc(c)
  BY AncestorsStay DEF OrdinaryState, rest
<1>g. PICK n : n = [st EXCEPT !.head = run.commit, !.label = "Ahead"] /\ st' = Guarded(n)
  BY DEF OrdinaryState
<1>h. n.main = st.main /\ n.err = st.err
  BY <1>g, <1>f DEF RecoveryFacts
<1>s0. st'.main = st.main /\ st'.err = st.err
  BY <1>g, <1>h, GuardedFields
<1>1. /\ UNCHANGED <<ref, jr, ack, run>> /\ pc = "ostate" /\ pc' = AfterCapture
  BY <1>f DEF OrdinaryState, RecoveryFacts
<1> QED BY <1>f, <1>a, <1>1, <1>s0, AfterCaptureCases, JournalSame DEF RecoveryInv,
   RecoveryFacts, PhaseRun, PhaseJournal, JournalPrior, RefAgrees, Moved, Applied,
   Unjournaled, Reviewed, Pulled, Evident, Refused, EvidencePcs, Open, AppliedPcs,
   RunPcs, RecoverPcs, PullPcs, TailPcs, JournalPcs, ScanPcs, CohortPcs, CommitPcs,
   QueuedPcs, TargetPcs, CapturePcs, SyncPcs

LEMMA NoChangeRecovers ==
  ASSUME DeviceInv, RecoveryInv, NoChange
  PROVE  RecoveryInv'
<1>f. RecoveryFacts /\ PhaseRun /\ PhaseJournal
  BY RecoveryFact DEF DeviceInv, Phases
<1>a. \A c \in Node : Anc(c)' = Anc(c)
  BY AncestorsStay DEF NoChange, rest
<1>1. /\ UNCHANGED <<ref, jr, ack>> /\ st'.main = st.main /\ st'.err = st.err
      /\ pc = "nochange" /\ pc' \in {"pull", "idle"}
  BY <1>f DEF NoChange, RecoveryFacts, Done
<1> QED BY <1>f, <1>a, <1>1, JournalSame DEF RecoveryInv, RecoveryFacts, PhaseRun,
   PhaseJournal, JournalPrior, RefAgrees, Moved, Applied, Unjournaled, Reviewed, Pulled,
   Evident, Refused, EvidencePcs, Open, AppliedPcs, RunPcs, RecoverPcs, PullPcs,
   TailPcs, JournalPcs, ScanPcs, CohortPcs, CommitPcs, QueuedPcs, TargetPcs, CapturePcs,
   SyncPcs

\* The answer of the server moves neither main nor the error of the state.
LEMMA AnswerRecovers ==
  ASSUME RecoveryFacts, NEW res, NEW r, Answer(res, r)
  PROVE  st'.main = st.main /\ st'.err = st.err /\ pc' \in {"result", "idle"}
<1>1. PICK l, n : n = [st EXCEPT !.sref = Adopted, !.label = l] /\ st' = Guarded(n)
  BY DEF Answer
<1>2. n.main = st.main /\ n.err = st.err
  BY <1>1 DEF RecoveryFacts
<1>3. pc' \in {"result", "idle"}
  BY DEF Answer, Done
<1> QED BY <1>1, <1>2, <1>3, GuardedFields

LEMMA PushIntegratedRecovers ==
  ASSUME NEW r \in BOOLEAN, DeviceInv, RecoveryInv, PushIntegrated(r)
  PROVE  RecoveryInv'
<1>f. RecoveryFacts /\ PhaseRun /\ PhaseJournal
  BY RecoveryFact DEF DeviceInv, Phases
<1>a. \A c \in Node : Anc(c)' = Anc(c)
  BY AncestorsStay DEF PushIntegrated, rest
<1>s0. st'.main = st.main /\ st'.err = st.err /\ pc' \in {"result", "idle"}
  BY <1>f, AnswerRecovers DEF PushIntegrated
<1>1. UNCHANGED <<ref, jr, ack>> /\ pc = "push"
  BY <1>f DEF PushIntegrated, RecoveryFacts
<1> QED BY <1>f, <1>a, <1>1, <1>s0, JournalSame DEF RecoveryInv, RecoveryFacts,
   PhaseRun, PhaseJournal, JournalPrior, RefAgrees, Moved, Applied, Unjournaled,
   Reviewed, Pulled, Evident, Refused, EvidencePcs, Open, AppliedPcs, RunPcs,
   RecoverPcs, PullPcs, TailPcs, JournalPcs, ScanPcs, CohortPcs, CommitPcs, QueuedPcs,
   TargetPcs, CapturePcs, SyncPcs

LEMMA PushConflictedRecovers ==
  ASSUME NEW r \in BOOLEAN, DeviceInv, RecoveryInv, PushConflicted(r)
  PROVE  RecoveryInv'
<1>f. RecoveryFacts /\ PhaseRun /\ PhaseJournal
  BY RecoveryFact DEF DeviceInv, Phases
<1>a. \A c \in Node : Anc(c)' = Anc(c)
  BY AncestorsStay DEF PushConflicted, rest
<1>s0. st'.main = st.main /\ st'.err = st.err /\ pc' \in {"result", "idle"}
  BY <1>f, AnswerRecovers DEF PushConflicted
<1>1. UNCHANGED <<ref, jr, ack>> /\ pc = "push"
  BY <1>f DEF PushConflicted, RecoveryFacts
<1> QED BY <1>f, <1>a, <1>1, <1>s0, JournalSame DEF RecoveryInv, RecoveryFacts,
   PhaseRun, PhaseJournal, JournalPrior, RefAgrees, Moved, Applied, Unjournaled,
   Reviewed, Pulled, Evident, Refused, EvidencePcs, Open, AppliedPcs, RunPcs,
   RecoverPcs, PullPcs, TailPcs, JournalPcs, ScanPcs, CohortPcs, CommitPcs, QueuedPcs,
   TargetPcs, CapturePcs, SyncPcs

LEMMA PushAgainRecovers ==
  ASSUME NEW r \in BOOLEAN, DeviceInv, RecoveryInv, PushAgain(r)
  PROVE  RecoveryInv'
<1>f. RecoveryFacts /\ PhaseRun /\ PhaseJournal
  BY RecoveryFact DEF DeviceInv, Phases
<1>a. \A c \in Node : Anc(c)' = Anc(c)
  BY AncestorsStay DEF PushAgain, rest
<1>s0. st'.main = st.main /\ st'.err \in {st.err, "diverged"} /\ pc' \in {"result", "idle"}
  <2>1. CASE st' = Blocked("diverged") /\ Done
    BY <2>1, <1>f DEF Blocked, Done, RecoveryFacts
  <2>2. CASE \E res : Answer(res, r)
    BY <2>2, <1>f, AnswerRecovers
  <2> QED BY <2>1, <2>2 DEF PushAgain
<1>1. UNCHANGED <<ref, jr, ack>> /\ pc = "push"
  BY <1>f DEF PushAgain, RecoveryFacts
<1> QED BY <1>f, <1>a, <1>1, <1>s0, JournalSame DEF RecoveryInv, RecoveryFacts,
   PhaseRun, PhaseJournal, JournalPrior, RefAgrees, Moved, Applied, Unjournaled,
   Reviewed, Pulled, Evident, Refused, EvidencePcs, Open, AppliedPcs, RunPcs,
   RecoverPcs, PullPcs, TailPcs, JournalPcs, ScanPcs, CohortPcs, CommitPcs, QueuedPcs,
   TargetPcs, CapturePcs, SyncPcs

LEMMA ResultRecordedRecovers ==
  ASSUME DeviceInv, RecoveryInv, ResultRecorded
  PROVE  RecoveryInv'
<1>f. RecoveryFacts /\ PhaseRun /\ PhaseJournal
  BY RecoveryFact DEF DeviceInv, Phases
<1>a. \A c \in Node : Anc(c)' = Anc(c)
  BY AncestorsStay DEF ResultRecorded, rest
<1>1. /\ UNCHANGED <<st, ref, jr, ack>> /\ pc = "result" /\ pc' \in {"rqueue", "idle"}
  BY <1>f DEF ResultRecorded, RecoveryFacts, Done
<1> QED BY <1>f, <1>a, <1>1, JournalSame DEF RecoveryInv, RecoveryFacts, PhaseRun,
   PhaseJournal, JournalPrior, RefAgrees, Moved, Applied, Unjournaled, Reviewed, Pulled,
   Evident, Refused, EvidencePcs, Open, AppliedPcs, RunPcs, RecoverPcs, PullPcs,
   TailPcs, JournalPcs, ScanPcs, CohortPcs, CommitPcs, QueuedPcs, TargetPcs, CapturePcs,
   SyncPcs

LEMMA ResultQueuedRecovers ==
  ASSUME DeviceInv, RecoveryInv, ResultQueued
  PROVE  RecoveryInv'
<1>f. RecoveryFacts /\ PhaseRun /\ PhaseJournal
  BY RecoveryFact DEF DeviceInv, Phases
<1>a. \A c \in Node : Anc(c)' = Anc(c)
  BY AncestorsStay DEF ResultQueued, rest
<1>1. /\ UNCHANGED <<st, ref, jr, ack>> /\ pc = "rqueue" /\ pc' = "rstate"
  BY <1>f DEF ResultQueued, RecoveryFacts
<1> QED BY <1>f, <1>a, <1>1, JournalSame DEF RecoveryInv, RecoveryFacts, PhaseRun,
   PhaseJournal, JournalPrior, RefAgrees, Moved, Applied, Unjournaled, Reviewed, Pulled,
   Evident, Refused, EvidencePcs, Open, AppliedPcs, RunPcs, RecoverPcs, PullPcs,
   TailPcs, JournalPcs, ScanPcs, CohortPcs, CommitPcs, QueuedPcs, TargetPcs, CapturePcs,
   SyncPcs

LEMMA ResultStateRecovers ==
  ASSUME DeviceInv, RecoveryInv, ResultState
  PROVE  RecoveryInv'
<1>f. RecoveryFacts /\ PhaseRun /\ PhaseJournal
  BY RecoveryFact DEF DeviceInv, Phases
<1>a. \A c \in Node : Anc(c)' = Anc(c)
  BY AncestorsStay DEF ResultState, rest
<1>s0. st'.main = st.main /\ (st'.err = st.err \/ (st'.err = "review" /\ pc' = "idle"))
  <2>1. CASE run.result = "conflicted"
    <3>1. PICK n : /\ n = [st EXCEPT !.sref = run.commit, !.label = "Review", !.err = "review"]
                   /\ st' = Guarded(n) /\ pc' = "idle"
      BY <2>1 DEF ResultState, Done
    <3>2. n.main = st.main /\ n.err = "review"
      BY <3>1, <1>f DEF RecoveryFacts
    <3> QED BY <3>1, <3>2, GuardedFields
  <2>2. CASE run.result # "conflicted"
    <3>1. PICK l, n : /\ n = [st EXCEPT !.sref = run.commit, !.head = run.commit, !.label = l]
                      /\ st' = Guarded(n)
      BY <2>2 DEF ResultState
    <3>2. n.main = st.main /\ n.err = st.err
      BY <3>1, <1>f DEF RecoveryFacts
    <3> QED BY <3>1, <3>2, GuardedFields
  <2> QED BY <2>1, <2>2
<1>1. /\ UNCHANGED <<ref, jr, ack>> /\ pc = "rstate" /\ pc' \in {"pull", "idle"}
  BY <1>f DEF ResultState, RecoveryFacts, Done
<1> QED BY <1>f, <1>a, <1>1, <1>s0, JournalSame DEF RecoveryInv, RecoveryFacts,
   PhaseRun, PhaseJournal, JournalPrior, RefAgrees, Moved, Applied, Unjournaled,
   Reviewed, Pulled, Evident, Refused, EvidencePcs, Open, AppliedPcs, RunPcs,
   RecoverPcs, PullPcs, TailPcs, JournalPcs, ScanPcs, CohortPcs, CommitPcs, QueuedPcs,
   TargetPcs, CapturePcs, SyncPcs

LEMMA BlockedPollRecovers ==
  ASSUME DeviceInv, RecoveryInv, BlockedPoll
  PROVE  RecoveryInv'
<1>f. RecoveryFacts /\ PhaseRun /\ PhaseJournal
  BY RecoveryFact DEF DeviceInv, Phases
<1>a. \A c \in Node : Anc(c)' = Anc(c)
  BY AncestorsStay DEF BlockedPoll, rest
<1>1. /\ UNCHANGED <<ref, jr, ack>> /\ st'.main = st.main /\ st'.err = "none"
      /\ st.err = "review" /\ pc = "idle" /\ pc' = "pull"
  BY <1>f DEF BlockedPoll, RecoveryFacts
<1> QED BY <1>f, <1>a, <1>1, JournalSame DEF RecoveryInv, RecoveryFacts, PhaseRun,
   PhaseJournal, JournalPrior, RefAgrees, Moved, Applied, Unjournaled, Reviewed, Pulled,
   Evident, Refused, EvidencePcs, Open, AppliedPcs, RunPcs, RecoverPcs, PullPcs,
   TailPcs, JournalPcs, ScanPcs, CohortPcs, CommitPcs, QueuedPcs, TargetPcs, CapturePcs,
   SyncPcs

LEMMA PullRecovers ==
  ASSUME DeviceInv, RecoveryInv, Pull
  PROVE  RecoveryInv'
<1>f. RecoveryFacts /\ PhaseRun /\ PhaseJournal
  BY RecoveryFact DEF DeviceInv, Phases
<1>a. \A c \in Node : Anc(c)' = Anc(c)
  BY AncestorsStay DEF Pull, rest
<1>s0. main \in Node
  BY DEF DeviceInv, Shapes, ServerTyped
<1>1. /\ UNCHANGED <<ref, jr, ack, main>> /\ st'.main = st.main /\ st'.err = st.err /\ pc = "pull"
      /\ pc' = "idle" \/ (pc' = "apply" /\ run'.target = main)
  BY <1>f DEF Pull, RecoveryFacts, Done, rest, server
<1> QED BY <1>f, <1>a, <1>1, <1>s0, JournalSame DEF RecoveryInv, RecoveryFacts,
   PhaseRun, PhaseJournal, JournalPrior, RefAgrees, Moved, Applied, Unjournaled,
   Reviewed, Pulled, Evident, Refused, EvidencePcs, Open, AppliedPcs, RunPcs,
   RecoverPcs, PullPcs, TailPcs, JournalPcs, ScanPcs, CohortPcs, CommitPcs, QueuedPcs,
   TargetPcs, CapturePcs, SyncPcs

LEMMA ApplyBaseRecovers ==
  ASSUME DeviceInv, RecoveryInv, ApplyBase
  PROVE  RecoveryInv'
<1>f. RecoveryFacts /\ PhaseRun /\ PhaseJournal
  BY RecoveryFact DEF DeviceInv, Phases
<1>a. \A c \in Node : Anc(c)' = Anc(c)
  BY AncestorsStay DEF ApplyBase, rest
<1>1. /\ UNCHANGED <<ref, jr>> /\ st'.main = st.main /\ st'.err = st.err /\ pc = "apply"
      /\ \/ pc' = "ack"
         \/ pc' = "plan" /\ ack' = ack /\ run'.target = run.target
  BY <1>f DEF ApplyBase, RecoveryFacts
<1> QED BY <1>f, <1>a, <1>1, JournalSame DEF RecoveryInv, RecoveryFacts, PhaseRun,
   PhaseJournal, JournalPrior, RefAgrees, Moved, Applied, Unjournaled, Reviewed, Pulled,
   Evident, Refused, EvidencePcs, Open, AppliedPcs, RunPcs, RecoverPcs, PullPcs,
   TailPcs, JournalPcs, ScanPcs, CohortPcs, CommitPcs, QueuedPcs, TargetPcs, CapturePcs,
   SyncPcs

LEMMA PlanRecovers ==
  ASSUME DeviceInv, RecoveryInv, Plan
  PROVE  RecoveryInv'
<1>f. RecoveryFacts /\ PhaseRun /\ PhaseJournal
  BY RecoveryFact DEF DeviceInv, Phases
<1>a. \A c \in Node : Anc(c)' = Anc(c)
  BY AncestorsStay DEF Plan, rest
<1>1. /\ UNCHANGED <<st, ref, ack>> /\ pc = "plan" /\ pc' \in {"refs", "retain"}
      /\ jr'.target = run.target /\ jr'.prior = st.main /\ jr'.step = "none"
  BY <1>f DEF Plan, RecoveryFacts, NoJournal
<1>2. /\ jr'.bundle = NoBundle
      /\ (jr'.phase = "planned" /\ pc' = "retain") \/ jr'.affected = {}
  <2>1. PICK j : /\ j = [NoJournal EXCEPT !.target = run.target, !.base = run.base,
                              !.prior = st.main, !.sref = st.sref, !.pre = file]
    OBVIOUS
  <2>2. /\ DOMAIN j = DOMAIN jr /\ j.bundle = NoBundle /\ j.affected = {}
    BY <2>1, <1>f DEF NoJournal, RecoveryFacts
  <2>3. PICK a, d, w : \/ jr' = [j EXCEPT !.phase = "committed"]
                       \/ pc' = "retain"
                          /\ jr' = [j EXCEPT !.phase = "planned", !.affected = a,
                                             !.deferred = d, !.touched = w]
    BY <2>1 DEF Plan
  <2> QED BY <2>2, <2>3, <1>f DEF RecoveryFacts
<1>v. Evidenced' /\ (pc' = "refs" => Bundled')
  BY <1>2 DEF Evidenced, Bundled
<1> QED BY <1>f, <1>a, <1>1, <1>v DEF RecoveryInv, RecoveryFacts, PhaseRun,
   PhaseJournal, JournalPrior, RefAgrees, Moved, Applied, Unjournaled, Reviewed, Pulled,
   Evident, Refused, EvidencePcs, Open, AppliedPcs, RunPcs, RecoverPcs, PullPcs,
   TailPcs, JournalPcs, ScanPcs, CohortPcs, CommitPcs, QueuedPcs, TargetPcs, CapturePcs,
   SyncPcs

LEMMA RetainRecovers ==
  ASSUME DeviceInv, RecoveryInv, Retain
  PROVE  RecoveryInv'
<1>f. RecoveryFacts /\ PhaseRun /\ PhaseJournal
  BY RecoveryFact DEF DeviceInv, Phases
<1>a. \A c \in Node : Anc(c)' = Anc(c)
  BY AncestorsStay DEF Retain, rest
<1>1. /\ UNCHANGED <<st, ref, jr, ack>> /\ pc = "retain" /\ pc' = "bundle"
      /\ run'.ret = run.ret /\ run'.target = run.target
  BY <1>f DEF Retain, RecoveryFacts
<1> QED BY <1>f, <1>a, <1>1, JournalSame DEF RecoveryInv, RecoveryFacts, PhaseRun,
   PhaseJournal, JournalPrior, RefAgrees, Moved, Applied, Unjournaled, Reviewed, Pulled,
   Evident, Refused, EvidencePcs, Open, AppliedPcs, RunPcs, RecoverPcs, PullPcs,
   TailPcs, JournalPcs, ScanPcs, CohortPcs, CommitPcs, QueuedPcs, TargetPcs, CapturePcs,
   SyncPcs

LEMMA BundleRecovers ==
  ASSUME DeviceInv, RecoveryInv, Bundle
  PROVE  RecoveryInv'
<1>f. RecoveryFacts /\ PhaseRun /\ PhaseJournal
  BY RecoveryFact DEF DeviceInv, Phases
<1>a. \A c \in Node : Anc(c)' = Anc(c)
  BY AncestorsStay DEF Bundle, rest
<1>1. /\ UNCHANGED <<st, ref, ack, run>> /\ pc = "bundle" /\ pc' = "revalidate"
      /\ jr'.target = jr.target /\ jr'.prior = jr.prior /\ jr'.step = jr.step
  BY <1>f DEF Bundle, RecoveryFacts
<1>v. Evidenced' /\ Bundled'
  <2>1. CASE jr.affected = {}
    <3>1. Evidenced /\ jr' = jr
      BY <2>1, <1>1, <1>f DEF Bundle, RecoveryInv, Evident, PhaseJournal, JournalPcs, Open
    <3> QED BY <2>1, <3>1, JournalSame DEF Bundled
  <2>2. CASE jr.affected # {}
    <3>1. jr' = [jr EXCEPT !.bundle = Frozen(jr), !.phase = "bundled"]
      BY <2>2 DEF Bundle
    <3>2. /\ jr'.bundle = Frozen(jr) /\ Frozen(jr)' = Frozen(jr)
      BY <3>1, <1>f DEF RecoveryFacts, Frozen
    <3>3. Frozen(jr) # NoBundle
      BY <1>1, <1>f DEF PhaseJournal, JournalPcs, Frozen, NoBundle
    <3> QED BY <3>2, <3>3 DEF Evidenced, Bundled
  <2> QED BY <2>1, <2>2
<1> QED BY <1>f, <1>a, <1>1, <1>v DEF RecoveryInv, RecoveryFacts, PhaseRun,
   PhaseJournal, JournalPrior, RefAgrees, Moved, Applied, Unjournaled, Reviewed, Pulled,
   Evident, Refused, EvidencePcs, Open, AppliedPcs, RunPcs, RecoverPcs, PullPcs,
   TailPcs, JournalPcs, ScanPcs, CohortPcs, CommitPcs, QueuedPcs, TargetPcs, CapturePcs,
   SyncPcs

LEMMA RewriteRecovers ==
  ASSUME DeviceInv, RecoveryInv, Rewrite
  PROVE  RecoveryInv'
<1>f. RecoveryFacts /\ PhaseRun /\ PhaseJournal
  BY RecoveryFact DEF DeviceInv, Phases
<1>a. \A c \in Node : Anc(c)' = Anc(c)
  BY AncestorsStay DEF Rewrite, rest
<1>1. /\ UNCHANGED <<st, ref, ack, run>> /\ pc = "rewrite" /\ pc' = "write"
      /\ jr'.target = jr.target /\ jr'.prior = jr.prior /\ jr'.step = jr.step
  BY <1>f DEF Rewrite, RecoveryFacts
<1>v. (Evidenced => Evidenced') /\ (Bundled' <=> Bundled) /\ Spoiled' = Spoiled
  <2>1. /\ jr'.sref = jr.sref /\ jr'.affected = jr.affected /\ jr'.pre = jr.pre
        /\ jr'.bundle = jr.bundle /\ jr'.copy = jr.copy
    BY <1>f DEF Rewrite, RecoveryFacts
  <2>2. Bundled
    BY <1>1 DEF RecoveryInv, Evident, EvidencePcs
  <2> QED BY <1>1, <2>1, <2>2, EvidenceStays
<1> QED BY <1>f, <1>a, <1>1, <1>v DEF RecoveryInv, RecoveryFacts, PhaseRun,
   PhaseJournal, JournalPrior, RefAgrees, Moved, Applied, Unjournaled, Reviewed, Pulled,
   Evident, Refused, EvidencePcs, Open, AppliedPcs, RunPcs, RecoverPcs, PullPcs,
   TailPcs, JournalPcs, ScanPcs, CohortPcs, CommitPcs, QueuedPcs, TargetPcs, CapturePcs,
   SyncPcs

LEMMA CopyFileRecovers ==
  ASSUME NEW p, DeviceInv, RecoveryInv, CopyFile(p)
  PROVE  RecoveryInv'
<1>f. RecoveryFacts /\ PhaseRun /\ PhaseJournal
  BY RecoveryFact DEF DeviceInv, Phases
<1>a. \A c \in Node : Anc(c)' = Anc(c)
  BY AncestorsStay DEF CopyFile, rest
<1>1. /\ UNCHANGED <<st, ref, ack, pc, run>> /\ pc = "write"
      /\ jr'.target = jr.target /\ jr'.prior = jr.prior /\ jr'.step = jr.step
  BY <1>f DEF CopyFile, Copying, RecoveryFacts
<1>v. (Evidenced => Evidenced') /\ (Bundled' <=> Bundled)
  <2>1. /\ jr'.sref = jr.sref /\ jr'.affected = jr.affected /\ jr'.pre = jr.pre
        /\ jr'.bundle = jr.bundle /\ jr'.phase = jr.phase
    BY <1>f DEF CopyFile, RecoveryFacts
  <2> QED BY <1>1, <2>1, EvidenceStays
<1> QED BY <1>f, <1>a, <1>1, <1>v DEF RecoveryInv, RecoveryFacts, PhaseRun,
   PhaseJournal, JournalPrior, RefAgrees, Moved, Applied, Unjournaled, Reviewed, Pulled,
   Evident, Refused, EvidencePcs, Open, AppliedPcs, RunPcs, RecoverPcs, PullPcs,
   TailPcs, JournalPcs, ScanPcs, CohortPcs, CommitPcs, QueuedPcs, TargetPcs, CapturePcs,
   SyncPcs

LEMMA BootCaptureRecovers ==
  ASSUME DeviceInv, RecoveryInv, BootCapture
  PROVE  RecoveryInv'
<1>f. RecoveryFacts /\ PhaseRun /\ PhaseJournal
  BY RecoveryFact DEF DeviceInv, Phases
<1>a. \A c \in Node : Anc(c)' = Anc(c)
  BY AncestorsStay DEF BootCapture, rest
<1>1. /\ UNCHANGED <<st, ref, jr, ack>> /\ pc = "bsnap" /\ pc' = "refs"
      /\ run'.ret = run.ret /\ run'.target = run.target
  BY <1>f DEF BootCapture, RecoveryFacts
<1> QED BY <1>f, <1>a, <1>1, JournalSame DEF RecoveryInv, RecoveryFacts, PhaseRun,
   PhaseJournal, JournalPrior, RefAgrees, Moved, Applied, Unjournaled, Reviewed, Pulled,
   Evident, Refused, EvidencePcs, Open, AppliedPcs, RunPcs, RecoverPcs, PullPcs,
   TailPcs, JournalPcs, ScanPcs, CohortPcs, CommitPcs, QueuedPcs, TargetPcs, CapturePcs,
   SyncPcs

LEMMA TailFlushRecovers ==
  ASSUME DeviceInv, RecoveryInv, TailFlush
  PROVE  RecoveryInv'
<1>f. RecoveryFacts /\ PhaseRun /\ PhaseJournal
  BY RecoveryFact DEF DeviceInv, Phases
<1>a. \A c \in Node : Anc(c)' = Anc(c)
  BY AncestorsStay DEF TailFlush, rest
<1>1. /\ UNCHANGED <<st, ref, jr, ack>> /\ pc = "tflush" /\ pc' = "tsnap"
      /\ run'.ret = run.ret /\ run'.target = run.target
  BY <1>f DEF TailFlush, RecoveryFacts
<1> QED BY <1>f, <1>a, <1>1, JournalSame DEF RecoveryInv, RecoveryFacts, PhaseRun,
   PhaseJournal, JournalPrior, RefAgrees, Moved, Applied, Unjournaled, Reviewed, Pulled,
   Evident, Refused, EvidencePcs, Open, AppliedPcs, RunPcs, RecoverPcs, PullPcs,
   TailPcs, JournalPcs, ScanPcs, CohortPcs, CommitPcs, QueuedPcs, TargetPcs, CapturePcs,
   SyncPcs

LEMMA RevalidateRecovers ==
  ASSUME DeviceInv, RecoveryInv, Revalidate
  PROVE  RecoveryInv'
<1>f. RecoveryFacts /\ PhaseRun /\ PhaseJournal
  BY RecoveryFact DEF DeviceInv, Phases
<1>a. \A c \in Node : Anc(c)' = Anc(c)
  BY AncestorsStay DEF Revalidate, rest
<1>1. /\ UNCHANGED <<st, ref, ack>> /\ pc = "revalidate" /\ pc' = "write"
      /\ jr'.target = jr.target /\ jr'.prior = jr.prior /\ jr'.step = jr.step
      /\ run'.ret = run.ret /\ run'.target = run.target
  BY <1>f DEF Revalidate, RecoveryFacts
<1>v. (Evidenced => Evidenced') /\ (Bundled' <=> Bundled) /\ Spoiled' = Spoiled
  <2>1. /\ jr'.sref = jr.sref /\ jr'.affected = jr.affected /\ jr'.pre = jr.pre
        /\ jr'.bundle = jr.bundle /\ jr'.copy = jr.copy
    BY <1>f DEF Revalidate, RecoveryFacts
  <2>2. Bundled
    BY <1>1 DEF RecoveryInv, Evident, EvidencePcs
  <2> QED BY <1>1, <2>1, <2>2, EvidenceStays
<1> QED BY <1>f, <1>a, <1>1, <1>v DEF RecoveryInv, RecoveryFacts, PhaseRun,
   PhaseJournal, JournalPrior, RefAgrees, Moved, Applied, Unjournaled, Reviewed, Pulled,
   Evident, Refused, EvidencePcs, Open, AppliedPcs, RunPcs, RecoverPcs, PullPcs,
   TailPcs, JournalPcs, ScanPcs, CohortPcs, CommitPcs, QueuedPcs, TargetPcs, CapturePcs,
   SyncPcs

LEMMA VerifyRecovers ==
  ASSUME DeviceInv, RecoveryInv, Verify
  PROVE  RecoveryInv'
<1>f. RecoveryFacts /\ PhaseRun /\ PhaseJournal
  BY RecoveryFact DEF DeviceInv, Phases
<1>a. \A c \in Node : Anc(c)' = Anc(c)
  BY AncestorsStay DEF Verify, rest
<1>1. /\ UNCHANGED <<st, ref, ack>> /\ pc = "write" /\ pc' = "tflush"
      /\ jr'.target = jr.target /\ jr'.prior = jr.prior /\ jr'.step = jr.step
      /\ run'.ret = run.ret /\ run'.target = run.target
  BY <1>f DEF Verify, RecoveryFacts
<1>v. (Evidenced => Evidenced') /\ (Bundled' <=> Bundled) /\ Spoiled' = Spoiled
  <2>1. /\ jr'.sref = jr.sref /\ jr'.affected = jr.affected /\ jr'.pre = jr.pre
        /\ jr'.bundle = jr.bundle /\ jr'.copy = jr.copy /\ jr'.phase = jr.phase
    BY <1>f DEF Verify, RecoveryFacts
  <2> QED BY <1>1, <2>1, EvidenceStays
<1> QED BY <1>f, <1>a, <1>1, <1>v DEF RecoveryInv, RecoveryFacts, PhaseRun,
   PhaseJournal, JournalPrior, RefAgrees, Moved, Applied, Unjournaled, Reviewed, Pulled,
   Evident, Refused, EvidencePcs, Open, AppliedPcs, RunPcs, RecoverPcs, PullPcs,
   TailPcs, JournalPcs, ScanPcs, CohortPcs, CommitPcs, QueuedPcs, TargetPcs, CapturePcs,
   SyncPcs

LEMMA TailCaptureRecovers ==
  ASSUME DeviceInv, RecoveryInv, TailCapture
  PROVE  RecoveryInv'
<1>f. RecoveryFacts /\ PhaseRun /\ PhaseJournal
  BY RecoveryFact DEF DeviceInv, Phases
<1>a. \A c \in Node : Anc(c)' = Anc(c)
  BY AncestorsStay DEF TailCapture, rest
<1>1. /\ UNCHANGED <<st, ref, ack>> /\ pc = "tsnap" /\ pc' = "refs"
      /\ jr'.target = jr.target /\ jr'.prior = jr.prior /\ jr'.step = jr.step
      /\ run'.ret = run.ret /\ run'.target = run.target
  BY <1>f DEF TailCapture, RecoveryFacts
<1>v. (Evidenced => Evidenced') /\ (Bundled' <=> Bundled) /\ Spoiled' = Spoiled
  <2>1. /\ jr'.sref = jr.sref /\ jr'.affected = jr.affected /\ jr'.pre = jr.pre
        /\ jr'.bundle = jr.bundle /\ jr'.copy = jr.copy /\ jr'.phase = jr.phase
    BY <1>f DEF TailCapture, RecoveryFacts
  <2> QED BY <1>1, <2>1, EvidenceStays
<1> QED BY <1>f, <1>a, <1>1, <1>v DEF RecoveryInv, RecoveryFacts, PhaseRun,
   PhaseJournal, JournalPrior, RefAgrees, Moved, Applied, Unjournaled, Reviewed, Pulled,
   Evident, Refused, EvidencePcs, Open, AppliedPcs, RunPcs, RecoverPcs, PullPcs,
   TailPcs, JournalPcs, ScanPcs, CohortPcs, CommitPcs, QueuedPcs, TargetPcs, CapturePcs,
   SyncPcs

LEMMA TailUnstableRecovers ==
  ASSUME NEW p, DeviceInv, RecoveryInv, TailUnstable(p)
  PROVE  RecoveryInv'
<1>f. RecoveryFacts /\ PhaseRun /\ PhaseJournal
  BY RecoveryFact DEF DeviceInv, Phases
<1>a. \A c \in Node : Anc(c)' = Anc(c)
  BY AncestorsStay DEF TailUnstable, rest
<1>1. /\ UNCHANGED <<st, ref, ack>> /\ pc = "tsnap" /\ pc' = "refs"
      /\ jr'.target = jr.target /\ jr'.prior = jr.prior /\ jr'.step = jr.step
      /\ run'.ret = run.ret /\ run'.target = run.target
  BY <1>f DEF TailUnstable, RecoveryFacts
<1>v. (Evidenced => Evidenced') /\ (Bundled' <=> Bundled) /\ Spoiled' = Spoiled
  <2>1. /\ jr'.sref = jr.sref /\ jr'.affected = jr.affected /\ jr'.pre = jr.pre
        /\ jr'.bundle = jr.bundle /\ jr'.copy = jr.copy /\ jr'.phase = jr.phase
    BY <1>f DEF TailUnstable, RecoveryFacts
  <2> QED BY <1>1, <2>1, EvidenceStays
<1> QED BY <1>f, <1>a, <1>1, <1>v DEF RecoveryInv, RecoveryFacts, PhaseRun,
   PhaseJournal, JournalPrior, RefAgrees, Moved, Applied, Unjournaled, Reviewed, Pulled,
   Evident, Refused, EvidencePcs, Open, AppliedPcs, RunPcs, RecoverPcs, PullPcs,
   TailPcs, JournalPcs, ScanPcs, CohortPcs, CommitPcs, QueuedPcs, TargetPcs, CapturePcs,
   SyncPcs

LEMMA RefsRecovers ==
  ASSUME DeviceInv, RecoveryInv, Refs
  PROVE  RecoveryInv'
<1>f. RecoveryFacts /\ PhaseRun /\ PhaseJournal
  BY RecoveryFact DEF DeviceInv, Phases
<1>a. \A c \in Node : Anc(c)' = Anc(c)
  BY AncestorsStay DEF Refs, rest
<1>1. /\ UNCHANGED <<st, jr, ack, run>> /\ pc = "refs" /\ pc' = "commitj"
      /\ ref'.main = run.target
  BY <1>f DEF Refs, RecoveryFacts
<1> QED BY <1>f, <1>a, <1>1, JournalSame DEF RecoveryInv, RecoveryFacts, PhaseRun,
   PhaseJournal, JournalPrior, RefAgrees, Moved, Applied, Unjournaled, Reviewed, Pulled,
   Evident, Refused, EvidencePcs, Open, AppliedPcs, RunPcs, RecoverPcs, PullPcs,
   TailPcs, JournalPcs, ScanPcs, CohortPcs, CommitPcs, QueuedPcs, TargetPcs, CapturePcs,
   SyncPcs

LEMMA CommitJournalRecovers ==
  ASSUME DeviceInv, RecoveryInv, CommitJournal
  PROVE  RecoveryInv'
<1>f. RecoveryFacts /\ PhaseRun /\ PhaseJournal
  BY RecoveryFact DEF DeviceInv, Phases
<1>a. \A c \in Node : Anc(c)' = Anc(c)
  BY AncestorsStay DEF CommitJournal, rest
<1>1. /\ UNCHANGED <<st, ref, ack, run>> /\ pc = "commitj" /\ pc' = "astate"
      /\ jr'.target = jr.target /\ jr'.prior = jr.prior /\ jr'.step = jr.step
  BY <1>f DEF CommitJournal, RecoveryFacts
<1>v. (Evidenced => Evidenced') /\ (Bundled' <=> Bundled) /\ Spoiled' = Spoiled
  <2>1. /\ jr'.sref = jr.sref /\ jr'.affected = jr.affected /\ jr'.pre = jr.pre
        /\ jr'.bundle = jr.bundle /\ jr'.copy = jr.copy
    BY <1>f DEF CommitJournal, RecoveryFacts
  <2>2. Bundled
    BY <1>1 DEF RecoveryInv, Evident, EvidencePcs
  <2> QED BY <1>1, <2>1, <2>2, EvidenceStays
<1> QED BY <1>f, <1>a, <1>1, <1>v DEF RecoveryInv, RecoveryFacts, PhaseRun,
   PhaseJournal, JournalPrior, RefAgrees, Moved, Applied, Unjournaled, Reviewed, Pulled,
   Evident, Refused, EvidencePcs, Open, AppliedPcs, RunPcs, RecoverPcs, PullPcs,
   TailPcs, JournalPcs, ScanPcs, CohortPcs, CommitPcs, QueuedPcs, TargetPcs, CapturePcs,
   SyncPcs

\* The guarded write takes the target: the prior main is its ancestor.
LEMMA ApplyStateRecovers ==
  ASSUME DeviceInv, RecoveryInv, ApplyState
  PROVE  RecoveryInv'
<1>f. RecoveryFacts /\ PhaseRun /\ PhaseJournal
  BY RecoveryFact DEF DeviceInv, Phases
<1>a. \A c \in Node : Anc(c)' = Anc(c)
  BY AncestorsStay DEF ApplyState, rest
<1>b. /\ Open /\ run.target = jr.target /\ run.ret \notin {"sync", "recover"} /\ pc = "astate"
      /\ ref.main = jr.target /\ st.main \in {jr.target, jr.prior} /\ jr.prior \in Anc(jr.target)
  BY <1>f DEF ApplyState, PhaseRun, PhaseJournal, RecoveryInv, JournalPrior, Moved, Open,
     JournalPcs, TailPcs
<1>c. ~ Behind(run.target, st.main)
  <2>1. jr.target \in Node /\ jr.prior \in Node
    BY <1>b, <1>f DEF RecoveryFacts
  <2> QED BY <2>1, <1>b, <1>f DEF RecoveryFacts, Behind, IsAncestor
<1>d. PICK l, n : /\ n = [st EXCEPT !.main = run.target, !.head = run.target, !.err = "none",
                               !.label = l]
                  /\ st' = Guarded(n)
  <2>1. PICK l : l = CASE run.ret = "refonly" -> IF q.hints # {} THEN "Checking" ELSE "Synced"
                      [] run.ret = "repair" -> IF Preserved # {} THEN "Ahead"
                                               ELSE IF run.defer THEN "Checking" ELSE "Synced"
                      [] run.ret = "apply" -> "Checking"
                      [] OTHER -> st.label
    OBVIOUS
  <2>2. st' = Guarded([st EXCEPT !.main = run.target, !.head = run.target, !.err = "none",
                                 !.label = l])
    BY <2>1, <1>f DEF ApplyState, RecoveryFacts
  <2> QED BY <2>2
<1>e. n.main = run.target /\ n.err = "none"
  BY <1>d, <1>f DEF RecoveryFacts
<1>s0. st'.main = jr.target /\ st'.err \in {st.err, "none"}
  <2>1. st'.main = n.main
    BY <1>c, <1>d, <1>e DEF Guarded
  <2> QED BY <2>1, <1>b, <1>d, <1>e, GuardedFields
<1>i. pc' \in {"ackw", "tqueue", "step"}
  BY <1>b, AfterCaptureCases DEF ApplyState
<1>1. UNCHANGED <<ref, jr, ack, run>>
  BY <1>f DEF ApplyState, RecoveryFacts
<1> QED BY <1>f, <1>a, <1>1, <1>b, <1>s0, <1>i, JournalSame DEF RecoveryInv,
   RecoveryFacts, PhaseRun, PhaseJournal, JournalPrior, RefAgrees, Moved, Applied,
   Unjournaled, Reviewed, Pulled, Evident, Refused, EvidencePcs, Open, AppliedPcs,
   RunPcs, RecoverPcs, PullPcs, TailPcs, JournalPcs, ScanPcs, CohortPcs, CommitPcs,
   QueuedPcs, TargetPcs, CapturePcs, SyncPcs

LEMMA TailAcceptedRecovers ==
  ASSUME DeviceInv, RecoveryInv, TailAccepted
  PROVE  RecoveryInv'
<1>f. RecoveryFacts /\ PhaseRun /\ PhaseJournal
  BY RecoveryFact DEF DeviceInv, Phases
<1>a. \A c \in Node : Anc(c)' = Anc(c)
  BY AncestorsStay DEF TailAccepted, rest
<1>b. /\ Open /\ st.main = jr.target /\ ref.main = jr.target /\ run.target = jr.target
      /\ pc = "tqueue" /\ run.ret \notin {"sync", "recover"}
  BY <1>f DEF TailAccepted, RecoveryInv, Applied, AppliedPcs, PhaseRun, JournalPcs
<1>d. PICK h, l, n : n = [st EXCEPT !.main = run.target, !.head = h, !.label = l] /\ st' = Guarded(n)
  BY DEF TailAccepted
<1>e. n.main = st.main /\ n.err = st.err
  BY <1>b, <1>d, <1>f DEF RecoveryFacts
<1>s0. st'.main = st.main /\ st'.err = st.err
  BY <1>d, <1>e, GuardedFields
<1>i. pc' \in {"ackw", "step"}
  BY <1>b, AfterCaptureCases DEF TailAccepted
<1>1. UNCHANGED <<jr, ack, run>> /\ ref'.main = ref.main
  BY <1>f DEF TailAccepted, RecoveryFacts
<1> QED BY <1>f, <1>a, <1>1, <1>b, <1>s0, <1>i, JournalSame DEF RecoveryInv,
   RecoveryFacts, PhaseRun, PhaseJournal, JournalPrior, RefAgrees, Moved, Applied,
   Unjournaled, Reviewed, Pulled, Evident, Refused, EvidencePcs, Open, AppliedPcs,
   RunPcs, RecoverPcs, PullPcs, TailPcs, JournalPcs, ScanPcs, CohortPcs, CommitPcs,
   QueuedPcs, TargetPcs, CapturePcs, SyncPcs

LEMMA TailQueueRecovers ==
  ASSUME DeviceInv, RecoveryInv, TailQueue
  PROVE  RecoveryInv'
<1>f. RecoveryFacts /\ PhaseRun /\ PhaseJournal
  BY RecoveryFact DEF DeviceInv, Phases
<1>a. \A c \in Node : Anc(c)' = Anc(c)
  BY AncestorsStay DEF TailQueue, rest
<1>1. UNCHANGED <<st, ref, jr, ack, run>> /\ pc = "tqueue" /\ pc' = "cohort"
  BY <1>f DEF TailQueue, RecoveryFacts
<1> QED BY <1>f, <1>a, <1>1, JournalSame DEF RecoveryInv, RecoveryFacts, PhaseRun,
   PhaseJournal, JournalPrior, RefAgrees, Moved, Applied, Unjournaled, Reviewed, Pulled,
   Evident, Refused, EvidencePcs, Open, AppliedPcs, RunPcs, RecoverPcs, PullPcs,
   TailPcs, JournalPcs, ScanPcs, CohortPcs, CommitPcs, QueuedPcs, TargetPcs, CapturePcs,
   SyncPcs

LEMMA TailStepRecovers ==
  ASSUME DeviceInv, RecoveryInv, TailStep
  PROVE  RecoveryInv'
<1>f. RecoveryFacts /\ PhaseRun /\ PhaseJournal
  BY RecoveryFact DEF DeviceInv, Phases
<1>a. \A c \in Node : Anc(c)' = Anc(c)
  BY AncestorsStay DEF TailStep, rest
<1>1. /\ UNCHANGED <<st, ref, ack, run>> /\ pc = "step" /\ pc' = "ackw"
      /\ jr'.target = jr.target /\ jr'.prior = jr.prior
  BY <1>f DEF TailStep, RecoveryFacts
<1>v. (Evidenced => Evidenced') /\ (Bundled' <=> Bundled) /\ Spoiled' = Spoiled
  <2>1. /\ jr'.sref = jr.sref /\ jr'.affected = jr.affected /\ jr'.pre = jr.pre
        /\ jr'.bundle = jr.bundle /\ jr'.copy = jr.copy /\ jr'.phase = jr.phase
    BY <1>f DEF TailStep, RecoveryFacts
  <2> QED BY <1>1, <2>1, EvidenceStays
<1> QED BY <1>f, <1>a, <1>1, <1>v DEF RecoveryInv, RecoveryFacts, PhaseRun,
   PhaseJournal, JournalPrior, RefAgrees, Moved, Applied, Unjournaled, Reviewed, Pulled,
   Evident, Refused, EvidencePcs, Open, AppliedPcs, RunPcs, RecoverPcs, PullPcs,
   TailPcs, JournalPcs, ScanPcs, CohortPcs, CommitPcs, QueuedPcs, TargetPcs, CapturePcs,
   SyncPcs

LEMMA AckWriteRecovers ==
  ASSUME DeviceInv, RecoveryInv, AckWrite
  PROVE  RecoveryInv'
<1>f. RecoveryFacts /\ PhaseRun /\ PhaseJournal
  BY RecoveryFact DEF DeviceInv, Phases
<1>a. \A c \in Node : Anc(c)' = Anc(c)
  BY AncestorsStay DEF AckWrite, rest
<1>1. /\ UNCHANGED <<ref, jr, run>> /\ st'.main = st.main /\ st'.err \in {st.err, "none"}
      /\ ack' = run.target /\ pc = "ackw" /\ pc' = "clear"
  BY <1>f DEF AckWrite, RecoveryFacts
<1> QED BY <1>f, <1>a, <1>1, JournalSame DEF RecoveryInv, RecoveryFacts, PhaseRun,
   PhaseJournal, JournalPrior, RefAgrees, Moved, Applied, Unjournaled, Reviewed, Pulled,
   Evident, Refused, EvidencePcs, Open, AppliedPcs, RunPcs, RecoverPcs, PullPcs,
   TailPcs, JournalPcs, ScanPcs, CohortPcs, CommitPcs, QueuedPcs, TargetPcs, CapturePcs,
   SyncPcs

LEMMA ClearJournalRecovers ==
  ASSUME DeviceInv, RecoveryInv, ClearJournal
  PROVE  RecoveryInv'
<1>f. RecoveryFacts /\ PhaseRun /\ PhaseJournal
  BY RecoveryFact DEF DeviceInv, Phases
<1>a. \A c \in Node : Anc(c)' = Anc(c)
  BY AncestorsStay DEF ClearJournal, rest
<1>1. /\ UNCHANGED <<st, ref, ack>> /\ jr'.target = 0
      /\ pc = "clear" /\ pc' \in {"ack", "idle"}
  BY <1>f DEF ClearJournal, RecoveryFacts, NoJournal, Done
<1> QED BY <1>f, <1>a, <1>1 DEF RecoveryInv, RecoveryFacts, PhaseRun,
   PhaseJournal, JournalPrior, RefAgrees, Moved, Applied, Unjournaled, Reviewed, Pulled,
   Evident, Refused, EvidencePcs, Open, AppliedPcs, RunPcs, RecoverPcs, PullPcs,
   TailPcs, JournalPcs, ScanPcs, CohortPcs, CommitPcs, QueuedPcs, TargetPcs, CapturePcs,
   SyncPcs

LEMMA SettleRecovers ==
  ASSUME DeviceInv, RecoveryInv, Settle
  PROVE  RecoveryInv'
<1>f. RecoveryFacts /\ PhaseRun /\ PhaseJournal
  BY RecoveryFact DEF DeviceInv, Phases
<1>a. \A c \in Node : Anc(c)' = Anc(c)
  BY AncestorsStay DEF Settle, rest
<1>1. UNCHANGED <<st, ref, jr, ack>> /\ pc = "settle" /\ pc' = "idle"
  BY <1>f DEF Settle, RecoveryFacts, Done
<1> QED BY <1>f, <1>a, <1>1, JournalSame DEF RecoveryInv, RecoveryFacts, PhaseRun,
   PhaseJournal, JournalPrior, RefAgrees, Moved, Applied, Unjournaled, Reviewed, Pulled,
   Evident, Refused, EvidencePcs, Open, AppliedPcs, RunPcs, RecoverPcs, PullPcs,
   TailPcs, JournalPcs, ScanPcs, CohortPcs, CommitPcs, QueuedPcs, TargetPcs, CapturePcs,
   SyncPcs

\* The journal a recovery finds is valid, or one of its copies is spoiled.
LEMMA InitJournalRecovers ==
  ASSUME DeviceInv, RecoveryInv, InitJournal
  PROVE  RecoveryInv'
<1>f. RecoveryFacts /\ PhaseRun /\ PhaseJournal
  BY RecoveryFact DEF DeviceInv, Phases
<1>a. \A c \in Node : Anc(c)' = Anc(c)
  BY AncestorsStay DEF InitJournal, rest
<1>b. /\ Open /\ pc = "init" /\ run.ret \in {"boot", "sync"}
      /\ JournalValid <=> Spoiled = {}
  BY <1>f DEF InitJournal, RecoveryInv, RecoveryFacts, JournalPrior, JournalValid, PhaseRun,
     Evident
<1>j. CASE ~ JournalValid
  <2>1. /\ UNCHANGED <<ref, ack, jr>> /\ pc' = "idle" /\ st' = Blocked("recovery")
    BY <1>j DEF InitJournal
  <2>2. st'.main = st.main /\ st'.err = "recovery"
    BY <2>1, <1>f DEF RecoveryFacts, Blocked
  <2> QED BY <1>f, <1>a, <1>b, <1>j, <2>1, <2>2, JournalSame DEF RecoveryInv, RecoveryFacts,
       JournalPrior, RefAgrees, Moved, Applied, Unjournaled, Reviewed, Pulled, Evident,
       Refused, EvidencePcs, Open, AppliedPcs, RunPcs, PullPcs, ScanPcs, CohortPcs,
       CommitPcs, QueuedPcs, CapturePcs
<1>k. CASE JournalValid
  <2>c. PICK j, todo, bare :
          /\ UNCHANGED <<st, ref, ack>>
          /\ \/ /\ pc' = IF ack = jr.target THEN "clear"
                         ELSE IF jr.step # "none" THEN "ackw" ELSE "bsnap"
                /\ run' = [NoRun EXCEPT !.target = jr.target, !.ret = "resume"]
                /\ jr' = jr /\ jr.phase = "committed"
             \/ /\ pc' = (IF bare THEN "rewrite" ELSE "write") /\ jr' = j
                /\ run' = [NoRun EXCEPT !.target = jr.target, !.ret = "repair", !.todo = todo]
          /\ j.target = jr.target /\ j.prior = jr.prior /\ j.step = jr.step
          /\ j.sref = jr.sref /\ j.affected = jr.affected /\ j.pre = jr.pre
          /\ j.bundle = IF jr.affected # {} /\ jr.bundle = NoBundle THEN Frozen(jr) ELSE jr.bundle
    <3> DEFINE matched == {p \in jr.affected : file[p] = Tree(jr.target)[p]}
               diverged == {p \in jr.affected : file[p] # jr.pre[p]
                                                  /\ ~ (jr.phase = "writing" /\ p \in matched)}
               bare == jr.affected # {} /\ jr.bundle = NoBundle
               j == [jr EXCEPT !.deferred = @ \cup diverged,
                               !.bundle = IF bare THEN Frozen(jr) ELSE @,
                               !.phase = IF bare THEN "bundled" ELSE "writing"]
               todo == jr.affected \ (matched \cup j.deferred)
    <3>1. /\ j.target = jr.target /\ j.prior = jr.prior /\ j.step = jr.step
          /\ j.sref = jr.sref /\ j.affected = jr.affected /\ j.pre = jr.pre
          /\ j.bundle = IF jr.affected # {} /\ jr.bundle = NoBundle THEN Frozen(jr) ELSE jr.bundle
      BY <1>f DEF RecoveryFacts
    <3>2. /\ UNCHANGED <<st, ref, ack>>
          /\ \/ /\ pc' = IF ack = jr.target THEN "clear"
                         ELSE IF jr.step # "none" THEN "ackw" ELSE "bsnap"
                /\ run' = [NoRun EXCEPT !.target = jr.target, !.ret = "resume"]
                /\ jr' = jr /\ jr.phase = "committed"
             \/ /\ pc' = (IF bare THEN "rewrite" ELSE "write") /\ jr' = j
                /\ run' = [NoRun EXCEPT !.target = jr.target, !.ret = "repair", !.todo = todo]
      BY <1>k DEF InitJournal
    <3> HIDE DEF j, todo, bare
    <3> QED BY <3>1, <3>2
  <2>d. jr'.target = jr.target /\ jr'.prior = jr.prior /\ jr'.step = jr.step
    BY <2>c
  <2>i. run'.target = jr.target /\ run'.ret \in {"resume", "repair"}
    BY <2>c, NoRunFields
  <2>e. /\ UNCHANGED <<st, ref, ack>> /\ pc' \in {"clear", "ackw", "bsnap", "rewrite", "write"}
        /\ pc' = "clear" => ack = jr.target
        /\ pc' = "ackw" => jr.step # "none"
    BY <2>c
  <2>v. Evidenced' /\ (pc' \in EvidencePcs => Bundled')
    <3>0. Evidenced
      BY <1>b DEF RecoveryInv, Evident
    <3>1. CASE jr' = jr /\ jr.phase = "committed"
      BY <3>0, <3>1, JournalSame DEF Evidenced, Bundled
    <3>2. CASE jr' = j
      <4>1. Frozen(jr)' = Frozen(jr)
        BY <2>c, <3>2 DEF Frozen
      <4>2. Frozen(jr) # NoBundle
        BY <1>b DEF Open, Frozen, NoBundle
      <4>3. jr'.bundle = Frozen(jr) \/ (jr'.bundle = NoBundle /\ jr'.affected = {})
        BY <2>c, <3>0, <3>2 DEF Evidenced
      <4> QED BY <4>1, <4>2, <4>3 DEF Evidenced, Bundled
    <3> QED BY <2>c, <3>1, <3>2
  <2>r. st.err # "recovery"
    BY <1>b, <1>k DEF RecoveryInv, Refused
  <2> QED BY <1>f, <1>a, <1>b, <2>d, <2>e, <2>i, <2>v, <2>r DEF RecoveryInv,
       RecoveryFacts, PhaseRun, PhaseJournal, JournalPrior, RefAgrees, Moved, Applied,
       Unjournaled, Reviewed, Pulled, Evident, Refused, EvidencePcs, Open, AppliedPcs,
       RunPcs, RecoverPcs, PullPcs, TailPcs, JournalPcs, ScanPcs, CohortPcs, CommitPcs,
       QueuedPcs, TargetPcs, CapturePcs, SyncPcs
<1> QED BY <1>j, <1>k

LEMMA RecoveryInit == Init => RecoveryInv
<1> SUFFICES ASSUME Init PROVE RecoveryInv
  OBVIOUS
<1>1. /\ st.main = 1 /\ st.err = "none" /\ ref.main = 1 /\ jr.target = 0 /\ ack = 0
      /\ pc = "idle"
  BY DEF Init, NoJournal
<1> QED BY <1>1 DEF RecoveryInv, JournalPrior, RefAgrees, Moved, Applied, Unjournaled,
     Reviewed, Pulled, Evident, Refused, EvidencePcs, Open, AppliedPcs, RunPcs, RecoverPcs,
     PullPcs, CapturePcs, ScanPcs, CohortPcs, CommitPcs, QueuedPcs

LEMMA EngineRecovers ==
  ASSUME DeviceInv, RecoveryInv, EngineStep
  PROVE  RecoveryInv'
<1>1. CASE InitClean
  BY <1>1, InitCleanRecovers
<1>2. CASE InitJournal
  BY <1>2, InitJournalRecovers
<1>3. CASE AckSend(TRUE)
  BY <1>3, AckSendRecovers
<1>4. CASE Flush
  BY <1>4, FlushRecovers
<1>5. CASE RepairRef
  BY <1>5, RepairRefRecovers
<1>6. CASE Reconcile
  BY <1>6, ReconcileRecovers
<1>7. CASE CaptureFull
  BY <1>7, CaptureFullRecovers
<1>8. CASE Cohort
  BY <1>8, CohortRecovers
<1>9. CASE Classify
  BY <1>9, ClassifyRecovers
<1>10. CASE Intent
  BY <1>10, IntentRecovers
<1>11. CASE CohortRef
  BY <1>11, CohortRefRecovers
<1>12. CASE IntentCommitted
  BY <1>12, IntentCommittedRecovers
<1>13. CASE IntentQueued
  BY <1>13, IntentQueuedRecovers
<1>14. CASE IntentState
  BY <1>14, IntentStateRecovers
<1>15. CASE Ordinary
  BY <1>15, OrdinaryRecovers
<1>16. CASE OrdinaryQueued
  BY <1>16, OrdinaryQueuedRecovers
<1>17. CASE OrdinaryState
  BY <1>17, OrdinaryStateRecovers
<1>18. CASE NoChange
  BY <1>18, NoChangeRecovers
<1>19. CASE PushIntegrated(TRUE)
  BY <1>19, PushIntegratedRecovers
<1>20. CASE PushAgain(TRUE)
  BY <1>20, PushAgainRecovers
<1>21. CASE ResultRecorded
  BY <1>21, ResultRecordedRecovers
<1>22. CASE ResultQueued
  BY <1>22, ResultQueuedRecovers
<1>23. CASE ResultState
  BY <1>23, ResultStateRecovers
<1>24. CASE Pull
  BY <1>24, PullRecovers
<1>25. CASE ApplyBase
  BY <1>25, ApplyBaseRecovers
<1>26. CASE Plan
  BY <1>26, PlanRecovers
<1>27. CASE Retain
  BY <1>27, RetainRecovers
<1>28. CASE Revalidate
  BY <1>28, RevalidateRecovers
<1>29. CASE Verify
  BY <1>29, VerifyRecovers
<1>30. CASE TailFlush
  BY <1>30, TailFlushRecovers
<1>31. CASE TailCapture
  BY <1>31, TailCaptureRecovers
<1>32. CASE BootCapture
  BY <1>32, BootCaptureRecovers
<1>33. CASE Refs
  BY <1>33, RefsRecovers
<1>34. CASE CommitJournal
  BY <1>34, CommitJournalRecovers
<1>35. CASE ApplyState
  BY <1>35, ApplyStateRecovers
<1>36. CASE TailAccepted
  BY <1>36, TailAcceptedRecovers
<1>37. CASE TailQueue
  BY <1>37, TailQueueRecovers
<1>38. CASE TailStep
  BY <1>38, TailStepRecovers
<1>39. CASE AckWrite
  BY <1>39, AckWriteRecovers
<1>40. CASE ClearJournal
  BY <1>40, ClearJournalRecovers
<1>41. CASE Settle
  BY <1>41, SettleRecovers
<1>42. CASE \E p \in Paths : CompareFile(p) \/ CopyFile(p) \/ WriteFile(p)
  BY <1>42, CompareFileRecovers, CopyFileRecovers, WriteFileRecovers
<1>43. CASE Rewrite \/ Bundle
  BY <1>43, RewriteRecovers, BundleRecovers
<1> QED BY <1>1, <1>2, <1>3, <1>4, <1>5, <1>6, <1>7, <1>8, <1>9, <1>10, <1>11, <1>12, <1>13,
     <1>14, <1>15, <1>16, <1>17, <1>18, <1>19, <1>20, <1>21, <1>22, <1>23, <1>24, <1>25,
     <1>26, <1>27, <1>28, <1>29, <1>30, <1>31, <1>32, <1>33, <1>34, <1>35, <1>36, <1>37,
     <1>38, <1>39, <1>40, <1>41, <1>42, <1>43 DEF EngineStep

LEMMA EnvironmentRecovers ==
  ASSUME DeviceInv, RecoveryInv, Environment
  PROVE  RecoveryInv'
<1>1. CASE \E p \in Paths, e \in Edits : Type(p, e) \/ RemotePush(p, e)
  BY <1>1, TypeRecovers, RemotePushRecovers
<1>2. CASE \E p \in Paths : Save(p) \/ Reload(p) \/ TailUnstable(p)
  BY <1>2, SaveRecovers, ReloadRecovers, TailUnstableRecovers
<1>3. CASE Watch
  BY <1>3, WatchRecovers
<1>4. CASE \E i \in {h.id : h \in prov.hor} : Elapse(i)
  BY <1>4, ElapseRecovers
<1>5. CASE \E both \in BOOLEAN : Resolve(both)
  BY <1>5, ResolveRecovers
<1> QED BY <1>1, <1>2, <1>3, <1>4, <1>5 DEF Environment

LEMMA NextRecovers ==
  ASSUME DeviceInv, RecoveryInv, [Next]_vars
  PROVE  RecoveryInv'
<1>1. CASE EngineStep
  BY <1>1, EngineRecovers
<1>2. CASE Environment
  BY <1>2, EnvironmentRecovers
<1>3. CASE SyncStart \/ Start \/ BlockedPoll \/ RetireHorizons \/ CaptureHinted \/ Crash
  BY <1>3, SyncStartRecovers, StartRecovers, BlockedPollRecovers, RetireHorizonsRecovers,
     CaptureHintedRecovers, CrashRecovers
<1>4. CASE \E r \in BOOLEAN : PushConflicted(r)
  BY <1>4, PushConflictedRecovers
<1>5. CASE PushIntegrated(FALSE) \/ PushAgain(FALSE) \/ AckSend(FALSE)
  BY <1>5, PushIntegratedRecovers, PushAgainRecovers, AckSendRecovers
<1>6. CASE UNCHANGED vars
  <2>1. RecoveryFacts /\ UNCHANGED <<commits, st, ref, jr, ack, pc, run>>
    BY <1>6, RecoveryFact DEF vars
  <2>2. \A c \in Node : Anc(c)' = Anc(c)
    BY <2>1, AncestorsStay
  <2> QED BY <2>1, <2>2, JournalSame, RecoveryFrame
<1> QED BY <1>1, <1>2, <1>3, <1>4, <1>5, <1>6 DEF Next

\* The journal, its bundle, the refs, state.json and the acknowledgement agree
\* about the apply under way, between any two of the durable writes.
THEOREM RecoveryHolds == Spec => []RecoveryInv
<1>1. DeviceInv /\ RecoveryInv /\ [Next]_vars => RecoveryInv'
  BY NextRecovers
<1> QED BY <1>1, RecoveryInit, InvariantHolds, PTL DEF Spec

\* A restart that refuses the apply journal does so for a displaced copy that
\* is not the preflight image, and for none of the other reasons of
\* applyRecoveryValidationReason: no crash, lost answer or race leaves a
\* journal at odds with state.json, the main ref, the acknowledgement or its
\* recovery bundle.
THEOREM RecoveryRefusal == Spec => []RefusedForCopyOnly
<1>1. RecoveryInv => RefusedForCopyOnly
  BY DEF RecoveryInv, Refused, RefusedForCopyOnly
<1> QED BY <1>1, RecoveryHolds, PTL

-----------------------------------------------------------------------------
(* A device that was never killed never diverges, whatever answers it      *)
(* lost: its proposals descend from what the server has of it.             *)

Under == q.status = "conflicted" /\ q.pending # 0
Answering == pc \in {"result", "rqueue"}
OpenIntent == prov.intent.base # 0 /\ prov.intent.outcome = "none" /\ prov.intent.commit # 0
TailDone == {"istate", "ostate", "step", "ackw", "clear"}
ReviewPcs == {"rstate", "pull", "apply", "plan", "retain", "bundle", "revalidate", "rewrite",
              "write", "tflush", "tsnap", "bsnap", "refs"}

\* A commit that descends from what the server accepted, known here or not.
Carries(c) == IsAncestor(devRef, c) /\ IsAncestor(st.sref, c)

\* The commit under review is the queued one; otherwise main has it all.
Settled ==
  /\ conflict # 0 => conflict = devRef /\ q.pending = devRef
  /\ conflict = 0 => IsAncestor(devRef, main) /\ IsAncestor(st.sref, main)

\* The local ref and the queue descend from what the server accepted.
Descends ==
  /\ Carries(ref.local)
  /\ q.pending # 0 => Carries(q.pending) /\ IsAncestor(q.pending, ref.local)

\* An answer is true when it is recorded, and still true when state.json is
\* written.
Replies ==
  /\ Under \/ (Answering /\ run.result = "conflicted") =>
       q.pending = conflict \/ Behind(q.pending, main)
  /\ Answering /\ run.result # "conflicted" => conflict = 0 /\ IsAncestor(q.pending, main)
  /\ Answering => run.result # "none"
  /\ pc = "rstate" =>
       /\ Carries(run.commit) /\ IsAncestor(run.commit, ref.local)
       /\ run.commit = conflict \/ IsAncestor(run.commit, main)
       /\ st.head = run.commit \/ IsAncestor(st.head, st.main)
       /\ IF run.result = "conflicted" THEN q.pending = run.commit /\ Under
          ELSE q.pending = 0

\* A target carries what the server accepted and every resolved review, and
\* the head is not ahead of it.
Targets ==
  /\ pc \in {"pull", "ack", "settle"} \cup PullPcs \/ Open => conflict = 0
  /\ pc \in PullPcs => /\ Carries(run.target)
                       /\ q.pending = 0 \/ (Under /\ Behind(q.pending, run.target))
  /\ pc = "apply" => ~ Behind(run.target, st.head) \/ run.target = st.main
  /\ pc = "plan" => ~ Behind(run.target, st.head)
  /\ Open => Carries(jr.target)
  /\ Open /\ pc \notin TailDone =>
       /\ q.pending = 0 \/ (Under /\ Behind(q.pending, jr.target))
       /\ ~ Behind(jr.target, st.head)
  /\ pc \in {"commitj", "astate", "tqueue"} => ref.local = jr.target
  /\ pc = "tqueue" => st.head = jr.target

\* A capture starts with an empty queue and descends from the local ref.
Captures ==
  /\ pc \in CapturePcs \ QueuedPcs /\ run.ret = "sync" => q.pending = 0
  /\ pc \in {"capture", "nochange"} => q.pending = 0
  /\ pc = "oqueue" => run.ret # "recover"
  /\ pc \in CommitPcs \cup {"oqueue"} =>
       Carries(run.commit) /\ IsAncestor(run.commit, ref.local)
  /\ pc \in CommitPcs \cup QueuedPcs \cup {"oqueue"} =>
       IsAncestor(st.head, run.commit) \/ IsAncestor(st.head, st.main)

\* With nothing in flight the device knows what the server has of it.
Current == (q.pending = 0 \/ Under) /\ pc # "rstate" => IsAncestor(devRef, st.sref)

\* The head is the queued commit, or accepted, or shown, or behind the ref.
Headed ==
  /\ q.pending # 0 /\ pc \notin QueuedPcs =>
       st.head = q.pending \/ IsAncestor(st.head, st.main)
  /\ q.pending = 0 /\ pc # "rstate" =>
       IsAncestor(st.sref, st.head) \/ IsAncestor(st.head, st.main)
  /\ pc \notin {"commitj", "astate"} =>
       IsAncestor(st.head, ref.local) \/ IsAncestor(st.head, st.main)

\* A head that main lacks and nobody proposes stands right on what is shown.
Unproposed ==
  conflict = 0 /\ (q.pending = 0 \/ Under) /\ pc # "rstate" =>
    \/ IsAncestor(st.head, main)
    \/ \A a \in Node : Behind(a, st.head) => IsAncestor(a, st.main)

\* An intent that names its commit is about to be queued, or is queued.
Intents ==
  /\ OpenIntent => \/ pc = "iqueue"
                   \/ q.pending = prov.intent.commit /\ q.base # 0 /\ ~ Under
  /\ pc \in {"cref", "icommit", "iqueue"} => run.base = prov.intent.base
  /\ pc = "iqueue" => prov.intent.commit = run.commit
  /\ pc = "rqueue" => ~ OpenIntent
  /\ pc \in CommitPcs /\ run.ret = "recover" => ~ Under

\* The commit under review is not what is shown; while the local ref is on
\* it, the device is blocked or applies the resolution.
Apart ==
  /\ Under \/ conflict # 0 \/ (Answering /\ run.result = "conflicted") =>
       (ref.local = q.pending => ~ IsAncestor(q.pending, st.main))
  /\ Under /\ ref.local = q.pending => pc \in ReviewPcs \/ st.err = "review"

Straight ==
  /\ st.err # "diverged" /\ pc # "down" /\ run.ret # "boot"
  /\ Settled /\ Descends /\ Replies /\ Targets /\ Captures /\ Current /\ Headed
  /\ Unproposed /\ Intents /\ Apart

StraightInv == crashes \in Nat /\ (crashes = 0 => Straight)

-----------------------------------------------------------------------------

\* Ancestry orders the commits.
Ordered ==
  /\ \A a \in Node : IsAncestor(a, a)
  /\ \A a, b, c \in Node : IsAncestor(a, b) /\ IsAncestor(b, c) => IsAncestor(a, c)
  /\ \A a, b \in Node : IsAncestor(a, b) /\ IsAncestor(b, a) => a = b

\* What the steps below need of the first invariant.
Fields ==
  /\ DOMAIN st = {"main", "head", "sref", "label", "err"}
  /\ DOMAIN q = {"pending", "base", "status", "hints"}
  /\ DOMAIN ref = {"main", "local"}
  /\ DOMAIN prov = {"hor", "obl", "intent", "acc"}
  /\ DOMAIN prov.intent = {"base", "parent", "tree", "commit", "caps", "outcome", "main"}
  /\ DOMAIN jr = {"target", "base", "prior", "sref", "phase", "affected", "touched", "pre",
                  "deferred", "step", "bundle", "copy"}
  /\ DOMAIN run = {"target", "snap", "base", "moved", "clean", "todo", "seen", "cohort",
                   "result", "ret", "commit", "defer"}

Known ==
  /\ 0 \notin Node
  /\ main \in Node /\ devRef \in Node /\ ref.local \in Node
  /\ st.main \in Node /\ st.head \in Node /\ st.sref \in Node
  /\ conflict # 0 => conflict \in Node
  /\ q.pending # 0 => q.pending \in Node
  /\ run.commit # 0 => run.commit \in Node
  /\ jr.target # 0 => jr.target \in Node
  /\ pc \in CommitPcs \cup QueuedPcs \cup {"oqueue", "rstate"} => run.commit \in Node
  /\ pc \in TargetPcs => run.target \in Node /\ IsAncestor(run.target, main)
  /\ jr.target # 0 => IsAncestor(jr.target, main)
  /\ IsAncestor(st.main, main)
  /\ Open <=> jr # NoJournal

LEMMA StraightFacts ==
  ASSUME DeviceInv
  PROVE  /\ Ordered /\ Fields /\ Known /\ PhaseRun /\ PhaseJournal /\ PhaseQueue
         /\ q.pending \in Server => q.pending # 0
<1>1. Git /\ ServerTyped /\ PhaseRun /\ PhaseJournal /\ PhaseQueue /\ JournalKnown /\ StateKnown
      /\ StateTyped /\ QueueTyped /\ RefTyped /\ JournalTyped /\ RunTyped /\ ProvTyped
  BY DEF DeviceInv, Shapes, Phases, Keeps
<1>2. Server \subseteq Node /\ 0 \notin Node /\ 0 \notin Server
  BY <1>1, ServerNodes, NodeRange DEF Git
<1>3. \A c \in Node : c \in Anc(c) /\ Anc(c) \subseteq Node
                      /\ \A a \in Anc(c) : Anc(a) \subseteq Anc(c)
  BY <1>1, AncNode
<1>4. \A a, c \in Node : a \in Anc(c) /\ c \in Anc(a) => a = c
  BY RecoveryFact DEF RecoveryFacts
<1>5. Ordered
  BY <1>3, <1>4 DEF Ordered, IsAncestor
<1>6. Fields
  BY <1>1 DEF Fields, StateTyped, QueueTyped, RefTyped, ProvTyped, JournalTyped, RunTyped
<1>7. /\ main \in Node /\ devRef \in Node /\ ref.local \in Node
      /\ st.main \in Node /\ st.head \in Node /\ st.sref \in Node
      /\ conflict # 0 => conflict \in Node
      /\ q.pending # 0 => q.pending \in Node
      /\ run.commit # 0 => run.commit \in Node
      /\ jr.target # 0 => jr.target \in Node
  BY <1>1 DEF ServerTyped, StateTyped, QueueTyped, RefTyped, JournalTyped, RunTyped, None
<1>8. pc \in CommitPcs \cup QueuedPcs \cup {"oqueue", "rstate"} => run.commit \in Node
  BY <1>1, <1>2 DEF PhaseRun
<1>9. pc \in TargetPcs => run.target \in Node /\ IsAncestor(run.target, main)
  BY <1>1, <1>3, <1>7 DEF PhaseRun, IsAncestor
<1>10. IsAncestor(st.main, main) /\ (jr.target # 0 => IsAncestor(jr.target, main))
  BY <1>1 DEF StateKnown, JournalKnown, IsAncestor
<1>11. Open <=> jr # NoJournal
  BY RecoveryFact DEF RecoveryFacts
<1> QED BY <1>1, <1>2, <1>5, <1>6, <1>7, <1>8, <1>9, <1>10, <1>11 DEF Known

LEMMA OrderStays ==
  ASSUME DeviceInv, commits' = commits \/ \E t, s : commits' = Commit(t, s)
  PROVE  \A a, b \in Node : IsAncestor(a, b)' <=> IsAncestor(a, b)
BY AncestorsStay DEF IsAncestor

LEMMA OrderSame ==
  ASSUME commits' = commits
  PROVE  Node' = Node /\ \A a, b : IsAncestor(a, b)' <=> IsAncestor(a, b)
BY DEF IsAncestor, Anc, Node

\* A new commit stands on its parents and on nothing else.
LEMMA FreshCommit ==
  ASSUME DeviceInv, NEW tree, NEW parents \in SUBSET Node, commits' = Commit(tree, parents),
         NEW n, n = Next1
  PROVE  /\ n \notin Node /\ n # 0 /\ Node' = Node \cup {n} /\ IsAncestor(n, n)'
         /\ \A a \in Node : /\ IsAncestor(a, n)' <=> \E c \in parents : IsAncestor(a, c)
                            /\ ~ IsAncestor(n, a)'
         /\ \A a, b \in Node : IsAncestor(a, b)' <=> IsAncestor(a, b)
<1>1. GitTyped /\ Git
  BY DEF DeviceInv, Shapes, Git
<1>2. Len(commits) \in Nat /\ Node = 1 .. Len(commits) /\ n = Len(commits) + 1
      /\ n \notin Node /\ n # 0
  BY <1>1, NodeRange
<1>3. PICK r : r = [tree |-> tree, anc |-> {n} \cup UNION {Anc(c) : c \in parents}]
  OBVIOUS
<1>4. commits' = Append(commits, r)
  BY <1>3 DEF Commit
<1>5. commits \in Seq([tree : Trees, anc : SUBSET Nat])
  BY <1>1 DEF GitTyped
<1>6. Node' = Node \cup {n} /\ commits'[n] = r
  BY <1>2, <1>4, <1>5 DEF Node
<1>7. \A a, b \in Node : IsAncestor(a, b)' <=> IsAncestor(a, b)
  BY OrderStays
<1>8. commits'[n].anc = {n} \cup UNION {Anc(c) : c \in parents}
  BY <1>3, <1>6
<1>9. \A a \in Node : IsAncestor(a, n)' <=> \E c \in parents : IsAncestor(a, c)
  BY <1>2, <1>8 DEF IsAncestor, Anc
<1>10. \A a \in Node : Anc(a)' = Anc(a) /\ Anc(a) \subseteq Node
  BY <1>1, AncestorsStay, AncNode
<1>11. \A a \in Node : ~ IsAncestor(n, a)'
  BY <1>2, <1>10 DEF IsAncestor
<1>12. IsAncestor(n, n)'
  BY <1>8 DEF IsAncestor, Anc
<1> QED BY <1>2, <1>6, <1>7, <1>9, <1>11, <1>12

\* The guarded write, cursor by cursor.
LEMMA GuardedExact ==
  ASSUME NEW n, st' = Guarded(n)
  PROVE  /\ st'.main = IF Behind(n.main, st.main) THEN st.main ELSE n.main
         /\ st'.head = IF Behind(n.head, st.head) THEN st.head ELSE n.head
         /\ st'.sref = IF Behind(n.sref, st.sref) THEN st.sref ELSE n.sref
         /\ st'.err = IF Behind(n.main, st.main) \/ Behind(n.head, st.head)
                         \/ Behind(n.sref, st.sref) THEN st.err ELSE n.err
BY DEF Guarded

\* The cursors, the queue, the journal and the phase are what they were.
LEMMA StraightFrame ==
  ASSUME Straight, UNCHANGED <<commits, main, devRef, conflict, pc>>,
         st'.main = st.main, st'.head = st.head, st'.sref = st.sref, st'.err = st.err,
         q'.pending = q.pending, q'.base = q.base, q'.status = q.status \/ q.pending = 0,
         ref'.local = ref.local, jr'.target = jr.target, prov'.intent = prov.intent,
         run'.ret = run.ret, run'.target = run.target, run'.commit = run.commit,
         run'.result = run.result, run'.base = run.base
  PROVE  Straight'
<1>o. Node' = Node /\ \A a, b : IsAncestor(a, b)' <=> IsAncestor(a, b)
  BY OrderSame
<1>i. /\ Settled /\ Descends /\ Replies /\ Targets /\ Captures /\ Current /\ Headed
      /\ Unproposed /\ Intents /\ Apart
  BY DEF Straight
<1>u. (Under' <=> Under) /\ (Answering' <=> Answering) /\ (Open' <=> Open)
      /\ (OpenIntent' <=> OpenIntent)
  BY DEF Under, Answering, Open, OpenIntent
<1>c. \A c : Carries(c)' <=> Carries(c)
  BY <1>o DEF Carries
<1>1. Settled' /\ Descends' /\ Current' /\ Headed'
  BY <1>o, <1>i, <1>u DEF Settled, Descends, Current, Headed, Carries
<1>2. Replies' /\ Captures'
  BY <1>o, <1>i, <1>u DEF Replies, Captures, Carries, Behind
<1>3. Targets'
  BY <1>o, <1>i, <1>u DEF Targets, Carries, Behind
<1>4. Unproposed'
  BY <1>o, <1>i, <1>u DEF Unproposed, Behind
<1>5. Intents' /\ Apart'
  BY <1>o, <1>i, <1>u DEF Intents, Apart
<1> QED BY <1>1, <1>2, <1>3, <1>4, <1>5 DEF Straight

LEMMA NoIntentFields == NoIntent.base = 0 /\ NoIntent.commit = 0
BY DEF NoIntent

LEMMA TypeStraight ==
  ASSUME NEW p, NEW e, DeviceInv, RecoveryInv, Straight, Type(p, e)
  PROVE  Straight'
<1>f. Ordered /\ Fields /\ Known /\ PhaseRun /\ PhaseJournal /\ PhaseQueue
  BY StraightFacts
<1>1. UNCHANGED <<commits, main, devRef, conflict, pc, st, q, ref, jr, prov, run>>
  BY <1>f DEF Type, rest, server, Fields
<1> QED BY <1>1, StraightFrame

LEMMA SaveStraight ==
  ASSUME NEW p, DeviceInv, RecoveryInv, Straight, Save(p)
  PROVE  Straight'
<1>f. Ordered /\ Fields /\ Known /\ PhaseRun /\ PhaseJournal /\ PhaseQueue
  BY StraightFacts
<1>1. UNCHANGED <<commits, main, devRef, conflict, pc, st, q, ref, jr, prov, run>>
  BY <1>f DEF Save, rest, server, Fields
<1> QED BY <1>1, StraightFrame

LEMMA ReloadStraight ==
  ASSUME NEW p, DeviceInv, RecoveryInv, Straight, Reload(p)
  PROVE  Straight'
<1>f. Ordered /\ Fields /\ Known /\ PhaseRun /\ PhaseJournal /\ PhaseQueue
  BY StraightFacts
<1>1. UNCHANGED <<commits, main, devRef, conflict, pc, st, q, ref, jr, prov, run>>
  BY <1>f DEF Reload, rest, server, Fields
<1> QED BY <1>1, StraightFrame

LEMMA WatchStraight ==
  ASSUME DeviceInv, RecoveryInv, Straight, Watch
  PROVE  Straight'
<1>f. Ordered /\ Fields /\ Known /\ PhaseRun /\ PhaseJournal /\ PhaseQueue
  BY StraightFacts
<1>1. /\ UNCHANGED <<commits, main, devRef, conflict, pc, ref, jr, prov>>
      /\ st'.main = st.main /\ st'.head = st.head /\ st'.sref = st.sref /\ st'.err = st.err
      /\ q'.pending = q.pending /\ q'.base = q.base /\ (q'.status = q.status \/ q.pending = 0)
      /\ run'.ret = run.ret /\ run'.target = run.target /\ run'.commit = run.commit
      /\ run'.result = run.result /\ run'.base = run.base
  BY <1>f DEF Watch, rest, server, Fields, Hinted
<1> QED BY <1>1, StraightFrame

LEMMA ElapseStraight ==
  ASSUME NEW i, DeviceInv, RecoveryInv, Straight, Elapse(i)
  PROVE  Straight'
<1>f. Ordered /\ Fields /\ Known /\ PhaseRun /\ PhaseJournal /\ PhaseQueue
  BY StraightFacts
<1>1. /\ UNCHANGED <<commits, main, devRef, conflict, pc, st, q, ref, jr, run>>
      /\ prov'.intent = prov.intent
  BY <1>f DEF Elapse, rest, server, Fields
<1> QED BY <1>1, StraightFrame

LEMMA RetireHorizonsStraight ==
  ASSUME DeviceInv, RecoveryInv, Straight, RetireHorizons
  PROVE  Straight'
<1>f. Ordered /\ Fields /\ Known /\ PhaseRun /\ PhaseJournal /\ PhaseQueue
  BY StraightFacts
<1>1. /\ UNCHANGED <<commits, main, devRef, conflict, pc, st, q, ref, jr, run>>
      /\ prov'.intent = prov.intent
  BY <1>f DEF RetireHorizons, rest, server, Fields
<1> QED BY <1>1, StraightFrame

\* Deferring a path leaves the journal's target and the open intent.
LEMMA DeferredStraight ==
  ASSUME NEW p, Fields, UNCHANGED <<jr, prov>> \/ Deferred(p)
  PROVE  jr'.target = jr.target /\ prov'.intent = prov.intent
<1>1. CASE UNCHANGED <<jr, prov>>
  BY <1>1
<1>2. CASE Deferred(p)
  <2>1. PICK j : j = [jr EXCEPT !.deferred = @ \cup {p}]
    OBVIOUS
  <2>2. jr' = j /\ prov' = RetainApply(prov, j, FALSE)
    BY <1>2, <2>1 DEF Deferred
  <2> QED BY <2>1, <2>2, RetainFields DEF Fields
<1> QED BY <1>1, <1>2

LEMMA CompareFileStraight ==
  ASSUME NEW p, DeviceInv, RecoveryInv, Straight, CompareFile(p)
  PROVE  Straight'
<1>f. Ordered /\ Fields /\ Known /\ PhaseRun /\ PhaseJournal /\ PhaseQueue
  BY StraightFacts
<1>a. jr'.target = jr.target /\ prov'.intent = prov.intent
  <2>1. UNCHANGED <<jr, prov>> \/ Deferred(p)
    BY DEF CompareFile
  <2> QED BY <2>1, <1>f, DeferredStraight
<1>b. /\ run'.ret = run.ret /\ run'.target = run.target /\ run'.commit = run.commit
      /\ run'.result = run.result /\ run'.base = run.base
  BY <1>f DEF CompareFile, Fields
<1>1. UNCHANGED <<commits, main, devRef, conflict, pc, st, q, ref>>
  BY <1>f DEF CompareFile, rest, server, Fields
<1> QED BY <1>1, <1>a, <1>b, StraightFrame

LEMMA CopyFileStraight ==
  ASSUME NEW p, DeviceInv, RecoveryInv, Straight, CopyFile(p)
  PROVE  Straight'
<1>f. Ordered /\ Fields /\ Known /\ PhaseRun /\ PhaseJournal /\ PhaseQueue
  BY StraightFacts
<1>1. /\ UNCHANGED <<commits, main, devRef, conflict, pc, st, q, ref, prov, run>>
      /\ jr'.target = jr.target
  BY <1>f DEF CopyFile, rest, server, Fields
<1> QED BY <1>1, StraightFrame

LEMMA WriteFileStraight ==
  ASSUME NEW p, DeviceInv, RecoveryInv, Straight, WriteFile(p)
  PROVE  Straight'
<1>f. Ordered /\ Fields /\ Known /\ PhaseRun /\ PhaseJournal /\ PhaseQueue
  BY StraightFacts
<1>a. jr'.target = jr.target /\ prov'.intent = prov.intent
  <2>1. UNCHANGED <<jr, prov>> \/ Deferred(p)
    BY DEF WriteFile
  <2> QED BY <2>1, <1>f, DeferredStraight
<1>b. /\ run'.ret = run.ret /\ run'.target = run.target /\ run'.commit = run.commit
      /\ run'.result = run.result /\ run'.base = run.base
  BY <1>f DEF WriteFile, Fields
<1>1. UNCHANGED <<commits, main, devRef, conflict, pc, st, q, ref>>
  BY <1>f DEF WriteFile, rest, server, Fields
<1> QED BY <1>1, <1>a, <1>b, StraightFrame

LEMMA SyncStartStraight ==
  ASSUME DeviceInv, RecoveryInv, Straight, SyncStart
  PROVE  Straight'
<1>f. Ordered /\ Fields /\ Known /\ PhaseRun /\ PhaseJournal /\ PhaseQueue
  BY StraightFacts
<1>i. /\ Settled /\ Descends /\ Replies /\ Targets /\ Captures /\ Current /\ Headed
      /\ Unproposed /\ Intents /\ Apart /\ Applied /\ Unjournaled /\ Reviewed
      /\ st.err # "diverged" /\ pc # "down" /\ run.ret # "boot"
  BY DEF Straight, RecoveryInv
<1>o. Node' = Node /\ \A a, b : IsAncestor(a, b)' <=> IsAncestor(a, b)
  BY OrderSame DEF SyncStart, rest
<1>1. /\ UNCHANGED <<commits, main, devRef, conflict, st, q, ref>>
      /\ jr'.target = jr.target /\ prov'.intent = prov.intent
      /\ run'.ret = "sync"
      /\ pc = "idle" /\ st.err # "review" /\ pc' = "init"
  BY <1>f DEF SyncStart, rest, server, Fields, NoRun
<1>e. st'.err # "diverged" /\ pc' # "down" /\ run'.ret # "boot"
  BY <1>f, <1>i, <1>o, <1>1
<1>settled. Settled'
  BY <1>f, <1>i, <1>o, <1>1 DEF Settled
<1>descends. Descends'
  BY <1>f, <1>i, <1>o, <1>1 DEF Descends, Carries
<1>replies. Replies'
  BY <1>f, <1>i, <1>o, <1>1 DEF Replies, Carries, Behind, Under, Answering
<1>targets. Targets'
  BY <1>f, <1>i, <1>o, <1>1 DEF Targets, Carries, Behind, Under, Open, PullPcs, TailDone
<1>captures. Captures'
  BY <1>f, <1>i, <1>o, <1>1 DEF Captures, Carries, CapturePcs, QueuedPcs, CommitPcs,
     ScanPcs, CohortPcs
<1>current. Current'
  BY <1>f, <1>i, <1>o, <1>1 DEF Current, Under
<1>headed. Headed'
  BY <1>f, <1>i, <1>o, <1>1 DEF Headed, QueuedPcs
<1>unproposed. Unproposed'
  BY <1>f, <1>i, <1>o, <1>1 DEF Unproposed, Under, Behind
<1>intents. Intents'
  BY <1>f, <1>i, <1>o, <1>1 DEF Intents, OpenIntent, Under, CommitPcs
<1>apart. Apart'
  BY <1>f, <1>i, <1>o, <1>1 DEF Apart, Under, Answering, ReviewPcs
<1> QED BY <1>e, <1>settled, <1>descends, <1>replies, <1>targets, <1>captures, <1>current,
   <1>headed, <1>unproposed, <1>intents, <1>apart DEF Straight

LEMMA AckSendStraight ==
  ASSUME NEW r \in BOOLEAN, DeviceInv, RecoveryInv, Straight, AckSend(r)
  PROVE  Straight'
<1>f. Ordered /\ Fields /\ Known /\ PhaseRun /\ PhaseJournal /\ PhaseQueue
  BY StraightFacts
<1>i. /\ Settled /\ Descends /\ Replies /\ Targets /\ Captures /\ Current /\ Headed
      /\ Unproposed /\ Intents /\ Apart /\ Applied /\ Unjournaled /\ Reviewed
      /\ st.err # "diverged" /\ pc # "down" /\ run.ret # "boot"
  BY DEF Straight, RecoveryInv
<1>o. Node' = Node /\ \A a, b : IsAncestor(a, b)' <=> IsAncestor(a, b)
  BY OrderSame DEF AckSend, rest
<1>1. /\ UNCHANGED <<commits, main, devRef, conflict, st, q, ref>>
      /\ jr'.target = jr.target /\ prov'.intent = prov.intent
      /\ run'.ret \in {run.ret, "none"}
      /\ pc \in {"ack0", "ack"}
      /\ \/ pc = "ack0" /\ pc' = "flush"
         \/ pc = "ack" /\ pc' = "settle"
         \/ pc' = "idle"
  BY <1>f DEF AckSend, rest, server, Fields, NoRun, Done
<1>e. st'.err # "diverged" /\ pc' # "down" /\ run'.ret # "boot"
  BY <1>f, <1>i, <1>o, <1>1
<1>settled. Settled'
  BY <1>f, <1>i, <1>o, <1>1 DEF Settled
<1>descends. Descends'
  BY <1>f, <1>i, <1>o, <1>1 DEF Descends, Carries
<1>replies. Replies'
  BY <1>f, <1>i, <1>o, <1>1 DEF Replies, Carries, Behind, Under, Answering
<1>targets. Targets'
  BY <1>f, <1>i, <1>o, <1>1 DEF Targets, Carries, Behind, Under, Open, PullPcs, TailDone
<1>captures. Captures'
  BY <1>f, <1>i, <1>o, <1>1 DEF Captures, Carries, CapturePcs, QueuedPcs, CommitPcs,
     ScanPcs, CohortPcs
<1>current. Current'
  BY <1>f, <1>i, <1>o, <1>1 DEF Current, Under
<1>headed. Headed'
  BY <1>f, <1>i, <1>o, <1>1 DEF Headed, QueuedPcs
<1>unproposed. Unproposed'
  BY <1>f, <1>i, <1>o, <1>1 DEF Unproposed, Under, Behind
<1>intents. Intents'
  BY <1>f, <1>i, <1>o, <1>1 DEF Intents, OpenIntent, Under, CommitPcs
<1>apart. Apart'
  BY <1>f, <1>i, <1>o, <1>1 DEF Apart, Under, Answering, ReviewPcs
<1> QED BY <1>e, <1>settled, <1>descends, <1>replies, <1>targets, <1>captures, <1>current,
   <1>headed, <1>unproposed, <1>intents, <1>apart DEF Straight

LEMMA FlushStraight ==
  ASSUME DeviceInv, RecoveryInv, Straight, Flush
  PROVE  Straight'
<1>f. Ordered /\ Fields /\ Known /\ PhaseRun /\ PhaseJournal /\ PhaseQueue
  BY StraightFacts
<1>i. /\ Settled /\ Descends /\ Replies /\ Targets /\ Captures /\ Current /\ Headed
      /\ Unproposed /\ Intents /\ Apart /\ Applied /\ Unjournaled /\ Reviewed
      /\ st.err # "diverged" /\ pc # "down" /\ run.ret # "boot"
  BY DEF Straight, RecoveryInv
<1>o. Node' = Node /\ \A a, b : IsAncestor(a, b)' <=> IsAncestor(a, b)
  BY OrderSame DEF Flush, rest
<1>1. /\ UNCHANGED <<commits, main, devRef, conflict, st, q, ref>>
      /\ jr'.target = jr.target /\ prov'.intent = prov.intent
      /\ run'.ret = run.ret /\ run'.target = run.target /\ run'.commit = run.commit
      /\ run'.result = run.result /\ run'.base = run.base
      /\ pc = "flush" /\ pc' = "repair"
  BY <1>f DEF Flush, rest, server, Fields
<1>e. st'.err # "diverged" /\ pc' # "down" /\ run'.ret # "boot"
  BY <1>f, <1>i, <1>o, <1>1
<1>settled. Settled'
  BY <1>f, <1>i, <1>o, <1>1 DEF Settled
<1>descends. Descends'
  BY <1>f, <1>i, <1>o, <1>1 DEF Descends, Carries
<1>replies. Replies'
  BY <1>f, <1>i, <1>o, <1>1 DEF Replies, Carries, Behind, Under, Answering
<1>targets. Targets'
  BY <1>f, <1>i, <1>o, <1>1 DEF Targets, Carries, Behind, Under, Open, PullPcs, TailDone
<1>captures. Captures'
  BY <1>f, <1>i, <1>o, <1>1 DEF Captures, Carries, CapturePcs, QueuedPcs, CommitPcs,
     ScanPcs, CohortPcs
<1>current. Current'
  BY <1>f, <1>i, <1>o, <1>1 DEF Current, Under
<1>headed. Headed'
  BY <1>f, <1>i, <1>o, <1>1 DEF Headed, QueuedPcs
<1>unproposed. Unproposed'
  BY <1>f, <1>i, <1>o, <1>1 DEF Unproposed, Under, Behind
<1>intents. Intents'
  BY <1>f, <1>i, <1>o, <1>1 DEF Intents, OpenIntent, Under, CommitPcs
<1>apart. Apart'
  BY <1>f, <1>i, <1>o, <1>1 DEF Apart, Under, Answering, ReviewPcs
<1> QED BY <1>e, <1>settled, <1>descends, <1>replies, <1>targets, <1>captures, <1>current,
   <1>headed, <1>unproposed, <1>intents, <1>apart DEF Straight

LEMMA CaptureFullStraight ==
  ASSUME DeviceInv, RecoveryInv, Straight, CaptureFull
  PROVE  Straight'
<1>f. Ordered /\ Fields /\ Known /\ PhaseRun /\ PhaseJournal /\ PhaseQueue
  BY StraightFacts
<1>i. /\ Settled /\ Descends /\ Replies /\ Targets /\ Captures /\ Current /\ Headed
      /\ Unproposed /\ Intents /\ Apart /\ Applied /\ Unjournaled /\ Reviewed
      /\ st.err # "diverged" /\ pc # "down" /\ run.ret # "boot"
  BY DEF Straight, RecoveryInv
<1>o. Node' = Node /\ \A a, b : IsAncestor(a, b)' <=> IsAncestor(a, b)
  BY OrderSame DEF CaptureFull, rest
<1>1. /\ UNCHANGED <<commits, main, devRef, conflict, q, ref>>
      /\ st'.main = st.main /\ st'.head = st.head /\ st'.sref = st.sref /\ st'.err = st.err
      /\ jr'.target = jr.target /\ prov'.intent = prov.intent
      /\ run'.ret = run.ret
      /\ pc = "capture" /\ pc' = "cohort"
  BY <1>f DEF CaptureFull, rest, server, Fields, Checking
<1>e. st'.err # "diverged" /\ pc' # "down" /\ run'.ret # "boot"
  BY <1>f, <1>i, <1>o, <1>1
<1>settled. Settled'
  BY <1>f, <1>i, <1>o, <1>1 DEF Settled
<1>descends. Descends'
  BY <1>f, <1>i, <1>o, <1>1 DEF Descends, Carries
<1>replies. Replies'
  BY <1>f, <1>i, <1>o, <1>1 DEF Replies, Carries, Behind, Under, Answering
<1>targets. Targets'
  BY <1>f, <1>i, <1>o, <1>1 DEF Targets, Carries, Behind, Under, Open, PullPcs, TailDone
<1>captures. Captures'
  BY <1>f, <1>i, <1>o, <1>1 DEF Captures, Carries, CapturePcs, QueuedPcs, CommitPcs,
     ScanPcs, CohortPcs
<1>current. Current'
  BY <1>f, <1>i, <1>o, <1>1 DEF Current, Under
<1>headed. Headed'
  BY <1>f, <1>i, <1>o, <1>1 DEF Headed, QueuedPcs
<1>unproposed. Unproposed'
  BY <1>f, <1>i, <1>o, <1>1 DEF Unproposed, Under, Behind
<1>intents. Intents'
  BY <1>f, <1>i, <1>o, <1>1 DEF Intents, OpenIntent, Under, CommitPcs
<1>apart. Apart'
  BY <1>f, <1>i, <1>o, <1>1 DEF Apart, Under, Answering, ReviewPcs
<1> QED BY <1>e, <1>settled, <1>descends, <1>replies, <1>targets, <1>captures, <1>current,
   <1>headed, <1>unproposed, <1>intents, <1>apart DEF Straight

LEMMA NoChangeStraight ==
  ASSUME DeviceInv, RecoveryInv, Straight, NoChange
  PROVE  Straight'
<1>f. Ordered /\ Fields /\ Known /\ PhaseRun /\ PhaseJournal /\ PhaseQueue
  BY StraightFacts
<1>i. /\ Settled /\ Descends /\ Replies /\ Targets /\ Captures /\ Current /\ Headed
      /\ Unproposed /\ Intents /\ Apart /\ Applied /\ Unjournaled /\ Reviewed
      /\ st.err # "diverged" /\ pc # "down" /\ run.ret # "boot"
  BY DEF Straight, RecoveryInv
<1>o. Node' = Node /\ \A a, b : IsAncestor(a, b)' <=> IsAncestor(a, b)
  BY OrderSame DEF NoChange, rest
<1>1. /\ UNCHANGED <<commits, main, devRef, conflict, ref>>
      /\ st'.main = st.main /\ st'.head = st.head /\ st'.sref = st.sref /\ st'.err = st.err
      /\ q'.pending = q.pending /\ q'.base = q.base
      /\ q'.status = q.status \/ q'.status = "idle"
      /\ jr'.target = jr.target /\ prov'.intent = prov.intent
      /\ run'.ret \in {run.ret, "none"}
      /\ pc = "nochange" /\ pc' \in {"pull", "idle"}
  BY <1>f DEF NoChange, rest, server, Fields, NoRun, Done
<1>e. st'.err # "diverged" /\ pc' # "down" /\ run'.ret # "boot"
  BY <1>f, <1>i, <1>o, <1>1
<1>settled. Settled'
  BY <1>f, <1>i, <1>o, <1>1 DEF Settled
<1>descends. Descends'
  BY <1>f, <1>i, <1>o, <1>1 DEF Descends, Carries
<1>replies. Replies'
  BY <1>f, <1>i, <1>o, <1>1 DEF Replies, Carries, Behind, Under, Answering
<1>targets. Targets'
  BY <1>f, <1>i, <1>o, <1>1 DEF Targets, Carries, Behind, Under, Open, PullPcs, TailDone,
     Captures, Settled
<1>captures. Captures'
  BY <1>f, <1>i, <1>o, <1>1 DEF Captures, Carries, CapturePcs, QueuedPcs, CommitPcs,
     ScanPcs, CohortPcs
<1>current. Current'
  BY <1>f, <1>i, <1>o, <1>1 DEF Current, Under
<1>headed. Headed'
  BY <1>f, <1>i, <1>o, <1>1 DEF Headed, QueuedPcs
<1>unproposed. Unproposed'
  BY <1>f, <1>i, <1>o, <1>1 DEF Unproposed, Under, Behind
<1>intents. Intents'
  BY <1>f, <1>i, <1>o, <1>1 DEF Intents, OpenIntent, Under, CommitPcs
<1>apart. Apart'
  BY <1>f, <1>i, <1>o, <1>1 DEF Apart, Under, Answering, ReviewPcs
<1> QED BY <1>e, <1>settled, <1>descends, <1>replies, <1>targets, <1>captures, <1>current,
   <1>headed, <1>unproposed, <1>intents, <1>apart DEF Straight

LEMMA BlockedPollStraight ==
  ASSUME DeviceInv, RecoveryInv, Straight, BlockedPoll
  PROVE  Straight'
<1>f. Ordered /\ Fields /\ Known /\ PhaseRun /\ PhaseJournal /\ PhaseQueue
  BY StraightFacts
<1>i. /\ Settled /\ Descends /\ Replies /\ Targets /\ Captures /\ Current /\ Headed
      /\ Unproposed /\ Intents /\ Apart /\ Applied /\ Unjournaled /\ Reviewed
      /\ st.err # "diverged" /\ pc # "down" /\ run.ret # "boot"
  BY DEF Straight, RecoveryInv
<1>o. Node' = Node /\ \A a, b : IsAncestor(a, b)' <=> IsAncestor(a, b)
  BY OrderSame DEF BlockedPoll, rest
<1>1. /\ UNCHANGED <<commits, main, devRef, conflict, q, ref>>
      /\ st'.main = st.main /\ st'.head = st.head /\ st'.sref = st.sref /\ st'.err = "none"
      /\ jr'.target = jr.target /\ prov'.intent = prov.intent
      /\ run'.ret = "sync"
      /\ pc = "idle" /\ conflict = 0 /\ pc' = "pull"
  BY <1>f DEF BlockedPoll, rest, server, Fields, NoRun
<1>e. st'.err # "diverged" /\ pc' # "down" /\ run'.ret # "boot"
  BY <1>f, <1>i, <1>o, <1>1
<1>settled. Settled'
  BY <1>f, <1>i, <1>o, <1>1 DEF Settled
<1>descends. Descends'
  BY <1>f, <1>i, <1>o, <1>1 DEF Descends, Carries
<1>replies. Replies'
  BY <1>f, <1>i, <1>o, <1>1 DEF Replies, Carries, Behind, Under, Answering
<1>targets. Targets'
  BY <1>f, <1>i, <1>o, <1>1 DEF Targets, Carries, Behind, Under, Open, PullPcs, TailDone
<1>captures. Captures'
  BY <1>f, <1>i, <1>o, <1>1 DEF Captures, Carries, CapturePcs, QueuedPcs, CommitPcs,
     ScanPcs, CohortPcs
<1>current. Current'
  BY <1>f, <1>i, <1>o, <1>1 DEF Current, Under
<1>headed. Headed'
  BY <1>f, <1>i, <1>o, <1>1 DEF Headed, QueuedPcs
<1>unproposed. Unproposed'
  BY <1>f, <1>i, <1>o, <1>1 DEF Unproposed, Under, Behind
<1>intents. Intents'
  BY <1>f, <1>i, <1>o, <1>1 DEF Intents, OpenIntent, Under, CommitPcs
<1>apart. Apart'
  BY <1>f, <1>i, <1>o, <1>1 DEF Apart, Under, Answering, ReviewPcs
<1> QED BY <1>e, <1>settled, <1>descends, <1>replies, <1>targets, <1>captures, <1>current,
   <1>headed, <1>unproposed, <1>intents, <1>apart DEF Straight

LEMMA RetainStraight ==
  ASSUME DeviceInv, RecoveryInv, Straight, Retain
  PROVE  Straight'
<1>f. Ordered /\ Fields /\ Known /\ PhaseRun /\ PhaseJournal /\ PhaseQueue
  BY StraightFacts
<1>i. /\ Settled /\ Descends /\ Replies /\ Targets /\ Captures /\ Current /\ Headed
      /\ Unproposed /\ Intents /\ Apart /\ Applied /\ Unjournaled /\ Reviewed
      /\ st.err # "diverged" /\ pc # "down" /\ run.ret # "boot"
  BY DEF Straight, RecoveryInv
<1>o. Node' = Node /\ \A a, b : IsAncestor(a, b)' <=> IsAncestor(a, b)
  BY OrderSame DEF Retain, rest
<1>r. \A j, m : RetainApply(prov, j, m).intent = prov.intent
  BY <1>f, RetainFields DEF Fields
<1>1. /\ UNCHANGED <<commits, main, devRef, conflict, st, q, ref>>
      /\ jr'.target = jr.target /\ prov'.intent = prov.intent
      /\ run'.ret = run.ret /\ run'.target = run.target /\ run'.commit = run.commit
      /\ run'.result = run.result /\ run'.base = run.base
      /\ pc = "retain" /\ pc' = "bundle"
  BY <1>f, <1>r DEF Retain, rest, server, Fields
<1>e. st'.err # "diverged" /\ pc' # "down" /\ run'.ret # "boot"
  BY <1>f, <1>i, <1>o, <1>1
<1>settled. Settled'
  BY <1>f, <1>i, <1>o, <1>1 DEF Settled
<1>descends. Descends'
  BY <1>f, <1>i, <1>o, <1>1 DEF Descends, Carries
<1>replies. Replies'
  BY <1>f, <1>i, <1>o, <1>1 DEF Replies, Carries, Behind, Under, Answering
<1>targets. Targets'
  BY <1>f, <1>i, <1>o, <1>1 DEF Targets, Carries, Behind, Under, Open, PullPcs, TailDone
<1>captures. Captures'
  BY <1>f, <1>i, <1>o, <1>1 DEF Captures, Carries, CapturePcs, QueuedPcs, CommitPcs,
     ScanPcs, CohortPcs
<1>current. Current'
  BY <1>f, <1>i, <1>o, <1>1 DEF Current, Under
<1>headed. Headed'
  BY <1>f, <1>i, <1>o, <1>1 DEF Headed, QueuedPcs
<1>unproposed. Unproposed'
  BY <1>f, <1>i, <1>o, <1>1 DEF Unproposed, Under, Behind
<1>intents. Intents'
  BY <1>f, <1>i, <1>o, <1>1 DEF Intents, OpenIntent, Under, CommitPcs
<1>apart. Apart'
  BY <1>f, <1>i, <1>o, <1>1 DEF Apart, Under, Answering, ReviewPcs
<1> QED BY <1>e, <1>settled, <1>descends, <1>replies, <1>targets, <1>captures, <1>current,
   <1>headed, <1>unproposed, <1>intents, <1>apart DEF Straight

LEMMA BundleStraight ==
  ASSUME DeviceInv, RecoveryInv, Straight, Bundle
  PROVE  Straight'
<1>f. Ordered /\ Fields /\ Known /\ PhaseRun /\ PhaseJournal /\ PhaseQueue
  BY StraightFacts
<1>i. /\ Settled /\ Descends /\ Replies /\ Targets /\ Captures /\ Current /\ Headed
      /\ Unproposed /\ Intents /\ Apart /\ Applied /\ Unjournaled /\ Reviewed
      /\ st.err # "diverged" /\ pc # "down" /\ run.ret # "boot"
  BY DEF Straight, RecoveryInv
<1>o. Node' = Node /\ \A a, b : IsAncestor(a, b)' <=> IsAncestor(a, b)
  BY OrderSame DEF Bundle, rest
<1>1. /\ UNCHANGED <<commits, main, devRef, conflict, st, q, ref>>
      /\ jr'.target = jr.target /\ prov'.intent = prov.intent
      /\ run'.ret = run.ret /\ run'.target = run.target /\ run'.commit = run.commit
      /\ run'.result = run.result /\ run'.base = run.base
      /\ pc = "bundle" /\ pc' = "revalidate"
  BY <1>f DEF Bundle, rest, server, Fields
<1>e. st'.err # "diverged" /\ pc' # "down" /\ run'.ret # "boot"
  BY <1>f, <1>i, <1>o, <1>1
<1>settled. Settled'
  BY <1>f, <1>i, <1>o, <1>1 DEF Settled
<1>descends. Descends'
  BY <1>f, <1>i, <1>o, <1>1 DEF Descends, Carries
<1>replies. Replies'
  BY <1>f, <1>i, <1>o, <1>1 DEF Replies, Carries, Behind, Under, Answering
<1>targets. Targets'
  BY <1>f, <1>i, <1>o, <1>1 DEF Targets, Carries, Behind, Under, Open, PullPcs, TailDone
<1>captures. Captures'
  BY <1>f, <1>i, <1>o, <1>1 DEF Captures, Carries, CapturePcs, QueuedPcs, CommitPcs,
     ScanPcs, CohortPcs
<1>current. Current'
  BY <1>f, <1>i, <1>o, <1>1 DEF Current, Under
<1>headed. Headed'
  BY <1>f, <1>i, <1>o, <1>1 DEF Headed, QueuedPcs
<1>unproposed. Unproposed'
  BY <1>f, <1>i, <1>o, <1>1 DEF Unproposed, Under, Behind
<1>intents. Intents'
  BY <1>f, <1>i, <1>o, <1>1 DEF Intents, OpenIntent, Under, CommitPcs
<1>apart. Apart'
  BY <1>f, <1>i, <1>o, <1>1 DEF Apart, Under, Answering, ReviewPcs
<1> QED BY <1>e, <1>settled, <1>descends, <1>replies, <1>targets, <1>captures, <1>current,
   <1>headed, <1>unproposed, <1>intents, <1>apart DEF Straight

LEMMA RevalidateStraight ==
  ASSUME DeviceInv, RecoveryInv, Straight, Revalidate
  PROVE  Straight'
<1>f. Ordered /\ Fields /\ Known /\ PhaseRun /\ PhaseJournal /\ PhaseQueue
  BY StraightFacts
<1>i. /\ Settled /\ Descends /\ Replies /\ Targets /\ Captures /\ Current /\ Headed
      /\ Unproposed /\ Intents /\ Apart /\ Applied /\ Unjournaled /\ Reviewed
      /\ st.err # "diverged" /\ pc # "down" /\ run.ret # "boot"
  BY DEF Straight, RecoveryInv
<1>o. Node' = Node /\ \A a, b : IsAncestor(a, b)' <=> IsAncestor(a, b)
  BY OrderSame DEF Revalidate, rest
<1>1. /\ UNCHANGED <<commits, main, devRef, conflict, st, q, ref>>
      /\ jr'.target = jr.target /\ prov'.intent = prov.intent
      /\ run'.ret = run.ret /\ run'.target = run.target /\ run'.commit = run.commit
      /\ run'.result = run.result /\ run'.base = run.base
      /\ pc = "revalidate" /\ pc' = "write"
  BY <1>f DEF Revalidate, rest, server, Fields
<1>e. st'.err # "diverged" /\ pc' # "down" /\ run'.ret # "boot"
  BY <1>f, <1>i, <1>o, <1>1
<1>settled. Settled'
  BY <1>f, <1>i, <1>o, <1>1 DEF Settled
<1>descends. Descends'
  BY <1>f, <1>i, <1>o, <1>1 DEF Descends, Carries
<1>replies. Replies'
  BY <1>f, <1>i, <1>o, <1>1 DEF Replies, Carries, Behind, Under, Answering
<1>targets. Targets'
  BY <1>f, <1>i, <1>o, <1>1 DEF Targets, Carries, Behind, Under, Open, PullPcs, TailDone
<1>captures. Captures'
  BY <1>f, <1>i, <1>o, <1>1 DEF Captures, Carries, CapturePcs, QueuedPcs, CommitPcs,
     ScanPcs, CohortPcs
<1>current. Current'
  BY <1>f, <1>i, <1>o, <1>1 DEF Current, Under
<1>headed. Headed'
  BY <1>f, <1>i, <1>o, <1>1 DEF Headed, QueuedPcs
<1>unproposed. Unproposed'
  BY <1>f, <1>i, <1>o, <1>1 DEF Unproposed, Under, Behind
<1>intents. Intents'
  BY <1>f, <1>i, <1>o, <1>1 DEF Intents, OpenIntent, Under, CommitPcs
<1>apart. Apart'
  BY <1>f, <1>i, <1>o, <1>1 DEF Apart, Under, Answering, ReviewPcs
<1> QED BY <1>e, <1>settled, <1>descends, <1>replies, <1>targets, <1>captures, <1>current,
   <1>headed, <1>unproposed, <1>intents, <1>apart DEF Straight

LEMMA RewriteStraight ==
  ASSUME DeviceInv, RecoveryInv, Straight, Rewrite
  PROVE  Straight'
<1>f. Ordered /\ Fields /\ Known /\ PhaseRun /\ PhaseJournal /\ PhaseQueue
  BY StraightFacts
<1>i. /\ Settled /\ Descends /\ Replies /\ Targets /\ Captures /\ Current /\ Headed
      /\ Unproposed /\ Intents /\ Apart /\ Applied /\ Unjournaled /\ Reviewed
      /\ st.err # "diverged" /\ pc # "down" /\ run.ret # "boot"
  BY DEF Straight, RecoveryInv
<1>o. Node' = Node /\ \A a, b : IsAncestor(a, b)' <=> IsAncestor(a, b)
  BY OrderSame DEF Rewrite, rest
<1>1. /\ UNCHANGED <<commits, main, devRef, conflict, st, q, ref>>
      /\ jr'.target = jr.target /\ prov'.intent = prov.intent
      /\ run'.ret = run.ret /\ run'.target = run.target /\ run'.commit = run.commit
      /\ run'.result = run.result /\ run'.base = run.base
      /\ pc = "rewrite" /\ pc' = "write"
  BY <1>f DEF Rewrite, rest, server, Fields
<1>e. st'.err # "diverged" /\ pc' # "down" /\ run'.ret # "boot"
  BY <1>f, <1>i, <1>o, <1>1
<1>settled. Settled'
  BY <1>f, <1>i, <1>o, <1>1 DEF Settled
<1>descends. Descends'
  BY <1>f, <1>i, <1>o, <1>1 DEF Descends, Carries
<1>replies. Replies'
  BY <1>f, <1>i, <1>o, <1>1 DEF Replies, Carries, Behind, Under, Answering
<1>targets. Targets'
  BY <1>f, <1>i, <1>o, <1>1 DEF Targets, Carries, Behind, Under, Open, PullPcs, TailDone
<1>captures. Captures'
  BY <1>f, <1>i, <1>o, <1>1 DEF Captures, Carries, CapturePcs, QueuedPcs, CommitPcs,
     ScanPcs, CohortPcs
<1>current. Current'
  BY <1>f, <1>i, <1>o, <1>1 DEF Current, Under
<1>headed. Headed'
  BY <1>f, <1>i, <1>o, <1>1 DEF Headed, QueuedPcs
<1>unproposed. Unproposed'
  BY <1>f, <1>i, <1>o, <1>1 DEF Unproposed, Under, Behind
<1>intents. Intents'
  BY <1>f, <1>i, <1>o, <1>1 DEF Intents, OpenIntent, Under, CommitPcs
<1>apart. Apart'
  BY <1>f, <1>i, <1>o, <1>1 DEF Apart, Under, Answering, ReviewPcs
<1> QED BY <1>e, <1>settled, <1>descends, <1>replies, <1>targets, <1>captures, <1>current,
   <1>headed, <1>unproposed, <1>intents, <1>apart DEF Straight

LEMMA VerifyStraight ==
  ASSUME DeviceInv, RecoveryInv, Straight, Verify
  PROVE  Straight'
<1>f. Ordered /\ Fields /\ Known /\ PhaseRun /\ PhaseJournal /\ PhaseQueue
  BY StraightFacts
<1>i. /\ Settled /\ Descends /\ Replies /\ Targets /\ Captures /\ Current /\ Headed
      /\ Unproposed /\ Intents /\ Apart /\ Applied /\ Unjournaled /\ Reviewed
      /\ st.err # "diverged" /\ pc # "down" /\ run.ret # "boot"
  BY DEF Straight, RecoveryInv
<1>o. Node' = Node /\ \A a, b : IsAncestor(a, b)' <=> IsAncestor(a, b)
  BY OrderSame DEF Verify, rest
<1>r. \A j, m : RetainApply(prov, j, m).intent = prov.intent
  BY <1>f, RetainFields DEF Fields
<1>1. /\ UNCHANGED <<commits, main, devRef, conflict, st, q, ref>>
      /\ jr'.target = jr.target /\ prov'.intent = prov.intent
      /\ run'.ret = run.ret /\ run'.target = run.target /\ run'.commit = run.commit
      /\ run'.result = run.result /\ run'.base = run.base
      /\ pc = "write" /\ pc' = "tflush"
  BY <1>f, <1>r DEF Verify, rest, server, Fields
<1>e. st'.err # "diverged" /\ pc' # "down" /\ run'.ret # "boot"
  BY <1>f, <1>i, <1>o, <1>1
<1>settled. Settled'
  BY <1>f, <1>i, <1>o, <1>1 DEF Settled
<1>descends. Descends'
  BY <1>f, <1>i, <1>o, <1>1 DEF Descends, Carries
<1>replies. Replies'
  BY <1>f, <1>i, <1>o, <1>1 DEF Replies, Carries, Behind, Under, Answering
<1>targets. Targets'
  BY <1>f, <1>i, <1>o, <1>1 DEF Targets, Carries, Behind, Under, Open, PullPcs, TailDone
<1>captures. Captures'
  BY <1>f, <1>i, <1>o, <1>1 DEF Captures, Carries, CapturePcs, QueuedPcs, CommitPcs,
     ScanPcs, CohortPcs
<1>current. Current'
  BY <1>f, <1>i, <1>o, <1>1 DEF Current, Under
<1>headed. Headed'
  BY <1>f, <1>i, <1>o, <1>1 DEF Headed, QueuedPcs
<1>unproposed. Unproposed'
  BY <1>f, <1>i, <1>o, <1>1 DEF Unproposed, Under, Behind
<1>intents. Intents'
  BY <1>f, <1>i, <1>o, <1>1 DEF Intents, OpenIntent, Under, CommitPcs
<1>apart. Apart'
  BY <1>f, <1>i, <1>o, <1>1 DEF Apart, Under, Answering, ReviewPcs
<1> QED BY <1>e, <1>settled, <1>descends, <1>replies, <1>targets, <1>captures, <1>current,
   <1>headed, <1>unproposed, <1>intents, <1>apart DEF Straight

LEMMA TailFlushStraight ==
  ASSUME DeviceInv, RecoveryInv, Straight, TailFlush
  PROVE  Straight'
<1>f. Ordered /\ Fields /\ Known /\ PhaseRun /\ PhaseJournal /\ PhaseQueue
  BY StraightFacts
<1>i. /\ Settled /\ Descends /\ Replies /\ Targets /\ Captures /\ Current /\ Headed
      /\ Unproposed /\ Intents /\ Apart /\ Applied /\ Unjournaled /\ Reviewed
      /\ st.err # "diverged" /\ pc # "down" /\ run.ret # "boot"
  BY DEF Straight, RecoveryInv
<1>o. Node' = Node /\ \A a, b : IsAncestor(a, b)' <=> IsAncestor(a, b)
  BY OrderSame DEF TailFlush, rest
<1>1. /\ UNCHANGED <<commits, main, devRef, conflict, st, q, ref>>
      /\ jr'.target = jr.target /\ prov'.intent = prov.intent
      /\ run'.ret = run.ret /\ run'.target = run.target /\ run'.commit = run.commit
      /\ run'.result = run.result /\ run'.base = run.base
      /\ pc = "tflush" /\ pc' = "tsnap"
  BY <1>f DEF TailFlush, rest, server, Fields
<1>e. st'.err # "diverged" /\ pc' # "down" /\ run'.ret # "boot"
  BY <1>f, <1>i, <1>o, <1>1
<1>settled. Settled'
  BY <1>f, <1>i, <1>o, <1>1 DEF Settled
<1>descends. Descends'
  BY <1>f, <1>i, <1>o, <1>1 DEF Descends, Carries
<1>replies. Replies'
  BY <1>f, <1>i, <1>o, <1>1 DEF Replies, Carries, Behind, Under, Answering
<1>targets. Targets'
  BY <1>f, <1>i, <1>o, <1>1 DEF Targets, Carries, Behind, Under, Open, PullPcs, TailDone
<1>captures. Captures'
  BY <1>f, <1>i, <1>o, <1>1 DEF Captures, Carries, CapturePcs, QueuedPcs, CommitPcs,
     ScanPcs, CohortPcs
<1>current. Current'
  BY <1>f, <1>i, <1>o, <1>1 DEF Current, Under
<1>headed. Headed'
  BY <1>f, <1>i, <1>o, <1>1 DEF Headed, QueuedPcs
<1>unproposed. Unproposed'
  BY <1>f, <1>i, <1>o, <1>1 DEF Unproposed, Under, Behind
<1>intents. Intents'
  BY <1>f, <1>i, <1>o, <1>1 DEF Intents, OpenIntent, Under, CommitPcs
<1>apart. Apart'
  BY <1>f, <1>i, <1>o, <1>1 DEF Apart, Under, Answering, ReviewPcs
<1> QED BY <1>e, <1>settled, <1>descends, <1>replies, <1>targets, <1>captures, <1>current,
   <1>headed, <1>unproposed, <1>intents, <1>apart DEF Straight

LEMMA TailCaptureStraight ==
  ASSUME DeviceInv, RecoveryInv, Straight, TailCapture
  PROVE  Straight'
<1>f. Ordered /\ Fields /\ Known /\ PhaseRun /\ PhaseJournal /\ PhaseQueue
  BY StraightFacts
<1>i. /\ Settled /\ Descends /\ Replies /\ Targets /\ Captures /\ Current /\ Headed
      /\ Unproposed /\ Intents /\ Apart /\ Applied /\ Unjournaled /\ Reviewed
      /\ st.err # "diverged" /\ pc # "down" /\ run.ret # "boot"
  BY DEF Straight, RecoveryInv
<1>o. Node' = Node /\ \A a, b : IsAncestor(a, b)' <=> IsAncestor(a, b)
  BY OrderSame DEF TailCapture, rest
<1>r. \A j, m : RetainApply(prov, j, m).intent = prov.intent
  BY <1>f, RetainFields DEF Fields
<1>1. /\ UNCHANGED <<commits, main, devRef, conflict, st, q, ref>>
      /\ jr'.target = jr.target /\ prov'.intent = prov.intent
      /\ run'.ret = run.ret /\ run'.target = run.target /\ run'.commit = run.commit
      /\ run'.result = run.result /\ run'.base = run.base
      /\ pc = "tsnap" /\ pc' = "refs"
  BY <1>f, <1>r DEF TailCapture, rest, server, Fields
<1>e. st'.err # "diverged" /\ pc' # "down" /\ run'.ret # "boot"
  BY <1>f, <1>i, <1>o, <1>1
<1>settled. Settled'
  BY <1>f, <1>i, <1>o, <1>1 DEF Settled
<1>descends. Descends'
  BY <1>f, <1>i, <1>o, <1>1 DEF Descends, Carries
<1>replies. Replies'
  BY <1>f, <1>i, <1>o, <1>1 DEF Replies, Carries, Behind, Under, Answering
<1>targets. Targets'
  BY <1>f, <1>i, <1>o, <1>1 DEF Targets, Carries, Behind, Under, Open, PullPcs, TailDone
<1>captures. Captures'
  BY <1>f, <1>i, <1>o, <1>1 DEF Captures, Carries, CapturePcs, QueuedPcs, CommitPcs,
     ScanPcs, CohortPcs
<1>current. Current'
  BY <1>f, <1>i, <1>o, <1>1 DEF Current, Under
<1>headed. Headed'
  BY <1>f, <1>i, <1>o, <1>1 DEF Headed, QueuedPcs
<1>unproposed. Unproposed'
  BY <1>f, <1>i, <1>o, <1>1 DEF Unproposed, Under, Behind
<1>intents. Intents'
  BY <1>f, <1>i, <1>o, <1>1 DEF Intents, OpenIntent, Under, CommitPcs
<1>apart. Apart'
  BY <1>f, <1>i, <1>o, <1>1 DEF Apart, Under, Answering, ReviewPcs
<1> QED BY <1>e, <1>settled, <1>descends, <1>replies, <1>targets, <1>captures, <1>current,
   <1>headed, <1>unproposed, <1>intents, <1>apart DEF Straight

LEMMA TailUnstableStraight ==
  ASSUME NEW p, DeviceInv, RecoveryInv, Straight, TailUnstable(p)
  PROVE  Straight'
<1>f. Ordered /\ Fields /\ Known /\ PhaseRun /\ PhaseJournal /\ PhaseQueue
  BY StraightFacts
<1>i. /\ Settled /\ Descends /\ Replies /\ Targets /\ Captures /\ Current /\ Headed
      /\ Unproposed /\ Intents /\ Apart /\ Applied /\ Unjournaled /\ Reviewed
      /\ st.err # "diverged" /\ pc # "down" /\ run.ret # "boot"
  BY DEF Straight, RecoveryInv
<1>o. Node' = Node /\ \A a, b : IsAncestor(a, b)' <=> IsAncestor(a, b)
  BY OrderSame DEF TailUnstable, rest
<1>r. \A j, m : RetainApply(prov, j, m).intent = prov.intent
  BY <1>f, RetainFields DEF Fields
<1>1. /\ UNCHANGED <<commits, main, devRef, conflict, st, ref>>
      /\ q'.pending = q.pending /\ q'.base = q.base /\ (q'.status = q.status \/ q.pending = 0)
      /\ jr'.target = jr.target /\ prov'.intent = prov.intent
      /\ run'.ret = run.ret /\ run'.target = run.target /\ run'.commit = run.commit
      /\ run'.result = run.result /\ run'.base = run.base
      /\ pc = "tsnap" /\ pc' = "refs"
  BY <1>f, <1>r DEF TailUnstable, rest, server, Fields, Hinted
<1>e. st'.err # "diverged" /\ pc' # "down" /\ run'.ret # "boot"
  BY <1>f, <1>i, <1>o, <1>1
<1>settled. Settled'
  BY <1>f, <1>i, <1>o, <1>1 DEF Settled
<1>descends. Descends'
  BY <1>f, <1>i, <1>o, <1>1 DEF Descends, Carries
<1>replies. Replies'
  BY <1>f, <1>i, <1>o, <1>1 DEF Replies, Carries, Behind, Under, Answering
<1>targets. Targets'
  BY <1>f, <1>i, <1>o, <1>1 DEF Targets, Carries, Behind, Under, Open, PullPcs, TailDone
<1>captures. Captures'
  BY <1>f, <1>i, <1>o, <1>1 DEF Captures, Carries, CapturePcs, QueuedPcs, CommitPcs,
     ScanPcs, CohortPcs
<1>current. Current'
  BY <1>f, <1>i, <1>o, <1>1 DEF Current, Under
<1>headed. Headed'
  BY <1>f, <1>i, <1>o, <1>1 DEF Headed, QueuedPcs
<1>unproposed. Unproposed'
  BY <1>f, <1>i, <1>o, <1>1 DEF Unproposed, Under, Behind
<1>intents. Intents'
  BY <1>f, <1>i, <1>o, <1>1 DEF Intents, OpenIntent, Under, CommitPcs
<1>apart. Apart'
  BY <1>f, <1>i, <1>o, <1>1 DEF Apart, Under, Answering, ReviewPcs
<1> QED BY <1>e, <1>settled, <1>descends, <1>replies, <1>targets, <1>captures, <1>current,
   <1>headed, <1>unproposed, <1>intents, <1>apart DEF Straight

LEMMA BootCaptureStraight ==
  ASSUME DeviceInv, RecoveryInv, Straight, BootCapture
  PROVE  Straight'
<1>f. Ordered /\ Fields /\ Known /\ PhaseRun /\ PhaseJournal /\ PhaseQueue
  BY StraightFacts
<1>i. /\ Settled /\ Descends /\ Replies /\ Targets /\ Captures /\ Current /\ Headed
      /\ Unproposed /\ Intents /\ Apart /\ Applied /\ Unjournaled /\ Reviewed
      /\ st.err # "diverged" /\ pc # "down" /\ run.ret # "boot"
  BY DEF Straight, RecoveryInv
<1>o. Node' = Node /\ \A a, b : IsAncestor(a, b)' <=> IsAncestor(a, b)
  BY OrderSame DEF BootCapture, rest
<1>1. /\ UNCHANGED <<commits, main, devRef, conflict, st, q, ref>>
      /\ jr'.target = jr.target /\ prov'.intent = prov.intent
      /\ run'.ret = run.ret /\ run'.target = run.target /\ run'.commit = run.commit
      /\ run'.result = run.result /\ run'.base = run.base
      /\ pc = "bsnap" /\ pc' = "refs"
  BY <1>f DEF BootCapture, rest, server, Fields
<1>e. st'.err # "diverged" /\ pc' # "down" /\ run'.ret # "boot"
  BY <1>f, <1>i, <1>o, <1>1
<1>settled. Settled'
  BY <1>f, <1>i, <1>o, <1>1 DEF Settled
<1>descends. Descends'
  BY <1>f, <1>i, <1>o, <1>1 DEF Descends, Carries
<1>replies. Replies'
  BY <1>f, <1>i, <1>o, <1>1 DEF Replies, Carries, Behind, Under, Answering
<1>targets. Targets'
  BY <1>f, <1>i, <1>o, <1>1 DEF Targets, Carries, Behind, Under, Open, PullPcs, TailDone
<1>captures. Captures'
  BY <1>f, <1>i, <1>o, <1>1 DEF Captures, Carries, CapturePcs, QueuedPcs, CommitPcs,
     ScanPcs, CohortPcs
<1>current. Current'
  BY <1>f, <1>i, <1>o, <1>1 DEF Current, Under
<1>headed. Headed'
  BY <1>f, <1>i, <1>o, <1>1 DEF Headed, QueuedPcs
<1>unproposed. Unproposed'
  BY <1>f, <1>i, <1>o, <1>1 DEF Unproposed, Under, Behind
<1>intents. Intents'
  BY <1>f, <1>i, <1>o, <1>1 DEF Intents, OpenIntent, Under, CommitPcs
<1>apart. Apart'
  BY <1>f, <1>i, <1>o, <1>1 DEF Apart, Under, Answering, ReviewPcs
<1> QED BY <1>e, <1>settled, <1>descends, <1>replies, <1>targets, <1>captures, <1>current,
   <1>headed, <1>unproposed, <1>intents, <1>apart DEF Straight

LEMMA CommitJournalStraight ==
  ASSUME DeviceInv, RecoveryInv, Straight, CommitJournal
  PROVE  Straight'
<1>f. Ordered /\ Fields /\ Known /\ PhaseRun /\ PhaseJournal /\ PhaseQueue
  BY StraightFacts
<1>i. /\ Settled /\ Descends /\ Replies /\ Targets /\ Captures /\ Current /\ Headed
      /\ Unproposed /\ Intents /\ Apart /\ Applied /\ Unjournaled /\ Reviewed
      /\ st.err # "diverged" /\ pc # "down" /\ run.ret # "boot"
  BY DEF Straight, RecoveryInv
<1>o. Node' = Node /\ \A a, b : IsAncestor(a, b)' <=> IsAncestor(a, b)
  BY OrderSame DEF CommitJournal, rest
<1>1. /\ UNCHANGED <<commits, main, devRef, conflict, st, q, ref>>
      /\ jr'.target = jr.target /\ prov'.intent = prov.intent
      /\ run'.ret = run.ret /\ run'.target = run.target /\ run'.commit = run.commit
      /\ run'.result = run.result /\ run'.base = run.base
      /\ pc = "commitj" /\ pc' = "astate"
  BY <1>f DEF CommitJournal, rest, server, Fields
<1>e. st'.err # "diverged" /\ pc' # "down" /\ run'.ret # "boot"
  BY <1>f, <1>i, <1>o, <1>1
<1>settled. Settled'
  BY <1>f, <1>i, <1>o, <1>1 DEF Settled
<1>descends. Descends'
  BY <1>f, <1>i, <1>o, <1>1 DEF Descends, Carries
<1>replies. Replies'
  BY <1>f, <1>i, <1>o, <1>1 DEF Replies, Carries, Behind, Under, Answering
<1>targets. Targets'
  BY <1>f, <1>i, <1>o, <1>1 DEF Targets, Carries, Behind, Under, Open, PullPcs, TailDone
<1>captures. Captures'
  BY <1>f, <1>i, <1>o, <1>1 DEF Captures, Carries, CapturePcs, QueuedPcs, CommitPcs,
     ScanPcs, CohortPcs
<1>current. Current'
  BY <1>f, <1>i, <1>o, <1>1 DEF Current, Under
<1>headed. Headed'
  BY <1>f, <1>i, <1>o, <1>1 DEF Headed, QueuedPcs
<1>unproposed. Unproposed'
  BY <1>f, <1>i, <1>o, <1>1 DEF Unproposed, Under, Behind
<1>intents. Intents'
  BY <1>f, <1>i, <1>o, <1>1 DEF Intents, OpenIntent, Under, CommitPcs
<1>apart. Apart'
  BY <1>f, <1>i, <1>o, <1>1 DEF Apart, Under, Answering, ReviewPcs
<1> QED BY <1>e, <1>settled, <1>descends, <1>replies, <1>targets, <1>captures, <1>current,
   <1>headed, <1>unproposed, <1>intents, <1>apart DEF Straight

LEMMA TailStepStraight ==
  ASSUME DeviceInv, RecoveryInv, Straight, TailStep
  PROVE  Straight'
<1>f. Ordered /\ Fields /\ Known /\ PhaseRun /\ PhaseJournal /\ PhaseQueue
  BY StraightFacts
<1>i. /\ Settled /\ Descends /\ Replies /\ Targets /\ Captures /\ Current /\ Headed
      /\ Unproposed /\ Intents /\ Apart /\ Applied /\ Unjournaled /\ Reviewed
      /\ st.err # "diverged" /\ pc # "down" /\ run.ret # "boot"
  BY DEF Straight, RecoveryInv
<1>o. Node' = Node /\ \A a, b : IsAncestor(a, b)' <=> IsAncestor(a, b)
  BY OrderSame DEF TailStep, rest
<1>1. /\ UNCHANGED <<commits, main, devRef, conflict, st, q, ref>>
      /\ jr'.target = jr.target /\ prov'.intent = prov.intent
      /\ run'.ret = run.ret /\ run'.target = run.target /\ run'.commit = run.commit
      /\ run'.result = run.result /\ run'.base = run.base
      /\ pc = "step" /\ pc' = "ackw"
  BY <1>f DEF TailStep, rest, server, Fields
<1>e. st'.err # "diverged" /\ pc' # "down" /\ run'.ret # "boot"
  BY <1>f, <1>i, <1>o, <1>1
<1>settled. Settled'
  BY <1>f, <1>i, <1>o, <1>1 DEF Settled
<1>descends. Descends'
  BY <1>f, <1>i, <1>o, <1>1 DEF Descends, Carries
<1>replies. Replies'
  BY <1>f, <1>i, <1>o, <1>1 DEF Replies, Carries, Behind, Under, Answering
<1>targets. Targets'
  BY <1>f, <1>i, <1>o, <1>1 DEF Targets, Carries, Behind, Under, Open, PullPcs, TailDone
<1>captures. Captures'
  BY <1>f, <1>i, <1>o, <1>1 DEF Captures, Carries, CapturePcs, QueuedPcs, CommitPcs,
     ScanPcs, CohortPcs
<1>current. Current'
  BY <1>f, <1>i, <1>o, <1>1 DEF Current, Under
<1>headed. Headed'
  BY <1>f, <1>i, <1>o, <1>1 DEF Headed, QueuedPcs
<1>unproposed. Unproposed'
  BY <1>f, <1>i, <1>o, <1>1 DEF Unproposed, Under, Behind
<1>intents. Intents'
  BY <1>f, <1>i, <1>o, <1>1 DEF Intents, OpenIntent, Under, CommitPcs
<1>apart. Apart'
  BY <1>f, <1>i, <1>o, <1>1 DEF Apart, Under, Answering, ReviewPcs
<1> QED BY <1>e, <1>settled, <1>descends, <1>replies, <1>targets, <1>captures, <1>current,
   <1>headed, <1>unproposed, <1>intents, <1>apart DEF Straight

LEMMA TailQueueStraight ==
  ASSUME DeviceInv, RecoveryInv, Straight, TailQueue
  PROVE  Straight'
<1>f. Ordered /\ Fields /\ Known /\ PhaseRun /\ PhaseJournal /\ PhaseQueue
  BY StraightFacts
<1>i. /\ Settled /\ Descends /\ Replies /\ Targets /\ Captures /\ Current /\ Headed
      /\ Unproposed /\ Intents /\ Apart /\ Applied /\ Unjournaled /\ Reviewed
      /\ st.err # "diverged" /\ pc # "down" /\ run.ret # "boot"
  BY DEF Straight, RecoveryInv
<1>o. Node' = Node /\ \A a, b : IsAncestor(a, b)' <=> IsAncestor(a, b)
  BY OrderSame DEF TailQueue, rest
<1>r. \A j : FinishApply(prov, j).intent \in {prov.intent, NoIntent}
  BY <1>f, FinishFields DEF Fields
<1>1. /\ UNCHANGED <<commits, main, devRef, conflict, st, q, ref>>
      /\ jr'.target = jr.target /\ prov'.intent \in {prov.intent, NoIntent}
      /\ run'.ret = run.ret /\ run'.target = run.target /\ run'.commit = run.commit
      /\ run'.result = run.result /\ run'.base = run.base
      /\ pc = "tqueue" /\ pc' = "cohort"
  BY <1>f, <1>r DEF TailQueue, rest, server, Fields
<1>e. st'.err # "diverged" /\ pc' # "down" /\ run'.ret # "boot"
  BY <1>f, <1>i, <1>o, <1>1, NoIntentFields
<1>settled. Settled'
  BY <1>f, <1>i, <1>o, <1>1, NoIntentFields DEF Settled
<1>descends. Descends'
  BY <1>f, <1>i, <1>o, <1>1, NoIntentFields DEF Descends, Carries
<1>replies. Replies'
  BY <1>f, <1>i, <1>o, <1>1, NoIntentFields DEF Replies, Carries, Behind, Under, Answering
<1>targets. Targets'
  BY <1>f, <1>i, <1>o, <1>1, NoIntentFields DEF Targets, Carries, Behind, Under, Open,
     PullPcs, TailDone
<1>captures. Captures'
  BY <1>f, <1>i, <1>o, <1>1, NoIntentFields DEF Captures, Carries, CapturePcs, QueuedPcs,
     CommitPcs, ScanPcs, CohortPcs, PhaseRun, Under, Answering, Behind, Open, OpenIntent,
     Known, Reviewed, ReviewPcs, TailDone, AppliedPcs, RunPcs, RecoverPcs, PullPcs, TailPcs,
     JournalPcs, TargetPcs, SyncPcs
<1>current. Current'
  BY <1>f, <1>i, <1>o, <1>1, NoIntentFields DEF Current, Under
<1>headed. Headed'
  BY <1>f, <1>i, <1>o, <1>1, NoIntentFields DEF Headed, QueuedPcs
<1>unproposed. Unproposed'
  BY <1>f, <1>i, <1>o, <1>1, NoIntentFields DEF Unproposed, Under, Behind
<1>intents. Intents'
  BY <1>f, <1>i, <1>o, <1>1, NoIntentFields DEF Intents, OpenIntent, Under, CommitPcs
<1>apart. Apart'
  BY <1>f, <1>i, <1>o, <1>1, NoIntentFields DEF Apart, Under, Answering, ReviewPcs
<1> QED BY <1>e, <1>settled, <1>descends, <1>replies, <1>targets, <1>captures, <1>current,
   <1>headed, <1>unproposed, <1>intents, <1>apart DEF Straight

LEMMA AckWriteStraight ==
  ASSUME DeviceInv, RecoveryInv, Straight, AckWrite
  PROVE  Straight'
<1>f. Ordered /\ Fields /\ Known /\ PhaseRun /\ PhaseJournal /\ PhaseQueue
  BY StraightFacts
<1>i. /\ Settled /\ Descends /\ Replies /\ Targets /\ Captures /\ Current /\ Headed
      /\ Unproposed /\ Intents /\ Apart /\ Applied /\ Unjournaled /\ Reviewed
      /\ st.err # "diverged" /\ pc # "down" /\ run.ret # "boot"
  BY DEF Straight, RecoveryInv
<1>o. Node' = Node /\ \A a, b : IsAncestor(a, b)' <=> IsAncestor(a, b)
  BY OrderSame DEF AckWrite, rest
<1>1. /\ UNCHANGED <<commits, main, devRef, conflict, q, ref>>
      /\ st'.main = st.main /\ st'.head = st.head /\ st'.sref = st.sref
      /\ st'.err \in {st.err, "none"}
      /\ jr'.target = jr.target /\ prov'.intent = prov.intent
      /\ run'.ret = run.ret /\ run'.target = run.target /\ run'.commit = run.commit
      /\ run'.result = run.result /\ run'.base = run.base
      /\ pc = "ackw" /\ pc' = "clear"
  BY <1>f DEF AckWrite, rest, server, Fields
<1>e. st'.err # "diverged" /\ pc' # "down" /\ run'.ret # "boot"
  BY <1>f, <1>i, <1>o, <1>1
<1>settled. Settled'
  BY <1>f, <1>i, <1>o, <1>1 DEF Settled
<1>descends. Descends'
  BY <1>f, <1>i, <1>o, <1>1 DEF Descends, Carries
<1>replies. Replies'
  BY <1>f, <1>i, <1>o, <1>1 DEF Replies, Carries, Behind, Under, Answering
<1>targets. Targets'
  BY <1>f, <1>i, <1>o, <1>1 DEF Targets, Carries, Behind, Under, Open, PullPcs, TailDone
<1>captures. Captures'
  BY <1>f, <1>i, <1>o, <1>1 DEF Captures, Carries, CapturePcs, QueuedPcs, CommitPcs,
     ScanPcs, CohortPcs
<1>current. Current'
  BY <1>f, <1>i, <1>o, <1>1 DEF Current, Under
<1>headed. Headed'
  BY <1>f, <1>i, <1>o, <1>1 DEF Headed, QueuedPcs
<1>unproposed. Unproposed'
  BY <1>f, <1>i, <1>o, <1>1 DEF Unproposed, Under, Behind
<1>intents. Intents'
  BY <1>f, <1>i, <1>o, <1>1 DEF Intents, OpenIntent, Under, CommitPcs
<1>apart. Apart'
  BY <1>f, <1>i, <1>o, <1>1 DEF Apart, Under, Answering, ReviewPcs, Carries, Behind, Open,
     OpenIntent, Known, Reviewed, TailDone, AppliedPcs, RunPcs, RecoverPcs, PullPcs,
     TailPcs, JournalPcs, ScanPcs, CohortPcs, CommitPcs, QueuedPcs, TargetPcs, CapturePcs,
     SyncPcs
<1> QED BY <1>e, <1>settled, <1>descends, <1>replies, <1>targets, <1>captures, <1>current,
   <1>headed, <1>unproposed, <1>intents, <1>apart DEF Straight

LEMMA ClearJournalStraight ==
  ASSUME DeviceInv, RecoveryInv, Straight, ClearJournal
  PROVE  Straight'
<1>f. Ordered /\ Fields /\ Known /\ PhaseRun /\ PhaseJournal /\ PhaseQueue
  BY StraightFacts
<1>i. /\ Settled /\ Descends /\ Replies /\ Targets /\ Captures /\ Current /\ Headed
      /\ Unproposed /\ Intents /\ Apart /\ Applied /\ Unjournaled /\ Reviewed
      /\ st.err # "diverged" /\ pc # "down" /\ run.ret # "boot"
  BY DEF Straight, RecoveryInv
<1>o. Node' = Node /\ \A a, b : IsAncestor(a, b)' <=> IsAncestor(a, b)
  BY OrderSame DEF ClearJournal, rest
<1>r. \A j : FinishApply(prov, j).intent \in {prov.intent, NoIntent}
  BY <1>f, FinishFields DEF Fields
<1>j. jr.target # 0
  BY <1>i DEF ClearJournal, Applied, AppliedPcs, Open
<1>1. /\ UNCHANGED <<commits, main, devRef, conflict, st, q, ref>>
      /\ jr'.target = 0 /\ jr.target # 0 /\ prov'.intent \in {prov.intent, NoIntent}
      /\ run'.ret \in {run.ret, "none"}
      /\ pc = "clear" /\ pc' \in {"ack", "idle"}
  BY <1>f, <1>r, <1>j DEF ClearJournal, rest, server, Fields, NoRun, Done, NoJournal
<1>e. st'.err # "diverged" /\ pc' # "down" /\ run'.ret # "boot"
  BY <1>f, <1>i, <1>o, <1>1, NoIntentFields
<1>settled. Settled'
  BY <1>f, <1>i, <1>o, <1>1, NoIntentFields DEF Settled
<1>descends. Descends'
  BY <1>f, <1>i, <1>o, <1>1, NoIntentFields DEF Descends, Carries
<1>replies. Replies'
  BY <1>f, <1>i, <1>o, <1>1, NoIntentFields DEF Replies, Carries, Behind, Under, Answering
<1>targets. Targets'
  BY <1>f, <1>i, <1>o, <1>1, NoIntentFields DEF Targets, Carries, Behind, Under, Open,
     PullPcs, TailDone
<1>captures. Captures'
  BY <1>f, <1>i, <1>o, <1>1, NoIntentFields DEF Captures, Carries, CapturePcs, QueuedPcs,
     CommitPcs, ScanPcs, CohortPcs
<1>current. Current'
  BY <1>f, <1>i, <1>o, <1>1, NoIntentFields DEF Current, Under
<1>headed. Headed'
  BY <1>f, <1>i, <1>o, <1>1, NoIntentFields DEF Headed, QueuedPcs
<1>unproposed. Unproposed'
  BY <1>f, <1>i, <1>o, <1>1, NoIntentFields DEF Unproposed, Under, Behind
<1>intents. Intents'
  BY <1>f, <1>i, <1>o, <1>1, NoIntentFields DEF Intents, OpenIntent, Under, CommitPcs
<1>apart. Apart'
  BY <1>f, <1>i, <1>o, <1>1, NoIntentFields DEF Apart, Under, Answering, ReviewPcs
<1> QED BY <1>e, <1>settled, <1>descends, <1>replies, <1>targets, <1>captures, <1>current,
   <1>headed, <1>unproposed, <1>intents, <1>apart DEF Straight

LEMMA InitCleanStraight ==
  ASSUME DeviceInv, RecoveryInv, Straight, InitClean
  PROVE  Straight'
<1>f. Ordered /\ Fields /\ Known /\ PhaseRun /\ PhaseJournal /\ PhaseQueue
  BY StraightFacts
<1>i. /\ Settled /\ Descends /\ Replies /\ Targets /\ Captures /\ Current /\ Headed
      /\ Unproposed /\ Intents /\ Apart /\ Applied /\ Unjournaled /\ Reviewed
      /\ st.err # "diverged" /\ pc # "down" /\ run.ret # "boot"
  BY DEF Straight, RecoveryInv
<1>o. Node' = Node /\ \A a, b : IsAncestor(a, b)' <=> IsAncestor(a, b)
  BY OrderSame DEF InitClean, rest
<1>b. pc = "init" /\ ~ Open /\ run.ret = "sync"
  BY <1>f, <1>i DEF InitClean, Known, PhaseRun
<1>x. PICK c : c = IntentCommit
  OBVIOUS
<1>y. c # 0 => /\ prov.intent.base # 0 /\ prov.intent.outcome = "none"
               /\ c = IF prov.intent.commit # 0 THEN prov.intent.commit ELSE ref.local
  BY <1>x DEF IntentCommit
<1>z. \/ pc' \in {"idle", "ack0", "flush"} /\ run' \in {run, NoRun}
      \/ /\ pc' = "icommit" /\ c # 0 /\ q.pending \in {0, c}
         /\ run' = [run EXCEPT !.ret = "recover", !.commit = c, !.base = prov.intent.base]
  BY <1>b, <1>x DEF InitClean
<1>w. pc' = "icommit" => /\ c # 0 /\ q.pending \in {0, c} /\ run'.ret = "recover"
                         /\ run'.commit = c /\ run'.base = prov.intent.base
  BY <1>z, <1>f DEF Fields
<1>v. run'.ret \in {"sync", "none", "recover"}
  <2>1. CASE run' \in {run, NoRun}
    BY <2>1, <1>b, NoRunFields
  <2>2. CASE pc' = "icommit"
    BY <2>2, <1>w
  <2> QED BY <2>1, <2>2, <1>z
<1>u. pc' = "icommit" => ~ Under /\ Carries(c) /\ IsAncestor(c, ref.local)
                         /\ (IsAncestor(st.head, c) \/ IsAncestor(st.head, st.main))
  <2> SUFFICES ASSUME pc' = "icommit"
               PROVE  ~ Under /\ Carries(c) /\ IsAncestor(c, ref.local)
                      /\ (IsAncestor(st.head, c) \/ IsAncestor(st.head, st.main))
    OBVIOUS
  <2>1. CASE prov.intent.commit # 0
    <3>1. OpenIntent /\ q.pending = c /\ ~ Under
      BY <2>1, <1>b, <1>w, <1>y, <1>i DEF OpenIntent, Intents
    <3> QED BY <3>1, <1>b, <1>w, <1>f, <1>i DEF Descends, Headed, QueuedPcs, Ordered, Known
  <2>2. CASE prov.intent.commit = 0
    <3>1. c = ref.local
      BY <2>2, <1>w, <1>y
    <3>2. Carries(c) /\ IsAncestor(c, ref.local)
      BY <3>1, <1>f, <1>i DEF Descends, Ordered, Known
    <3>3. IsAncestor(st.head, c) \/ IsAncestor(st.head, st.main)
      BY <3>1, <1>b, <1>i DEF Headed
    <3>4. ~ Under
      BY <3>1, <1>b, <1>w, <1>i DEF Under, Apart, Reviewed, ReviewPcs
    <3> QED BY <3>2, <3>3, <3>4
  <2> QED BY <2>1, <2>2
<1>1. /\ UNCHANGED <<commits, main, devRef, conflict, st, q, ref>>
      /\ jr'.target = jr.target /\ prov'.intent = prov.intent
      /\ pc = "init" /\ ~ Open /\ run.ret = "sync"
      /\ run'.ret \in {"sync", "none", "recover"}
      /\ pc' \in {"idle", "ack0", "flush", "icommit"}
  BY <1>f, <1>b, <1>z, <1>v DEF InitClean, rest, server, Fields
<1>e. st'.err # "diverged" /\ pc' # "down" /\ run'.ret # "boot"
  BY <1>f, <1>i, <1>o, <1>1, <1>u, <1>w
<1>settled. Settled'
  BY <1>f, <1>i, <1>o, <1>1, <1>u, <1>w DEF Settled
<1>descends. Descends'
  BY <1>f, <1>i, <1>o, <1>1, <1>u, <1>w DEF Descends, Carries
<1>replies. Replies'
  BY <1>f, <1>i, <1>o, <1>1, <1>u, <1>w DEF Replies, Carries, Behind, Under, Answering
<1>targets. Targets'
  BY <1>f, <1>i, <1>o, <1>1, <1>u, <1>w DEF Targets, Carries, Behind, Under, Open, PullPcs,
     TailDone
<1>captures. Captures'
  BY <1>f, <1>i, <1>o, <1>1, <1>u, <1>w DEF Captures, Carries, CapturePcs, QueuedPcs,
     CommitPcs, ScanPcs, CohortPcs
<1>current. Current'
  BY <1>f, <1>i, <1>o, <1>1, <1>u, <1>w DEF Current, Under
<1>headed. Headed'
  BY <1>f, <1>i, <1>o, <1>1, <1>u, <1>w DEF Headed, QueuedPcs
<1>unproposed. Unproposed'
  BY <1>f, <1>i, <1>o, <1>1, <1>u, <1>w DEF Unproposed, Under, Behind
<1>intents. Intents'
  BY <1>f, <1>i, <1>o, <1>1, <1>u, <1>w DEF Intents, OpenIntent, Under, CommitPcs
<1>apart. Apart'
  BY <1>f, <1>i, <1>o, <1>1, <1>u, <1>w DEF Apart, Under, Answering, ReviewPcs
<1> QED BY <1>e, <1>settled, <1>descends, <1>replies, <1>targets, <1>captures, <1>current,
   <1>headed, <1>unproposed, <1>intents, <1>apart DEF Straight

LEMMA InitJournalStraight ==
  ASSUME DeviceInv, RecoveryInv, Straight, InitJournal
  PROVE  Straight'
<1>f. Ordered /\ Fields /\ Known /\ PhaseRun /\ PhaseJournal /\ PhaseQueue
  BY StraightFacts
<1>i. /\ Settled /\ Descends /\ Replies /\ Targets /\ Captures /\ Current /\ Headed
      /\ Unproposed /\ Intents /\ Apart /\ Applied /\ Unjournaled /\ Reviewed
      /\ st.err # "diverged" /\ pc # "down" /\ run.ret # "boot"
  BY DEF Straight, RecoveryInv
<1>o. Node' = Node /\ \A a, b : IsAncestor(a, b)' <=> IsAncestor(a, b)
  BY OrderSame DEF InitJournal, rest
<1>r. \A j, m : RetainApply(prov, j, m).intent = prov.intent
  BY <1>f, RetainFields DEF Fields
<1>b. pc = "init" /\ Open /\ st.err # "review"
  BY <1>f, <1>i DEF InitJournal, Known, Reviewed, RecoverPcs
<1>c. /\ prov' = RetainApply(prov, jr, FALSE)
      /\ pc' \in {"clear", "ackw", "bsnap", "write", "rewrite", "idle"}
      /\ st' = st \/ (pc' = "idle" /\ st' = Blocked("recovery"))
      /\ \/ jr' = jr
         \/ \E d, k, h : jr' = [jr EXCEPT !.deferred = d, !.bundle = k, !.phase = h]
      /\ \/ run' = NoRun
         \/ run' = [NoRun EXCEPT !.target = jr.target, !.ret = "resume"]
         \/ \E w : run' = [NoRun EXCEPT !.target = jr.target, !.ret = "repair", !.todo = w]
  <2> DEFINE matched == {p \in jr.affected : file[p] = Tree(jr.target)[p]}
             diverged == {p \in jr.affected : file[p] # jr.pre[p]
                                                /\ ~ (jr.phase = "writing" /\ p \in matched)}
             bare == jr.affected # {} /\ jr.bundle = NoBundle
             d == jr.deferred \cup diverged
             k == IF bare THEN Frozen(jr) ELSE jr.bundle
             h == IF bare THEN "bundled" ELSE "writing"
             j == [jr EXCEPT !.deferred = d, !.bundle = k, !.phase = h]
             w == jr.affected \ (matched \cup j.deferred)
  <2>1. /\ prov' = RetainApply(prov, jr, FALSE)
        /\ pc' \in {"clear", "ackw", "bsnap", "write", "rewrite", "idle"}
        /\ st' = st \/ (pc' = "idle" /\ st' = Blocked("recovery"))
        /\ jr' = jr \/ jr' = j
        /\ \/ run' = NoRun
           \/ run' = [NoRun EXCEPT !.target = jr.target, !.ret = "resume"]
           \/ run' = [NoRun EXCEPT !.target = jr.target, !.ret = "repair", !.todo = w]
    <3>1. CASE ~ JournalValid
      BY <3>1 DEF InitJournal
    <3>2. CASE JournalValid /\ jr.phase = "committed"
      BY <3>2 DEF InitJournal
    <3>3. CASE JournalValid /\ jr.phase # "committed"
      BY <3>3, <1>f DEF InitJournal, Fields
    <3> QED BY <3>1, <3>2, <3>3
  <2> HIDE DEF d, k, h, w
  <2> QED BY <2>1
<1>d. run'.ret \in {"resume", "repair", "none"}
  BY <1>c, NoRunFields
<1>s. /\ st'.main = st.main /\ st'.head = st.head /\ st'.sref = st.sref
      /\ st'.err \in {st.err, "recovery"}
  BY <1>f, <1>c DEF Blocked, Fields
<1>t. jr'.target = jr.target
  BY <1>c, <1>f DEF Fields
<1>p. prov'.intent = prov.intent
  BY <1>c, <1>r
<1>u. UNCHANGED <<commits, main, devRef, conflict, q, ref>>
  BY DEF InitJournal, rest, server
<1>1. /\ UNCHANGED <<commits, main, devRef, conflict, q, ref>>
      /\ st'.main = st.main /\ st'.head = st.head /\ st'.sref = st.sref
      /\ st'.err \in {st.err, "recovery"} /\ st.err # "review"
      /\ jr'.target = jr.target /\ prov'.intent = prov.intent
      /\ run'.ret \in {"resume", "repair", "none"}
      /\ pc = "init" /\ Open
      /\ pc' \in {"clear", "ackw", "bsnap", "write", "rewrite", "idle"}
  BY <1>b, <1>c, <1>d, <1>s, <1>t, <1>p, <1>u
<1>e. st'.err # "diverged" /\ pc' # "down" /\ run'.ret # "boot"
  BY <1>f, <1>i, <1>o, <1>1
<1>settled. Settled'
  BY <1>f, <1>i, <1>o, <1>1 DEF Settled
<1>descends. Descends'
  BY <1>f, <1>i, <1>o, <1>1 DEF Descends, Carries
<1>replies. Replies'
  BY <1>f, <1>i, <1>o, <1>1 DEF Replies, Carries, Behind, Under, Answering
<1>targets. Targets'
  BY <1>f, <1>i, <1>o, <1>1 DEF Targets, Carries, Behind, Under, Open, PullPcs, TailDone
<1>captures. Captures'
  BY <1>f, <1>i, <1>o, <1>1 DEF Captures, Carries, CapturePcs, QueuedPcs, CommitPcs,
     ScanPcs, CohortPcs
<1>current. Current'
  BY <1>f, <1>i, <1>o, <1>1 DEF Current, Under
<1>headed. Headed'
  BY <1>f, <1>i, <1>o, <1>1 DEF Headed, QueuedPcs
<1>unproposed. Unproposed'
  BY <1>f, <1>i, <1>o, <1>1 DEF Unproposed, Under, Behind
<1>intents. Intents'
  BY <1>f, <1>i, <1>o, <1>1 DEF Intents, OpenIntent, Under, CommitPcs
<1>apart. Apart'
  BY <1>f, <1>i, <1>o, <1>1 DEF Apart, Under, Answering, ReviewPcs
<1> QED BY <1>e, <1>settled, <1>descends, <1>replies, <1>targets, <1>captures, <1>current,
   <1>headed, <1>unproposed, <1>intents, <1>apart DEF Straight

LEMMA CohortStraight ==
  ASSUME DeviceInv, RecoveryInv, Straight, Cohort
  PROVE  Straight'
<1>f. Ordered /\ Fields /\ Known /\ PhaseRun /\ PhaseJournal /\ PhaseQueue
  BY StraightFacts
<1>i. /\ Settled /\ Descends /\ Replies /\ Targets /\ Captures /\ Current /\ Headed
      /\ Unproposed /\ Intents /\ Apart /\ Applied /\ Unjournaled /\ Reviewed
      /\ st.err # "diverged" /\ pc # "down" /\ run.ret # "boot"
  BY DEF Straight, RecoveryInv
<1>o. Node' = Node /\ \A a, b : IsAncestor(a, b)' <=> IsAncestor(a, b)
  BY OrderSame DEF Cohort, rest
<1>b. ~ (q.pending # 0 /\ q.base # 0 /\ ~ IsAncestor(q.pending, run.target))
  BY <1>f, <1>i DEF Cohort, Captures, Targets, PhaseRun, PhaseJournal, CapturePcs, ScanPcs,
     QueuedPcs, TailDone, Open, Behind
<1>t. st' = st \/ st' = Blocked("unfinished")
  BY <1>b DEF Cohort, Thrown
<1>s. /\ st'.main = st.main /\ st'.head = st.head /\ st'.sref = st.sref
      /\ st'.err \in {st.err, "unfinished"} /\ st.err # "review"
  BY <1>f, <1>i, <1>t DEF Blocked, Fields, Cohort, Reviewed, RecoverPcs
<1>1. /\ UNCHANGED <<commits, main, devRef, conflict, q, ref>>
      /\ st'.main = st.main /\ st'.head = st.head /\ st'.sref = st.sref
      /\ st'.err \in {st.err, "unfinished"} /\ st.err # "review"
      /\ jr'.target = jr.target /\ prov'.intent = prov.intent
      /\ pc = "cohort"
      /\ \/ pc' \in {"ordinary", "classify"} /\ run' = run
         \/ pc' = "idle" /\ run'.ret = "none"
  BY <1>f, <1>b, <1>s DEF Cohort, Thrown, rest, server, Fields, Done, NoRun
<1>e. st'.err # "diverged" /\ pc' # "down" /\ run'.ret # "boot"
  BY <1>f, <1>i, <1>o, <1>1
<1>settled. Settled'
  BY <1>f, <1>i, <1>o, <1>1 DEF Settled
<1>descends. Descends'
  BY <1>f, <1>i, <1>o, <1>1 DEF Descends, Carries
<1>replies. Replies'
  BY <1>f, <1>i, <1>o, <1>1 DEF Replies, Carries, Behind, Under, Answering
<1>targets. Targets'
  BY <1>f, <1>i, <1>o, <1>1 DEF Targets, Carries, Behind, Under, Open, PullPcs, TailDone
<1>captures. Captures'
  BY <1>f, <1>i, <1>o, <1>1 DEF Captures, Carries, CapturePcs, QueuedPcs, CommitPcs,
     ScanPcs, CohortPcs
<1>current. Current'
  BY <1>f, <1>i, <1>o, <1>1 DEF Current, Under
<1>headed. Headed'
  BY <1>f, <1>i, <1>o, <1>1 DEF Headed, QueuedPcs
<1>unproposed. Unproposed'
  BY <1>f, <1>i, <1>o, <1>1 DEF Unproposed, Under, Behind
<1>intents. Intents'
  BY <1>f, <1>i, <1>o, <1>1 DEF Intents, OpenIntent, Under, CommitPcs
<1>apart. Apart'
  BY <1>f, <1>i, <1>o, <1>1 DEF Apart, Under, Answering, ReviewPcs
<1> QED BY <1>e, <1>settled, <1>descends, <1>replies, <1>targets, <1>captures, <1>current,
   <1>headed, <1>unproposed, <1>intents, <1>apart DEF Straight

LEMMA ClassifyStraight ==
  ASSUME DeviceInv, RecoveryInv, Straight, Classify
  PROVE  Straight'
<1>f. Ordered /\ Fields /\ Known /\ PhaseRun /\ PhaseJournal /\ PhaseQueue
  BY StraightFacts
<1>i. /\ Settled /\ Descends /\ Replies /\ Targets /\ Captures /\ Current /\ Headed
      /\ Unproposed /\ Intents /\ Apart /\ Applied /\ Unjournaled /\ Reviewed
      /\ st.err # "diverged" /\ pc # "down" /\ run.ret # "boot"
  BY DEF Straight, RecoveryInv
<1>o. Node' = Node /\ \A a, b : IsAncestor(a, b)' <=> IsAncestor(a, b)
  BY OrderSame DEF Classify, rest
<1>r. \A j, m : RetainApply(prov, j, m).intent = prov.intent
  BY <1>f, RetainFields DEF Fields
<1>c. /\ pc' \in {"ordinary", "intent"}
      /\ run'.target = run.target /\ run'.commit = run.commit
      /\ run'.ret = run.ret /\ run'.result = run.result
      /\ \E w, s : /\ w = prov \/ w = RetainApply(prov, jr, FALSE)
                   /\ prov' = Classified(w, run.target, s)
  <2> DEFINE s == Drained(prov, run.snap)
             w == IF jr = NoJournal THEN prov ELSE RetainApply(prov, jr, FALSE)
             v == Classified(w, run.target, s)
             P == StalePaths(v, run.target, s)
             b == Oldest({v.obl[p].base : p \in P})
             k == {p \in P : v.obl[p].base = b}
  <2>1. /\ pc' \in {"ordinary", "intent"} /\ prov' = v
        /\ \/ run' = [run EXCEPT !.snap = s]
           \/ run' = [run EXCEPT !.snap = s, !.base = b, !.cohort = k]
    BY DEF Classify
  <2>2. w = prov \/ w = RetainApply(prov, jr, FALSE)
    OBVIOUS
  <2>3. v = Classified(w, run.target, s)
    OBVIOUS
  <2> HIDE DEF s, w, v, P, b, k
  <2> QED BY <2>1, <2>2, <2>3, <1>f DEF Fields
<1>d. prov'.intent = prov.intent
  <2>1. PICK w, s : /\ w = prov \/ w = RetainApply(prov, jr, FALSE)
                    /\ prov' = Classified(w, run.target, s)
    BY <1>c
  <2>2. DOMAIN w = {"hor", "obl", "intent", "acc"} /\ w.intent = prov.intent
    <3>1. DOMAIN prov = {"hor", "obl", "intent", "acc"}
      BY <1>f DEF Fields
    <3>2. CASE w = prov
      BY <3>1, <3>2
    <3>3. CASE w = RetainApply(prov, jr, FALSE)
      BY <3>1, <3>3, RetainFields
    <3> QED BY <3>2, <3>3, <2>1
  <2> QED BY <2>1, <2>2, ClassifiedFields
<1>1. /\ UNCHANGED <<commits, main, devRef, conflict, st, q, ref>>
      /\ jr'.target = jr.target /\ prov'.intent = prov.intent
      /\ run'.ret = run.ret /\ run'.target = run.target /\ run'.commit = run.commit
      /\ run'.result = run.result
      /\ pc = "classify" /\ pc' \in {"ordinary", "intent"}
  BY <1>f, <1>c, <1>d DEF Classify, rest, server, Fields
<1>e. st'.err # "diverged" /\ pc' # "down" /\ run'.ret # "boot"
  BY <1>f, <1>i, <1>o, <1>1
<1>settled. Settled'
  BY <1>f, <1>i, <1>o, <1>1 DEF Settled
<1>descends. Descends'
  BY <1>f, <1>i, <1>o, <1>1 DEF Descends, Carries
<1>replies. Replies'
  BY <1>f, <1>i, <1>o, <1>1 DEF Replies, Carries, Behind, Under, Answering
<1>targets. Targets'
  BY <1>f, <1>i, <1>o, <1>1 DEF Targets, Carries, Behind, Under, Open, PullPcs, TailDone
<1>captures. Captures'
  BY <1>f, <1>i, <1>o, <1>1 DEF Captures, Carries, CapturePcs, QueuedPcs, CommitPcs,
     ScanPcs, CohortPcs
<1>current. Current'
  BY <1>f, <1>i, <1>o, <1>1 DEF Current, Under
<1>headed. Headed'
  BY <1>f, <1>i, <1>o, <1>1 DEF Headed, QueuedPcs
<1>unproposed. Unproposed'
  BY <1>f, <1>i, <1>o, <1>1 DEF Unproposed, Under, Behind
<1>intents. Intents'
  BY <1>f, <1>i, <1>o, <1>1 DEF Intents, OpenIntent, Under, CommitPcs
<1>apart. Apart'
  BY <1>f, <1>i, <1>o, <1>1 DEF Apart, Under, Answering, ReviewPcs
<1> QED BY <1>e, <1>settled, <1>descends, <1>replies, <1>targets, <1>captures, <1>current,
   <1>headed, <1>unproposed, <1>intents, <1>apart DEF Straight

LEMMA IntentStraight ==
  ASSUME DeviceInv, RecoveryInv, Straight, Intent
  PROVE  Straight'
<1>f. Ordered /\ Fields /\ Known /\ PhaseRun /\ PhaseJournal /\ PhaseQueue
  BY StraightFacts
<1>i. /\ Settled /\ Descends /\ Replies /\ Targets /\ Captures /\ Current /\ Headed
      /\ Unproposed /\ Intents /\ Apart /\ Applied /\ Unjournaled /\ Reviewed
      /\ st.err # "diverged" /\ pc # "down" /\ run.ret # "boot"
  BY DEF Straight, RecoveryInv
<1>o. Node' = Node /\ \A a, b : IsAncestor(a, b)' <=> IsAncestor(a, b)
  BY OrderSame DEF Intent, rest
<1>b. PICK t, k : \/ pc' = "idle" /\ run' = NoRun /\ prov' = prov
                  \/ /\ pc' = "cref" /\ run' = run
                     /\ prov' = [prov EXCEPT !.intent = [NoIntent EXCEPT !.base = run.base,
                                    !.parent = run.target, !.tree = t, !.caps = k]]
  BY DEF Intent, Thrown, Done
<1>t. st' = st \/ st' = Blocked("unfinished")
  BY DEF Intent, Thrown
<1>s. /\ st'.main = st.main /\ st'.head = st.head /\ st'.sref = st.sref
      /\ st'.err \in {st.err, "unfinished"} /\ st.err # "review"
  BY <1>f, <1>i, <1>t DEF Blocked, Fields, Intent, Reviewed, RecoverPcs
<1>c. PICK i : i = [NoIntent EXCEPT !.base = run.base, !.parent = run.target, !.tree = t,
                                    !.caps = k]
  OBVIOUS
<1>d. i.base = run.base /\ i.commit = 0
  BY <1>c DEF NoIntent
<1>e1. /\ pc' \in {"idle", "cref"}
       /\ pc' = "idle" => run'.ret = "none" /\ prov' = prov
       /\ pc' = "cref" => run' = run /\ prov'.intent = i
  BY <1>b, <1>c, <1>f, NoRunFields DEF Fields
<1>1. /\ UNCHANGED <<commits, main, devRef, conflict, q, ref>>
      /\ st'.main = st.main /\ st'.head = st.head /\ st'.sref = st.sref
      /\ st'.err \in {st.err, "unfinished"} /\ st.err # "review"
      /\ jr' = jr
      /\ pc = "intent"
      /\ \/ pc' = "idle" /\ run'.ret = "none" /\ prov' = prov
         \/ /\ pc' = "cref" /\ run' = run
            /\ prov'.intent.base = run.base /\ prov'.intent.commit = 0
  BY <1>f, <1>e1, <1>d, <1>s DEF Intent, rest, server, Fields
<1>e. st'.err # "diverged" /\ pc' # "down" /\ run'.ret # "boot"
  BY <1>f, <1>i, <1>o, <1>1
<1>settled. Settled'
  BY <1>f, <1>i, <1>o, <1>1 DEF Settled
<1>descends. Descends'
  BY <1>f, <1>i, <1>o, <1>1 DEF Descends, Carries
<1>replies. Replies'
  BY <1>f, <1>i, <1>o, <1>1 DEF Replies, Carries, Behind, Under, Answering
<1>targets. Targets'
  BY <1>f, <1>i, <1>o, <1>1 DEF Targets, Carries, Behind, Under, Open, PullPcs, TailDone
<1>captures. Captures'
  BY <1>f, <1>i, <1>o, <1>1 DEF Captures, Carries, CapturePcs, QueuedPcs, CommitPcs,
     ScanPcs, CohortPcs
<1>current. Current'
  BY <1>f, <1>i, <1>o, <1>1 DEF Current, Under
<1>headed. Headed'
  BY <1>f, <1>i, <1>o, <1>1 DEF Headed, QueuedPcs
<1>unproposed. Unproposed'
  BY <1>f, <1>i, <1>o, <1>1 DEF Unproposed, Under, Behind
<1>intents. Intents'
  BY <1>f, <1>i, <1>o, <1>1 DEF Intents, OpenIntent, Under, CommitPcs
<1>apart. Apart'
  BY <1>f, <1>i, <1>o, <1>1 DEF Apart, Under, Answering, ReviewPcs
<1> QED BY <1>e, <1>settled, <1>descends, <1>replies, <1>targets, <1>captures, <1>current,
   <1>headed, <1>unproposed, <1>intents, <1>apart DEF Straight

LEMMA IntentCommittedStraight ==
  ASSUME DeviceInv, RecoveryInv, Straight, IntentCommitted
  PROVE  Straight'
<1>f. Ordered /\ Fields /\ Known /\ PhaseRun /\ PhaseJournal /\ PhaseQueue
  BY StraightFacts
<1>i. /\ Settled /\ Descends /\ Replies /\ Targets /\ Captures /\ Current /\ Headed
      /\ Unproposed /\ Intents /\ Apart /\ Applied /\ Unjournaled /\ Reviewed
      /\ st.err # "diverged" /\ pc # "down" /\ run.ret # "boot"
  BY DEF Straight, RecoveryInv
<1>o. Node' = Node /\ \A a, b : IsAncestor(a, b)' <=> IsAncestor(a, b)
  BY OrderSame DEF IntentCommitted, rest
<1>1. /\ UNCHANGED <<commits, main, devRef, conflict, st, q, ref>>
      /\ jr' = jr /\ prov'.intent.commit = run.commit
      /\ prov'.intent.base = prov.intent.base /\ prov'.intent.outcome = prov.intent.outcome
      /\ pc = "icommit" /\ pc' = "iqueue" /\ run' = run
  BY <1>f DEF IntentCommitted, rest, server, Fields
<1>e. st'.err # "diverged" /\ pc' # "down" /\ run'.ret # "boot"
  BY <1>f, <1>i, <1>o, <1>1
<1>settled. Settled'
  BY <1>f, <1>i, <1>o, <1>1 DEF Settled
<1>descends. Descends'
  BY <1>f, <1>i, <1>o, <1>1 DEF Descends, Carries
<1>replies. Replies'
  BY <1>f, <1>i, <1>o, <1>1 DEF Replies, Carries, Behind, Under, Answering
<1>targets. Targets'
  BY <1>f, <1>i, <1>o, <1>1 DEF Targets, Carries, Behind, Under, Open, PullPcs, TailDone
<1>captures. Captures'
  BY <1>f, <1>i, <1>o, <1>1 DEF Captures, Carries, CapturePcs, QueuedPcs, CommitPcs,
     ScanPcs, CohortPcs
<1>current. Current'
  BY <1>f, <1>i, <1>o, <1>1 DEF Current, Under
<1>headed. Headed'
  BY <1>f, <1>i, <1>o, <1>1 DEF Headed, QueuedPcs
<1>unproposed. Unproposed'
  BY <1>f, <1>i, <1>o, <1>1 DEF Unproposed, Under, Behind
<1>intents. Intents'
  BY <1>f, <1>i, <1>o, <1>1 DEF Intents, OpenIntent, Under, CommitPcs
<1>apart. Apart'
  BY <1>f, <1>i, <1>o, <1>1 DEF Apart, Under, Answering, ReviewPcs
<1> QED BY <1>e, <1>settled, <1>descends, <1>replies, <1>targets, <1>captures, <1>current,
   <1>headed, <1>unproposed, <1>intents, <1>apart DEF Straight

LEMMA ResultRecordedStraight ==
  ASSUME DeviceInv, RecoveryInv, Straight, ResultRecorded
  PROVE  Straight'
<1>f. Ordered /\ Fields /\ Known /\ PhaseRun /\ PhaseJournal /\ PhaseQueue
  BY StraightFacts
<1>i. /\ Settled /\ Descends /\ Replies /\ Targets /\ Captures /\ Current /\ Headed
      /\ Unproposed /\ Intents /\ Apart /\ Applied /\ Unjournaled /\ Reviewed
      /\ st.err # "diverged" /\ pc # "down" /\ run.ret # "boot"
  BY DEF Straight, RecoveryInv
<1>o. Node' = Node /\ \A a, b : IsAncestor(a, b)' <=> IsAncestor(a, b)
  BY OrderSame DEF ResultRecorded, rest
<1>p. q.pending # 0
  BY <1>f, StraightFacts DEF ResultRecorded, PhaseQueue
<1>b. PICK a, w, v :
        /\ w = [prov EXCEPT !.acc = a,
                  !.intent = [@ EXCEPT !.outcome = run.result, !.main = run.base]]
        /\ \E S : v = Retire(w, S, 0)
        /\ \/ q.base = 0 /\ prov' = [prov EXCEPT !.acc = a] /\ pc' = "rqueue" /\ run' = run
           \/ prov' = prov /\ pc' = "idle" /\ run' = NoRun
           \/ prov' \in {w, v} /\ pc' = "rqueue" /\ run' = run
  <2>1. PICK a : a = IF run.result = "conflicted" THEN prov.acc
                     ELSE [commit |-> q.pending, base |-> q.base]
    OBVIOUS
  <2>2. PICK w : w = [prov EXCEPT !.acc = a,
                        !.intent = [@ EXCEPT !.outcome = run.result, !.main = run.base]]
    OBVIOUS
  <2>3. \/ q.base = 0 /\ prov' = [prov EXCEPT !.acc = a] /\ pc' = "rqueue" /\ run' = run
        \/ prov' = prov /\ pc' = "idle" /\ run' = NoRun
        \/ prov' \in {w, Retire(w, DOMAIN prov.intent.caps, 0)} /\ pc' = "rqueue" /\ run' = run
    BY <2>1, <2>2 DEF ResultRecorded, Done
  <2> QED BY <2>2, <2>3
<1>c. /\ DOMAIN w = {"hor", "obl", "intent", "acc"}
      /\ w.intent.commit = prov.intent.commit /\ w.intent.outcome = run.result
  BY <1>b, <1>f DEF Fields
<1>d. v.intent = w.intent
  <2>1. PICK S : v = Retire(w, S, 0)
    BY <1>b
  <2> QED BY <2>1, <1>c, RetireFields
<1>e1. \/ pc' = "idle" /\ run'.ret = "none" /\ prov' = prov
       \/ /\ pc' = "rqueue" /\ run' = run /\ prov'.intent.commit = prov.intent.commit
          /\ (q.base = 0 /\ prov'.intent = prov.intent) \/ prov'.intent.outcome = run.result
  <2>1. CASE q.base = 0 /\ prov' = [prov EXCEPT !.acc = a] /\ pc' = "rqueue" /\ run' = run
    BY <2>1, <1>f DEF Fields
  <2>2. CASE prov' = prov /\ pc' = "idle" /\ run' = NoRun
    BY <2>2, NoRunFields
  <2>3. CASE prov' \in {w, v} /\ pc' = "rqueue" /\ run' = run
    BY <2>3, <1>c, <1>d
  <2> QED BY <2>1, <2>2, <2>3, <1>b
<1>1. /\ UNCHANGED <<commits, main, devRef, conflict, st, q, ref>>
      /\ jr' = jr
      /\ pc = "result" /\ q.pending # 0
      /\ \/ pc' = "idle" /\ run'.ret = "none" /\ prov' = prov
         \/ /\ pc' = "rqueue" /\ run' = run /\ prov'.intent.commit = prov.intent.commit
            /\ (q.base = 0 /\ prov'.intent = prov.intent) \/ prov'.intent.outcome = run.result
  BY <1>f, <1>p, <1>e1 DEF ResultRecorded, rest, server, Fields
<1>e. st'.err # "diverged" /\ pc' # "down" /\ run'.ret # "boot"
  BY <1>f, <1>i, <1>o, <1>1
<1>settled. Settled'
  BY <1>f, <1>i, <1>o, <1>1 DEF Settled
<1>descends. Descends'
  BY <1>f, <1>i, <1>o, <1>1 DEF Descends, Carries
<1>replies. Replies'
  BY <1>f, <1>i, <1>o, <1>1 DEF Replies, Carries, Behind, Under, Answering
<1>targets. Targets'
  BY <1>f, <1>i, <1>o, <1>1 DEF Targets, Carries, Behind, Under, Open, PullPcs, TailDone
<1>captures. Captures'
  BY <1>f, <1>i, <1>o, <1>1 DEF Captures, Carries, CapturePcs, QueuedPcs, CommitPcs,
     ScanPcs, CohortPcs
<1>current. Current'
  BY <1>f, <1>i, <1>o, <1>1 DEF Current, Under
<1>headed. Headed'
  BY <1>f, <1>i, <1>o, <1>1 DEF Headed, QueuedPcs
<1>unproposed. Unproposed'
  BY <1>f, <1>i, <1>o, <1>1 DEF Unproposed, Under, Behind
<1>intents. Intents'
  BY <1>f, <1>i, <1>o, <1>1 DEF Intents, OpenIntent, Under, CommitPcs, Replies, Answering,
     Carries, Behind, Open, Known, Reviewed, ReviewPcs, TailDone, AppliedPcs, RunPcs,
     RecoverPcs, PullPcs, TailPcs, JournalPcs, ScanPcs, CohortPcs, QueuedPcs, TargetPcs,
     CapturePcs, SyncPcs
<1>apart. Apart'
  BY <1>f, <1>i, <1>o, <1>1 DEF Apart, Under, Answering, ReviewPcs
<1> QED BY <1>e, <1>settled, <1>descends, <1>replies, <1>targets, <1>captures, <1>current,
   <1>headed, <1>unproposed, <1>intents, <1>apart DEF Straight

LEMMA PullStraight ==
  ASSUME DeviceInv, RecoveryInv, Straight, Pull
  PROVE  Straight'
<1>f. Ordered /\ Fields /\ Known /\ PhaseRun /\ PhaseJournal /\ PhaseQueue
  BY StraightFacts
<1>i. /\ Settled /\ Descends /\ Replies /\ Targets /\ Captures /\ Current /\ Headed
      /\ Unproposed /\ Intents /\ Apart /\ Applied /\ Unjournaled /\ Reviewed
      /\ st.err # "diverged" /\ pc # "down" /\ run.ret # "boot"
  BY DEF Straight, RecoveryInv
<1>o. Node' = Node /\ \A a, b : IsAncestor(a, b)' <=> IsAncestor(a, b)
  BY OrderSame DEF Pull, rest
<1>s. st'.main = st.main /\ st'.head = st.head /\ st'.sref = st.sref /\ st'.err = st.err
  BY <1>f DEF Pull, Fields
<1>t. \/ pc' = "idle" /\ ~ Under /\ run'.ret = "none"
      \/ pc' = "apply" /\ (q.pending = 0 \/ Under) /\ run'.target = main /\ run'.ret = "apply"
  BY <1>f, NoRunFields DEF Pull, Done, Under, Fields
<1>b. Carries(main) /\ (~ Under \/ Behind(q.pending, main))
  BY <1>f, <1>i DEF Pull, Settled, Targets, Replies, Under, Known, Carries
<1>c. q.pending = 0 \/ Under => ~ Behind(main, st.head) \/ main = st.main
  BY <1>f, <1>i DEF Pull, Unproposed, Targets, Ordered, Known, Behind
<1>1. /\ UNCHANGED <<commits, main, devRef, conflict, q, ref>>
      /\ st'.main = st.main /\ st'.head = st.head /\ st'.sref = st.sref /\ st'.err = st.err
      /\ jr'.target = jr.target /\ prov'.intent = prov.intent
      /\ pc = "pull"
      /\ \/ pc' = "idle" /\ ~ Under /\ run'.ret = "none"
         \/ pc' = "apply" /\ (q.pending = 0 \/ Under) /\ run'.target = main /\ run'.ret = "apply"
  BY <1>f, <1>s, <1>t DEF Pull, rest, server, Fields
<1>e. st'.err # "diverged" /\ pc' # "down" /\ run'.ret # "boot"
  BY <1>f, <1>i, <1>o, <1>1, <1>b, <1>c
<1>settled. Settled'
  BY <1>f, <1>i, <1>o, <1>1, <1>b, <1>c DEF Settled
<1>descends. Descends'
  BY <1>f, <1>i, <1>o, <1>1, <1>b, <1>c DEF Descends, Carries
<1>replies. Replies'
  BY <1>f, <1>i, <1>o, <1>1, <1>b, <1>c DEF Replies, Carries, Behind, Under, Answering
<1>targets. Targets'
  BY <1>f, <1>i, <1>o, <1>1, <1>b, <1>c DEF Targets, Carries, Behind, Under, Open, PullPcs,
     TailDone
<1>captures. Captures'
  BY <1>f, <1>i, <1>o, <1>1, <1>b, <1>c DEF Captures, Carries, CapturePcs, QueuedPcs,
     CommitPcs, ScanPcs, CohortPcs
<1>current. Current'
  BY <1>f, <1>i, <1>o, <1>1, <1>b, <1>c DEF Current, Under
<1>headed. Headed'
  BY <1>f, <1>i, <1>o, <1>1, <1>b, <1>c DEF Headed, QueuedPcs
<1>unproposed. Unproposed'
  BY <1>f, <1>i, <1>o, <1>1, <1>b, <1>c DEF Unproposed, Under, Behind
<1>intents. Intents'
  BY <1>f, <1>i, <1>o, <1>1, <1>b, <1>c DEF Intents, OpenIntent, Under, CommitPcs
<1>apart. Apart'
  BY <1>f, <1>i, <1>o, <1>1, <1>b, <1>c DEF Apart, Under, Answering, ReviewPcs
<1> QED BY <1>e, <1>settled, <1>descends, <1>replies, <1>targets, <1>captures, <1>current,
   <1>headed, <1>unproposed, <1>intents, <1>apart DEF Straight

LEMMA ApplyBaseStraight ==
  ASSUME DeviceInv, RecoveryInv, Straight, ApplyBase
  PROVE  Straight'
<1>f. Ordered /\ Fields /\ Known /\ PhaseRun /\ PhaseJournal /\ PhaseQueue
  BY StraightFacts
<1>i. /\ Settled /\ Descends /\ Replies /\ Targets /\ Captures /\ Current /\ Headed
      /\ Unproposed /\ Intents /\ Apart /\ Applied /\ Unjournaled /\ Reviewed
      /\ st.err # "diverged" /\ pc # "down" /\ run.ret # "boot"
  BY DEF Straight, RecoveryInv
<1>o. Node' = Node /\ \A a, b : IsAncestor(a, b)' <=> IsAncestor(a, b)
  BY OrderSame DEF ApplyBase, rest
<1>b. prov'.intent = prov.intent
  <2>1. prov' = prov \/ \E a : prov' = Rebased(prov, a, run.target)
    BY DEF ApplyBase
  <2> QED BY <2>1, <1>f, RebasedFields DEF Fields
<1>s. st'.main = st.main /\ st'.head = st.head /\ st'.sref = st.sref /\ st'.err = st.err
  BY <1>f DEF ApplyBase, Fields
<1>t. /\ run'.ret = run.ret /\ run'.target = run.target /\ run'.commit = run.commit
      /\ (pc' = "ack" /\ st.main = run.target) \/ (pc' = "plan" /\ st.main # run.target)
  BY <1>f DEF ApplyBase, Fields
<1>v. pc = "apply" /\ UNCHANGED <<commits, main, devRef, conflict, q, ref, jr>>
  BY DEF ApplyBase, rest, server
<1>1. /\ UNCHANGED <<commits, main, devRef, conflict, q, ref>>
      /\ st'.main = st.main /\ st'.head = st.head /\ st'.sref = st.sref /\ st'.err = st.err
      /\ jr'.target = jr.target /\ prov'.intent = prov.intent
      /\ run'.ret = run.ret /\ run'.target = run.target /\ run'.commit = run.commit
      /\ pc = "apply"
      /\ \/ pc' = "ack" /\ st.main = run.target
         \/ pc' = "plan" /\ st.main # run.target
  BY <1>f, <1>b, <1>s, <1>t, <1>v
<1>e. st'.err # "diverged" /\ pc' # "down" /\ run'.ret # "boot"
  BY <1>f, <1>i, <1>o, <1>1
<1>settled. Settled'
  BY <1>f, <1>i, <1>o, <1>1 DEF Settled
<1>descends. Descends'
  BY <1>f, <1>i, <1>o, <1>1 DEF Descends, Carries
<1>replies. Replies'
  BY <1>f, <1>i, <1>o, <1>1 DEF Replies, Carries, Behind, Under, Answering
<1>targets. Targets'
  BY <1>f, <1>i, <1>o, <1>1 DEF Targets, Carries, Behind, Under, Open, PullPcs, TailDone
<1>captures. Captures'
  BY <1>f, <1>i, <1>o, <1>1 DEF Captures, Carries, CapturePcs, QueuedPcs, CommitPcs,
     ScanPcs, CohortPcs
<1>current. Current'
  BY <1>f, <1>i, <1>o, <1>1 DEF Current, Under
<1>headed. Headed'
  BY <1>f, <1>i, <1>o, <1>1 DEF Headed, QueuedPcs
<1>unproposed. Unproposed'
  BY <1>f, <1>i, <1>o, <1>1 DEF Unproposed, Under, Behind
<1>intents. Intents'
  BY <1>f, <1>i, <1>o, <1>1 DEF Intents, OpenIntent, Under, CommitPcs
<1>apart. Apart'
  BY <1>f, <1>i, <1>o, <1>1 DEF Apart, Under, Answering, ReviewPcs, Targets, Carries,
     Behind, Open, OpenIntent, Known, Reviewed, TailDone, AppliedPcs, RunPcs, RecoverPcs,
     PullPcs, TailPcs, JournalPcs, ScanPcs, CohortPcs, CommitPcs, QueuedPcs, TargetPcs,
     CapturePcs, SyncPcs
<1> QED BY <1>e, <1>settled, <1>descends, <1>replies, <1>targets, <1>captures, <1>current,
   <1>headed, <1>unproposed, <1>intents, <1>apart DEF Straight

LEMMA PlanStraight ==
  ASSUME DeviceInv, RecoveryInv, Straight, Plan
  PROVE  Straight'
<1>f. Ordered /\ Fields /\ Known /\ PhaseRun /\ PhaseJournal /\ PhaseQueue
  BY StraightFacts
<1>i. /\ Settled /\ Descends /\ Replies /\ Targets /\ Captures /\ Current /\ Headed
      /\ Unproposed /\ Intents /\ Apart /\ Applied /\ Unjournaled /\ Reviewed
      /\ st.err # "diverged" /\ pc # "down" /\ run.ret # "boot"
  BY DEF Straight, RecoveryInv
<1>o. Node' = Node /\ \A a, b : IsAncestor(a, b)' <=> IsAncestor(a, b)
  BY OrderSame DEF Plan, rest
<1>b. ~ Open /\ run.target # 0
  BY <1>f, <1>i DEF Plan, Unjournaled, RunPcs, Known, TargetPcs, PullPcs
<1>c. jr'.target = run.target
  <2>1. PICK j : /\ j = [NoJournal EXCEPT !.target = run.target, !.base = run.base,
                                          !.prior = st.main, !.sref = st.sref, !.pre = file]
    OBVIOUS
  <2>2. /\ DOMAIN j = DOMAIN jr /\ j.target = run.target
    BY <2>1, <1>f DEF NoJournal, Fields
  <2>3. PICK a, d, w : \/ jr' = [j EXCEPT !.phase = "committed"]
                       \/ jr' = [j EXCEPT !.phase = "planned", !.affected = a, !.deferred = d,
                                          !.touched = w]
    BY <2>1 DEF Plan
  <2> QED BY <2>2, <2>3, <1>f DEF Fields
<1>1. /\ UNCHANGED <<commits, main, devRef, conflict, st, q, ref>>
      /\ prov' = prov
      /\ run'.ret \in {run.ret, "refonly"} /\ run'.target = run.target
      /\ pc = "plan" /\ ~ Open
      /\ jr'.target = run.target /\ run.target # 0 /\ pc' \in {"refs", "retain"}
  BY <1>f, <1>b, <1>c DEF Plan, rest, server, Fields
<1>e. st'.err # "diverged" /\ pc' # "down" /\ run'.ret # "boot"
  BY <1>f, <1>i, <1>o, <1>1
<1>settled. Settled'
  BY <1>f, <1>i, <1>o, <1>1 DEF Settled
<1>descends. Descends'
  BY <1>f, <1>i, <1>o, <1>1 DEF Descends, Carries
<1>replies. Replies'
  BY <1>f, <1>i, <1>o, <1>1 DEF Replies, Carries, Behind, Under, Answering
<1>targets. Targets'
  BY <1>f, <1>i, <1>o, <1>1 DEF Targets, Carries, Behind, Under, Open, PullPcs, TailDone
<1>captures. Captures'
  BY <1>f, <1>i, <1>o, <1>1 DEF Captures, Carries, CapturePcs, QueuedPcs, CommitPcs,
     ScanPcs, CohortPcs
<1>current. Current'
  BY <1>f, <1>i, <1>o, <1>1 DEF Current, Under
<1>headed. Headed'
  BY <1>f, <1>i, <1>o, <1>1 DEF Headed, QueuedPcs
<1>unproposed. Unproposed'
  BY <1>f, <1>i, <1>o, <1>1 DEF Unproposed, Under, Behind
<1>intents. Intents'
  BY <1>f, <1>i, <1>o, <1>1 DEF Intents, OpenIntent, Under, CommitPcs
<1>apart. Apart'
  BY <1>f, <1>i, <1>o, <1>1 DEF Apart, Under, Answering, ReviewPcs
<1> QED BY <1>e, <1>settled, <1>descends, <1>replies, <1>targets, <1>captures, <1>current,
   <1>headed, <1>unproposed, <1>intents, <1>apart DEF Straight

LEMMA RepairRefStraight ==
  ASSUME DeviceInv, RecoveryInv, Straight, RepairRef
  PROVE  Straight'
<1>f. Ordered /\ Fields /\ Known /\ PhaseRun /\ PhaseJournal /\ PhaseQueue
  BY StraightFacts
<1>i. /\ Settled /\ Descends /\ Replies /\ Targets /\ Captures /\ Current /\ Headed
      /\ Unproposed /\ Intents /\ Apart /\ Applied /\ Unjournaled /\ Reviewed
      /\ st.err # "diverged" /\ pc # "down" /\ run.ret # "boot"
  BY DEF Straight, RecoveryInv
<1>o. Node' = Node /\ \A a, b : IsAncestor(a, b)' <=> IsAncestor(a, b)
  BY OrderSame DEF RepairRef, rest
<1>1. /\ UNCHANGED <<commits, main, devRef, conflict, st, q>>
      /\ jr'.target = jr.target /\ prov'.intent = prov.intent
      /\ run'.ret = run.ret /\ run'.target = run.target /\ run'.commit = run.commit
      /\ run'.result = run.result /\ run'.base = run.base
      /\ pc = "repair" /\ pc' = "reconcile"
      /\ \/ ref'.local = ref.local
         \/ ref'.local = st.head /\ q.pending = 0 /\ IsAncestor(ref.local, st.head)
  BY <1>f DEF RepairRef, rest, server, Fields
<1>e. st'.err # "diverged" /\ pc' # "down" /\ run'.ret # "boot"
  BY <1>f, <1>i, <1>o, <1>1
<1>settled. Settled'
  BY <1>f, <1>i, <1>o, <1>1 DEF Settled
<1>descends. Descends'
  BY <1>f, <1>i, <1>o, <1>1 DEF Descends, Carries, Ordered, Known
<1>replies. Replies'
  BY <1>f, <1>i, <1>o, <1>1 DEF Replies, Carries, Behind, Under, Answering
<1>targets. Targets'
  BY <1>f, <1>i, <1>o, <1>1 DEF Targets, Carries, Behind, Under, Open, PullPcs, TailDone
<1>captures. Captures'
  BY <1>f, <1>i, <1>o, <1>1 DEF Captures, Carries, CapturePcs, QueuedPcs, CommitPcs,
     ScanPcs, CohortPcs
<1>current. Current'
  BY <1>f, <1>i, <1>o, <1>1 DEF Current, Under
<1>headed. Headed'
  BY <1>f, <1>i, <1>o, <1>1 DEF Headed, QueuedPcs, Ordered, Known
<1>unproposed. Unproposed'
  BY <1>f, <1>i, <1>o, <1>1 DEF Unproposed, Under, Behind
<1>intents. Intents'
  BY <1>f, <1>i, <1>o, <1>1 DEF Intents, OpenIntent, Under, CommitPcs
<1>apart. Apart'
  BY <1>f, <1>i, <1>o, <1>1 DEF Apart, Under, Answering, ReviewPcs, Known
<1> QED BY <1>e, <1>settled, <1>descends, <1>replies, <1>targets, <1>captures, <1>current,
   <1>headed, <1>unproposed, <1>intents, <1>apart DEF Straight

LEMMA ReconcileStraight ==
  ASSUME DeviceInv, RecoveryInv, Straight, Reconcile
  PROVE  Straight'
<1>f. Ordered /\ Fields /\ Known /\ PhaseRun /\ PhaseJournal /\ PhaseQueue
  BY StraightFacts
<1>i. /\ Settled /\ Descends /\ Replies /\ Targets /\ Captures /\ Current /\ Headed
      /\ Unproposed /\ Intents /\ Apart /\ Applied /\ Unjournaled /\ Reviewed
      /\ st.err # "diverged" /\ pc # "down" /\ run.ret # "boot"
  BY DEF Straight, RecoveryInv
<1>o. Node' = Node /\ \A a, b : IsAncestor(a, b)' <=> IsAncestor(a, b)
  BY OrderSame DEF Reconcile, rest
<1>a. pc = "reconcile" /\ ~ Open
  BY <1>i DEF Reconcile, Unjournaled, RunPcs
<1>b. q.pending = 0 => IsAncestor(st.sref, st.head) \/ IsAncestor(st.head, st.main)
  BY <1>a, <1>i DEF Headed
<1>c. \/ pc' = "push" /\ q.pending # 0 /\ q' = q /\ st' = st
      \/ pc' = "capture" /\ q.pending = 0 /\ q' = q /\ st' = st
      \/ /\ pc' = "capture" /\ q.pending = 0 /\ q' = q
         /\ st' = [st EXCEPT !.head = st.main, !.label = "Synced"]
      \/ /\ pc' = "push" /\ q.pending = 0 /\ ~ IsAncestor(st.head, st.main)
         /\ q' = [q EXCEPT !.pending = st.head, !.base = 0, !.status = "queued_local"]
         /\ st' = [st EXCEPT !.label = "Ahead"]
  BY <1>b DEF Reconcile
<1>s. st'.main = st.main /\ st'.sref = st.sref /\ st'.err = st.err
  BY <1>c, <1>f DEF Fields
<1>t. \/ pc' = "push" /\ q.pending # 0 /\ q' = q /\ st'.head = st.head
      \/ pc' = "capture" /\ q.pending = 0 /\ q' = q /\ st'.head \in {st.head, st.main}
      \/ /\ pc' = "push" /\ q.pending = 0 /\ ~ IsAncestor(st.head, st.main) /\ st'.head = st.head
         /\ q'.pending = st.head /\ q'.base = 0 /\ q'.status = "queued_local"
  BY <1>c, <1>f DEF Fields
<1>v. UNCHANGED <<commits, main, devRef, conflict, ref, jr, prov>>
  BY DEF Reconcile, rest, server
<1>w. /\ run'.ret = run.ret /\ run'.target = run.target /\ run'.commit = run.commit
      /\ run'.result = run.result /\ run'.base = run.base
  BY <1>f DEF Reconcile, Fields
<1>d. q.pending = 0 /\ ~ IsAncestor(st.head, st.main) =>
        Carries(st.head) /\ IsAncestor(st.head, ref.local)
  BY <1>a, <1>b, <1>f, <1>i DEF Current, Headed, Carries, Ordered, Known
<1>1. /\ UNCHANGED <<commits, main, devRef, conflict, ref>>
      /\ st'.main = st.main /\ st'.sref = st.sref /\ st'.err = st.err
      /\ jr'.target = jr.target /\ prov'.intent = prov.intent
      /\ run'.ret = run.ret /\ run'.target = run.target /\ run'.commit = run.commit
      /\ run'.result = run.result /\ run'.base = run.base
      /\ pc = "reconcile" /\ ~ Open
      /\ \/ pc' = "push" /\ q.pending # 0 /\ q' = q /\ st'.head = st.head
         \/ pc' = "capture" /\ q.pending = 0 /\ q' = q /\ st'.head \in {st.head, st.main}
         \/ /\ pc' = "push" /\ q.pending = 0 /\ ~ IsAncestor(st.head, st.main) /\ st'.head = st.head
            /\ q'.pending = st.head /\ q'.base = 0 /\ q'.status = "queued_local"
  BY <1>f, <1>a, <1>s, <1>t, <1>v, <1>w
<1>e. st'.err # "diverged" /\ pc' # "down" /\ run'.ret # "boot"
  BY <1>f, <1>i, <1>o, <1>1, <1>d
<1>settled. Settled'
  BY <1>f, <1>i, <1>o, <1>1, <1>d DEF Settled
<1>descends. Descends'
  BY <1>f, <1>i, <1>o, <1>1, <1>d DEF Descends, Carries
<1>replies. Replies'
  BY <1>f, <1>i, <1>o, <1>1, <1>d DEF Replies, Carries, Behind, Under, Answering
<1>targets. Targets'
  BY <1>f, <1>i, <1>o, <1>1, <1>d DEF Targets, Carries, Behind, Under, Open, PullPcs,
     TailDone
<1>captures. Captures'
  BY <1>f, <1>i, <1>o, <1>1, <1>d DEF Captures, Carries, CapturePcs, QueuedPcs, CommitPcs,
     ScanPcs, CohortPcs
<1>current. Current'
  BY <1>f, <1>i, <1>o, <1>1, <1>d DEF Current, Under
<1>headed. Headed'
  BY <1>f, <1>i, <1>o, <1>1, <1>d DEF Headed, QueuedPcs, Ordered, Known
<1>unproposed. Unproposed'
  BY <1>f, <1>i, <1>o, <1>1, <1>d DEF Unproposed, Under, Behind
<1>intents. Intents'
  BY <1>f, <1>i, <1>o, <1>1, <1>d DEF Intents, OpenIntent, Under, CommitPcs
<1>apart. Apart'
  BY <1>f, <1>i, <1>o, <1>1, <1>d DEF Apart, Under, Answering, ReviewPcs
<1> QED BY <1>e, <1>settled, <1>descends, <1>replies, <1>targets, <1>captures, <1>current,
   <1>headed, <1>unproposed, <1>intents, <1>apart DEF Straight

\* A commit over the local ref carries all that the local ref carries.
LEMMA CommittedStraight ==
  ASSUME DeviceInv, RecoveryInv, Straight, NEW tree, NEW n, n = Next1,
         commits' = Commit(tree, {ref.local}), UNCHANGED <<main, devRef, conflict, q>>,
         st'.main = st.main, st'.head = st.head, st'.sref = st.sref, st'.err = st.err,
         ref'.local = n, jr'.target = jr.target, prov'.intent = prov.intent,
         run'.commit = n, run'.ret = run.ret, run'.base = run.base,
         \/ pc \in {"capture", "ordinary"} /\ pc' = "oqueue"
         \/ pc = "cref" /\ pc' = "icommit"
  PROVE  Straight'
<1>f. Ordered /\ Fields /\ Known /\ PhaseRun /\ PhaseJournal /\ PhaseQueue
  BY StraightFacts
<1>i. /\ Settled /\ Descends /\ Replies /\ Targets /\ Captures /\ Current /\ Headed
      /\ Unproposed /\ Intents /\ Apart /\ Applied /\ Unjournaled /\ Reviewed
      /\ st.err # "diverged" /\ pc # "down" /\ run.ret # "boot"
  BY DEF Straight, RecoveryInv
<1>o. /\ n \notin Node /\ n # 0 /\ Node' = Node \cup {n} /\ IsAncestor(n, n)'
      /\ \A a \in Node : (IsAncestor(a, n)' <=> IsAncestor(a, ref.local)) /\ ~ IsAncestor(n, a)'
      /\ \A a, b \in Node : IsAncestor(a, b)' <=> IsAncestor(a, b)
  <2>1. {ref.local} \in SUBSET Node
    BY <1>f DEF Known
  <2> QED BY <2>1, FreshCommit
<1>r. pc \in {"cref", "ordinary"} => run.ret # "recover"
  BY <1>f DEF PhaseRun, ScanPcs, CohortPcs
<1>e. st'.err # "diverged" /\ pc' # "down" /\ run'.ret # "boot"
  BY <1>f, <1>i, <1>o, <1>r
<1>settled. Settled'
  BY <1>f, <1>i, <1>o, <1>r DEF Settled, Known
<1>descends. Descends'
  BY <1>f, <1>i, <1>o, <1>r DEF Descends, Carries, Known
<1>replies. Replies'
  BY <1>f, <1>i, <1>o, <1>r DEF Replies, Carries, Behind, Under, Answering, Known
<1>targets. Targets'
  BY <1>f, <1>i, <1>o, <1>r DEF Targets, Carries, Behind, Under, Open, PullPcs, TailDone,
     Known
<1>captures. Captures'
  BY <1>f, <1>i, <1>o, <1>r DEF Captures, Carries, CapturePcs, QueuedPcs, CommitPcs,
     ScanPcs, CohortPcs, PhaseRun, Headed, Descends, Ordered, Under, Answering, Behind,
     Open, OpenIntent, Known, Reviewed, ReviewPcs, TailDone, AppliedPcs, RunPcs, RecoverPcs,
     PullPcs, TailPcs, JournalPcs, TargetPcs, SyncPcs
<1>current. Current'
  BY <1>f, <1>i, <1>o, <1>r DEF Current, Under, Known
<1>headed. Headed'
  BY <1>f, <1>i, <1>o, <1>r DEF Headed, QueuedPcs, Known
<1>unproposed. Unproposed'
  BY <1>f, <1>i, <1>o, <1>r DEF Unproposed, Under, Behind, Known
<1>intents. Intents'
  BY <1>f, <1>i, <1>o, <1>r DEF Intents, OpenIntent, Under, CommitPcs
<1>apart. Apart'
  BY <1>f, <1>i, <1>o, <1>r DEF Apart, Under, Answering, ReviewPcs, Known
<1> QED BY <1>e, <1>settled, <1>descends, <1>replies, <1>targets, <1>captures, <1>current,
   <1>headed, <1>unproposed, <1>intents, <1>apart DEF Straight

\* A commit is a new object.
LEMMA CommitMoves ==
  ASSUME DeviceInv
  PROVE  \A t, s : commits # Commit(t, s)
<1> SUFFICES ASSUME NEW t, NEW s, commits = Commit(t, s)
             PROVE  FALSE
  OBVIOUS
<1>1. PICK r : commits = Append(commits, r)
  BY DEF Commit
<1>2. commits \in Seq([tree : Trees, anc : SUBSET Nat])
  BY DEF DeviceInv, Shapes, Git, GitTyped
<1>3. Len(commits) \in Nat /\ Len(commits) = Len(commits) + 1
  BY <1>1, <1>2
<1> QED BY <1>3

LEMMA CaptureHintedIdleStraight ==
  ASSUME DeviceInv, RecoveryInv, Straight, CaptureHinted, commits' = commits
  PROVE  Straight'
<1>f. Ordered /\ Fields /\ Known /\ PhaseRun /\ PhaseJournal /\ PhaseQueue
  BY StraightFacts
<1>i. /\ Settled /\ Descends /\ Replies /\ Targets /\ Captures /\ Current /\ Headed
      /\ Unproposed /\ Intents /\ Apart /\ Applied /\ Unjournaled /\ Reviewed
      /\ st.err # "diverged" /\ pc # "down" /\ run.ret # "boot"
  BY DEF Straight, RecoveryInv
<1>o. Node' = Node /\ \A a, b : IsAncestor(a, b)' <=> IsAncestor(a, b)
  BY OrderSame
<1>z. \A t, s : commits # Commit(t, s)
  BY CommitMoves
<1>1. /\ UNCHANGED <<commits, main, devRef, conflict, q, ref>>
      /\ st'.main = st.main /\ st'.head = st.head /\ st'.sref = st.sref /\ st'.err = st.err
      /\ jr'.target = jr.target /\ prov'.intent = prov.intent
      /\ run' = run
      /\ pc = "capture" /\ pc' = "nochange"
  BY <1>f, <1>z DEF CaptureHinted, rest, server, Fields, Checking
<1>e. st'.err # "diverged" /\ pc' # "down" /\ run'.ret # "boot"
  BY <1>f, <1>i, <1>1, <1>o
<1>settled. Settled'
  BY <1>f, <1>i, <1>1, <1>o DEF Settled
<1>descends. Descends'
  BY <1>f, <1>i, <1>1, <1>o DEF Descends, Carries
<1>replies. Replies'
  BY <1>f, <1>i, <1>1, <1>o DEF Replies, Carries, Behind, Under, Answering
<1>targets. Targets'
  BY <1>f, <1>i, <1>1, <1>o DEF Targets, Carries, Behind, Under, Open, PullPcs, TailDone
<1>captures. Captures'
  BY <1>f, <1>i, <1>1, <1>o DEF Captures, Carries, CapturePcs, QueuedPcs, CommitPcs,
     ScanPcs, CohortPcs
<1>current. Current'
  BY <1>f, <1>i, <1>1, <1>o DEF Current, Under
<1>headed. Headed'
  BY <1>f, <1>i, <1>1, <1>o DEF Headed, QueuedPcs
<1>unproposed. Unproposed'
  BY <1>f, <1>i, <1>1, <1>o DEF Unproposed, Under, Behind
<1>intents. Intents'
  BY <1>f, <1>i, <1>1, <1>o DEF Intents, OpenIntent, Under, CommitPcs
<1>apart. Apart'
  BY <1>f, <1>i, <1>1, <1>o DEF Apart, Under, Answering, ReviewPcs
<1> QED BY <1>e, <1>settled, <1>descends, <1>replies, <1>targets, <1>captures, <1>current,
   <1>headed, <1>unproposed, <1>intents, <1>apart DEF Straight

LEMMA CaptureHintedStraight ==
  ASSUME DeviceInv, RecoveryInv, Straight, CaptureHinted
  PROVE  Straight'
<1>f. Ordered /\ Fields /\ Known
  BY StraightFacts
<1>1. CASE commits' = commits
  BY <1>1, CaptureHintedIdleStraight
<1>2. CASE commits' # commits
  <2>1. PICK t, n : /\ commits' = Commit(t, {ref.local}) /\ n = Next1
                    /\ ref' = [ref EXCEPT !.local = n] /\ run' = [run EXCEPT !.commit = n]
                    /\ pc = "capture" /\ pc' = "oqueue"
    BY <1>2 DEF CaptureHinted
  <2>2. /\ ref'.local = n /\ run'.commit = n /\ run'.ret = run.ret /\ run'.base = run.base
        /\ st'.main = st.main /\ st'.head = st.head /\ st'.sref = st.sref /\ st'.err = st.err
        /\ UNCHANGED <<main, devRef, conflict, q, jr, prov>>
    BY <2>1, <1>f DEF CaptureHinted, Checking, Fields, server
  <2> QED BY <2>1, <2>2, CommittedStraight
<1> QED BY <1>1, <1>2

LEMMA CohortRefIdleStraight ==
  ASSUME DeviceInv, RecoveryInv, Straight, CohortRef, ref.local # run.target
  PROVE  Straight'
<1>f. Ordered /\ Fields /\ Known /\ PhaseRun /\ PhaseJournal /\ PhaseQueue
  BY StraightFacts
<1>i. /\ Settled /\ Descends /\ Replies /\ Targets /\ Captures /\ Current /\ Headed
      /\ Unproposed /\ Intents /\ Apart /\ Applied /\ Unjournaled /\ Reviewed
      /\ st.err # "diverged" /\ pc # "down" /\ run.ret # "boot"
  BY DEF Straight, RecoveryInv
<1>o. Node' = Node /\ \A a, b : IsAncestor(a, b)' <=> IsAncestor(a, b)
  BY OrderSame DEF CohortRef
<1>t. st' = st \/ st' = Blocked("unfinished")
  BY DEF CohortRef, Thrown
<1>s. /\ st'.main = st.main /\ st'.head = st.head /\ st'.sref = st.sref
      /\ st'.err \in {st.err, "unfinished"} /\ st.err # "review"
  BY <1>f, <1>i, <1>t DEF Blocked, Fields, CohortRef, Reviewed, RecoverPcs
<1>1. /\ UNCHANGED <<commits, main, devRef, conflict, q, ref>>
      /\ st'.main = st.main /\ st'.head = st.head /\ st'.sref = st.sref
      /\ st'.err \in {st.err, "unfinished"} /\ st.err # "review"
      /\ jr'.target = jr.target /\ prov'.intent = prov.intent
      /\ pc = "cref" /\ pc' = "idle" /\ run'.ret = "none"
  BY <1>f, <1>s DEF CohortRef, Thrown, rest, server, Fields, Done, NoRun
<1>e. st'.err # "diverged" /\ pc' # "down" /\ run'.ret # "boot"
  BY <1>f, <1>i, <1>o, <1>1
<1>settled. Settled'
  BY <1>f, <1>i, <1>o, <1>1 DEF Settled
<1>descends. Descends'
  BY <1>f, <1>i, <1>o, <1>1 DEF Descends, Carries
<1>replies. Replies'
  BY <1>f, <1>i, <1>o, <1>1 DEF Replies, Carries, Behind, Under, Answering
<1>targets. Targets'
  BY <1>f, <1>i, <1>o, <1>1 DEF Targets, Carries, Behind, Under, Open, PullPcs, TailDone
<1>captures. Captures'
  BY <1>f, <1>i, <1>o, <1>1 DEF Captures, Carries, CapturePcs, QueuedPcs, CommitPcs,
     ScanPcs, CohortPcs
<1>current. Current'
  BY <1>f, <1>i, <1>o, <1>1 DEF Current, Under
<1>headed. Headed'
  BY <1>f, <1>i, <1>o, <1>1 DEF Headed, QueuedPcs
<1>unproposed. Unproposed'
  BY <1>f, <1>i, <1>o, <1>1 DEF Unproposed, Under, Behind
<1>intents. Intents'
  BY <1>f, <1>i, <1>o, <1>1 DEF Intents, OpenIntent, Under, CommitPcs
<1>apart. Apart'
  BY <1>f, <1>i, <1>o, <1>1 DEF Apart, Under, Answering, ReviewPcs
<1> QED BY <1>e, <1>settled, <1>descends, <1>replies, <1>targets, <1>captures, <1>current,
   <1>headed, <1>unproposed, <1>intents, <1>apart DEF Straight

LEMMA CohortRefStraight ==
  ASSUME DeviceInv, RecoveryInv, Straight, CohortRef
  PROVE  Straight'
<1>f. Ordered /\ Fields /\ Known
  BY StraightFacts
<1>1. CASE ref.local # run.target
  BY <1>1, CohortRefIdleStraight
<1>2. CASE ref.local = run.target
  <2>1. PICK t, n : /\ commits' = Commit(t, {ref.local}) /\ n = Next1
                    /\ ref' = [ref EXCEPT !.local = n] /\ run' = [run EXCEPT !.commit = n]
                    /\ pc = "cref" /\ pc' = "icommit"
    BY <1>2 DEF CohortRef
  <2>2. /\ ref'.local = n /\ run'.commit = n /\ run'.ret = run.ret /\ run'.base = run.base
        /\ UNCHANGED <<main, devRef, conflict, q, jr, prov, st>>
    BY <1>2, <2>1, <1>f DEF CohortRef, Fields, server
  <2> QED BY <2>1, <2>2, CommittedStraight
<1> QED BY <1>1, <1>2

LEMMA OrdinaryIdleStraight ==
  ASSUME DeviceInv, RecoveryInv, Straight, Ordinary, commits' = commits
  PROVE  Straight'
<1>f. Ordered /\ Fields /\ Known /\ PhaseRun /\ PhaseJournal /\ PhaseQueue
  BY StraightFacts
<1>i. /\ Settled /\ Descends /\ Replies /\ Targets /\ Captures /\ Current /\ Headed
      /\ Unproposed /\ Intents /\ Apart /\ Applied /\ Unjournaled /\ Reviewed
      /\ st.err # "diverged" /\ pc # "down" /\ run.ret # "boot"
  BY DEF Straight, RecoveryInv
<1>o. Node' = Node /\ \A a, b : IsAncestor(a, b)' <=> IsAncestor(a, b)
  BY OrderSame
<1>z. \A t, s : commits # Commit(t, s)
  BY CommitMoves
<1>b. run.ret # "recover"
  BY <1>f DEF Ordinary, PhaseRun, ScanPcs
<1>1. /\ UNCHANGED <<commits, main, devRef, conflict, st, q, ref>>
      /\ jr'.target = jr.target /\ prov'.intent = prov.intent
      /\ run' = run
      /\ pc = "ordinary"
      /\ \/ run.ret = "sync" /\ pc' = "nochange"
         \/ run.ret # "sync" /\ pc' \in {"ackw", "step"}
  BY <1>f, <1>z, <1>b, AfterCaptureCases DEF Ordinary, rest, server, Fields
<1>e. st'.err # "diverged" /\ pc' # "down" /\ run'.ret # "boot"
  BY <1>f, <1>i, <1>1, <1>o
<1>settled. Settled'
  BY <1>f, <1>i, <1>1, <1>o DEF Settled
<1>descends. Descends'
  BY <1>f, <1>i, <1>1, <1>o DEF Descends, Carries
<1>replies. Replies'
  BY <1>f, <1>i, <1>1, <1>o DEF Replies, Carries, Behind, Under, Answering
<1>targets. Targets'
  BY <1>f, <1>i, <1>1, <1>o DEF Targets, Carries, Behind, Under, Open, PullPcs, TailDone
<1>captures. Captures'
  BY <1>f, <1>i, <1>1, <1>o DEF Captures, Carries, CapturePcs, QueuedPcs, CommitPcs,
     ScanPcs, CohortPcs
<1>current. Current'
  BY <1>f, <1>i, <1>1, <1>o DEF Current, Under
<1>headed. Headed'
  BY <1>f, <1>i, <1>1, <1>o DEF Headed, QueuedPcs
<1>unproposed. Unproposed'
  BY <1>f, <1>i, <1>1, <1>o DEF Unproposed, Under, Behind
<1>intents. Intents'
  BY <1>f, <1>i, <1>1, <1>o DEF Intents, OpenIntent, Under, CommitPcs
<1>apart. Apart'
  BY <1>f, <1>i, <1>1, <1>o DEF Apart, Under, Answering, ReviewPcs
<1> QED BY <1>e, <1>settled, <1>descends, <1>replies, <1>targets, <1>captures, <1>current,
   <1>headed, <1>unproposed, <1>intents, <1>apart DEF Straight

LEMMA OrdinaryStraight ==
  ASSUME DeviceInv, RecoveryInv, Straight, Ordinary
  PROVE  Straight'
<1>f. Ordered /\ Fields /\ Known
  BY StraightFacts
<1>1. CASE commits' = commits
  BY <1>1, OrdinaryIdleStraight
<1>2. CASE commits' # commits
  <2>1. PICK t, n : /\ commits' = Commit(t, {ref.local}) /\ n = Next1
                    /\ ref' = [ref EXCEPT !.local = n] /\ run' = [run EXCEPT !.commit = n]
                    /\ pc = "ordinary" /\ pc' = "oqueue"
    BY <1>2 DEF Ordinary
  <2>2. /\ ref'.local = n /\ run'.commit = n /\ run'.ret = run.ret /\ run'.base = run.base
        /\ UNCHANGED <<main, devRef, conflict, q, jr, prov, st>>
    BY <2>1, <1>f DEF Ordinary, Fields, server
  <2> QED BY <2>1, <2>2, CommittedStraight
<1> QED BY <1>1, <1>2

LEMMA IntentQueuedStraight ==
  ASSUME DeviceInv, RecoveryInv, Straight, IntentQueued
  PROVE  Straight'
<1>f. Ordered /\ Fields /\ Known /\ PhaseRun /\ PhaseJournal /\ PhaseQueue
  BY StraightFacts
<1>i. /\ Settled /\ Descends /\ Replies /\ Targets /\ Captures /\ Current /\ Headed
      /\ Unproposed /\ Intents /\ Apart /\ Applied /\ Unjournaled /\ Reviewed
      /\ st.err # "diverged" /\ pc # "down" /\ run.ret # "boot"
  BY DEF Straight, RecoveryInv
<1>o. Node' = Node /\ \A a, b : IsAncestor(a, b)' <=> IsAncestor(a, b)
  BY OrderSame DEF IntentQueued, rest
<1>a. run.commit # 0 /\ (run.ret = "recover" => q.pending \in {0, run.commit})
  BY <1>f DEF IntentQueued, Known, PhaseQueue, CommitPcs
<1>b. /\ q'.pending = run.commit /\ q'.base = run.base
      /\ q'.status = IF run.ret = "recover" /\ q.pending # 0 THEN q.status ELSE "queued_local"
  BY <1>f DEF IntentQueued, Fields
<1>c. ~ Under'
  BY <1>a, <1>b, <1>i DEF IntentQueued, Under, Intents, CommitPcs
<1>d. conflict # 0 => q.pending = run.commit
  BY <1>a, <1>f, <1>i DEF IntentQueued, Settled, Captures, Targets, PhaseJournal, CapturePcs,
     CommitPcs, QueuedPcs, Open, Known
<1>1. /\ UNCHANGED <<commits, main, devRef, conflict, st, ref>>
      /\ jr'.target = jr.target /\ prov'.intent = prov.intent
      /\ run' = run
      /\ pc = "iqueue" /\ pc' = "istate"
      /\ q'.pending = run.commit /\ q'.base = run.base /\ run.commit # 0
      /\ ~ Under'
  BY <1>f, <1>a, <1>b, <1>c DEF IntentQueued, rest, server, Fields
<1>e. st'.err # "diverged" /\ pc' # "down" /\ run'.ret # "boot"
  BY <1>f, <1>i, <1>o, <1>1, <1>d
<1>settled. Settled'
  BY <1>f, <1>i, <1>o, <1>1, <1>d DEF Settled
<1>descends. Descends'
  BY <1>f, <1>i, <1>o, <1>1, <1>d DEF Descends, Carries, Captures, Under, Answering, Behind,
     Open, OpenIntent, Known, Reviewed, ReviewPcs, TailDone, AppliedPcs, RunPcs, RecoverPcs,
     PullPcs, TailPcs, JournalPcs, ScanPcs, CohortPcs, CommitPcs, QueuedPcs, TargetPcs,
     CapturePcs, SyncPcs
<1>replies. Replies'
  BY <1>f, <1>i, <1>o, <1>1, <1>d DEF Replies, Carries, Behind, Under, Answering
<1>targets. Targets'
  BY <1>f, <1>i, <1>o, <1>1, <1>d DEF Targets, Carries, Behind, Under, Open, PullPcs,
     TailDone
<1>captures. Captures'
  BY <1>f, <1>i, <1>o, <1>1, <1>d DEF Captures, Carries, CapturePcs, QueuedPcs, CommitPcs,
     ScanPcs, CohortPcs
<1>current. Current'
  BY <1>f, <1>i, <1>o, <1>1, <1>d DEF Current, Under
<1>headed. Headed'
  BY <1>f, <1>i, <1>o, <1>1, <1>d DEF Headed, QueuedPcs
<1>unproposed. Unproposed'
  BY <1>f, <1>i, <1>o, <1>1, <1>d DEF Unproposed, Under, Behind
<1>intents. Intents'
  BY <1>f, <1>i, <1>o, <1>1, <1>d DEF Intents, OpenIntent, Under, CommitPcs
<1>apart. Apart'
  BY <1>f, <1>i, <1>o, <1>1, <1>d DEF Apart, Under, Answering, ReviewPcs
<1> QED BY <1>e, <1>settled, <1>descends, <1>replies, <1>targets, <1>captures, <1>current,
   <1>headed, <1>unproposed, <1>intents, <1>apart DEF Straight

LEMMA OrdinaryQueuedStraight ==
  ASSUME DeviceInv, RecoveryInv, Straight, OrdinaryQueued
  PROVE  Straight'
<1>f. Ordered /\ Fields /\ Known /\ PhaseRun /\ PhaseJournal /\ PhaseQueue
  BY StraightFacts
<1>i. /\ Settled /\ Descends /\ Replies /\ Targets /\ Captures /\ Current /\ Headed
      /\ Unproposed /\ Intents /\ Apart /\ Applied /\ Unjournaled /\ Reviewed
      /\ st.err # "diverged" /\ pc # "down" /\ run.ret # "boot"
  BY DEF Straight, RecoveryInv
<1>o. Node' = Node /\ \A a, b : IsAncestor(a, b)' <=> IsAncestor(a, b)
  BY OrderSame DEF OrdinaryQueued, rest
<1>a. run.commit # 0
  BY <1>f DEF OrdinaryQueued, Known
<1>d. conflict = 0 /\ ~ OpenIntent
  <2>1. CASE run.ret = "sync"
    BY <2>1, <1>f, <1>i DEF OrdinaryQueued, Settled, Captures, Intents, OpenIntent, CapturePcs,
       QueuedPcs, Known
  <2>2. CASE run.ret # "sync"
    BY <2>2, <1>f, <1>i DEF OrdinaryQueued, Captures, Targets, Intents, OpenIntent, PhaseJournal,
       CapturePcs, TailDone, Open
  <2> QED BY <2>1, <2>2
<1>1. /\ UNCHANGED <<commits, main, devRef, conflict, st, ref>>
      /\ jr'.target = jr.target /\ prov'.intent = prov.intent
      /\ run' = run
      /\ pc = "oqueue" /\ pc' = "ostate"
      /\ q'.pending = run.commit /\ q'.base = 0 /\ q'.status = "queued_local" /\ run.commit # 0
  BY <1>f, <1>a DEF OrdinaryQueued, rest, server, Fields
<1>e. st'.err # "diverged" /\ pc' # "down" /\ run'.ret # "boot"
  BY <1>f, <1>i, <1>o, <1>1, <1>d
<1>settled. Settled'
  BY <1>f, <1>i, <1>o, <1>1, <1>d DEF Settled
<1>descends. Descends'
  BY <1>f, <1>i, <1>o, <1>1, <1>d DEF Descends, Carries, Captures
<1>replies. Replies'
  BY <1>f, <1>i, <1>o, <1>1, <1>d DEF Replies, Carries, Behind, Under, Answering
<1>targets. Targets'
  BY <1>f, <1>i, <1>o, <1>1, <1>d DEF Targets, Carries, Behind, Under, Open, PullPcs,
     TailDone
<1>captures. Captures'
  BY <1>f, <1>i, <1>o, <1>1, <1>d DEF Captures, Carries, CapturePcs, QueuedPcs, CommitPcs,
     ScanPcs, CohortPcs
<1>current. Current'
  BY <1>f, <1>i, <1>o, <1>1, <1>d DEF Current, Under
<1>headed. Headed'
  BY <1>f, <1>i, <1>o, <1>1, <1>d DEF Headed, QueuedPcs
<1>unproposed. Unproposed'
  BY <1>f, <1>i, <1>o, <1>1, <1>d DEF Unproposed, Under, Behind
<1>intents. Intents'
  BY <1>f, <1>i, <1>o, <1>1, <1>d DEF Intents, OpenIntent, Under, CommitPcs
<1>apart. Apart'
  BY <1>f, <1>i, <1>o, <1>1, <1>d DEF Apart, Under, Answering, ReviewPcs
<1> QED BY <1>e, <1>settled, <1>descends, <1>replies, <1>targets, <1>captures, <1>current,
   <1>headed, <1>unproposed, <1>intents, <1>apart DEF Straight

LEMMA IntentStateStraight ==
  ASSUME DeviceInv, RecoveryInv, Straight, IntentState
  PROVE  Straight'
<1>f. Ordered /\ Fields /\ Known /\ PhaseRun /\ PhaseJournal /\ PhaseQueue
  BY StraightFacts
<1>i. /\ Settled /\ Descends /\ Replies /\ Targets /\ Captures /\ Current /\ Headed
      /\ Unproposed /\ Intents /\ Apart /\ Applied /\ Unjournaled /\ Reviewed
      /\ st.err # "diverged" /\ pc # "down" /\ run.ret # "boot"
  BY DEF Straight, RecoveryInv
<1>o. Node' = Node /\ \A a, b : IsAncestor(a, b)' <=> IsAncestor(a, b)
  BY OrderSame DEF IntentState, rest
<1>g. PICK n, l : n = [st EXCEPT !.head = run.commit, !.label = l] /\ st' = Guarded(n)
  BY <1>f DEF IntentState, Fields
<1>h. n.main = st.main /\ n.sref = st.sref /\ n.head = run.commit /\ n.err = st.err
  BY <1>g, <1>f DEF Fields
<1>s. /\ st'.main = st.main /\ st'.sref = st.sref /\ st'.err = st.err
      /\ st'.head = IF Behind(run.commit, st.head) THEN st.head ELSE run.commit
  BY <1>g, <1>h, GuardedExact DEF Behind
<1>p. q.pending = run.commit /\ run.commit # 0
  BY <1>f DEF IntentState, PhaseQueue, QueuedPcs, Known
<1>b. st'.head = run.commit \/ IsAncestor(st'.head, st.main)
  BY <1>s, <1>f, <1>i DEF IntentState, Captures, QueuedPcs, Ordered, Known, Behind
<1>t. \/ pc' \in {"push", "idle"} /\ ~ Open
      \/ pc' \in {"ackw", "step"}
  BY <1>i, AfterCaptureCases DEF IntentState, Unjournaled, CapturePcs, QueuedPcs
<1>1. /\ UNCHANGED <<commits, main, devRef, conflict, q, ref>>
      /\ jr'.target = jr.target /\ prov'.intent = prov.intent
      /\ run'.ret \in {run.ret, "none"}
      /\ pc = "istate"
  BY <1>f DEF IntentState, rest, server, Fields, NoRun
<1>e. st'.err # "diverged" /\ pc' # "down" /\ run'.ret # "boot"
  BY <1>f, <1>i, <1>o, <1>1, <1>s, <1>p, <1>b, <1>t
<1>settled. Settled'
  BY <1>f, <1>i, <1>o, <1>1, <1>s, <1>p, <1>b, <1>t DEF Settled
<1>descends. Descends'
  BY <1>f, <1>i, <1>o, <1>1, <1>s, <1>p, <1>b, <1>t DEF Descends, Carries
<1>replies. Replies'
  BY <1>f, <1>i, <1>o, <1>1, <1>s, <1>p, <1>b, <1>t DEF Replies, Carries, Behind, Under,
     Answering
<1>targets. Targets'
  BY <1>f, <1>i, <1>o, <1>1, <1>s, <1>p, <1>b, <1>t DEF Targets, Carries, Behind, Under,
     Open, PullPcs, TailDone
<1>captures. Captures'
  BY <1>f, <1>i, <1>o, <1>1, <1>s, <1>p, <1>b, <1>t DEF Captures, Carries, CapturePcs,
     QueuedPcs, CommitPcs, ScanPcs, CohortPcs
<1>current. Current'
  BY <1>f, <1>i, <1>o, <1>1, <1>s, <1>p, <1>b, <1>t DEF Current, Under
<1>headed. Headed'
  BY <1>f, <1>i, <1>o, <1>1, <1>s, <1>p, <1>b, <1>t DEF Headed, QueuedPcs, Descends, Ordered
<1>unproposed. Unproposed'
  BY <1>f, <1>i, <1>o, <1>1, <1>s, <1>p, <1>b, <1>t DEF Unproposed, Under, Behind, Replies,
     Ordered
<1>intents. Intents'
  BY <1>f, <1>i, <1>o, <1>1, <1>s, <1>p, <1>b, <1>t DEF Intents, OpenIntent, Under,
     CommitPcs
<1>apart. Apart'
  BY <1>f, <1>i, <1>o, <1>1, <1>s, <1>p, <1>b, <1>t DEF Apart, Under, Answering, ReviewPcs
<1> QED BY <1>e, <1>settled, <1>descends, <1>replies, <1>targets, <1>captures, <1>current,
   <1>headed, <1>unproposed, <1>intents, <1>apart DEF Straight

LEMMA OrdinaryStateStraight ==
  ASSUME DeviceInv, RecoveryInv, Straight, OrdinaryState
  PROVE  Straight'
<1>f. Ordered /\ Fields /\ Known /\ PhaseRun /\ PhaseJournal /\ PhaseQueue
  BY StraightFacts
<1>i. /\ Settled /\ Descends /\ Replies /\ Targets /\ Captures /\ Current /\ Headed
      /\ Unproposed /\ Intents /\ Apart /\ Applied /\ Unjournaled /\ Reviewed
      /\ st.err # "diverged" /\ pc # "down" /\ run.ret # "boot"
  BY DEF Straight, RecoveryInv
<1>o. Node' = Node /\ \A a, b : IsAncestor(a, b)' <=> IsAncestor(a, b)
  BY OrderSame DEF OrdinaryState, rest
<1>g. PICK n, l : n = [st EXCEPT !.head = run.commit, !.label = l] /\ st' = Guarded(n)
  BY <1>f DEF OrdinaryState, Fields
<1>h. n.main = st.main /\ n.sref = st.sref /\ n.head = run.commit /\ n.err = st.err
  BY <1>g, <1>f DEF Fields
<1>s. /\ st'.main = st.main /\ st'.sref = st.sref /\ st'.err = st.err
      /\ st'.head = IF Behind(run.commit, st.head) THEN st.head ELSE run.commit
  BY <1>g, <1>h, GuardedExact DEF Behind
<1>p. q.pending = run.commit /\ run.commit # 0
  BY <1>f DEF OrdinaryState, PhaseQueue, QueuedPcs, Known
<1>b. st'.head = run.commit \/ IsAncestor(st'.head, st.main)
  BY <1>s, <1>f, <1>i DEF OrdinaryState, Captures, QueuedPcs, Ordered, Known, Behind
<1>t. \/ pc' \in {"push", "idle"} /\ ~ Open
      \/ pc' \in {"ackw", "step"}
  BY <1>i, AfterCaptureCases DEF OrdinaryState, Unjournaled, CapturePcs, QueuedPcs
<1>1. /\ UNCHANGED <<commits, main, devRef, conflict, q, ref>>
      /\ jr'.target = jr.target /\ prov'.intent = prov.intent
      /\ run' = run
      /\ pc = "ostate"
  BY <1>f DEF OrdinaryState, rest, server, Fields
<1>e. st'.err # "diverged" /\ pc' # "down" /\ run'.ret # "boot"
  BY <1>f, <1>i, <1>o, <1>1, <1>s, <1>p, <1>b, <1>t
<1>settled. Settled'
  BY <1>f, <1>i, <1>o, <1>1, <1>s, <1>p, <1>b, <1>t DEF Settled
<1>descends. Descends'
  BY <1>f, <1>i, <1>o, <1>1, <1>s, <1>p, <1>b, <1>t DEF Descends, Carries
<1>replies. Replies'
  BY <1>f, <1>i, <1>o, <1>1, <1>s, <1>p, <1>b, <1>t DEF Replies, Carries, Behind, Under,
     Answering
<1>targets. Targets'
  BY <1>f, <1>i, <1>o, <1>1, <1>s, <1>p, <1>b, <1>t DEF Targets, Carries, Behind, Under,
     Open, PullPcs, TailDone
<1>captures. Captures'
  BY <1>f, <1>i, <1>o, <1>1, <1>s, <1>p, <1>b, <1>t DEF Captures, Carries, CapturePcs,
     QueuedPcs, CommitPcs, ScanPcs, CohortPcs
<1>current. Current'
  BY <1>f, <1>i, <1>o, <1>1, <1>s, <1>p, <1>b, <1>t DEF Current, Under
<1>headed. Headed'
  BY <1>f, <1>i, <1>o, <1>1, <1>s, <1>p, <1>b, <1>t DEF Headed, QueuedPcs, Descends, Ordered
<1>unproposed. Unproposed'
  BY <1>f, <1>i, <1>o, <1>1, <1>s, <1>p, <1>b, <1>t DEF Unproposed, Under, Behind, Replies,
     Ordered
<1>intents. Intents'
  BY <1>f, <1>i, <1>o, <1>1, <1>s, <1>p, <1>b, <1>t DEF Intents, OpenIntent, Under,
     CommitPcs
<1>apart. Apart'
  BY <1>f, <1>i, <1>o, <1>1, <1>s, <1>p, <1>b, <1>t DEF Apart, Under, Answering, ReviewPcs
<1> QED BY <1>e, <1>settled, <1>descends, <1>replies, <1>targets, <1>captures, <1>current,
   <1>headed, <1>unproposed, <1>intents, <1>apart DEF Straight

\* The server's history grows over its main.
Extended ==
  /\ Node \subseteq Node'
  /\ \A a, b \in Node : IsAncestor(a, b)' <=> IsAncestor(a, b)
  /\ \A a \in Node' \ Node, b \in Node : ~ IsAncestor(a, b)'
  /\ main' \in Node' /\ \A a \in Node : IsAncestor(a, main) => IsAncestor(a, main)'

\* The answer, received or lost: the server's ref is adopted.
LEMMA AnswerExact ==
  ASSUME Fields, NEW res, NEW r \in BOOLEAN, Answer(res, r), IsAncestor(devRef, q.pending)
  PROVE  /\ st'.main = st.main /\ st'.head = st.head /\ st'.err = st.err
         /\ st'.sref = IF Behind(devRef, st.sref) THEN st.sref ELSE devRef
         /\ q'.pending = q.pending /\ q'.base = q.base
         /\ run'.ret \in {run.ret, "none"}
         /\ \/ pc' = "result" /\ run'.result = res /\ q' = q
            \/ pc' = "idle" /\ q'.status = "queued_local"
<1>1. PICK l, n : n = [st EXCEPT !.sref = devRef, !.label = l] /\ st' = Guarded(n)
  BY DEF Answer, Adopted
<1>2. n.main = st.main /\ n.head = st.head /\ n.sref = devRef /\ n.err = st.err
  BY <1>1 DEF Fields
<1>3. /\ st'.main = st.main /\ st'.head = st.head /\ st'.err = st.err
      /\ st'.sref = IF Behind(devRef, st.sref) THEN st.sref ELSE devRef
  BY <1>1, <1>2, GuardedExact DEF Behind
<1>4. CASE r
  BY <1>3, <1>4 DEF Answer, Fields
<1>5. CASE ~ r
  BY <1>3, <1>5 DEF Answer, Done, NoRun, Fields
<1> QED BY <1>4, <1>5

LEMMA PushIntegratedStraight ==
  ASSUME NEW r \in BOOLEAN, DeviceInv, RecoveryInv, Straight, PushIntegrated(r)
  PROVE  Straight'
<1>f. Ordered /\ Fields /\ Known /\ PhaseRun /\ PhaseJournal /\ PhaseQueue
  BY StraightFacts
<1>i. /\ Settled /\ Descends /\ Replies /\ Targets /\ Captures /\ Current /\ Headed
      /\ Unproposed /\ Intents /\ Apart /\ Applied /\ Unjournaled /\ Reviewed
      /\ st.err # "diverged" /\ pc # "down" /\ run.ret # "boot"
  BY DEF Straight, RecoveryInv
<1>a. pc = "push" /\ q.pending # 0 /\ ~ Open /\ Carries(q.pending) /\ q.pending \in Node
      /\ IsAncestor(q.pending, ref.local)
  BY <1>f, <1>i DEF PushIntegrated, PhaseQueue, Unjournaled, RunPcs, Descends, Known
<1>b. /\ st'.main = st.main /\ st'.head = st.head /\ st'.err = st.err
      /\ st'.sref = IF Behind(devRef, st.sref) THEN st.sref ELSE devRef
      /\ q'.pending = q.pending /\ q'.base = q.base /\ run'.ret \in {run.ret, "none"}
      /\ \/ pc' = "result" /\ run'.result = "merged" /\ q' = q
         \/ pc' = "idle" /\ q'.status = "queued_local"
  BY <1>a, <1>f, AnswerExact DEF PushIntegrated, Carries
<1>c. conflict = 0 /\ ~ IsAncestor(q.pending, main) /\ devRef' = q.pending
      /\ UNCHANGED <<conflict, ref, prov, jr>>
  BY DEF PushIntegrated
<1>d. ~ Under
  BY <1>a, <1>c, <1>i DEF Replies, Behind
<1>o. Extended /\ \A a \in Node : IsAncestor(a, q.pending) => IsAncestor(a, main)'
  <2>1. CASE commits' = commits /\ main' = q.pending /\ IsAncestor(main, q.pending)
    BY <2>1, <1>a, <1>f, OrderSame DEF Extended, Known, Ordered
  <2>2. CASE \E t : commits' = Commit(t, {main, q.pending}) /\ main' = Next1
    <3>1. PICK t, n : commits' = Commit(t, {main, q.pending}) /\ main' = n /\ n = Next1
      BY <2>2
    <3>2. {main, q.pending} \in SUBSET Node
      BY <1>a, <1>f DEF Known
    <3>3. /\ n \notin Node /\ Node' = Node \cup {n}
          /\ \A a \in Node : /\ IsAncestor(a, n)' <=> \E c \in {main, q.pending} : IsAncestor(a, c)
                             /\ ~ IsAncestor(n, a)'
          /\ \A a, b \in Node : IsAncestor(a, b)' <=> IsAncestor(a, b)
      BY <3>1, <3>2, FreshCommit
    <3> QED BY <3>1, <3>3 DEF Extended
  <2> QED BY <2>1, <2>2 DEF PushIntegrated
<1>e. st'.err # "diverged" /\ pc' # "down" /\ run'.ret # "boot"
  BY <1>f, <1>i, <1>a, <1>b, <1>c, <1>d, <1>o
<1>settled. Settled'
  BY <1>f, <1>i, <1>a, <1>b, <1>c, <1>d, <1>o DEF Settled, Extended, Ordered, Known
<1>descends. Descends'
  BY <1>f, <1>i, <1>a, <1>b, <1>c, <1>d, <1>o DEF Descends, Carries, Extended, Ordered,
     Known
<1>replies. Replies'
  BY <1>f, <1>i, <1>a, <1>b, <1>c, <1>d, <1>o DEF Replies, Carries, Behind, Under,
     Answering, Extended, Ordered
<1>targets. Targets'
  BY <1>f, <1>i, <1>a, <1>b, <1>c, <1>d, <1>o DEF Targets, Carries, Behind, Under, Open,
     PullPcs, TailDone, Extended, Ordered
<1>captures. Captures'
  BY <1>f, <1>i, <1>a, <1>b, <1>c, <1>d, <1>o DEF Captures, Carries, CapturePcs, QueuedPcs,
     CommitPcs, ScanPcs, CohortPcs, Extended, Ordered
<1>current. Current'
  BY <1>f, <1>i, <1>a, <1>b, <1>c, <1>d, <1>o DEF Current, Under, Extended, Ordered
<1>headed. Headed'
  BY <1>f, <1>i, <1>a, <1>b, <1>c, <1>d, <1>o DEF Headed, QueuedPcs, Extended, Ordered,
     Known
<1>unproposed. Unproposed'
  BY <1>f, <1>i, <1>a, <1>b, <1>c, <1>d, <1>o DEF Unproposed, Under, Behind, Extended,
     Ordered
<1>intents. Intents'
  BY <1>f, <1>i, <1>a, <1>b, <1>c, <1>d, <1>o DEF Intents, OpenIntent, Under, CommitPcs,
     Extended, Ordered
<1>apart. Apart'
  BY <1>f, <1>i, <1>a, <1>b, <1>c, <1>d, <1>o DEF Apart, Under, Answering, ReviewPcs,
     Extended, Ordered
<1> QED BY <1>e, <1>settled, <1>descends, <1>replies, <1>targets, <1>captures, <1>current,
   <1>headed, <1>unproposed, <1>intents, <1>apart DEF Straight

LEMMA PushConflictedStraight ==
  ASSUME NEW r \in BOOLEAN, DeviceInv, RecoveryInv, Straight, PushConflicted(r)
  PROVE  Straight'
<1>f. Ordered /\ Fields /\ Known /\ PhaseRun /\ PhaseJournal /\ PhaseQueue
  BY StraightFacts
<1>i. /\ Settled /\ Descends /\ Replies /\ Targets /\ Captures /\ Current /\ Headed
      /\ Unproposed /\ Intents /\ Apart /\ Applied /\ Unjournaled /\ Reviewed
      /\ st.err # "diverged" /\ pc # "down" /\ run.ret # "boot"
  BY DEF Straight, RecoveryInv
<1>o. Node' = Node /\ \A a, b : IsAncestor(a, b)' <=> IsAncestor(a, b)
  BY OrderSame DEF PushConflicted, rest
<1>a. pc = "push" /\ q.pending # 0 /\ ~ Open /\ Carries(q.pending) /\ q.pending \in Node
      /\ IsAncestor(q.pending, ref.local)
  BY <1>f, <1>i DEF PushConflicted, PhaseQueue, Unjournaled, RunPcs, Descends, Known
<1>b. /\ st'.main = st.main /\ st'.head = st.head /\ st'.err = st.err
      /\ st'.sref = IF Behind(devRef, st.sref) THEN st.sref ELSE devRef
      /\ q'.pending = q.pending /\ q'.base = q.base /\ run'.ret \in {run.ret, "none"}
      /\ \/ pc' = "result" /\ run'.result = "conflicted" /\ q' = q
         \/ pc' = "idle" /\ q'.status = "queued_local"
  BY <1>a, <1>f, AnswerExact DEF PushConflicted, Carries
<1>c. conflict = 0 /\ ~ IsAncestor(q.pending, main) /\ devRef' = q.pending /\ conflict' = q.pending
      /\ UNCHANGED <<main, ref, prov, jr>>
  BY DEF PushConflicted
<1>d. ~ Under /\ ~ IsAncestor(q.pending, st.main)
  BY <1>a, <1>c, <1>i, <1>f DEF Replies, Behind, Known, Ordered
<1>e. st'.err # "diverged" /\ pc' # "down" /\ run'.ret # "boot"
  BY <1>f, <1>i, <1>o, <1>a, <1>b, <1>c, <1>d
<1>settled. Settled'
  BY <1>f, <1>i, <1>o, <1>a, <1>b, <1>c, <1>d DEF Settled
<1>descends. Descends'
  BY <1>f, <1>i, <1>o, <1>a, <1>b, <1>c, <1>d DEF Descends, Carries, Ordered
<1>replies. Replies'
  BY <1>f, <1>i, <1>o, <1>a, <1>b, <1>c, <1>d DEF Replies, Carries, Behind, Under, Answering
<1>targets. Targets'
  BY <1>f, <1>i, <1>o, <1>a, <1>b, <1>c, <1>d DEF Targets, Carries, Behind, Under, Open,
     PullPcs, TailDone
<1>captures. Captures'
  BY <1>f, <1>i, <1>o, <1>a, <1>b, <1>c, <1>d DEF Captures, Carries, CapturePcs, QueuedPcs,
     CommitPcs, ScanPcs, CohortPcs
<1>current. Current'
  BY <1>f, <1>i, <1>o, <1>a, <1>b, <1>c, <1>d DEF Current, Under
<1>headed. Headed'
  BY <1>f, <1>i, <1>o, <1>a, <1>b, <1>c, <1>d DEF Headed, QueuedPcs
<1>unproposed. Unproposed'
  BY <1>f, <1>i, <1>o, <1>a, <1>b, <1>c, <1>d DEF Unproposed, Under, Behind
<1>intents. Intents'
  BY <1>f, <1>i, <1>o, <1>a, <1>b, <1>c, <1>d DEF Intents, OpenIntent, Under, CommitPcs
<1>apart. Apart'
  BY <1>f, <1>i, <1>o, <1>a, <1>b, <1>c, <1>d DEF Apart, Under, Answering, ReviewPcs
<1> QED BY <1>e, <1>settled, <1>descends, <1>replies, <1>targets, <1>captures, <1>current,
   <1>headed, <1>unproposed, <1>intents, <1>apart DEF Straight

LEMMA PushAgainStraight ==
  ASSUME NEW r \in BOOLEAN, DeviceInv, RecoveryInv, Straight, PushAgain(r)
  PROVE  Straight'
<1>f. Ordered /\ Fields /\ Known /\ PhaseRun /\ PhaseJournal /\ PhaseQueue
  BY StraightFacts
<1>i. /\ Settled /\ Descends /\ Replies /\ Targets /\ Captures /\ Current /\ Headed
      /\ Unproposed /\ Intents /\ Apart /\ Applied /\ Unjournaled /\ Reviewed
      /\ st.err # "diverged" /\ pc # "down" /\ run.ret # "boot"
  BY DEF Straight, RecoveryInv
<1>o. Node' = Node /\ \A a, b : IsAncestor(a, b)' <=> IsAncestor(a, b)
  BY OrderSame DEF PushAgain, rest
<1>k. conflict = q.pending \/ (conflict = 0 /\ IsAncestor(q.pending, main))
  BY <1>f, <1>i DEF PushAgain, Settled, Descends, Carries, PhaseQueue
<1>a. pc = "push" /\ q.pending # 0 /\ ~ Open /\ Carries(q.pending) /\ q.pending \in Node
      /\ IsAncestor(q.pending, ref.local)
  BY <1>f, <1>i DEF PushAgain, PhaseQueue, Unjournaled, RunPcs, Descends, Known
<1>b. /\ st'.main = st.main /\ st'.head = st.head /\ st'.err = st.err
      /\ st'.sref = IF Behind(devRef, st.sref) THEN st.sref ELSE devRef
      /\ q'.pending = q.pending /\ q'.base = q.base /\ run'.ret \in {run.ret, "none"}
      /\ \/ pc' = "result" /\ run'.result = (IF conflict = q.pending THEN "conflicted" ELSE "noop") /\ q' = q
         \/ pc' = "idle" /\ q'.status = "queued_local"
  BY <1>a, <1>f, <1>k, AnswerExact DEF PushAgain, Carries
<1>c. UNCHANGED <<main, devRef, conflict, ref, prov, jr>>
  BY DEF PushAgain, server
<1>e. st'.err # "diverged" /\ pc' # "down" /\ run'.ret # "boot"
  BY <1>f, <1>i, <1>o, <1>k, <1>a, <1>b, <1>c
<1>settled. Settled'
  BY <1>f, <1>i, <1>o, <1>k, <1>a, <1>b, <1>c DEF Settled
<1>descends. Descends'
  BY <1>f, <1>i, <1>o, <1>k, <1>a, <1>b, <1>c DEF Descends, Carries
<1>replies. Replies'
  BY <1>f, <1>i, <1>o, <1>k, <1>a, <1>b, <1>c DEF Replies, Carries, Behind, Under, Answering
<1>targets. Targets'
  BY <1>f, <1>i, <1>o, <1>k, <1>a, <1>b, <1>c DEF Targets, Carries, Behind, Under, Open,
     PullPcs, TailDone
<1>captures. Captures'
  BY <1>f, <1>i, <1>o, <1>k, <1>a, <1>b, <1>c DEF Captures, Carries, CapturePcs, QueuedPcs,
     CommitPcs, ScanPcs, CohortPcs
<1>current. Current'
  BY <1>f, <1>i, <1>o, <1>k, <1>a, <1>b, <1>c DEF Current, Under, Answering, Carries,
     Behind, Open, OpenIntent, Known, Reviewed, ReviewPcs, TailDone, AppliedPcs, RunPcs,
     RecoverPcs, PullPcs, TailPcs, JournalPcs, ScanPcs, CohortPcs, CommitPcs, QueuedPcs,
     TargetPcs, CapturePcs, SyncPcs
<1>headed. Headed'
  BY <1>f, <1>i, <1>o, <1>k, <1>a, <1>b, <1>c DEF Headed, QueuedPcs
<1>unproposed. Unproposed'
  BY <1>f, <1>i, <1>o, <1>k, <1>a, <1>b, <1>c DEF Unproposed, Under, Behind
<1>intents. Intents'
  BY <1>f, <1>i, <1>o, <1>k, <1>a, <1>b, <1>c DEF Intents, OpenIntent, Under, CommitPcs
<1>apart. Apart'
  BY <1>f, <1>i, <1>o, <1>k, <1>a, <1>b, <1>c DEF Apart, Under, Answering, ReviewPcs
<1> QED BY <1>e, <1>settled, <1>descends, <1>replies, <1>targets, <1>captures, <1>current,
   <1>headed, <1>unproposed, <1>intents, <1>apart DEF Straight

LEMMA ResultQueuedStraight ==
  ASSUME DeviceInv, RecoveryInv, Straight, ResultQueued
  PROVE  Straight'
<1>f. Ordered /\ Fields /\ Known /\ PhaseRun /\ PhaseJournal /\ PhaseQueue
  BY StraightFacts
<1>i. /\ Settled /\ Descends /\ Replies /\ Targets /\ Captures /\ Current /\ Headed
      /\ Unproposed /\ Intents /\ Apart /\ Applied /\ Unjournaled /\ Reviewed
      /\ st.err # "diverged" /\ pc # "down" /\ run.ret # "boot"
  BY DEF Straight, RecoveryInv
<1>o. Node' = Node /\ \A a, b : IsAncestor(a, b)' <=> IsAncestor(a, b)
  BY OrderSame DEF ResultQueued, rest
<1>a. q.pending # 0 /\ ~ Open
  BY <1>f, <1>i, StraightFacts DEF ResultQueued, PhaseQueue, Unjournaled, RunPcs
<1>1. /\ UNCHANGED <<commits, main, devRef, conflict, st, ref>>
      /\ jr'.target = jr.target /\ prov'.intent = prov.intent
      /\ run'.commit = q.pending /\ run'.ret = run.ret /\ run'.result = run.result
      /\ pc = "rqueue" /\ q.pending # 0 /\ ~ Open /\ pc' = "rstate"
      /\ \/ run.result = "conflicted" /\ q'.pending = q.pending /\ q'.status = "conflicted" /\ q'.base = q.base
         \/ run.result # "conflicted" /\ q'.pending = 0
  BY <1>f, <1>a DEF ResultQueued, rest, server, Fields
<1>e. st'.err # "diverged" /\ pc' # "down" /\ run'.ret # "boot"
  BY <1>f, <1>i, <1>o, <1>1
<1>settled. Settled'
  BY <1>f, <1>i, <1>o, <1>1 DEF Settled, Replies, Under, Answering, Carries, Behind, Open,
     OpenIntent, Known, Reviewed, ReviewPcs, TailDone, AppliedPcs, RunPcs, RecoverPcs,
     PullPcs, TailPcs, JournalPcs, ScanPcs, CohortPcs, CommitPcs, QueuedPcs, TargetPcs,
     CapturePcs, SyncPcs
<1>descends. Descends'
  BY <1>f, <1>i, <1>o, <1>1 DEF Descends, Carries
<1>replies. Replies'
  BY <1>f, <1>i, <1>o, <1>1 DEF Replies, Carries, Behind, Under, Answering, Headed,
     Descends, Open, OpenIntent, Known, Reviewed, ReviewPcs, TailDone, AppliedPcs, RunPcs,
     RecoverPcs, PullPcs, TailPcs, JournalPcs, ScanPcs, CohortPcs, CommitPcs, QueuedPcs,
     TargetPcs, CapturePcs, SyncPcs
<1>targets. Targets'
  BY <1>f, <1>i, <1>o, <1>1 DEF Targets, Carries, Behind, Under, Open, PullPcs, TailDone
<1>captures. Captures'
  BY <1>f, <1>i, <1>o, <1>1 DEF Captures, Carries, CapturePcs, QueuedPcs, CommitPcs,
     ScanPcs, CohortPcs
<1>current. Current'
  BY <1>f, <1>i, <1>o, <1>1 DEF Current, Under
<1>headed. Headed'
  BY <1>f, <1>i, <1>o, <1>1 DEF Headed, QueuedPcs
<1>unproposed. Unproposed'
  BY <1>f, <1>i, <1>o, <1>1 DEF Unproposed, Under, Behind
<1>intents. Intents'
  BY <1>f, <1>i, <1>o, <1>1 DEF Intents, OpenIntent, Under, CommitPcs
<1>apart. Apart'
  BY <1>f, <1>i, <1>o, <1>1 DEF Apart, Under, Answering, ReviewPcs, Known
<1> QED BY <1>e, <1>settled, <1>descends, <1>replies, <1>targets, <1>captures, <1>current,
   <1>headed, <1>unproposed, <1>intents, <1>apart DEF Straight

LEMMA ResultStateStraight ==
  ASSUME DeviceInv, RecoveryInv, Straight, ResultState
  PROVE  Straight'
<1>f. Ordered /\ Fields /\ Known /\ PhaseRun /\ PhaseJournal /\ PhaseQueue
  BY StraightFacts
<1>i. /\ Settled /\ Descends /\ Replies /\ Targets /\ Captures /\ Current /\ Headed
      /\ Unproposed /\ Intents /\ Apart /\ Applied /\ Unjournaled /\ Reviewed
      /\ st.err # "diverged" /\ pc # "down" /\ run.ret # "boot"
  BY DEF Straight, RecoveryInv
<1>o. Node' = Node /\ \A a, b : IsAncestor(a, b)' <=> IsAncestor(a, b)
  BY OrderSame DEF ResultState, rest
<1>a. /\ ~ Open /\ run.commit \in Node /\ run.commit # 0 /\ Carries(run.commit)
      /\ IsAncestor(run.commit, ref.local)
      /\ run.commit = conflict \/ IsAncestor(run.commit, main)
      /\ st.head = run.commit \/ IsAncestor(st.head, st.main)
      /\ IF run.result = "conflicted" THEN q.pending = run.commit /\ Under ELSE q.pending = 0
  BY <1>f, <1>i DEF ResultState, Unjournaled, RunPcs, Known, Replies
<1>b. ~ Behind(run.commit, st.sref)
  BY <1>a, <1>f DEF Carries, Behind, Ordered, Known
<1>c. /\ st'.main = st.main /\ st'.sref = run.commit
      /\ \/ /\ run.result = "conflicted" /\ pc' = "idle" /\ st'.err = "review"
            /\ st'.head = st.head
         \/ /\ run.result # "conflicted" /\ pc' = "pull" /\ st'.err = st.err
            /\ st'.head = IF Behind(run.commit, st.head) THEN st.head ELSE run.commit
  <2>1. CASE run.result = "conflicted"
    <3>1. PICK n : /\ n = [st EXCEPT !.sref = run.commit, !.label = "Review", !.err = "review"]
                   /\ st' = Guarded(n) /\ pc' = "idle"
      BY <2>1 DEF ResultState, Done
    <3>2. n.main = st.main /\ n.head = st.head /\ n.sref = run.commit /\ n.err = "review"
      BY <3>1, <1>f DEF Fields
    <3>3. ~ Behind(n.main, st.main) /\ ~ Behind(n.head, st.head) /\ ~ Behind(n.sref, st.sref)
      BY <3>2, <1>b DEF Behind
    <3> QED BY <2>1, <3>1, <3>2, <3>3, GuardedExact
  <2>2. CASE run.result # "conflicted"
    <3>1. PICK l, n : /\ n = [st EXCEPT !.sref = run.commit, !.head = run.commit, !.label = l]
                      /\ st' = Guarded(n) /\ pc' = "pull"
      BY <2>2 DEF ResultState
    <3>2. n.main = st.main /\ n.head = run.commit /\ n.sref = run.commit /\ n.err = st.err
      BY <3>1, <1>f DEF Fields
    <3>3. ~ Behind(n.main, st.main) /\ ~ Behind(n.sref, st.sref)
      BY <3>2, <1>b DEF Behind
    <3> QED BY <2>2, <3>1, <3>2, <3>3, GuardedExact
  <2> QED BY <2>1, <2>2
<1>1. /\ UNCHANGED <<commits, main, devRef, conflict, q, ref>>
      /\ jr'.target = jr.target /\ prov'.intent = prov.intent
      /\ pc = "rstate" /\ ~ Open /\ run'.ret \in {run.ret, "none"}
  BY <1>f, <1>a DEF ResultState, rest, server, Fields, Done, NoRun
<1>e. st'.err # "diverged" /\ pc' # "down" /\ run'.ret # "boot"
  BY <1>f, <1>i, <1>o, <1>1, <1>a, <1>c
<1>settled. Settled'
  BY <1>f, <1>i, <1>o, <1>1, <1>a, <1>c DEF Settled
<1>descends. Descends'
  BY <1>f, <1>i, <1>o, <1>1, <1>a, <1>c DEF Descends, Carries, Ordered
<1>replies. Replies'
  BY <1>f, <1>i, <1>o, <1>1, <1>a, <1>c DEF Replies, Carries, Behind, Under, Answering
<1>targets. Targets'
  BY <1>f, <1>i, <1>o, <1>1, <1>a, <1>c DEF Targets, Carries, Behind, Under, Open, PullPcs,
     TailDone, Settled
<1>captures. Captures'
  BY <1>f, <1>i, <1>o, <1>1, <1>a, <1>c DEF Captures, Carries, CapturePcs, QueuedPcs,
     CommitPcs, ScanPcs, CohortPcs
<1>current. Current'
  BY <1>f, <1>i, <1>o, <1>1, <1>a, <1>c DEF Current, Under, Answering, Carries, Behind,
     Open, OpenIntent, Known, Reviewed, ReviewPcs, TailDone, AppliedPcs, RunPcs, RecoverPcs,
     PullPcs, TailPcs, JournalPcs, ScanPcs, CohortPcs, CommitPcs, QueuedPcs, TargetPcs,
     CapturePcs, SyncPcs
<1>headed. Headed'
  BY <1>f, <1>i, <1>o, <1>1, <1>a, <1>c DEF Headed, QueuedPcs, Ordered
<1>unproposed. Unproposed'
  BY <1>f, <1>i, <1>o, <1>1, <1>a, <1>c DEF Unproposed, Under, Behind, Ordered, Known
<1>intents. Intents'
  BY <1>f, <1>i, <1>o, <1>1, <1>a, <1>c DEF Intents, OpenIntent, Under, CommitPcs
<1>apart. Apart'
  BY <1>f, <1>i, <1>o, <1>1, <1>a, <1>c DEF Apart, Under, Answering, ReviewPcs
<1> QED BY <1>e, <1>settled, <1>descends, <1>replies, <1>targets, <1>captures, <1>current,
   <1>headed, <1>unproposed, <1>intents, <1>apart DEF Straight

LEMMA RefsStraight ==
  ASSUME DeviceInv, RecoveryInv, Straight, Refs
  PROVE  Straight'
<1>f. Ordered /\ Fields /\ Known /\ PhaseRun /\ PhaseJournal /\ PhaseQueue
  BY StraightFacts
<1>i. /\ Settled /\ Descends /\ Replies /\ Targets /\ Captures /\ Current /\ Headed
      /\ Unproposed /\ Intents /\ Apart /\ Applied /\ Unjournaled /\ Reviewed
      /\ st.err # "diverged" /\ pc # "down" /\ run.ret # "boot"
  BY DEF Straight, RecoveryInv
<1>o. Node' = Node /\ \A a, b : IsAncestor(a, b)' <=> IsAncestor(a, b)
  BY OrderSame DEF Refs, rest
<1>a. Open /\ run.target = jr.target
  BY <1>f DEF Refs, PhaseJournal, JournalPcs, TailPcs, Open
<1>1. /\ UNCHANGED <<commits, main, devRef, conflict, st, q>>
      /\ jr'.target = jr.target /\ prov'.intent = prov.intent
      /\ run' = run
      /\ pc = "refs" /\ Open /\ run.target = jr.target
      /\ pc' = "commitj" /\ ref'.local = jr.target
  BY <1>f, <1>a DEF Refs, rest, server, Fields
<1>e. st'.err # "diverged" /\ pc' # "down" /\ run'.ret # "boot"
  BY <1>f, <1>i, <1>o, <1>1
<1>settled. Settled'
  BY <1>f, <1>i, <1>o, <1>1 DEF Settled
<1>descends. Descends'
  BY <1>f, <1>i, <1>o, <1>1 DEF Descends, Carries, Targets, Under, Answering, Behind, Open,
     OpenIntent, Known, Reviewed, ReviewPcs, TailDone, AppliedPcs, RunPcs, RecoverPcs,
     PullPcs, TailPcs, JournalPcs, ScanPcs, CohortPcs, CommitPcs, QueuedPcs, TargetPcs,
     CapturePcs, SyncPcs
<1>replies. Replies'
  BY <1>f, <1>i, <1>o, <1>1 DEF Replies, Carries, Behind, Under, Answering
<1>targets. Targets'
  BY <1>f, <1>i, <1>o, <1>1 DEF Targets, Carries, Behind, Under, Open, PullPcs, TailDone
<1>captures. Captures'
  BY <1>f, <1>i, <1>o, <1>1 DEF Captures, Carries, CapturePcs, QueuedPcs, CommitPcs,
     ScanPcs, CohortPcs
<1>current. Current'
  BY <1>f, <1>i, <1>o, <1>1 DEF Current, Under
<1>headed. Headed'
  BY <1>f, <1>i, <1>o, <1>1 DEF Headed, QueuedPcs
<1>unproposed. Unproposed'
  BY <1>f, <1>i, <1>o, <1>1 DEF Unproposed, Under, Behind
<1>intents. Intents'
  BY <1>f, <1>i, <1>o, <1>1 DEF Intents, OpenIntent, Under, CommitPcs
<1>apart. Apart'
  BY <1>f, <1>i, <1>o, <1>1 DEF Apart, Under, Answering, ReviewPcs, Targets, Carries,
     Behind, Open, OpenIntent, Known, Reviewed, TailDone, AppliedPcs, RunPcs, RecoverPcs,
     PullPcs, TailPcs, JournalPcs, ScanPcs, CohortPcs, CommitPcs, QueuedPcs, TargetPcs,
     CapturePcs, SyncPcs
<1> QED BY <1>e, <1>settled, <1>descends, <1>replies, <1>targets, <1>captures, <1>current,
   <1>headed, <1>unproposed, <1>intents, <1>apart DEF Straight

LEMMA ApplyStateStraight ==
  ASSUME DeviceInv, RecoveryInv, Straight, ApplyState
  PROVE  Straight'
<1>f. Ordered /\ Fields /\ Known /\ PhaseRun /\ PhaseJournal /\ PhaseQueue
  BY StraightFacts
<1>i. /\ Settled /\ Descends /\ Replies /\ Targets /\ Captures /\ Current /\ Headed
      /\ Unproposed /\ Intents /\ Apart /\ Applied /\ Unjournaled /\ Reviewed
      /\ st.err # "diverged" /\ pc # "down" /\ run.ret # "boot"
  BY DEF Straight, RecoveryInv
<1>o. Node' = Node /\ \A a, b : IsAncestor(a, b)' <=> IsAncestor(a, b)
  BY OrderSame DEF ApplyState, rest
<1>b. /\ Open /\ run.target = jr.target /\ run.ret \notin {"sync", "recover"} /\ pc = "astate"
      /\ st.main \in {jr.target, jr.prior} /\ jr.prior \in Anc(jr.target)
      /\ ~ Behind(jr.target, st.head)
  BY <1>f, <1>i DEF ApplyState, PhaseRun, PhaseJournal, RecoveryInv, JournalPrior, Open,
     JournalPcs, TailPcs, Targets, TailDone
<1>c. ~ Behind(run.target, st.main)
  <2>1. jr.target \in Node /\ st.main \in Node
    BY <1>b, <1>f DEF Known, Open
  <2> QED BY <2>1, <1>b, <1>f DEF Behind, IsAncestor, Ordered
<1>d. PICK l, n : /\ n = [st EXCEPT !.main = run.target, !.head = run.target, !.err = "none",
                               !.label = l]
                  /\ st' = Guarded(n)
  <2>1. PICK l : l = CASE run.ret = "refonly" -> IF q.hints # {} THEN "Checking" ELSE "Synced"
                      [] run.ret = "repair" -> IF Preserved # {} THEN "Ahead"
                                               ELSE IF run.defer THEN "Checking" ELSE "Synced"
                      [] run.ret = "apply" -> "Checking"
                      [] OTHER -> st.label
    OBVIOUS
  <2>2. st' = Guarded([st EXCEPT !.main = run.target, !.head = run.target, !.err = "none",
                                 !.label = l])
    BY <2>1, <1>f DEF ApplyState, Fields
  <2> QED BY <2>2
<1>e1. n.main = run.target /\ n.head = run.target /\ n.sref = st.sref /\ n.err = "none"
  BY <1>d, <1>f DEF Fields
<1>s. /\ st'.main = jr.target /\ st'.head = jr.target /\ st'.sref = st.sref
      /\ st'.err \in {st.err, "none"}
  <2>1. ~ Behind(n.main, st.main) /\ ~ Behind(n.head, st.head) /\ ~ Behind(n.sref, st.sref)
    BY <1>b, <1>c, <1>e1 DEF Behind
  <2> QED BY <2>1, <1>b, <1>d, <1>e1, GuardedExact
<1>t. pc' \in {"ackw", "tqueue", "step"}
  BY <1>b, AfterCaptureCases DEF ApplyState
<1>1. /\ UNCHANGED <<commits, main, devRef, conflict, q, ref>>
      /\ jr'.target = jr.target /\ prov'.intent = prov.intent
      /\ run' = run
      /\ pc = "astate" /\ Open /\ pc' \in {"ackw", "tqueue", "step"}
  BY <1>f, <1>b, <1>t DEF ApplyState, rest, server, Fields
<1>e. st'.err # "diverged" /\ pc' # "down" /\ run'.ret # "boot"
  BY <1>f, <1>i, <1>o, <1>1, <1>s
<1>settled. Settled'
  BY <1>f, <1>i, <1>o, <1>1, <1>s DEF Settled
<1>descends. Descends'
  BY <1>f, <1>i, <1>o, <1>1, <1>s DEF Descends, Carries
<1>replies. Replies'
  BY <1>f, <1>i, <1>o, <1>1, <1>s DEF Replies, Carries, Behind, Under, Answering
<1>targets. Targets'
  BY <1>f, <1>i, <1>o, <1>1, <1>s DEF Targets, Carries, Behind, Under, Open, PullPcs,
     TailDone
<1>captures. Captures'
  BY <1>f, <1>i, <1>o, <1>1, <1>s DEF Captures, Carries, CapturePcs, QueuedPcs, CommitPcs,
     ScanPcs, CohortPcs
<1>current. Current'
  BY <1>f, <1>i, <1>o, <1>1, <1>s DEF Current, Under
<1>headed. Headed'
  BY <1>f, <1>i, <1>o, <1>1, <1>s DEF Headed, QueuedPcs, Ordered, Under, Answering, Carries,
     Behind, Open, OpenIntent, Known, Reviewed, ReviewPcs, TailDone, AppliedPcs, RunPcs,
     RecoverPcs, PullPcs, TailPcs, JournalPcs, ScanPcs, CohortPcs, CommitPcs, TargetPcs,
     CapturePcs, SyncPcs
<1>unproposed. Unproposed'
  BY <1>f, <1>i, <1>o, <1>1, <1>s DEF Unproposed, Under, Behind
<1>intents. Intents'
  BY <1>f, <1>i, <1>o, <1>1, <1>s DEF Intents, OpenIntent, Under, CommitPcs
<1>apart. Apart'
  BY <1>f, <1>i, <1>o, <1>1, <1>s DEF Apart, Under, Answering, ReviewPcs, Targets, Carries,
     Behind, Open, OpenIntent, Known, Reviewed, TailDone, AppliedPcs, RunPcs, RecoverPcs,
     PullPcs, TailPcs, JournalPcs, ScanPcs, CohortPcs, CommitPcs, QueuedPcs, TargetPcs,
     CapturePcs, SyncPcs
<1> QED BY <1>e, <1>settled, <1>descends, <1>replies, <1>targets, <1>captures, <1>current,
   <1>headed, <1>unproposed, <1>intents, <1>apart DEF Straight

\* No older commit descends from a new one.
LEMMA FreshApart ==
  ASSUME DeviceInv, NEW k, k = Next1, NEW a \in Node
  PROVE  ~ IsAncestor(k, a)
<1>1. Anc(a) \subseteq Node /\ k \notin Node
  BY AncNode, NodeRange DEF DeviceInv, Shapes, Git
<1> QED BY <1>1 DEF IsAncestor

LEMMA TailAcceptedExactStraight ==
  ASSUME DeviceInv, RecoveryInv, Straight, TailAccepted, commits' = commits
  PROVE  Straight'
<1>f. Ordered /\ Fields /\ Known /\ PhaseRun /\ PhaseJournal /\ PhaseQueue
  BY StraightFacts
<1>i. /\ Settled /\ Descends /\ Replies /\ Targets /\ Captures /\ Current /\ Headed
      /\ Unproposed /\ Intents /\ Apart /\ Applied /\ Unjournaled /\ Reviewed
      /\ st.err # "diverged" /\ pc # "down" /\ run.ret # "boot"
  BY DEF Straight, RecoveryInv
<1>a. Node' = Node /\ \A a, b : IsAncestor(a, b)' <=> IsAncestor(a, b)
  BY OrderSame
<1>z. \A t, s : commits # Commit(t, s)
  BY CommitMoves
<1>b. /\ Open /\ st.main = jr.target /\ run.target = jr.target /\ ref.local = jr.target
      /\ st.head = jr.target /\ pc = "tqueue" /\ run.ret \notin {"sync", "recover"}
      /\ q.pending = 0 /\ st.sref # jr.target /\ IsAncestor(st.sref, jr.target)
      /\ conflict = 0
  BY <1>f, <1>i DEF TailAccepted, OnlyAccepted, Applied, AppliedPcs, PhaseRun, JournalPcs,
     Targets, Carries
<1>t. pc' \in {"ackw", "step"}
  BY <1>b, AfterCaptureCases DEF TailAccepted
<1>g. PICK l, h, n : /\ n = [st EXCEPT !.main = run.target, !.head = h, !.label = l]
                     /\ st' = Guarded(n) /\ h = st.sref
  BY <1>a, <1>z DEF TailAccepted
<1>h. n.main = st.main /\ n.sref = st.sref /\ n.head = h /\ n.err = st.err
  BY <1>b, <1>g, <1>f DEF Fields
<1>s. /\ st'.main = st.main /\ st'.sref = st.sref /\ st'.err = st.err
      /\ st'.head = IF Behind(h, st.head) THEN st.head ELSE h
  BY <1>g, <1>h, GuardedExact DEF Behind
<1>w. ref'.local = st.sref /\ st'.head = jr.target
  <2>1. run.snap = Tree(st.sref)
    BY <1>z DEF TailAccepted
  <2>2. ref'.local = st.sref
    BY <2>1, <1>f DEF TailAccepted, Fields
  <2> QED BY <2>2, <1>b, <1>g, <1>s DEF Behind
<1>1. /\ UNCHANGED <<commits, main, devRef, conflict, q>>
      /\ jr'.target = jr.target /\ prov'.intent = prov.intent
      /\ Open /\ run' = run
  BY <1>f, <1>b DEF TailAccepted, rest, server, Fields
<1>e. st'.err # "diverged" /\ pc' # "down" /\ run'.ret # "boot"
  BY <1>f, <1>i, <1>1, <1>a, <1>b, <1>t, <1>s, <1>w
<1>settled. Settled'
  BY <1>f, <1>i, <1>1, <1>a, <1>b, <1>t, <1>s, <1>w DEF Settled
<1>descends. Descends'
  BY <1>f, <1>i, <1>1, <1>a, <1>b, <1>t, <1>s, <1>w DEF Descends, Carries, Current, Ordered,
     Known
<1>replies. Replies'
  BY <1>f, <1>i, <1>1, <1>a, <1>b, <1>t, <1>s, <1>w DEF Replies, Carries, Behind, Under,
     Answering
<1>targets. Targets'
  BY <1>f, <1>i, <1>1, <1>a, <1>b, <1>t, <1>s, <1>w DEF Targets, Carries, Behind, Under,
     Open, PullPcs, TailDone
<1>captures. Captures'
  BY <1>f, <1>i, <1>1, <1>a, <1>b, <1>t, <1>s, <1>w DEF Captures, Carries, CapturePcs,
     QueuedPcs, CommitPcs, ScanPcs, CohortPcs
<1>current. Current'
  BY <1>f, <1>i, <1>1, <1>a, <1>b, <1>t, <1>s, <1>w DEF Current, Under
<1>headed. Headed'
  BY <1>f, <1>i, <1>1, <1>a, <1>b, <1>t, <1>s, <1>w DEF Headed, QueuedPcs
<1>unproposed. Unproposed'
  BY <1>f, <1>i, <1>1, <1>a, <1>b, <1>t, <1>s, <1>w DEF Unproposed, Under, Behind
<1>intents. Intents'
  BY <1>f, <1>i, <1>1, <1>a, <1>b, <1>t, <1>s, <1>w DEF Intents, OpenIntent, Under,
     CommitPcs
<1>apart. Apart'
  BY <1>f, <1>i, <1>1, <1>a, <1>b, <1>t, <1>s, <1>w DEF Apart, Under, Answering, ReviewPcs
<1> QED BY <1>e, <1>settled, <1>descends, <1>replies, <1>targets, <1>captures, <1>current,
   <1>headed, <1>unproposed, <1>intents, <1>apart DEF Straight

LEMMA TailAcceptedFreshStraight ==
  ASSUME DeviceInv, RecoveryInv, Straight, TailAccepted, commits' # commits
  PROVE  Straight'
<1>f. Ordered /\ Fields /\ Known /\ PhaseRun /\ PhaseJournal /\ PhaseQueue
  BY StraightFacts
<1>i. /\ Settled /\ Descends /\ Replies /\ Targets /\ Captures /\ Current /\ Headed
      /\ Unproposed /\ Intents /\ Apart /\ Applied /\ Unjournaled /\ Reviewed
      /\ st.err # "diverged" /\ pc # "down" /\ run.ret # "boot"
  BY DEF Straight, RecoveryInv
<1>z. commits' # commits
  OBVIOUS
<1>n. PICK k : k = Next1 /\ commits' = Commit(run.snap, {ref.local})
  BY DEF TailAccepted
<1>a. /\ k \notin Node /\ k # 0 /\ Node' = Node \cup {k} /\ IsAncestor(k, k)'
      /\ \A a \in Node : (IsAncestor(a, k)' <=> IsAncestor(a, ref.local)) /\ ~ IsAncestor(k, a)'
      /\ \A a, b \in Node : IsAncestor(a, b)' <=> IsAncestor(a, b)
  <2>1. {ref.local} \in SUBSET Node
    BY <1>f DEF Known
  <2> QED BY <2>1, <1>n, FreshCommit
<1>b. /\ Open /\ st.main = jr.target /\ run.target = jr.target /\ ref.local = jr.target
      /\ st.head = jr.target /\ pc = "tqueue" /\ run.ret \notin {"sync", "recover"}
      /\ q.pending = 0 /\ st.sref # jr.target /\ IsAncestor(st.sref, jr.target)
      /\ conflict = 0
  BY <1>f, <1>i DEF TailAccepted, OnlyAccepted, Applied, AppliedPcs, PhaseRun, JournalPcs,
     Targets, Carries
<1>t. pc' \in {"ackw", "step"}
  BY <1>b, AfterCaptureCases DEF TailAccepted
<1>g. PICK l, h, n : /\ n = [st EXCEPT !.main = run.target, !.head = h, !.label = l]
                     /\ st' = Guarded(n) /\ h = k
  BY <1>n, <1>z DEF TailAccepted
<1>h. n.main = st.main /\ n.sref = st.sref /\ n.head = h /\ n.err = st.err
  BY <1>b, <1>g, <1>f DEF Fields
<1>s. /\ st'.main = st.main /\ st'.sref = st.sref /\ st'.err = st.err
      /\ st'.head = IF Behind(h, st.head) THEN st.head ELSE h
  BY <1>g, <1>h, GuardedExact DEF Behind
<1>w. ref'.local = k /\ st'.head = k
  <2>1. run.snap # Tree(st.sref)
    BY <1>z DEF TailAccepted
  <2>2. ref'.local = k
    BY <2>1, <1>n, <1>f DEF TailAccepted, Fields
  <2>3. ~ Behind(k, st.head)
    BY <1>a, <1>n, <1>f, FreshApart DEF Behind, Known
  <2> QED BY <2>2, <2>3, <1>g, <1>s
<1>1. /\ UNCHANGED <<main, devRef, conflict, q>>
      /\ jr'.target = jr.target /\ prov'.intent = prov.intent
      /\ Open /\ run' = run
  BY <1>f, <1>b DEF TailAccepted, rest, server, Fields
<1>e. st'.err # "diverged" /\ pc' # "down" /\ run'.ret # "boot"
  BY <1>f, <1>i, <1>1, <1>a, <1>b, <1>t, <1>s, <1>w
<1>settled. Settled'
  BY <1>f, <1>i, <1>1, <1>a, <1>b, <1>t, <1>s, <1>w DEF Settled, Known
<1>descends. Descends'
  BY <1>f, <1>i, <1>1, <1>a, <1>b, <1>t, <1>s, <1>w DEF Descends, Carries, Known
<1>replies. Replies'
  BY <1>f, <1>i, <1>1, <1>a, <1>b, <1>t, <1>s, <1>w DEF Replies, Carries, Behind, Under,
     Answering
<1>targets. Targets'
  BY <1>f, <1>i, <1>1, <1>a, <1>b, <1>t, <1>s, <1>w DEF Targets, Carries, Behind, Under,
     Open, PullPcs, TailDone, Known
<1>captures. Captures'
  BY <1>f, <1>i, <1>1, <1>a, <1>b, <1>t, <1>s, <1>w DEF Captures, Carries, CapturePcs,
     QueuedPcs, CommitPcs, ScanPcs, CohortPcs
<1>current. Current'
  BY <1>f, <1>i, <1>1, <1>a, <1>b, <1>t, <1>s, <1>w DEF Current, Under, Known
<1>headed. Headed'
  BY <1>f, <1>i, <1>1, <1>a, <1>b, <1>t, <1>s, <1>w DEF Headed, QueuedPcs, Known
<1>unproposed. Unproposed'
  BY <1>f, <1>i, <1>1, <1>a, <1>b, <1>t, <1>s, <1>w DEF Unproposed, Under, Behind, Known
<1>intents. Intents'
  BY <1>f, <1>i, <1>1, <1>a, <1>b, <1>t, <1>s, <1>w DEF Intents, OpenIntent, Under,
     CommitPcs
<1>apart. Apart'
  BY <1>f, <1>i, <1>1, <1>a, <1>b, <1>t, <1>s, <1>w DEF Apart, Under, Answering, ReviewPcs
<1> QED BY <1>e, <1>settled, <1>descends, <1>replies, <1>targets, <1>captures, <1>current,
   <1>headed, <1>unproposed, <1>intents, <1>apart DEF Straight

LEMMA TailAcceptedStraight ==
  ASSUME DeviceInv, RecoveryInv, Straight, TailAccepted
  PROVE  Straight'
BY TailAcceptedExactStraight, TailAcceptedFreshStraight

LEMMA SettleStraight ==
  ASSUME DeviceInv, RecoveryInv, Straight, Settle
  PROVE  Straight'
<1>f. Ordered /\ Fields /\ Known /\ PhaseRun /\ PhaseJournal /\ PhaseQueue
  BY StraightFacts
<1>i. /\ Settled /\ Descends /\ Replies /\ Targets /\ Captures /\ Current /\ Headed
      /\ Unproposed /\ Intents /\ Apart /\ Applied /\ Unjournaled /\ Reviewed
      /\ st.err # "diverged" /\ pc # "down" /\ run.ret # "boot"
  BY DEF Straight, RecoveryInv
<1>o. Node' = Node /\ \A a, b : IsAncestor(a, b)' <=> IsAncestor(a, b)
  BY OrderSame DEF Settle, rest
<1>a. ~ Open /\ conflict = 0
  BY <1>i DEF Settle, Unjournaled, Targets
<1>1. /\ UNCHANGED <<commits, main, devRef, conflict, st, ref>>
      /\ jr'.target = jr.target /\ prov'.intent = prov.intent
      /\ pc = "settle" /\ ~ Open /\ conflict = 0 /\ pc' = "idle" /\ run'.ret = "none"
      /\ \/ q.status = "conflicted" /\ q'.pending = 0
         \/ q.status # "conflicted" /\ q'.pending = q.pending /\ q'.base = q.base /\ q'.status \in {q.status, "idle"}
  BY <1>f, <1>a DEF Settle, rest, server, Fields, Done, NoRun
<1>e. st'.err # "diverged" /\ pc' # "down" /\ run'.ret # "boot"
  BY <1>f, <1>i, <1>o, <1>1
<1>settled. Settled'
  BY <1>f, <1>i, <1>o, <1>1 DEF Settled
<1>descends. Descends'
  BY <1>f, <1>i, <1>o, <1>1 DEF Descends, Carries
<1>replies. Replies'
  BY <1>f, <1>i, <1>o, <1>1 DEF Replies, Carries, Behind, Under, Answering
<1>targets. Targets'
  BY <1>f, <1>i, <1>o, <1>1 DEF Targets, Carries, Behind, Under, Open, PullPcs, TailDone
<1>captures. Captures'
  BY <1>f, <1>i, <1>o, <1>1 DEF Captures, Carries, CapturePcs, QueuedPcs, CommitPcs,
     ScanPcs, CohortPcs
<1>current. Current'
  BY <1>f, <1>i, <1>o, <1>1 DEF Current, Under
<1>headed. Headed'
  BY <1>f, <1>i, <1>o, <1>1 DEF Headed, QueuedPcs, Descends, Under, Answering, Carries,
     Behind, Open, OpenIntent, Known, Reviewed, ReviewPcs, TailDone, AppliedPcs, RunPcs,
     RecoverPcs, PullPcs, TailPcs, JournalPcs, ScanPcs, CohortPcs, CommitPcs, TargetPcs,
     CapturePcs, SyncPcs
<1>unproposed. Unproposed'
  BY <1>f, <1>i, <1>o, <1>1 DEF Unproposed, Under, Behind
<1>intents. Intents'
  BY <1>f, <1>i, <1>o, <1>1 DEF Intents, OpenIntent, Under, CommitPcs
<1>apart. Apart'
  BY <1>f, <1>i, <1>o, <1>1 DEF Apart, Under, Answering, ReviewPcs
<1> QED BY <1>e, <1>settled, <1>descends, <1>replies, <1>targets, <1>captures, <1>current,
   <1>headed, <1>unproposed, <1>intents, <1>apart DEF Straight

LEMMA RemotePushStraight ==
  ASSUME NEW p, NEW e, DeviceInv, RecoveryInv, Straight, RemotePush(p, e)
  PROVE  Straight'
<1>f. Ordered /\ Fields /\ Known /\ PhaseRun /\ PhaseJournal /\ PhaseQueue
  BY StraightFacts
<1>i. /\ Settled /\ Descends /\ Replies /\ Targets /\ Captures /\ Current /\ Headed
      /\ Unproposed /\ Intents /\ Apart /\ Applied /\ Unjournaled /\ Reviewed
      /\ st.err # "diverged" /\ pc # "down" /\ run.ret # "boot"
  BY DEF Straight, RecoveryInv
<1>o. Extended /\ main' \notin Node
  <2>1. PICK t, n : commits' = Commit(t, {main}) /\ main' = n /\ n = Next1
    BY DEF RemotePush
  <2>2. {main} \in SUBSET Node
    BY <1>f DEF Known, RemotePush
  <2>3. /\ n \notin Node /\ Node' = Node \cup {n}
        /\ \A a \in Node : /\ IsAncestor(a, n)' <=> \E c \in {main} : IsAncestor(a, c)
                           /\ ~ IsAncestor(n, a)'
        /\ \A a, b \in Node : IsAncestor(a, b)' <=> IsAncestor(a, b)
    BY <2>1, <2>2, FreshCommit
  <2> QED BY <2>1, <2>3 DEF Extended
<1>1. UNCHANGED <<devRef, conflict, st, q, ref, prov, jr, pc, run>>
  BY DEF RemotePush
<1>2. Answering \/ Under => q.pending # 0
  BY StraightFacts DEF Answering, Under, PhaseQueue
<1>e. st'.err # "diverged" /\ pc' # "down" /\ run'.ret # "boot"
  BY <1>f, <1>i, <1>o, <1>1, <1>2
<1>settled. Settled'
  BY <1>f, <1>i, <1>o, <1>1, <1>2 DEF Settled, Extended, Ordered, Known
<1>descends. Descends'
  BY <1>f, <1>i, <1>o, <1>1, <1>2 DEF Descends, Carries, Extended, Ordered, Known
<1>replies. Replies'
  BY <1>f, <1>i, <1>o, <1>1, <1>2 DEF Replies, Carries, Behind, Under, Answering, Extended,
     Ordered, Known
<1>targets. Targets'
  BY <1>f, <1>i, <1>o, <1>1, <1>2 DEF Targets, Carries, Behind, Under, Open, PullPcs,
     TailDone, Extended, Ordered, Answering, OpenIntent, Known, Reviewed, ReviewPcs,
     AppliedPcs, RunPcs, RecoverPcs, TailPcs, JournalPcs, ScanPcs, CohortPcs, CommitPcs,
     QueuedPcs, TargetPcs, CapturePcs, SyncPcs
<1>captures. Captures'
  BY <1>f, <1>i, <1>o, <1>1, <1>2 DEF Captures, Carries, CapturePcs, QueuedPcs, CommitPcs,
     ScanPcs, CohortPcs, Extended, Ordered, Known
<1>current. Current'
  BY <1>f, <1>i, <1>o, <1>1, <1>2 DEF Current, Under, Extended, Ordered, Known
<1>headed. Headed'
  BY <1>f, <1>i, <1>o, <1>1, <1>2 DEF Headed, QueuedPcs, Extended, Ordered, Known
<1>unproposed. Unproposed'
  BY <1>f, <1>i, <1>o, <1>1, <1>2 DEF Unproposed, Under, Behind, Extended, Ordered, Known
<1>intents. Intents'
  BY <1>f, <1>i, <1>o, <1>1, <1>2 DEF Intents, OpenIntent, Under, CommitPcs, Extended,
     Ordered
<1>apart. Apart'
  BY <1>f, <1>i, <1>o, <1>1, <1>2 DEF Apart, Under, Answering, ReviewPcs, Extended, Ordered,
     Known
<1> QED BY <1>e, <1>settled, <1>descends, <1>replies, <1>targets, <1>captures, <1>current,
   <1>headed, <1>unproposed, <1>intents, <1>apart DEF Straight

LEMMA ResolveStraight ==
  ASSUME NEW both, DeviceInv, RecoveryInv, Straight, Resolve(both)
  PROVE  Straight'
<1>f. Ordered /\ Fields /\ Known /\ PhaseRun /\ PhaseJournal /\ PhaseQueue
  BY StraightFacts
<1>i. /\ Settled /\ Descends /\ Replies /\ Targets /\ Captures /\ Current /\ Headed
      /\ Unproposed /\ Intents /\ Apart /\ Applied /\ Unjournaled /\ Reviewed
      /\ st.err # "diverged" /\ pc # "down" /\ run.ret # "boot"
  BY DEF Straight, RecoveryInv
<1>o. Extended /\ main' \notin Node /\ \A a \in Node : IsAncestor(a, conflict) => IsAncestor(a, main)'
  <2>1. PICK t, n : commits' = Commit(t, {main, conflict}) /\ main' = n /\ n = Next1
    BY DEF Resolve
  <2>2. {main, conflict} \in SUBSET Node
    BY <1>f DEF Known, Resolve
  <2>3. /\ n \notin Node /\ Node' = Node \cup {n}
        /\ \A a \in Node : /\ IsAncestor(a, n)' <=> \E c \in {main, conflict} : IsAncestor(a, c)
                           /\ ~ IsAncestor(n, a)'
        /\ \A a, b \in Node : IsAncestor(a, b)' <=> IsAncestor(a, b)
    BY <2>1, <2>2, FreshCommit
  <2> QED BY <2>1, <2>3 DEF Extended
<1>1. UNCHANGED <<devRef, st, q, ref, prov, jr, pc, run>> /\ conflict # 0 /\ conflict' = 0
  BY DEF Resolve
<1>2. conflict = devRef /\ q.pending = devRef /\ Carries(devRef)
  BY <1>1, <1>f, <1>i DEF Settled, Descends, Known
<1>e. st'.err # "diverged" /\ pc' # "down" /\ run'.ret # "boot"
  BY <1>f, <1>i, <1>o, <1>1, <1>2
<1>settled. Settled'
  BY <1>f, <1>i, <1>o, <1>1, <1>2 DEF Settled, Extended, Ordered, Under, Answering, Carries,
     Behind, Open, OpenIntent, Known, Reviewed, ReviewPcs, TailDone, AppliedPcs, RunPcs,
     RecoverPcs, PullPcs, TailPcs, JournalPcs, ScanPcs, CohortPcs, CommitPcs, QueuedPcs,
     TargetPcs, CapturePcs, SyncPcs
<1>descends. Descends'
  BY <1>f, <1>i, <1>o, <1>1, <1>2 DEF Descends, Carries, Extended, Ordered, Known
<1>replies. Replies'
  BY <1>f, <1>i, <1>o, <1>1, <1>2 DEF Replies, Carries, Behind, Under, Answering, Extended,
     Ordered, Known
<1>targets. Targets'
  BY <1>f, <1>i, <1>o, <1>1, <1>2 DEF Targets, Carries, Behind, Under, Open, PullPcs,
     TailDone, Extended, Ordered
<1>captures. Captures'
  BY <1>f, <1>i, <1>o, <1>1, <1>2 DEF Captures, Carries, CapturePcs, QueuedPcs, CommitPcs,
     ScanPcs, CohortPcs, Extended, Ordered, Known
<1>current. Current'
  BY <1>f, <1>i, <1>o, <1>1, <1>2 DEF Current, Under, Extended, Ordered, Known
<1>headed. Headed'
  BY <1>f, <1>i, <1>o, <1>1, <1>2 DEF Headed, QueuedPcs, Extended, Ordered, Known
<1>unproposed. Unproposed'
  BY <1>f, <1>i, <1>o, <1>1, <1>2 DEF Unproposed, Under, Behind, Extended, Ordered, Headed,
     Captures, PhaseQueue, Settled, Known
<1>intents. Intents'
  BY <1>f, <1>i, <1>o, <1>1, <1>2 DEF Intents, OpenIntent, Under, CommitPcs, Extended,
     Ordered
<1>apart. Apart'
  BY <1>f, <1>i, <1>o, <1>1, <1>2 DEF Apart, Under, Answering, ReviewPcs, Extended, Ordered,
     Known
<1> QED BY <1>e, <1>settled, <1>descends, <1>replies, <1>targets, <1>captures, <1>current,
   <1>headed, <1>unproposed, <1>intents, <1>apart DEF Straight

LEMMA StraightInit == Init => StraightInv
<1> SUFFICES ASSUME Init PROVE StraightInv
  OBVIOUS
<1>1. IsAncestor(1, 1)
  BY InitInv, StraightFacts DEF Init, Ordered, Known
<1>2. /\ st.main = 1 /\ st.head = 1 /\ st.sref = 1 /\ st.err = "none" /\ ref.local = 1
      /\ main = 1 /\ devRef = 1 /\ conflict = 0 /\ q.pending = 0 /\ q.status = "idle"
      /\ jr.target = 0 /\ pc = "idle" /\ run.ret = "none" /\ prov.intent.base = 0 /\ crashes = 0
  BY NoRunFields, NoIntentFields DEF Init, NoJournal
<1>3. ~ Under /\ ~ Answering /\ ~ Open /\ ~ OpenIntent
  BY <1>2 DEF Under, Answering, Open, OpenIntent
<1>4. Settled /\ Descends /\ Replies /\ Targets /\ Captures
  BY <1>1, <1>2, <1>3 DEF Settled, Descends, Replies, Targets, Captures, Carries, PullPcs,
     TailDone, CapturePcs, ScanPcs, CohortPcs, CommitPcs, QueuedPcs
<1>5. Current /\ Headed /\ Unproposed /\ Intents /\ Apart
  BY <1>1, <1>2, <1>3 DEF Current, Headed, Unproposed, Intents, Apart, CommitPcs, QueuedPcs
<1> QED BY <1>2, <1>4, <1>5 DEF StraightInv, Straight

\* Only a crash is counted as one.
LEMMA CrashCounted ==
  ASSUME [Next]_vars, ~ Crash
  PROVE  crashes' = crashes
<1>1. CASE InitClean \/ InitJournal \/ Flush \/ RepairRef \/ Reconcile \/ CaptureFull \/
            Cohort \/ Classify \/ Intent \/ CohortRef
  BY <1>1 DEF InitClean, InitJournal, Flush, RepairRef, Reconcile, CaptureFull, Cohort,
     Classify, Intent, CohortRef, rest, bounds, Done
<1>2. CASE IntentCommitted \/ IntentQueued \/ IntentState \/ Ordinary \/ OrdinaryQueued \/
            OrdinaryState \/ NoChange \/ ResultRecorded \/ ResultQueued \/ ResultState
  BY <1>2 DEF IntentCommitted, IntentQueued, IntentState, Ordinary, OrdinaryQueued,
     OrdinaryState, NoChange, ResultRecorded, ResultQueued, ResultState, rest, bounds, Done
<1>3. CASE Pull \/ ApplyBase \/ Plan \/ Retain \/ Bundle \/ Revalidate \/ Rewrite \/
            Verify \/ TailFlush \/ TailCapture \/ BootCapture \/ Refs
  BY <1>3 DEF Pull, ApplyBase, Plan, Retain, Bundle, Revalidate, Rewrite, Verify, TailFlush, TailCapture,
     BootCapture, Refs, rest, bounds, Done
<1>4. CASE CommitJournal \/ ApplyState \/ TailAccepted \/ TailQueue \/ TailStep \/ AckWrite
            \/ ClearJournal \/ Settle
  BY <1>4 DEF CommitJournal, ApplyState, TailAccepted, TailQueue, TailStep, AckWrite,
     ClearJournal, Settle, rest, bounds, Done
<1>5. CASE \E p \in Paths : CompareFile(p) \/ CopyFile(p) \/ WriteFile(p)
  BY <1>5 DEF CompareFile, CopyFile, WriteFile, rest, bounds
<1>6. CASE \E r \in BOOLEAN : PushIntegrated(r) \/ PushConflicted(r) \/ PushAgain(r) \/ AckSend(r)
  BY <1>6 DEF PushIntegrated, PushConflicted, PushAgain, AckSend, rest, bounds
<1>7. CASE SyncStart \/ Start \/ BlockedPoll \/ RetireHorizons \/ CaptureHinted
  BY <1>7 DEF SyncStart, Start, BlockedPoll, RetireHorizons, CaptureHinted, rest, bounds
<1>8. CASE Environment
  BY <1>8 DEF Environment, Type, RemotePush, Save, Reload, TailUnstable, Watch, Elapse, Resolve, rest, bounds
<1>9. CASE UNCHANGED vars
  BY <1>9 DEF vars, rest, bounds
<1> QED BY <1>1, <1>2, <1>3, <1>4, <1>5, <1>6, <1>7, <1>8, <1>9 DEF Next, EngineStep

LEMMA EngineStraight ==
  ASSUME DeviceInv, RecoveryInv, Straight, EngineStep
  PROVE  Straight'
<1>1. CASE InitClean
  BY <1>1, InitCleanStraight
<1>2. CASE InitJournal
  BY <1>2, InitJournalStraight
<1>3. CASE AckSend(TRUE)
  BY <1>3, AckSendStraight
<1>4. CASE Flush
  BY <1>4, FlushStraight
<1>5. CASE RepairRef
  BY <1>5, RepairRefStraight
<1>6. CASE Reconcile
  BY <1>6, ReconcileStraight
<1>7. CASE CaptureFull
  BY <1>7, CaptureFullStraight
<1>8. CASE Cohort
  BY <1>8, CohortStraight
<1>9. CASE Classify
  BY <1>9, ClassifyStraight
<1>10. CASE Intent
  BY <1>10, IntentStraight
<1>11. CASE CohortRef
  BY <1>11, CohortRefStraight
<1>12. CASE IntentCommitted
  BY <1>12, IntentCommittedStraight
<1>13. CASE IntentQueued
  BY <1>13, IntentQueuedStraight
<1>14. CASE IntentState
  BY <1>14, IntentStateStraight
<1>15. CASE Ordinary
  BY <1>15, OrdinaryStraight
<1>16. CASE OrdinaryQueued
  BY <1>16, OrdinaryQueuedStraight
<1>17. CASE OrdinaryState
  BY <1>17, OrdinaryStateStraight
<1>18. CASE NoChange
  BY <1>18, NoChangeStraight
<1>19. CASE PushIntegrated(TRUE)
  BY <1>19, PushIntegratedStraight
<1>20. CASE PushAgain(TRUE)
  BY <1>20, PushAgainStraight
<1>21. CASE ResultRecorded
  BY <1>21, ResultRecordedStraight
<1>22. CASE ResultQueued
  BY <1>22, ResultQueuedStraight
<1>23. CASE ResultState
  BY <1>23, ResultStateStraight
<1>24. CASE Pull
  BY <1>24, PullStraight
<1>25. CASE ApplyBase
  BY <1>25, ApplyBaseStraight
<1>26. CASE Plan
  BY <1>26, PlanStraight
<1>27. CASE Retain
  BY <1>27, RetainStraight
<1>28. CASE Revalidate
  BY <1>28, RevalidateStraight
<1>29. CASE Verify
  BY <1>29, VerifyStraight
<1>30. CASE TailFlush
  BY <1>30, TailFlushStraight
<1>31. CASE TailCapture
  BY <1>31, TailCaptureStraight
<1>32. CASE BootCapture
  BY <1>32, BootCaptureStraight
<1>33. CASE Refs
  BY <1>33, RefsStraight
<1>34. CASE CommitJournal
  BY <1>34, CommitJournalStraight
<1>35. CASE ApplyState
  BY <1>35, ApplyStateStraight
<1>36. CASE TailAccepted
  BY <1>36, TailAcceptedStraight
<1>37. CASE TailQueue
  BY <1>37, TailQueueStraight
<1>38. CASE TailStep
  BY <1>38, TailStepStraight
<1>39. CASE AckWrite
  BY <1>39, AckWriteStraight
<1>40. CASE ClearJournal
  BY <1>40, ClearJournalStraight
<1>41. CASE Settle
  BY <1>41, SettleStraight
<1>42. CASE \E p \in Paths : CompareFile(p) \/ CopyFile(p) \/ WriteFile(p)
  BY <1>42, CompareFileStraight, CopyFileStraight, WriteFileStraight
<1>43. CASE Rewrite \/ Bundle
  BY <1>43, RewriteStraight, BundleStraight
<1> QED BY <1>1, <1>2, <1>3, <1>4, <1>5, <1>6, <1>7, <1>8, <1>9, <1>10, <1>11, <1>12, <1>13,
     <1>14, <1>15, <1>16, <1>17, <1>18, <1>19, <1>20, <1>21, <1>22, <1>23, <1>24, <1>25,
     <1>26, <1>27, <1>28, <1>29, <1>30, <1>31, <1>32, <1>33, <1>34, <1>35, <1>36, <1>37,
     <1>38, <1>39, <1>40, <1>41, <1>42, <1>43 DEF EngineStep

LEMMA EnvironmentStraight ==
  ASSUME DeviceInv, RecoveryInv, Straight, Environment
  PROVE  Straight'
<1>1. CASE \E p \in Paths, e \in Edits : Type(p, e) \/ RemotePush(p, e)
  BY <1>1, TypeStraight, RemotePushStraight
<1>2. CASE \E p \in Paths : Save(p) \/ Reload(p) \/ TailUnstable(p)
  BY <1>2, SaveStraight, ReloadStraight, TailUnstableStraight
<1>3. CASE Watch
  BY <1>3, WatchStraight
<1>4. CASE \E i \in {h.id : h \in prov.hor} : Elapse(i)
  BY <1>4, ElapseStraight
<1>5. CASE \E both \in BOOLEAN : Resolve(both)
  BY <1>5, ResolveStraight
<1> QED BY <1>1, <1>2, <1>3, <1>4, <1>5 DEF Environment

\* A step that is no crash keeps the device straight.
LEMMA NextStraight ==
  ASSUME DeviceInv, RecoveryInv, Straight, [Next]_vars, ~ Crash
  PROVE  Straight'
<1>1. CASE EngineStep
  BY <1>1, EngineStraight
<1>2. CASE Environment
  BY <1>2, EnvironmentStraight
<1>3. CASE SyncStart \/ BlockedPoll \/ RetireHorizons \/ CaptureHinted
  BY <1>3, SyncStartStraight, BlockedPollStraight, RetireHorizonsStraight, CaptureHintedStraight
<1>4. CASE Start
  BY <1>4 DEF Start, Straight
<1>5. CASE \E r \in BOOLEAN : PushConflicted(r)
  BY <1>5, PushConflictedStraight
<1>6. CASE PushIntegrated(FALSE) \/ PushAgain(FALSE) \/ AckSend(FALSE)
  BY <1>6, PushIntegratedStraight, PushAgainStraight, AckSendStraight
<1>7. CASE UNCHANGED vars
  <2>1. UNCHANGED <<commits, main, devRef, conflict, st, q, ref, prov, jr, pc, run>>
    BY <1>7 DEF vars, server
  <2> QED BY <2>1, StraightFrame
<1> QED BY <1>1, <1>2, <1>3, <1>4, <1>5, <1>6, <1>7 DEF Next

LEMMA NextStraightInv ==
  ASSUME DeviceInv, RecoveryInv, StraightInv, [Next]_vars
  PROVE  StraightInv'
<1>1. CASE Crash
  <2>1. crashes \in Nat /\ crashes' = crashes + 1
    BY <1>1 DEF Crash, StraightInv
  <2>2. crashes' \in Nat /\ crashes' # 0
    BY <2>1
  <2> QED BY <2>2 DEF StraightInv
<1>2. CASE ~ Crash
  <2>1. crashes' = crashes
    BY <1>2, CrashCounted
  <2>2. crashes = 0 => Straight'
    BY <1>2, NextStraight DEF StraightInv
  <2> QED BY <2>1, <2>2 DEF StraightInv
<1> QED BY <1>1, <1>2

\* Until the host is first killed, everything the device proposes, applies or
\* falls back to descends from what the server accepted of it, whatever answers
\* were lost: reconcileQueueWithLocalHead and the server's compare and swap
\* never stop it as diverged.
THEOREM NoDivergenceUncrashed == Spec => [](crashes = 0 => NeverDiverged)
<1>1. DeviceInv /\ RecoveryInv /\ StraightInv /\ [Next]_vars => StraightInv'
  BY NextStraightInv
<1>2. StraightInv => (crashes = 0 => NeverDiverged)
  BY DEF StraightInv, Straight, NeverDiverged
<1> QED BY <1>1, <1>2, StraightInit, InvariantHolds, RecoveryHolds, PTL DEF Spec

===========================================================================
