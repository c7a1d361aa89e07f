-------------------------- MODULE Workbench_proofs --------------------------
(***************************************************************************)
(* Theorems about a run's workspace, for any number of files, people,      *)
(* edits, QA attempts and restarts: what is published was reviewed, tested *)
(* and scanned, and an idle session of the terminal has the files.         *)
(*                                                                         *)
(* The invariant follows one tree along the executor: from the approval on *)
(* nobody but QA writes, so the review, the copy in the container and both *)
(* scans look at the tree that is published.                               *)
(***************************************************************************)
EXTENDS Workbench, TLAPS

\* Past the approval of the reviewer.
Gated == InBox \cup {"security", "dependency", "push"}

\* Agents work while the run is active, people when it is not; a reset of the terminal
\* may come at any time.
Turns ==
  /\ status = "active" <=> pc # "none"
  /\ status = "active" => \A u \in User : request[u] \in {"idle", "reset"}
  /\ staged => pc \in Writing

\* The tree is what the approving review was shown, until QA works on it.
Judged ==
  /\ pc \in Gated \cup {"qa"} => reviewed \in Tree
  /\ pc \in Gated /\ qa = 0 => reviewed = Shown
  /\ pc = "qa" => qa > 0

\* The container has the tree, and so has what the tests ran on.
Tried ==
  /\ pc \in {"install", "unplug", "test"} => box.copy = work
  /\ pc \in {"remove", "security", "dependency", "push"} =>
       (outcome = "passed" => tested = work)
  /\ pc \in {"security", "dependency", "push"} => outcome # "failed"

\* No scan is followed by a change.
Scanned ==
  /\ pc \in {"dependency", "push"} => Leaks = {}
  /\ pc = "push" => Vulnerable = {}

IInv == TypeOK /\ Turns /\ Judged /\ Tried /\ Scanned /\ IdleSessionHasFiles

-----------------------------------------------------------------------------
\* What the executor forgets is well-typed.
LEMMA Forgotten ==
  ASSUME Forget
  PROVE  /\ revised' \in BOOLEAN /\ staged' \in BOOLEAN /\ qa' \in 0 .. QA_MAX_ATTEMPTS
         /\ outcome' \in {"none", "passed", "skipped", "failed"}
         /\ {reviewed', tested'} \subseteq Tree \cup {NoTree}
<1>1. qa' \in 0 .. QA_MAX_ATTEMPTS
  BY WorkbenchAssumption DEF Forget
<1>2. revised' \in BOOLEAN /\ staged' \in BOOLEAN
  BY DEF Forget
<1>3. /\ outcome' \in {"none", "passed", "skipped", "failed"}
      /\ {reviewed', tested'} \subseteq Tree \cup {NoTree}
  BY DEF Forget
<1> QED
  BY <1>1, <1>2, <1>3

\* The empty function is no tree of a workspace.
LEMMA EmptyTree == NoTree \notin Tree
<1>1. DOMAIN NoTree = {}
  BY DEF NoTree
<1>2. \A t \in Tree : DOMAIN t = File
  BY DEF Tree
<1> QED
  BY <1>1, <1>2, FileAssumption

\* A session has its type whatever docker does to it.
LEMMA Sessions ==
  /\ NoSession \in Session /\ NewSession \in Session
  /\ \A s \in Session :
       Stray(s) \in Session /\ [s EXCEPT !.files = TRUE] \in Session /\ [s EXCEPT !.old = TRUE] \in Session
<1>1. NoSession \in Session /\ NewSession \in Session
  BY DEF NoSession, NewSession, Session
<1>2. ASSUME NEW s \in Session PROVE Stray(s) \in Session
  BY <1>2 DEF Stray, Session
<1>3. ASSUME NEW s \in Session PROVE [s EXCEPT !.files = TRUE] \in Session
  BY <1>3 DEF Session
<1>4. ASSUME NEW s \in Session PROVE [s EXCEPT !.old = TRUE] \in Session
  BY <1>4 DEF Session
<1> QED
  BY <1>1, <1>2, <1>3, <1>4

\* A session is empty and nobody answers for it.
Bare(s) == s.up /\ ~s.files /\ ~s.stray

\* Only a session that is started is bare: no call leaves one behind.
LEMMA Bareness ==
  /\ ~Bare(NoSession)
  /\ \A s \in Session :
       /\ ~Bare(Stray(s)) /\ ~Bare([s EXCEPT !.files = TRUE])
       /\ Bare([s EXCEPT !.old = TRUE]) => Bare(s)
<1>1. ~Bare(NoSession)
  BY DEF Bare, NoSession
<1>2. ASSUME NEW s \in Session PROVE ~Bare(Stray(s))
  <2>1. Stray(s).stray = TRUE
    BY DEF Stray, Session
  <2> QED
    BY <2>1 DEF Bare
<1>3. ASSUME NEW s \in Session PROVE ~Bare([s EXCEPT !.files = TRUE])
  <2>1. [s EXCEPT !.files = TRUE].files = TRUE
    BY DEF Session
  <2> QED
    BY <2>1 DEF Bare
<1>4. ASSUME NEW s \in Session, Bare([s EXCEPT !.old = TRUE]) PROVE Bare(s)
  <2> DEFINE t == [s EXCEPT !.old = TRUE]
  <2>1. t.up = s.up /\ t.files = s.files /\ t.stray = s.stray
    BY DEF Session
  <2>2. Bare(t)
    BY <1>4
  <2> HIDE DEF t
  <2> QED
    BY <2>1, <2>2 DEF Bare
<1> QED
  BY <1>1, <1>2, <1>3, <1>4

\* The calls that leave a session bare only if it was, and the one that starts it.
LEMMA Calls ==
  ASSUME session \in Session
  PROVE  /\ RemoveSession \/ RemovedLate \/ StartTimesOut \/ CopyToSession =>
              session' \in Session /\ ~Bare(session')
         /\ SessionAges => session' \in Session /\ (Bare(session') => Bare(session))
         /\ StartSession => session' \in Session
<1>1. ASSUME RemoveSession PROVE session' \in Session /\ ~Bare(session')
  BY <1>1, Sessions, Bareness DEF RemoveSession
<1>2. ASSUME RemovedLate PROVE session' \in Session /\ ~Bare(session')
  BY <1>2, Sessions, Bareness DEF RemovedLate
<1>3. ASSUME StartTimesOut PROVE session' \in Session /\ ~Bare(session')
  BY <1>3, Sessions, Bareness DEF StartTimesOut
<1>4. ASSUME CopyToSession PROVE session' \in Session /\ ~Bare(session')
  BY <1>4, Sessions, Bareness DEF CopyToSession
<1>5. ASSUME SessionAges PROVE session' \in Session /\ (Bare(session') => Bare(session))
  BY <1>5, Sessions, Bareness DEF SessionAges
<1>6. ASSUME StartSession PROVE session' \in Session
  BY <1>6, Sessions DEF StartSession
<1> QED
  BY <1>1, <1>2, <1>3, <1>4, <1>5, <1>6

\* An idle session has files unless it is bare and somebody is at it.
LEMMA Idle ==
  /\ IdleSessionHasFiles <=> (Bare(session) => \E u \in User : request[u] \in {"fill", "discard"})
  /\ IdleSessionHasFiles' <=> (Bare(session') => \E u \in User : request'[u] \in {"fill", "discard"})
BY DEF IdleSessionHasFiles, Bare

\* A step of an agent or of the review.
LEMMA AgentStep ==
  ASSUME IInv, AgentEdits \/ AgentStages \/ AgentCommits \/ TurnEnds \/ Approve
         \/ RequestChanges
  PROVE  IInv'
<1> USE WorkbenchAssumption
  DEF IInv, Turns, Judged, Tried, Scanned, IdleSessionHasFiles, Gated, Stage, Writing,
      InBox, treeVars, boxVars, runVars, bounds, Goto, KeepVerdicts, Ends, Shown, Leaks,
      Vulnerable, Added
<1>1. CASE AgentEdits
  <2>1. TypeOK'
    BY <1>1 DEF AgentEdits, WriteFile, Patch, Tree, TypeOK, WorkspaceType, SandboxType, Step
  <2>2. Turns' /\ Judged' /\ Tried' /\ Scanned' /\ IdleSessionHasFiles'
    BY <1>1 DEF AgentEdits, WriteFile, Patch, Tree, TypeOK, WorkspaceType, SandboxType, Step
  <2> QED
    BY <2>1, <2>2
<1>2. CASE AgentStages
  <2>1. TypeOK'
    BY <1>2 DEF AgentStages, StageAll, TypeOK, WorkspaceType, SandboxType, Step
  <2>2. Turns' /\ Judged' /\ Tried' /\ Scanned' /\ IdleSessionHasFiles'
    BY <1>2 DEF AgentStages, StageAll, TypeOK, WorkspaceType, SandboxType, Step
  <2> QED
    BY <2>1, <2>2
<1>3. CASE AgentCommits
  <2>1. TypeOK'
    <3>1. staged' \in BOOLEAN
      BY <1>3 DEF AgentCommits
    <3> QED
      BY <1>3, <3>1 DEF AgentCommits, CommitIndex, TypeOK, WorkspaceType, SandboxType
  <2>2. Turns' /\ Judged' /\ Tried' /\ Scanned' /\ IdleSessionHasFiles'
    BY <1>3 DEF AgentCommits, CommitIndex, TypeOK, WorkspaceType, SandboxType, Step
  <2> QED
    BY <2>1, <2>2
<1>4. CASE TurnEnds
  <2>1. TypeOK'
    BY <1>4 DEF TurnEnds, AfterTurn, TypeOK, WorkspaceType, SandboxType, Step
  <2>2. Turns' /\ Judged' /\ Tried' /\ Scanned' /\ IdleSessionHasFiles'
    BY <1>4 DEF TurnEnds, AfterTurn, TypeOK, WorkspaceType, SandboxType, Step
  <2> QED
    BY <2>1, <2>2
<1>5. CASE Approve
  <2>1. TypeOK'
    BY <1>5 DEF Approve, Tree, TypeOK, WorkspaceType, SandboxType, Step
  <2>2. Turns' /\ Judged' /\ Tried' /\ Scanned' /\ IdleSessionHasFiles'
    BY <1>5 DEF Approve, Tree, TypeOK, WorkspaceType, SandboxType, Step
  <2> QED
    BY <2>1, <2>2
<1>6. CASE RequestChanges
  <2>1. TypeOK'
    BY <1>6 DEF RequestChanges, TypeOK, WorkspaceType, SandboxType, Step
  <2>2. Turns' /\ Judged' /\ Tried' /\ Scanned' /\ IdleSessionHasFiles'
    BY <1>6 DEF RequestChanges, TypeOK, WorkspaceType, SandboxType, Step
  <2> QED
    BY <2>1, <2>2
<1> QED
  BY <1>1, <1>2, <1>3, <1>4, <1>5, <1>6

\* A call of the sandbox.
LEMMA BoxStep ==
  ASSUME IInv, BoxSkips \/ BoxStarts \/ BoxIsFilled \/ BoxInstalls \/ BoxUnplugged
         \/ BoxFails \/ BoxTests \/ BoxRemoved
  PROVE  IInv'
<1> USE WorkbenchAssumption
  DEF IInv, Turns, Judged, Tried, Scanned, IdleSessionHasFiles, Gated, Stage, Writing,
      InBox, treeVars, boxVars, runVars, bounds, Goto, KeepVerdicts, Ends, Shown, Leaks,
      Vulnerable, Added
<1>1. CASE BoxSkips
  <2>1. TypeOK'
    BY <1>1, Forgotten DEF BoxSkips, Concludes, AfterBox, TypeOK, WorkspaceType,
       SandboxType, Step
  <2>2. Turns' /\ Judged' /\ Tried' /\ Scanned' /\ IdleSessionHasFiles'
    BY <1>1 DEF BoxSkips, Concludes, AfterBox, Forget, TypeOK, WorkspaceType, SandboxType,
       Step
  <2> QED
    BY <2>1, <2>2
<1>2. CASE BoxStarts
  <2>1. TypeOK'
    BY <1>2 DEF BoxStarts, StartBox, TypeOK, WorkspaceType, SandboxType, Step
  <2>2. Turns' /\ Judged' /\ Tried' /\ Scanned' /\ IdleSessionHasFiles'
    BY <1>2 DEF BoxStarts, StartBox, TypeOK, WorkspaceType, SandboxType, Step
  <2> QED
    BY <2>1, <2>2
<1>3. CASE BoxIsFilled
  <2>1. TypeOK'
    BY <1>3 DEF BoxIsFilled, CopyIn, TypeOK, WorkspaceType, SandboxType, Step
  <2>2. Turns' /\ Judged' /\ Tried' /\ Scanned' /\ IdleSessionHasFiles'
    BY <1>3 DEF BoxIsFilled, CopyIn, TypeOK, WorkspaceType, SandboxType, Step
  <2> QED
    BY <2>1, <2>2
<1>4. CASE BoxInstalls
  <2>1. TypeOK'
    BY <1>4 DEF BoxInstalls, TypeOK, WorkspaceType, SandboxType, Step
  <2>2. Turns' /\ Judged' /\ Tried' /\ Scanned' /\ IdleSessionHasFiles'
    BY <1>4 DEF BoxInstalls, TypeOK, WorkspaceType, SandboxType, Step
  <2> QED
    BY <2>1, <2>2
<1>5. CASE BoxUnplugged
  <2>1. TypeOK'
    BY <1>5 DEF BoxUnplugged, Unplug, TypeOK, WorkspaceType, SandboxType, Step
  <2>2. Turns' /\ Judged' /\ Tried' /\ Scanned' /\ IdleSessionHasFiles'
    BY <1>5 DEF BoxUnplugged, Unplug, TypeOK, WorkspaceType, SandboxType, Step
  <2> QED
    BY <2>1, <2>2
<1>6. CASE BoxFails
  <2>1. TypeOK'
    BY <1>6 DEF BoxFails, TypeOK, WorkspaceType, SandboxType, Step
  <2>2. Turns' /\ Judged' /\ Tried' /\ Scanned' /\ IdleSessionHasFiles'
    BY <1>6 DEF BoxFails, TypeOK, WorkspaceType, SandboxType, Step
  <2> QED
    BY <2>1, <2>2
<1>7. CASE BoxTests
  <2>1. TypeOK'
    BY <1>7 DEF BoxTests, TypeOK, WorkspaceType, SandboxType, Step
  <2>2. Turns' /\ Judged' /\ Tried' /\ Scanned' /\ IdleSessionHasFiles'
    BY <1>7 DEF BoxTests, TypeOK, WorkspaceType, SandboxType, Step
  <2> QED
    BY <2>1, <2>2
<1>8. CASE BoxRemoved
  <2>1. TypeOK'
    <3>1. box' \in [up : BOOLEAN, net : BOOLEAN, copy : Tree \cup {NoTree}]
      <4>1. box' = box \/ box' = NoBox
        BY <1>8 DEF BoxRemoved, RemoveBox
      <4>2. NoBox \in [up : BOOLEAN, net : BOOLEAN, copy : Tree \cup {NoTree}]
        BY DEF NoBox
      <4>3. box \in [up : BOOLEAN, net : BOOLEAN, copy : Tree \cup {NoTree}]
        BY DEF TypeOK, SandboxType
      <4> HIDE DEF IInv
      <4> QED
        BY <4>1, <4>2, <4>3
    <3> QED
      BY <1>8, <3>1, Forgotten DEF BoxRemoved, RemoveBox, Concludes, AfterBox, TypeOK,
         WorkspaceType, SandboxType, Step
  <2>2. Turns' /\ Judged' /\ Tried' /\ Scanned' /\ IdleSessionHasFiles'
    BY <1>8 DEF BoxRemoved, RemoveBox, NoBox, Concludes, AfterBox, Forget, TypeOK,
       WorkspaceType, SandboxType, Step
  <2> QED
    BY <2>1, <2>2
<1> QED
  BY <1>1, <1>2, <1>3, <1>4, <1>5, <1>6, <1>7, <1>8

\* A gate, the publication, or an end.
LEMMA GateStep ==
  ASSUME IInv, SecurityGate \/ DependencyGate \/ Publish \/ Complete \/ Raise \/ Crash
         \/ Ages
  PROVE  IInv'
<1> USE WorkbenchAssumption
  DEF IInv, Turns, Judged, Tried, Scanned, IdleSessionHasFiles, Gated, Stage, Writing,
      InBox, treeVars, boxVars, runVars, bounds, Goto, KeepVerdicts, Ends, Shown, Leaks,
      Vulnerable, Added
<1>1. CASE SecurityGate
  <2>1. TypeOK'
    BY <1>1, Forgotten DEF SecurityGate, Gate, TypeOK, WorkspaceType, SandboxType, Step
  <2>2. Turns' /\ Judged' /\ Tried' /\ Scanned' /\ IdleSessionHasFiles'
    BY <1>1 DEF SecurityGate, Gate, Forget, TypeOK, WorkspaceType, SandboxType, Step
  <2> QED
    BY <2>1, <2>2
<1>2. CASE DependencyGate
  <2>1. TypeOK'
    BY <1>2, Forgotten DEF DependencyGate, Gate, TypeOK, WorkspaceType, SandboxType, Step
  <2>2. Turns' /\ Judged' /\ Tried' /\ Scanned' /\ IdleSessionHasFiles'
    BY <1>2 DEF DependencyGate, Gate, Forget, TypeOK, WorkspaceType, SandboxType, Step
  <2> QED
    BY <2>1, <2>2
<1>3. CASE Publish
  <2>1. TypeOK'
    BY <1>3 DEF Publish, Push, TypeOK, WorkspaceType, SandboxType, Step
  <2>2. Turns' /\ Judged' /\ Tried' /\ Scanned' /\ IdleSessionHasFiles'
    BY <1>3 DEF Publish, Push, TypeOK, WorkspaceType, SandboxType, Step
  <2> QED
    BY <2>1, <2>2
<1>4. CASE Complete
  <2>1. TypeOK'
    BY <1>4, Forgotten DEF Complete, TypeOK, WorkspaceType, SandboxType, Step
  <2>2. Turns' /\ Judged' /\ Tried' /\ Scanned' /\ IdleSessionHasFiles'
    BY <1>4 DEF Complete, Forget, TypeOK, WorkspaceType, SandboxType, Step
  <2> QED
    BY <2>1, <2>2
<1>5. CASE Raise
  <2>1. TypeOK'
    BY <1>5, Forgotten DEF Raise, TypeOK, WorkspaceType, SandboxType, Step
  <2>2. Turns' /\ Judged' /\ Tried' /\ Scanned' /\ IdleSessionHasFiles'
    BY <1>5 DEF Raise, Forget, TypeOK, WorkspaceType, SandboxType, Step
  <2> QED
    BY <2>1, <2>2
<1>6. CASE Crash
  <2>1. session' \in Session /\ ~Bare(session')
    <3>1. session \in Session
      BY DEF TypeOK, SandboxType
    <3>2. session' \in {Stray(session), NoSession, Stray(NewSession)}
      BY <1>6 DEF Crash
    <3> HIDE DEF IInv
    <3> QED
      BY <3>1, <3>2, Sessions, Bareness
  <2>2. TypeOK'
    BY <1>6, <2>1, Forgotten DEF Crash, TypeOK, WorkspaceType, SandboxType, Step
  <2>3. Turns' /\ Judged' /\ Tried' /\ Scanned'
    BY <1>6 DEF Crash, Forget, TypeOK, WorkspaceType, SandboxType, Step
  <2>4. IdleSessionHasFiles'
    <3> HIDE DEF IInv, IdleSessionHasFiles
    <3> QED
      BY <2>1, Idle
  <2> QED
    BY <2>2, <2>3, <2>4
<1>7. CASE Ages
  <2>1. session' \in Session /\ (Bare(session') => Bare(session))
    <3>1. session \in Session
      BY DEF TypeOK, SandboxType
    <3>2. SessionAges \/ RemovedLate
      BY <1>7 DEF Ages
    <3> HIDE DEF IInv
    <3> QED
      BY <3>1, <3>2, Calls
  <2>2. UNCHANGED <<treeVars, box, runVars, request, bounds>>
    BY <1>7 DEF Ages, SessionAges, RemovedLate
  <2>3. TypeOK'
    BY <2>1, <2>2 DEF TypeOK, WorkspaceType, SandboxType
  <2>4. Turns' /\ Judged' /\ Tried' /\ Scanned'
    BY <2>2
  <2>5. IdleSessionHasFiles'
    <3>1. IdleSessionHasFiles
      OBVIOUS
    <3> HIDE DEF IInv, IdleSessionHasFiles
    <3> QED
      BY <2>1, <2>2, <3>1, Idle
  <2> QED
    BY <2>3, <2>4, <2>5
<1> QED
  BY <1>1, <1>2, <1>3, <1>4, <1>5, <1>6, <1>7

\* A request of a person on the files or the run.
LEMMA PersonStep ==
  ASSUME IInv, NEW u \in User,
         Ask(u) \/ WriteLands(u) \/ CommitStages(u) \/ CommitLooks(u) \/ CommitLands(u)
         \/ PushLands(u) \/ DeleteRemoves(u) \/ DeleteDrops(u)
  PROVE  IInv'
<1> USE WorkbenchAssumption
  DEF IInv, Turns, Judged, Tried, Scanned, IdleSessionHasFiles, Gated, Stage, Writing,
      InBox, treeVars, boxVars, runVars, bounds, Goto, KeepVerdicts, Ends, Shown, Leaks,
      Vulnerable, Added
<1>1. CASE Ask(u)
  <2>1. TypeOK'
    BY <1>1 DEF Ask, At, To, Only, Editable, TypeOK, WorkspaceType, SandboxType, Step
  <2>2. Turns' /\ Judged' /\ Tried' /\ Scanned' /\ IdleSessionHasFiles'
    BY <1>1 DEF Ask, At, To, Only, Editable, TypeOK, WorkspaceType, SandboxType, Step
  <2> QED
    BY <2>1, <2>2
<1>2. CASE WriteLands(u)
  <2>1. TypeOK'
    BY <1>2 DEF WriteLands, At, To, Only, Editable, WriteFile, Tree, TypeOK, WorkspaceType,
       SandboxType, Step
  <2>2. Turns' /\ Judged' /\ Tried' /\ Scanned' /\ IdleSessionHasFiles'
    BY <1>2 DEF WriteLands, At, To, Only, Editable, WriteFile, Tree, TypeOK, WorkspaceType,
       SandboxType, Step
  <2> QED
    BY <2>1, <2>2
<1>3. CASE CommitStages(u)
  <2>1. TypeOK'
    BY <1>3 DEF CommitStages, At, To, Only, Editable, StageAll, TypeOK, WorkspaceType,
       SandboxType, Step
  <2>2. Turns' /\ Judged' /\ Tried' /\ Scanned' /\ IdleSessionHasFiles'
    BY <1>3 DEF CommitStages, At, To, Only, Editable, StageAll, TypeOK, WorkspaceType,
       SandboxType, Step
  <2> QED
    BY <2>1, <2>2
<1>4. CASE CommitLooks(u)
  <2>1. TypeOK'
    BY <1>4 DEF CommitLooks, At, To, Only, Editable, TypeOK, WorkspaceType, SandboxType,
       Step
  <2>2. Turns' /\ Judged' /\ Tried' /\ Scanned' /\ IdleSessionHasFiles'
    BY <1>4 DEF CommitLooks, At, To, Only, Editable, TypeOK, WorkspaceType, SandboxType,
       Step
  <2> QED
    BY <2>1, <2>2
<1>5. CASE CommitLands(u)
  <2>1. TypeOK'
    BY <1>5 DEF CommitLands, At, To, Only, Editable, CommitIndex, TypeOK, WorkspaceType,
       SandboxType, Step
  <2>2. Turns' /\ Judged' /\ Tried' /\ Scanned' /\ IdleSessionHasFiles'
    BY <1>5 DEF CommitLands, At, To, Only, Editable, CommitIndex, TypeOK, WorkspaceType,
       SandboxType, Step
  <2> QED
    BY <2>1, <2>2
<1>6. CASE PushLands(u)
  <2>1. TypeOK'
    BY <1>6 DEF PushLands, At, To, Only, Editable, Push, TypeOK, WorkspaceType,
       SandboxType, Step
  <2>2. Turns' /\ Judged' /\ Tried' /\ Scanned' /\ IdleSessionHasFiles'
    BY <1>6 DEF PushLands, At, To, Only, Editable, Push, TypeOK, WorkspaceType,
       SandboxType, Step
  <2> QED
    BY <2>1, <2>2
<1>7. CASE DeleteRemoves(u)
  <2>1. TypeOK'
    BY <1>7 DEF DeleteRemoves, At, To, Only, Editable, Remove, Empty, Tree, Content,
       TypeOK, WorkspaceType, SandboxType, Step
  <2>2. Turns' /\ Judged' /\ Tried' /\ Scanned' /\ IdleSessionHasFiles'
    BY <1>7 DEF DeleteRemoves, At, To, Only, Editable, Remove, Empty, Tree, Content,
       TypeOK, WorkspaceType, SandboxType, Step
  <2> QED
    BY <2>1, <2>2
<1>8. CASE DeleteDrops(u)
  <2>1. TypeOK'
    BY <1>8 DEF DeleteDrops, At, To, Only, Editable, TypeOK, WorkspaceType, SandboxType,
       Step
  <2>2. Turns' /\ Judged' /\ Tried' /\ Scanned' /\ IdleSessionHasFiles'
    BY <1>8 DEF DeleteDrops, At, To, Only, Editable, TypeOK, WorkspaceType, SandboxType,
       Step
  <2> QED
    BY <2>1, <2>2
<1> QED
  BY <1>1, <1>2, <1>3, <1>4, <1>5, <1>6, <1>7, <1>8

\* A call of the terminal.
LEMMA TerminalStep ==
  ASSUME IInv, NEW u \in User,
         Inspect(u) \/ Clear(u) \/ Start(u) \/ Fill(u) \/ FillFails(u) \/ Exec(u)
         \/ Discard(u)
  PROVE  IInv'
<1> USE WorkbenchAssumption
  DEF IInv, Turns, Judged, Tried, Scanned, IdleSessionHasFiles, Gated, Stage, Writing,
      InBox, treeVars, boxVars, runVars, bounds, Goto, KeepVerdicts, Ends, Shown, Leaks,
      Vulnerable, Added
<1>1. CASE Inspect(u)
  <2>1. TypeOK'
    BY <1>1 DEF Inspect, At, To, Only, Editable, TypeOK, WorkspaceType, SandboxType, Step
  <2>2. Turns' /\ Judged' /\ Tried' /\ Scanned' /\ IdleSessionHasFiles'
    BY <1>1 DEF Inspect, At, To, Only, Editable, TypeOK, WorkspaceType, SandboxType, Step
  <2> QED
    BY <2>1, <2>2
<1>2. CASE Clear(u)
  <2>1. session' \in Session /\ ~Bare(session')
    <3>1. session \in Session
      BY DEF TypeOK, SandboxType
    <3>2. RemoveSession
      BY <1>2 DEF Clear
    <3> HIDE DEF IInv
    <3> QED
      BY <3>1, <3>2, Calls
  <2>2. TypeOK'
    BY <1>2, <2>1 DEF Clear, RemoveSession, At, To, Only, TypeOK, WorkspaceType, SandboxType,
       Step
  <2>3. Turns' /\ Judged' /\ Tried' /\ Scanned'
    BY <1>2 DEF Clear, RemoveSession, At, To, Only, TypeOK
  <2>4. IdleSessionHasFiles'
    <3> HIDE DEF IInv, IdleSessionHasFiles
    <3> QED
      BY <2>1, Idle
  <2> QED
    BY <2>2, <2>3, <2>4
<1>3. CASE Start(u)
  <2>1. session \in Session /\ request \in [User -> Step]
    BY DEF TypeOK, SandboxType
  <2>2. session' \in Session
    <3>1. StartSession \/ StartTimesOut \/ session' = session
      BY <1>3 DEF Start
    <3> HIDE DEF IInv
    <3> QED
      BY <2>1, <3>1, Calls
  <2>3. TypeOK'
    BY <1>3, <2>2 DEF Start, StartSession, StartTimesOut, At, To, Only, TypeOK, WorkspaceType,
       SandboxType, Step
  <2>4. Turns' /\ Judged' /\ Tried' /\ Scanned'
    BY <1>3 DEF Start, StartSession, StartTimesOut, At, To, Only, TypeOK
  <2>5. IdleSessionHasFiles'
    <3>1. IdleSessionHasFiles /\ At(u, "start")
      BY <1>3 DEF Start
    <3>2. \/ StartSession /\ To(u, "fill")
          \/ StartTimesOut
          \/ session' = session /\ To(u, "idle")
      BY <1>3 DEF Start
    <3> HIDE DEF IInv, IdleSessionHasFiles
    <3>3. CASE StartSession /\ To(u, "fill")
      <4>1. request'[u] = "fill"
        BY <2>1, <3>3 DEF To
      <4> QED
        BY <4>1, Idle
    <3>4. CASE StartTimesOut
      BY <2>1, <3>4, Calls, Idle
    <3>5. CASE session' = session /\ To(u, "idle")
      <4>1. \A w \in User : request[w] \in {"fill", "discard"} => request'[w] = request[w]
        BY <2>1, <3>1, <3>5 DEF To, At
      <4> QED
        BY <3>1, <3>5, <4>1, Idle
    <3> QED
      BY <3>2, <3>3, <3>4, <3>5
  <2> QED
    BY <2>3, <2>4, <2>5
<1>4. CASE Fill(u)
  <2>1. session' \in Session /\ ~Bare(session')
    <3>1. session \in Session
      BY DEF TypeOK, SandboxType
    <3>2. CopyToSession
      BY <1>4 DEF Fill
    <3> HIDE DEF IInv
    <3> QED
      BY <3>1, <3>2, Calls
  <2>2. TypeOK'
    BY <1>4, <2>1 DEF Fill, CopyToSession, At, To, Only, TypeOK, WorkspaceType, SandboxType,
       Step
  <2>3. Turns' /\ Judged' /\ Tried' /\ Scanned'
    BY <1>4 DEF Fill, CopyToSession, At, To, Only, TypeOK
  <2>4. IdleSessionHasFiles'
    <3> HIDE DEF IInv, IdleSessionHasFiles
    <3> QED
      BY <2>1, Idle
  <2> QED
    BY <2>2, <2>3, <2>4
<1>5. CASE FillFails(u)
  <2>1. TypeOK'
    BY <1>5 DEF FillFails, At, To, Only, Editable, TypeOK, WorkspaceType, SandboxType, Step
  <2>2. Turns' /\ Judged' /\ Tried' /\ Scanned' /\ IdleSessionHasFiles'
    BY <1>5 DEF FillFails, At, To, Only, Editable, TypeOK, WorkspaceType, SandboxType, Step
  <2> QED
    BY <2>1, <2>2
<1>6. CASE Exec(u)
  <2>1. TypeOK'
    BY <1>6 DEF Exec, At, To, Only, Editable, TypeOK, WorkspaceType, SandboxType, Step
  <2>2. Turns' /\ Judged' /\ Tried' /\ Scanned' /\ IdleSessionHasFiles'
    BY <1>6 DEF Exec, At, To, Only, Editable, TypeOK, WorkspaceType, SandboxType, Step
  <2> QED
    BY <2>1, <2>2
<1>7. CASE Discard(u)
  <2>1. session' \in Session /\ ~Bare(session')
    <3>1. session \in Session
      BY DEF TypeOK, SandboxType
    <3>2. RemoveSession
      BY <1>7 DEF Discard
    <3> HIDE DEF IInv
    <3> QED
      BY <3>1, <3>2, Calls
  <2>2. TypeOK'
    BY <1>7, <2>1 DEF Discard, RemoveSession, At, To, Only, TypeOK, WorkspaceType, SandboxType,
       Step
  <2>3. Turns' /\ Judged' /\ Tried' /\ Scanned'
    BY <1>7 DEF Discard, RemoveSession, At, To, Only, TypeOK
  <2>4. IdleSessionHasFiles'
    <3> HIDE DEF IInv, IdleSessionHasFiles
    <3> QED
      BY <2>1, Idle
  <2> QED
    BY <2>2, <2>3, <2>4
<1> QED
  BY <1>1, <1>2, <1>3, <1>4, <1>5, <1>6, <1>7

-----------------------------------------------------------------------------
\* The inductive invariant holds in every reachable state.
THEOREM Invariance == Spec => []IInv
<1>1. Init => IInv
  <2> SUFFICES ASSUME Init PROVE IInv
    OBVIOUS
  <2> USE WorkbenchAssumption DEF Init, Cloned, NoContainers, NoBox, NoSession
  <2>1. qa \in 0 .. QA_MAX_ATTEMPTS /\ edits \in 0 .. MaxEdits
        /\ requests \in 0 .. MaxRequests /\ crashes \in 0 .. MaxCrashes
    OBVIOUS
  <2>2. revised \in BOOLEAN /\ staged \in BOOLEAN
    OBVIOUS
  <2>3. SandboxType
    BY Sessions DEF SandboxType
  <2>4. WorkspaceType
    BY DEF WorkspaceType, Tree, Content
  <2>5. TypeOK
    BY <2>1, <2>2, <2>3, <2>4 DEF TypeOK, Stage, Writing, Step
  <2>6. Turns /\ Judged /\ Tried /\ Scanned /\ IdleSessionHasFiles
    BY DEF Turns, Judged, Tried, Scanned, IdleSessionHasFiles, Gated, InBox, Writing
  <2> QED
    BY <2>5, <2>6 DEF IInv
<1>2. IInv /\ [Next]_vars => IInv'
  <2> SUFFICES ASSUME IInv, [Next]_vars PROVE IInv'
    OBVIOUS
  <2>1. CASE Agents
    BY <2>1, AgentStep, BoxStep, GateStep DEF Agents
  <2>2. CASE Crash \/ Ages
    BY <2>2, GateStep
  <2>3. CASE \E u \in User : People(u)
    BY <2>3, PersonStep, TerminalStep DEF People
  <2>4. CASE UNCHANGED vars
    BY <2>4 DEF vars, treeVars, boxVars, runVars, bounds, IInv, TypeOK, WorkspaceType,
       SandboxType,
       Turns, Judged, Tried, Scanned, IdleSessionHasFiles, Shown, Leaks, Vulnerable, Added
  <2> QED
    BY <2>1, <2>2, <2>3, <2>4 DEF Next
<1> QED
  BY <1>1, <1>2, PTL DEF Spec

\* Type correctness.
THEOREM TypeCorrect == Spec => []TypeOK
BY Invariance, PTL DEF IInv

\* However requests of the terminal overlap and copies fail, a session without the files
\* is about to be filled or discarded, unless it is a container whose start timed out,
\* whose removal failed or that outlived the engine.
THEOREM SessionsAreFilled == Spec => []IdleSessionHasFiles
BY Invariance, PTL DEF IInv

\* Only the publication takes the executor from the push to the record.
LEMMA OnlyPublishRecords ==
  ASSUME IInv, [Next]_vars, pc = "push", pc' = "record"
  PROVE  Publish
<1> USE DEF Goto, Ends, runVars, bounds, treeVars, boxVars
<1>1. CASE Agents
  BY <1>1 DEF Agents, AgentEdits, AgentStages, AgentCommits, TurnEnds, Approve,
     RequestChanges,
     BoxSkips, BoxStarts, BoxIsFilled, BoxInstalls, BoxUnplugged, BoxFails, BoxTests,
     BoxRemoved,
     SecurityGate, DependencyGate, Gate, Complete, Raise, Writing
<1>2. CASE Crash
  BY <1>2 DEF Crash
<1>3. CASE Ages \/ UNCHANGED vars
  BY <1>3 DEF Ages, vars
<1>4. ASSUME NEW u \in User, People(u) PROVE FALSE
  BY <1>4 DEF People, Ask, WriteLands, CommitStages, CommitLooks, CommitLands, PushLands,
     DeleteRemoves, DeleteDrops, Inspect, Clear, Start, Fill, FillFails, Exec, Discard, Only
<1> QED
  BY <1>1, <1>2, <1>3, <1>4 DEF Next

\* What the push publishes went through the review, the sandbox and both scans.
LEMMA PushIsVetted ==
  ASSUME IInv, Publish
  PROVE  /\ outcome # "failed" /\ reviewed # NoTree
         /\ ~Changed => \A f \in {g \in File : host'[g] # base[g]} :
              /\ host'[f] \notin Refused
              /\ qa = 0 => reviewed[f] = host'[f]
              /\ outcome = "passed" => tested # NoTree /\ tested[f] = host'[f]
<1> USE DEF IInv, Publish, Push, Gated
<1>1. outcome # "failed" /\ reviewed # NoTree
  BY EmptyTree DEF Tried, Judged
<1>2. ASSUME ~Changed, NEW f \in File, host'[f] # base[f]
      PROVE  /\ host'[f] \notin Refused
             /\ qa = 0 => reviewed[f] = host'[f]
             /\ outcome = "passed" => tested # NoTree /\ tested[f] = host'[f]
  <2>1. index = work /\ host' = work
    BY <1>2 DEF Changed
  <2>2. Shown[f] = work[f]
    BY <2>1 DEF Shown
  <2>3. work[f] \notin Refused
    BY <1>2, <2>1, <2>2 DEF Scanned, Leaks, Vulnerable, Added, Refused
  <2>4. qa = 0 => reviewed[f] = work[f]
    BY <2>2 DEF Judged
  <2>5. outcome = "passed" => tested # NoTree /\ tested[f] = work[f]
    BY EmptyTree DEF Tried, TypeOK, WorkspaceType
  <2> QED
    BY <2>1, <2>3, <2>4, <2>5
<1> QED
  BY <1>1, <1>2

\* Nothing is published that the review, the sandbox and the scans did not see, for any
\* number of files, edits, requests and restarts.
THEOREM OnlyVettedIsPublished == Spec => PublishedIsVetted
<1>1. IInv /\ [Next]_vars =>
        [pc = "push" /\ pc' = "record" =>
           /\ outcome # "failed" /\ reviewed # NoTree
           /\ (~Changed => \A f \in {g \in File : host'[g] # base[g]} :
                /\ host'[f] \notin Refused
                /\ qa = 0 => reviewed[f] = host'[f]
                /\ outcome = "passed" => tested # NoTree /\ tested[f] = host'[f])]_vars
  BY OnlyPublishRecords, PushIsVetted
<1> QED
  BY <1>1, Invariance, PTL DEF Spec, PublishedIsVetted
=============================================================================
