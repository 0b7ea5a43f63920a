---------------------------- MODULE RunnerProofs ----------------------------
(***************************************************************************)
(* The runtime implements the compiler's specification, so the compiler's  *)
(* theorems hold of the whole; no processor's thread is ever caught in a   *)
(* commit; and what a call has committed is settled when the commit is back*)
(* (TrackInv).                                                             *)
(***************************************************************************)
EXTENDS Runner, GraphCompilerPlanProofs

\* A leaf that names no prover is tried with Zenon, then with the SMT solver.
USE ZenonT(30), SMTT(30)

(***************************************************************************)
(* Refinement.                                                             *)
(***************************************************************************)

\* A host's call begins with a step that edits one gate or changes no state
\* of the graph or the compiler.
LEMMA HostCallSimulates ==
  ASSUME NEW h \in Hosts, HostCalls(h)
  PROVE  Next \/ UNCHANGED vars
<1>1. CASE GateProcessor(h)
  BY <1>1 DEF GateProcessor, Next, Edit
<1>2. CASE BeginStart(h)
  BY <1>2 DEF BeginStart
<1>3. CASE ClaimStop(h)
  BY <1>3 DEF ClaimStop
<1>4. CASE BeginPause(h) \/ BeginResume(h)
  BY <1>4 DEF BeginPause, BeginResume, BeginVisit
<1>. QED  BY <1>1, <1>2, <1>3, <1>4 DEF HostCalls

\* A step inside a call is one edit, a request for the commit gate, or nothing
\* the compiler sees.
LEMMA CallStepSimulates ==
  ASSUME NEW c \in Callers, CallStep(c)
  PROVE  Next \/ UNCHANGED vars
<1>1. CASE EditScope(c)
  BY <1>1 DEF EditScope, Next, Edit
<1>2. CASE ConfigScope(c)
  BY <1>2 DEF ConfigScope, Next, Edit
<1>3. CASE EditRefused(c)
  BY <1>3 DEF EditRefused, Next, Edit
<1>4. CASE PublishChange(c)
  BY <1>4 DEF PublishChange
<1>5. CASE CallCommit(c)
  BY <1>5 DEF CallCommit, Next
<1>6. CASE StartConnects(c) \/ StartFailsEarly(c) \/ StartMarks(c) \/ StartReturns(c)
  BY <1>6 DEF StartConnects, StartFailsEarly, StartMarks, StartReturns
<1>7. CASE StopSnapshots(c) \/ StopClears(c) \/ StopUnserves(c) \/ StopMarks(c)
  BY <1>7 DEF StopSnapshots, StopClears, StopUnserves, StopMarks
<1>8. CASE StopQueues(c)
  BY <1>8 DEF StopQueues, Next, Edit
<1>9. CASE VisitNext(c)
  <2>. PICK p \in Processors : PauseProcessor(p) \/ ResumeProcessor(p) \/ UNCHANGED vars
    BY <1>9 DEF VisitNext
  <2>. QED  BY DEF Next, Edit
<1>10. CASE EndVisit(c)
  BY <1>10 DEF EndVisit
<1>. QED
  BY <1>1, <1>2, <1>3, <1>4, <1>5, <1>6, <1>7, <1>8, <1>9, <1>10 DEF CallStep

\* Every step of the runtime is a step of the compiler or leaves it alone.
LEMMA RunnerSimulates ==
  ASSUME [RunnerNext]_allVars
  PROVE  [Next]_vars
<1>1. CASE \E h \in Hosts : HostCalls(h)
  BY <1>1, HostCallSimulates
<1>2. CASE \E c \in Callers : CallStep(c)
  BY <1>2, CallStepSimulates
<1>3. CASE \E c \in Callers : BeginEdit(c)
  BY <1>3 DEF BeginEdit
<1>4. CASE \E c \in Callers : EnterCommit(c)
  BY <1>4 DEF EnterCommit, Next
<1>5. CASE LockForLink \/ CompileGoesOn \/ CompileReturns
  BY <1>5 DEF LockForLink, CompileGoesOn, CompileReturns, Next
<1>6. CASE OnGraphDidChange
  BY <1>6 DEF OnGraphDidChange
<1>7. CASE \E p \in Processors : ThreadRuns(p) \/ ThreadMisbehaves(p)
  BY <1>7 DEF ThreadRuns, ThreadMisbehaves, Next
<1>8. CASE UNCHANGED allVars
  BY <1>8 DEF allVars
<1>. QED
  BY <1>1, <1>2, <1>3, <1>4, <1>5, <1>6, <1>7, <1>8 DEF RunnerNext

\* The runtime, with hosts, listener and lifecycle, implements GraphCompiler.
THEOREM RunnerImplementsCompiler == RunnerSafety => Safety
<1>1. RunnerInit => Init
  BY DEF RunnerInit
<1>. QED  BY <1>1, RunnerSimulates, PTL DEF RunnerSafety, Safety

\* So no thread outlives its node on the whole runtime, whatever hosts,
\* processors and the listener do concurrently.
THEOREM RunnerLeavesNoOrphan == RunnerSafety => []NoOrphanThread
  BY RunnerImplementsCompiler, NoOrphan, PTL

\* And between commits every live thread can be stopped.
THEOREM RunnerCanStopThreads == RunnerSafety => []EveryLiveThreadCanBeStopped
  BY RunnerImplementsCompiler, LiveThreadsCanBeStopped, PTL

(***************************************************************************)
(* No processor's thread takes part in a commit.                           *)
(***************************************************************************)

LEMMA RInit == RunnerInit => RInv
<1>. SUFFICES ASSUME RunnerInit  PROVE RInv
  OBVIOUS
<1>1. CallsTyped
  BY DEF RunnerInit, Init, CallsTyped
<1>2. ThreadsStayOutOfCommit
  BY RunnerAssumption DEF RunnerInit, ThreadsStayOutOfCommit
<1>3. NoThreadCommits
  BY CallerAssumption, RunnerAssumption DEF RunnerInit, Init, NoThreadCommits
<1>. QED  BY <1>1, <1>2, <1>3 DEF RInv

\* The compiler leaves the callers alone but for a commit's end, and an edit
\* does altogether.
LEMMA CallersOfCompileStep ==
  ASSUME CompileStep
  PROVE  waiting' = waiting /\ (committer' = committer \/ committer' = NoCaller)
<1>1. ASSUME Return  PROVE waiting' = waiting /\ committer' = NoCaller
  BY <1>1 DEF Return
<1>2. CASE Categorize \/ BeginReconcile \/ DropLinkAddsIntoRemovedProcessors \/ AdvancePhase
  BY <1>2 DEF Categorize, BeginReconcile, DropLinkAddsIntoRemovedProcessors, AdvancePhase,
     callerVars
<1>3. CASE ReturnOk
  BY <1>1, <1>3 DEF ReturnOk
<1>4. CASE UnwireLink \/ DropEdge \/ SignalShutdown \/ JoinAndForget
  BY <1>4 DEF UnwireLink, DropEdge, SignalShutdown, removalFrame, JoinAndForget, Forget,
     callerVars
<1>5. CASE PrepareFindsNoNode \/ SpawnFails \/ WireFails \/ ConfigFails
  BY <1>1, <1>5 DEF PrepareFindsNoNode, SpawnFails, WireFails, ConfigFails, Abort
<1>6. CASE PrepareProcessor \/ SpawnThread \/ AwaitReady \/ WireLink \/ SignalContinue
           \/ ApplyConfig
  BY <1>6 DEF PrepareProcessor, SpawnThread, AwaitReady, WireLink, WireHead, SignalContinue,
     ApplyConfig, callerVars
<1>7. CASE AttachHandle
  BY <1>1, <1>7 DEF AttachHandle, Abort, callerVars
<1>. QED  BY <1>2, <1>3, <1>4, <1>5, <1>6, <1>7 DEF CompileStep

LEMMA CallersOfEdit ==
  ASSUME Edit
  PROVE  UNCHANGED callerVars
  BY DEF Edit, AddProcessor, AddUnregisteredProcessor, RemoveProcessor, UpdateProcessorConfig,
     PauseProcessor, ResumeProcessor, SetGate, Connect, Disconnect,
     QueueRemovalOfEveryProcessor, Log

LEMMA CallersOfThread ==
  ASSUME NEW p \in Processors, ThreadStep(p) \/ ThreadFailure(p)
  PROVE  UNCHANGED callerVars
  BY DEF ThreadStep, ThreadFailure, ThreadAttachesInstance, ThreadContinues, RunSetup,
     SetupSucceeds, SetupFails, LoopSeesShutdown, ThreadExits, StartFails,
     LoopReportsFailure, threadFrame

LEMMA RHostCall ==
  ASSUME RInv, NEW h \in Hosts, HostCalls(h)
  PROVE  RInv'
<1>. h \in Callers /\ h \notin Processors /\ Processors \subseteq Callers
  BY RunnerAssumption
<1>1. CASE GateProcessor(h)
  <2>1. Edit
    BY <1>1 DEF GateProcessor, Edit
  <2>. QED
    BY <1>1, <2>1, CallersOfEdit
    DEF GateProcessor, runnerVars, callVars, callerVars, RInv, CallsTyped,
        ThreadsStayOutOfCommit, NoThreadCommits
<1>2. CASE BeginStart(h) \/ ClaimStop(h) \/ BeginPause(h) \/ BeginResume(h)
  <2>1. \E at : pc' = [pc EXCEPT ![h] = at]
    BY <1>2 DEF BeginStart, ClaimStop, BeginPause, BeginResume, BeginVisit, Enter
  <2>2. UNCHANGED <<live, waiting, committer>>
    BY <1>2 DEF BeginStart, ClaimStop, BeginPause, BeginResume, BeginVisit, vars, callerVars
  <2>3. UNCHANGED ctx
    BY <1>2 DEF BeginStart, ClaimStop, BeginPause, BeginResume, BeginVisit
  <2>. QED
    BY <2>1, <2>2, <2>3 DEF RInv, CallsTyped, ThreadsStayOutOfCommit, NoThreadCommits
<1>. QED  BY <1>1, <1>2 DEF HostCalls

\* A step that moves the caller c alone keeps the invariant when c's new place
\* and context are those a processor may have, or c is no processor.
LEMMA RMove ==
  ASSUME RInv, NEW c \in Callers, NEW at, NEW some \in BOOLEAN,
         pc' = [pc EXCEPT ![c] = at], live' = [live EXCEPT ![c] = some],
         ctx' \in BOOLEAN, committer' = committer,
         waiting' = waiting \/ (c \notin Processors /\ waiting' = waiting \cup {c}),
         c \in Processors => at \in {"idle", "scope", "publish"} /\ ~some
  PROVE  RInv'
<1>1. CallsTyped'
  BY DEF RInv, CallsTyped
<1>2. ASSUME NEW p \in Processors
      PROVE  pc'[p] \in {"idle", "scope", "publish"} /\ ~live'[p]
  BY RunnerAssumption DEF RInv, CallsTyped, ThreadsStayOutOfCommit
<1>3. NoThreadCommits'
  BY DEF RInv, NoThreadCommits
<1>. QED  BY <1>1, <1>2, <1>3 DEF RInv, ThreadsStayOutOfCommit

LEMMA RCallStep ==
  ASSUME RInv, NEW c \in Callers, CallStep(c)
  PROVE  RInv'
<1>. USE DEF Goto, Leave
<1>1. live[c] \in BOOLEAN /\ live = [live EXCEPT ![c] = live[c]] /\ ctx \in BOOLEAN
  BY DEF RInv, CallsTyped
<1>2. c \in Processors => pc[c] \in {"idle", "scope", "publish"} /\ ~live[c]
  BY DEF RInv, ThreadsStayOutOfCommit
<1>3. CASE EditScope(c)
  <2>1. UNCHANGED callerVars
    BY <1>3, CallersOfEdit DEF EditScope, Edit
  <2>2. /\ pc' = [pc EXCEPT ![c] = IF live[c] THEN "commit" ELSE "publish"]
        /\ live' = live /\ ctx' = ctx
    BY <1>3 DEF EditScope
  <2>3. CASE live[c]
    BY <2>1, <2>2, <2>3, <1>1, <1>2, RMove DEF callerVars
  <2>4. CASE ~live[c]
    BY <2>1, <2>2, <2>4, <1>1, <1>2, RMove DEF callerVars
  <2>. QED  BY <2>3, <2>4
<1>4. CASE ConfigScope(c)
  <2>1. UNCHANGED callerVars
    BY <1>4, CallersOfEdit DEF ConfigScope, Edit
  <2>2. /\ pc' = [pc EXCEPT ![c] = "publish"]
        /\ live' = [live EXCEPT ![c] = FALSE] /\ ctx' = ctx
    BY <1>4 DEF ConfigScope
  <2>. QED  BY <2>1, <2>2, <1>1, RMove DEF callerVars
<1>5. CASE EditRefused(c)
  <2>1. UNCHANGED callerVars
    BY <1>5, CallersOfEdit DEF EditRefused, Edit, vars
  <2>2. /\ pc' = [pc EXCEPT ![c] = "idle"]
        /\ live' = [live EXCEPT ![c] = FALSE] /\ ctx' = ctx
    BY <1>5 DEF EditRefused
  <2>. QED  BY <2>1, <2>2, <1>1, RMove DEF callerVars
<1>6. CASE PublishChange(c) \/ StartFailsEarly(c) \/ StartReturns(c) \/ StopMarks(c)
           \/ EndVisit(c)
  <2>1. /\ pc' = [pc EXCEPT ![c] = "idle"]
        /\ live' = [live EXCEPT ![c] = FALSE]
        /\ UNCHANGED <<ctx, callerVars>>
    BY <1>6 DEF PublishChange, StartFailsEarly, StartReturns, StopMarks, EndVisit, vars
  <2>. QED  BY <2>1, <1>1, RMove DEF callerVars
<1>7. CASE CallCommit(c)
  <2>1. /\ pc[c] = "commit" /\ pc' = [pc EXCEPT ![c] = "compiling"]
        /\ waiting' = waiting \cup {c}
        /\ UNCHANGED <<live, ctx, committer>>
    BY <1>7 DEF CallCommit, RequestCommit
  <2>. QED  BY <2>1, <1>1, <1>2, RMove
<1>8. CASE StartConnects(c) \/ StartMarks(c) \/ StopClears(c) \/ StopUnserves(c)
  <2>1. PICK at : pc' = [pc EXCEPT ![c] = at]
    BY <1>8 DEF StartConnects, StartMarks, StopClears, StopUnserves
  <2>2. /\ pc[c] \in {"connect", "platform", "clear", "unserve"}
        /\ ctx' \in BOOLEAN /\ UNCHANGED <<live, callerVars>>
    BY <1>8, <1>1 DEF StartConnects, StartMarks, StopClears, StopUnserves, vars
  <2>. QED  BY <2>1, <2>2, <1>1, <1>2, RMove DEF callerVars
<1>9. CASE StopSnapshots(c)
  <2>1. /\ pc[c] = "snapshot" /\ pc' = [pc EXCEPT ![c] = "queue"]
        /\ live' = [live EXCEPT ![c] = ctx] /\ UNCHANGED <<ctx, callerVars>>
    BY <1>9 DEF StopSnapshots, vars
  <2>. QED  BY <2>1, <1>1, <1>2, RMove DEF callerVars
<1>10. CASE StopQueues(c)
  <2>1. UNCHANGED callerVars
    BY <1>10, CallersOfEdit DEF StopQueues, Edit
  <2>2. PICK at : pc' = [pc EXCEPT ![c] = at]
    BY <1>10 DEF StopQueues
  <2>3. pc[c] = "queue" /\ UNCHANGED <<live, ctx>>
    BY <1>10 DEF StopQueues
  <2>. QED  BY <2>1, <2>2, <2>3, <1>1, <1>2, RMove DEF callerVars
<1>11. CASE VisitNext(c)
  <2>1. UNCHANGED callerVars
    BY <1>11, CallersOfEdit DEF VisitNext, Edit, vars
  <2>. QED
    BY <1>11, <2>1 DEF VisitNext, callerVars, RInv, CallsTyped, ThreadsStayOutOfCommit,
       NoThreadCommits
<1>. QED
  BY <1>3, <1>4, <1>5, <1>6, <1>7, <1>8, <1>9, <1>10, <1>11 DEF CallStep

LEMMA RResolve ==
  ASSUME RInv, NEW c \in Callers, c \notin Processors, NEW ok \in BOOLEAN, Resolve(c, ok),
         waiting' \subseteq waiting, committer' \in {committer, NoCaller}
  PROVE  RInv'
<1>1. PICK at : pc' = [pc EXCEPT ![c] = at]
  BY DEF Resolve, Goto, Leave
<1>2. /\ live' = live \/ live' = [live EXCEPT ![c] = FALSE]
      /\ ctx' = ctx
  BY DEF Resolve, Goto, Leave
<1>3. \A p \in Processors : pc'[p] = pc[p] /\ live'[p] = live[p]
  BY <1>1, <1>2, RunnerAssumption DEF RInv, CallsTyped
<1>4. CallsTyped'
  BY <1>1, <1>2 DEF RInv, CallsTyped
<1>5. NoThreadCommits'
  BY CallerAssumption, RunnerAssumption DEF RInv, NoThreadCommits
<1>. QED  BY <1>3, <1>4, <1>5 DEF RInv, ThreadsStayOutOfCommit

LEMMA RStep ==
  ASSUME RInv, [RunnerNext]_allVars
  PROVE  RInv'
<1>1. CASE \E h \in Hosts : HostCalls(h)
  BY <1>1, RHostCall
<1>2. CASE \E c \in Callers : CallStep(c)
  BY <1>2, RCallStep
<1>3. ASSUME NEW c \in Callers, BeginEdit(c)
      PROVE  RInv'
  <2>1. /\ pc' = [pc EXCEPT ![c] = "scope"]
        /\ live' = [live EXCEPT ![c] = live_commit_context(c)]
        /\ UNCHANGED <<ctx, callerVars>>
    BY <1>3 DEF BeginEdit, Enter, vars
  <2>2. live_commit_context(c) \in BOOLEAN /\ (c \in Processors => ~live_commit_context(c))
    BY DEF live_commit_context
  <2>3. ctx \in BOOLEAN
    BY DEF RInv, CallsTyped
  <2>. QED  BY <2>1, <2>2, <2>3, RMove DEF callerVars
<1>4. ASSUME NEW c \in Callers, EnterCommit(c)
      PROVE  RInv'
  <2>1. /\ c \in waiting /\ waiting' = waiting \ {c}
        /\ committer' = committer \/ committer' = c
    BY <1>4 DEF EnterCommit, TakeBatch
  <2>2. c \notin Processors
    BY <2>1 DEF RInv, NoThreadCommits
  <2>3. CASE txn = <<>>
    <3>1. Resolve(c, TRUE) /\ committer' = committer
      BY <1>4, <2>3 DEF EnterCommit, TakeBatch
    <3>. QED  BY <2>1, <2>2, <3>1, RResolve
  <2>4. CASE txn # <<>>
    <3>1. UNCHANGED <<pc, live, ctx>>
      BY <1>4, <2>4 DEF EnterCommit, runnerVars, callVars
    <3>. QED
      BY <2>1, <2>2, <3>1 DEF RInv, CallsTyped, ThreadsStayOutOfCommit, NoThreadCommits
  <2>. QED  BY <2>3, <2>4
<1>5. CASE CompileGoesOn
  BY <1>5, CallersOfCompileStep
  DEF CompileGoesOn, runnerVars, callVars, RInv, CallsTyped, ThreadsStayOutOfCommit,
      NoThreadCommits
<1>6. CASE CompileReturns
  <2>1. /\ waiting' = waiting /\ committer' = NoCaller /\ committer # NoCaller
        /\ Resolve(committer, work = <<>>)
    BY <1>6, CallersOfCompileStep DEF CompileReturns
  <2>2. committer \in Callers /\ committer \notin Processors
    BY <2>1 DEF RInv, CallsTyped, NoThreadCommits
  <2>. QED  BY <2>1, <2>2, RResolve
<1>7. CASE OnGraphDidChange
  <2>1. UNCHANGED <<live, ctx, callerVars>>
    BY <1>7 DEF OnGraphDidChange, callVars, vars
  <2>2. pc' = pc \/ \E t \in Tasks : pc' = [pc EXCEPT ![t] = "commit"]
    BY <1>7 DEF OnGraphDidChange, callVars, Enter
  <2>3. \A t \in Tasks : t \in Callers /\ t \notin Processors
    BY RunnerAssumption
  <2>4. CASE pc' = pc
    BY <2>1, <2>4 DEF callerVars, RInv, CallsTyped, ThreadsStayOutOfCommit, NoThreadCommits
  <2>5. ASSUME NEW t \in Tasks, pc' = [pc EXCEPT ![t] = "commit"]
        PROVE  RInv'
    <3>1. live[t] \in BOOLEAN /\ live' = [live EXCEPT ![t] = live[t]] /\ ctx' \in BOOLEAN
      BY <2>1, <2>3 DEF RInv, CallsTyped
    <3>. QED  BY <2>1, <2>3, <2>5, <3>1, RMove DEF callerVars
  <2>. QED  BY <2>2, <2>4, <2>5
<1>8. CASE \E p \in Processors : ThreadRuns(p) \/ ThreadMisbehaves(p)
  <2>1. UNCHANGED callerVars
    BY <1>8, CallersOfThread DEF ThreadRuns, ThreadMisbehaves
  <2>. QED
    BY <1>8, <2>1
    DEF ThreadRuns, ThreadMisbehaves, runnerVars, callVars, callerVars, RInv, CallsTyped,
        ThreadsStayOutOfCommit, NoThreadCommits
<1>9. CASE LockForLink \/ UNCHANGED allVars
  BY <1>9 DEF LockForLink, allVars, vars, runnerVars, callVars, callerVars, RInv, CallsTyped,
     ThreadsStayOutOfCommit, NoThreadCommits
<1>. QED
  BY <1>1, <1>2, <1>3, <1>4, <1>5, <1>6, <1>7, <1>8, <1>9 DEF RunnerNext

\* A processor's thread never waits for, nor runs, a commit: the reason why a
\* processor may remove itself without the join waiting for the waiter.
THEOREM ThreadsNeverCommit == RunnerSafety => []NoThreadCommits
<1>1. RInv => NoThreadCommits
  BY DEF RInv
<1>. QED  BY <1>1, RInit, RStep, PTL DEF RunnerSafety

-----------------------------------------------------------------------------
(***************************************************************************)
(* Every operation a call commits is settled when its commit has returned. *)
(***************************************************************************)

CompilerInv == IInv /\ PlanInv /\ DoneInv

\* The part of the types that is not about one caller's place.
RestTyped ==
    /\ status \in RuntimeStatus /\ ctx \in BOOLEAN /\ service \in BOOLEAN
    /\ todo \in [Callers -> SUBSET Processors] /\ undelivered \in Nat /\ locked \in BOOLEAN

LEMMA TrackedKept ==
  ASSUME CompilerInv, [Next]_vars, NEW c \in Callers, Tracked(c), mine'[c] = mine[c],
         Commits(c)' => Commits(c), committer' = c => committer = c,
         committer = c => Commits(c), Committed(c)' => Committed(c)
  PROVE  Tracked(c)'
<1>1. \A o \in Adds : Known(o) => /\ Known(o)'
                                  /\ o \notin Range(txn) => o \notin Range(txn')
                                  /\ Nowhere(o) => Nowhere(o)'
  BY AddsKeep DEF CompilerInv
<1>2. \A o \in Removals : /\ Gone(o) => Gone(o)'
                          /\ InHand(o) => InHand(o)'
                          /\ o \in Range(txn) => o \in Range(txn') \/ InHand(o)'
  BY RemovalsKeep DEF CompilerInv
<1>3. ASSUME Commits(c)'
      PROVE  /\ \A o \in mine'[c] \cap Adds : Known(o)'
             /\ \A o \in mine'[c] \cap Removals : o \in Range(txn') \/ InHand(o)'
  BY <1>1, <1>2, <1>3 DEF Tracked
<1>4. ASSUME committer' = c
      PROVE  /\ \A o \in mine'[c] \cap Adds : o \notin Range(txn')
             /\ \A o \in mine'[c] \cap Removals : InHand(o)'
  BY <1>1, <1>2, <1>4 DEF Tracked
<1>5. ASSUME Committed(c)'
      PROVE  /\ \A o \in mine'[c] \cap Adds : Known(o)' /\ Nowhere(o)'
             /\ \A o \in mine'[c] \cap Removals : Gone(o)'
  BY <1>1, <1>2, <1>5 DEF Tracked
<1>. QED  BY <1>3, <1>4, <1>5 DEF Tracked

\* A caller that neither commits nor has just committed has nothing to track.
LEMMA TrackedQuiet ==
  ASSUME NEW c \in Callers, committer' # c, ~Commits(c)', ~Committed(c)'
  PROVE  Tracked(c)'
  BY DEF Tracked

\* What a call is about to commit is in the log.
LEMMA TrackedEnter ==
  ASSUME CompilerInv', NEW c \in Callers, committer' # c, pc'[c] = "commit",
         mine'[c] \subseteq Range(txn')
  PROVE  Tracked(c)'
<1>1. ASSUME NEW o \in Adds, o \in Range(txn')  PROVE Known(o)'
  <2>1. o.op \in {"AddProcessor", "AddLink"}
    BY DEF Adds
  <2>. QED
    BY <1>1, <2>1, OperationIds
    DEF Known, CompilerInv, PlanInv, AddsAreNew, DoneInv, LinkAddsAreKnown
<1>2. ~Committed(c)'
  BY DEF Committed
<1>. QED  BY <1>1, <1>2 DEF Tracked

\* A step that moves no caller.
LEMMA TrackStay ==
  ASSUME TrackInv, CompilerInv, CompilerInv', [Next]_vars, RestTyped',
         UNCHANGED <<pc, call, live, mine, committer>>
  PROVE  TrackInv'
<1>1. RunnerTypeOK'
  BY DEF TrackInv, RunnerTypeOK, RestTyped, CompilerInv, IInv
<1>2. ASSUME NEW c \in Callers  PROVE Fits(pc[c], call[c], mine[c])' /\ Tracked(c)'
  <2>1. committer = c => Commits(c)
    BY DEF TrackInv, Commits
  <2>2. Commits(c)' = Commits(c) /\ Committed(c)' = Committed(c)
    BY DEF Commits, Committed
  <2>3. Tracked(c)'
    BY <2>1, <2>2, TrackedKept DEF TrackInv
  <2>. QED  BY <2>3 DEF TrackInv, Fits
<1>. QED  BY <1>1, <1>2 DEF TrackInv

\* A step that moves the caller c alone.
LEMMA TrackMove ==
  ASSUME TrackInv, CompilerInv, CompilerInv', [Next]_vars, RestTyped',
         NEW c \in Callers, NEW at \in Pc, NEW name \in Call, NEW some \in BOOLEAN,
         NEW ops \in SUBSET PendingOperation,
         pc' = [pc EXCEPT ![c] = at], call' = [call EXCEPT ![c] = name],
         live' = [live EXCEPT ![c] = some], mine' = [mine EXCEPT ![c] = ops],
         committer' = committer \/ (committer' = NoCaller /\ committer = c),
         committer' # c, Fits(at, name, ops), Tracked(c)'
  PROVE  TrackInv'
<1>1. /\ pc \in [Callers -> Pc] /\ call \in [Callers -> Call]
      /\ live \in [Callers -> BOOLEAN] /\ mine \in [Callers -> SUBSET PendingOperation]
  BY DEF TrackInv, RunnerTypeOK
<1>2. RunnerTypeOK'
  BY <1>1 DEF RunnerTypeOK, RestTyped, CompilerInv, IInv
<1>3. /\ pc'[c] = at /\ call'[c] = name /\ mine'[c] = ops
      /\ \A d \in Callers : d # c => /\ pc'[d] = pc[d] /\ call'[d] = call[d]
                                     /\ live'[d] = live[d] /\ mine'[d] = mine[d]
  BY <1>1
<1>4. ASSUME NEW d \in Callers, d # c  PROVE Fits(pc[d], call[d], mine[d])' /\ Tracked(d)'
  <2>1. committer = d => Commits(d)
    BY DEF TrackInv, Commits
  <2>2. Commits(d)' = Commits(d) /\ Committed(d)' = Committed(d)
    BY <1>3, <1>4 DEF Commits, Committed
  <2>3. committer' = d => committer = d
    BY CallerAssumption
  <2>4. Tracked(d)'
    BY <1>3, <1>4, <2>1, <2>2, <2>3, TrackedKept DEF TrackInv
  <2>. QED  BY <1>3, <1>4, <2>4 DEF TrackInv, Fits
<1>5. Fits(pc[c], call[c], mine[c])'
  BY <1>3 DEF Fits
<1>6. committer' \in Callers => pc'[committer'] = "compiling"
  BY <1>3, CallerAssumption DEF TrackInv
<1>. QED  BY <1>2, <1>4, <1>5, <1>6 DEF TrackInv

\* The operations a step logs are in the log after it.
LEMMA LoggedIsInLog ==
  ASSUME TypeOK, TypeOK'
  PROVE  Logged \subseteq Range(txn') /\ Range(txn') \subseteq PendingOperation
<1>1. /\ Len(txn) \in Nat /\ Len(txn') \in Nat /\ DOMAIN txn' = 1..Len(txn')
      /\ txn' \in Seq(PendingOperation)
  BY ListLength DEF TypeOK
<1>2. \A i \in (Len(txn) + 1)..Len(txn') : txn'[i] \in Range(txn')
  BY SMTT(30), <1>1 DEF Range
<1>3. SubSeq(txn', Len(txn) + 1, Len(txn')) \in Seq(Range(txn'))
  BY SMTT(30), <1>1, <1>2
<1>. QED  BY <1>1, <1>3, ElementsOf DEF Logged

\* What the invariant says of one caller.
LEMMA CallerFacts ==
  ASSUME TrackInv, NEW c \in Callers
  PROVE  /\ pc[c] \in Pc /\ call[c] \in Call /\ live[c] \in BOOLEAN
         /\ mine[c] \in SUBSET PendingOperation
         /\ pc = [pc EXCEPT ![c] = pc[c]] /\ call = [call EXCEPT ![c] = call[c]]
         /\ live = [live EXCEPT ![c] = live[c]] /\ mine = [mine EXCEPT ![c] = mine[c]]
         /\ Fits(pc[c], call[c], mine[c]) /\ Tracked(c)
         /\ committer = c => pc[c] = "compiling"
         /\ RestTyped
  BY DEF TrackInv, RunnerTypeOK, RestTyped

\* A move of c that is not into, through or out of a commit.
LEMMA TrackQuietMove ==
  ASSUME TrackInv, CompilerInv, CompilerInv', [Next]_vars, RestTyped',
         NEW c \in Callers, NEW at \in Pc, NEW name \in Call, NEW some \in BOOLEAN,
         NEW ops \in SUBSET PendingOperation,
         pc' = [pc EXCEPT ![c] = at], call' = [call EXCEPT ![c] = name],
         live' = [live EXCEPT ![c] = some], mine' = [mine EXCEPT ![c] = ops],
         committer' = committer, pc[c] # "compiling", Fits(at, name, ops),
         at \notin {"commit", "compiling"},
         at \in {"publish", "announce", "clear"} => ~some /\ name # "start"
  PROVE  TrackInv'
<1>1. committer' # c
  BY CallerFacts
<1>2. pc'[c] = at /\ call'[c] = name /\ live'[c] = some
  BY DEF TrackInv, RunnerTypeOK
<1>3. Tracked(c)'
  BY <1>1, <1>2, TrackedQuiet DEF Commits, Committed
<1>. QED  BY <1>1, <1>3, TrackMove

\* A call of c ends.
LEMMA TrackLeave ==
  ASSUME TrackInv, CompilerInv, CompilerInv', [Next]_vars, RestTyped', NEW c \in Callers,
         Leave(c), committer' # c,
         committer' = committer \/ (committer' = NoCaller /\ committer = c)
  PROVE  TrackInv'
<1>1. ASSUME NEW at, NEW name, NEW some, NEW ops,
             at = "idle", name = "none", some = FALSE, ops = {}
      PROVE  TrackInv'
  <2>1. /\ at \in Pc /\ name \in Call /\ some \in BOOLEAN /\ ops \in SUBSET PendingOperation
        /\ Fits(at, name, ops)
    BY <1>1 DEF Fits, Pc, Call
  <2>2. /\ pc' = [pc EXCEPT ![c] = at] /\ call' = [call EXCEPT ![c] = name]
        /\ live' = [live EXCEPT ![c] = some] /\ mine' = [mine EXCEPT ![c] = ops]
    BY <1>1 DEF Leave
  <2>3. pc'[c] = "idle"
    BY DEF Leave, TrackInv, RunnerTypeOK
  <2>4. Tracked(c)'
    BY <2>3, TrackedQuiet DEF Commits, Committed
  <2>. QED  BY <2>1, <2>2, <2>4, TrackMove
<1>. QED  BY <1>1

\* A move of c to the threshold of a commit.
LEMMA TrackEnterMove ==
  ASSUME TrackInv, CompilerInv, CompilerInv', [Next]_vars, RestTyped',
         NEW c \in Callers, NEW name \in {"edit", "start", "stop", "listen"},
         NEW some \in BOOLEAN, NEW ops \in SUBSET Range(txn'),
         pc' = [pc EXCEPT ![c] = "commit"], call' = [call EXCEPT ![c] = name],
         live' = [live EXCEPT ![c] = some], mine' = [mine EXCEPT ![c] = ops],
         committer' = committer, pc[c] # "compiling"
  PROVE  TrackInv'
<1>1. committer' # c
  BY CallerFacts
<1>2. pc'[c] = "commit" /\ mine'[c] = ops
  BY DEF TrackInv, RunnerTypeOK
<1>3. Tracked(c)'
  BY <1>1, <1>2, TrackedEnter
<1>4. ops \in SUBSET PendingOperation
  BY ElementsOf DEF CompilerInv, IInv, TypeOK
<1>5. Fits("commit", name, ops) /\ "commit" \in Pc /\ name \in Call
  BY DEF Fits, Pc, Call
<1>. QED  BY <1>1, <1>3, <1>4, <1>5, TrackMove

LEMMA TrackEdits ==
  ASSUME TrackInv, CompilerInv, CompilerInv', [Next]_vars, NEW c \in Callers,
         BeginEdit(c) \/ EditScope(c) \/ ConfigScope(c) \/ EditRefused(c) \/ PublishChange(c)
  PROVE  TrackInv'
<1>. USE DEF Goto, Leave, Enter
<1>1. /\ call[c] \in Call /\ live[c] \in BOOLEAN /\ mine[c] \in SUBSET PendingOperation
      /\ call = [call EXCEPT ![c] = call[c]]
      /\ live = [live EXCEPT ![c] = live[c]] /\ mine = [mine EXCEPT ![c] = mine[c]]
      /\ RestTyped
  BY CallerFacts
<1>2. pc[c] = "scope" => call[c] = "edit"
  BY CallerFacts DEF Fits
<1>. USE DEF RestTyped
<1>3. CASE BeginEdit(c)
  <2>1. /\ pc' = [pc EXCEPT ![c] = "scope"] /\ call' = [call EXCEPT ![c] = "edit"]
        /\ live' = [live EXCEPT ![c] = live_commit_context(c)]
        /\ mine' = [mine EXCEPT ![c] = mine[c]]
        /\ pc[c] = "idle" /\ committer' = committer /\ RestTyped'
    BY <1>1, <1>3 DEF BeginEdit, vars, callerVars
  <2>2. /\ live_commit_context(c) \in BOOLEAN /\ Fits("scope", "edit", mine[c])
        /\ "scope" \in Pc /\ "edit" \in Call
    BY DEF live_commit_context, Fits, Pc, Call
  <2>. QED  BY <1>1, <2>1, <2>2, TrackQuietMove
<1>4. CASE EditScope(c)
  <2>1. UNCHANGED callerVars
    BY <1>4, CallersOfEdit DEF EditScope, Edit
  <2>2. /\ pc' = [pc EXCEPT ![c] = IF live[c] THEN "commit" ELSE "publish"]
        /\ call' = [call EXCEPT ![c] = "edit"] /\ live' = [live EXCEPT ![c] = live[c]]
        /\ mine' = [mine EXCEPT ![c] = Logged]
        /\ pc[c] = "scope" /\ committer' = committer /\ RestTyped'
    BY <1>1, <1>2, <1>4, <2>1 DEF EditScope, callerVars
  <2>3. Logged \in SUBSET Range(txn') /\ Logged \in SUBSET PendingOperation
    BY LoggedIsInLog DEF CompilerInv, IInv
  <2>4. CASE live[c]
    BY <1>1, <2>2, <2>3, <2>4, TrackEnterMove
  <2>5. CASE ~live[c]
    <3>1. Fits("publish", "edit", Logged) /\ "publish" \in Pc /\ "edit" \in Call
      BY DEF Fits, Pc, Call
    <3>. QED  BY <1>1, <2>2, <2>3, <2>5, <3>1, TrackQuietMove
  <2>. QED  BY <2>4, <2>5
<1>5. CASE ConfigScope(c)
  <2>1. UNCHANGED callerVars
    BY <1>5, CallersOfEdit DEF ConfigScope, Edit
  <2>2. /\ pc' = [pc EXCEPT ![c] = "publish"]
        /\ call' = [call EXCEPT ![c] = "edit"] /\ live' = [live EXCEPT ![c] = FALSE]
        /\ mine' = [mine EXCEPT ![c] = mine[c]]
        /\ pc[c] = "scope" /\ committer' = committer /\ RestTyped'
    BY <1>1, <1>2, <1>5, <2>1 DEF ConfigScope, callerVars
  <2>3. Fits("publish", "edit", mine[c]) /\ "publish" \in Pc /\ "edit" \in Call
    BY DEF Fits, Pc, Call
  <2>. QED  BY <1>1, <2>2, <2>3, TrackQuietMove
<1>6. CASE EditRefused(c) \/ PublishChange(c)
  <2>1. UNCHANGED callerVars
    BY <1>6, CallersOfEdit DEF EditRefused, PublishChange, Edit, vars
  <2>2. Leave(c) /\ pc[c] # "compiling" /\ committer' = committer /\ RestTyped'
    BY SMTT(30), <1>1, <1>6, <2>1 DEF EditRefused, PublishChange, callerVars
  <2>3. committer' # c
    BY <2>2, CallerFacts
  <2>. QED  BY <2>2, <2>3, TrackLeave
<1>. QED  BY <1>3, <1>4, <1>5, <1>6

LEMMA TrackStart ==
  ASSUME TrackInv, CompilerInv, CompilerInv', [Next]_vars, NEW c \in Callers,
         BeginStart(c) \/ StartConnects(c) \/ StartFailsEarly(c) \/ StartMarks(c) \/ StartReturns(c)
  PROVE  TrackInv'
<1>. USE DEF Goto, Leave, Enter
<1>1. /\ call[c] \in Call /\ live[c] \in BOOLEAN /\ mine[c] \in SUBSET PendingOperation
      /\ call = [call EXCEPT ![c] = call[c]]
      /\ live = [live EXCEPT ![c] = live[c]] /\ mine = [mine EXCEPT ![c] = mine[c]]
      /\ RestTyped
  BY CallerFacts
<1>2. pc[c] \in {"connect", "platform"} => call[c] = "start"
  BY CallerFacts DEF Fits
<1>3. committer' = committer
  BY DEF BeginStart, StartConnects, StartFailsEarly, StartMarks, StartReturns, vars, callerVars
<1>. USE DEF RestTyped
<1>4. CASE BeginStart(c)
  <2>1. /\ pc' = [pc EXCEPT ![c] = "connect"] /\ call' = [call EXCEPT ![c] = "start"]
        /\ live' = [live EXCEPT ![c] = live[c]] /\ mine' = [mine EXCEPT ![c] = mine[c]]
        /\ pc[c] = "idle" /\ RestTyped'
    BY <1>1, <1>4 DEF BeginStart, RuntimeStatus
  <2>2. Fits("connect", "start", mine[c]) /\ "connect" \in Pc /\ "start" \in Call
    BY DEF Fits, Pc, Call
  <2>. QED  BY <1>1, <1>3, <2>1, <2>2, TrackQuietMove
<1>5. CASE StartConnects(c)
  <2>1. /\ pc' = [pc EXCEPT ![c] = "platform"] /\ call' = [call EXCEPT ![c] = "start"]
        /\ live' = [live EXCEPT ![c] = live[c]] /\ mine' = [mine EXCEPT ![c] = mine[c]]
        /\ pc[c] = "connect" /\ RestTyped'
    BY <1>1, <1>2, <1>5 DEF StartConnects
  <2>2. Fits("platform", "start", mine[c]) /\ "platform" \in Pc /\ "start" \in Call
    BY DEF Fits, Pc, Call
  <2>. QED  BY <1>1, <1>3, <2>1, <2>2, TrackQuietMove
<1>6. CASE StartFailsEarly(c) \/ StartReturns(c)
  <2>1. Leave(c) /\ pc[c] # "compiling" /\ RestTyped'
    BY <1>1, <1>6 DEF StartFailsEarly, StartReturns
  <2>2. committer' # c
    BY <1>3, <2>1, CallerFacts
  <2>. QED  BY <1>3, <2>1, <2>2, TrackLeave
<1>7. CASE StartMarks(c)
  <2>1. /\ pc' = [pc EXCEPT ![c] = "commit"] /\ call' = [call EXCEPT ![c] = "start"]
        /\ live' = [live EXCEPT ![c] = live[c]] /\ mine' = [mine EXCEPT ![c] = Range(txn)]
        /\ pc[c] = "platform" /\ Range(txn) \in SUBSET Range(txn') /\ RestTyped'
    BY <1>1, <1>2, <1>7 DEF StartMarks, RuntimeStatus, vars
  <2>. QED  BY <1>1, <1>3, <2>1, TrackEnterMove
<1>. QED  BY <1>4, <1>5, <1>6, <1>7

LEMMA TrackStop ==
  ASSUME TrackInv, CompilerInv, CompilerInv', [Next]_vars, NEW c \in Callers,
         ClaimStop(c) \/ StopSnapshots(c) \/ StopQueues(c) \/ StopClears(c) \/ StopUnserves(c)
         \/ StopMarks(c)
  PROVE  TrackInv'
<1>. USE DEF Goto, Leave, Enter
<1>1. /\ call[c] \in Call /\ live[c] \in BOOLEAN /\ mine[c] \in SUBSET PendingOperation
      /\ call = [call EXCEPT ![c] = call[c]]
      /\ live = [live EXCEPT ![c] = live[c]] /\ mine = [mine EXCEPT ![c] = mine[c]]
      /\ RestTyped
  BY CallerFacts
<1>2. pc[c] \in {"snapshot", "queue", "clear", "unserve"} => call[c] = "stop"
  BY CallerFacts DEF Fits
<1>3. committer' = committer
  <2>1. CASE StopQueues(c)
    BY <2>1, CallersOfEdit DEF StopQueues, Edit, callerVars
  <2>. QED
    BY <2>1 DEF ClaimStop, StopSnapshots, StopClears, StopUnserves, StopMarks, vars, callerVars
<1>. USE DEF RestTyped
<1>4. CASE ClaimStop(c)
  <2>1. /\ pc' = [pc EXCEPT ![c] = "snapshot"] /\ call' = [call EXCEPT ![c] = "stop"]
        /\ live' = [live EXCEPT ![c] = live[c]] /\ mine' = [mine EXCEPT ![c] = mine[c]]
        /\ pc[c] = "idle" /\ RestTyped'
    BY <1>1, <1>4 DEF ClaimStop, RuntimeStatus
  <2>2. Fits("snapshot", "stop", mine[c]) /\ "snapshot" \in Pc /\ "stop" \in Call
    BY DEF Fits, Pc, Call
  <2>. QED  BY <1>1, <1>3, <2>1, <2>2, TrackQuietMove
<1>5. CASE StopSnapshots(c)
  <2>1. /\ pc' = [pc EXCEPT ![c] = "queue"] /\ call' = [call EXCEPT ![c] = "stop"]
        /\ live' = [live EXCEPT ![c] = ctx] /\ mine' = [mine EXCEPT ![c] = mine[c]]
        /\ pc[c] = "snapshot" /\ RestTyped' /\ ctx \in BOOLEAN
    BY <1>1, <1>2, <1>5 DEF StopSnapshots
  <2>2. Fits("queue", "stop", mine[c]) /\ "queue" \in Pc /\ "stop" \in Call
    BY DEF Fits, Pc, Call
  <2>. QED  BY <1>1, <1>3, <2>1, <2>2, TrackQuietMove
<1>6. CASE StopQueues(c)
  <2>1. /\ pc' = [pc EXCEPT ![c] = IF live[c] THEN "commit" ELSE "clear"]
        /\ call' = [call EXCEPT ![c] = "stop"] /\ live' = [live EXCEPT ![c] = live[c]]
        /\ mine' = [mine EXCEPT ![c] = Logged]
        /\ pc[c] = "queue" /\ RestTyped'
    BY <1>1, <1>2, <1>6 DEF StopQueues
  <2>2. Logged \in SUBSET Range(txn') /\ Logged \in SUBSET PendingOperation
    BY LoggedIsInLog DEF CompilerInv, IInv
  <2>3. CASE live[c]
    BY <1>1, <1>3, <2>1, <2>2, <2>3, TrackEnterMove
  <2>4. CASE ~live[c]
    <3>1. Fits("clear", "stop", Logged) /\ "clear" \in Pc /\ "stop" \in Call
      BY DEF Fits, Pc, Call
    <3>. QED  BY <1>1, <1>3, <2>1, <2>2, <2>4, <3>1, TrackQuietMove
  <2>. QED  BY <2>3, <2>4
<1>7. CASE StopClears(c)
  <2>1. /\ pc' = [pc EXCEPT ![c] = "unserve"] /\ call' = [call EXCEPT ![c] = "stop"]
        /\ live' = [live EXCEPT ![c] = live[c]] /\ mine' = [mine EXCEPT ![c] = mine[c]]
        /\ pc[c] = "clear" /\ RestTyped'
    BY <1>1, <1>2, <1>7 DEF StopClears
  <2>2. Fits("unserve", "stop", mine[c]) /\ "unserve" \in Pc /\ "stop" \in Call
    BY DEF Fits, Pc, Call
  <2>. QED  BY <1>1, <1>3, <2>1, <2>2, TrackQuietMove
<1>8. CASE StopUnserves(c)
  <2>1. /\ pc' = [pc EXCEPT ![c] = "stopped"] /\ call' = [call EXCEPT ![c] = "stop"]
        /\ live' = [live EXCEPT ![c] = live[c]] /\ mine' = [mine EXCEPT ![c] = mine[c]]
        /\ pc[c] = "unserve" /\ RestTyped'
    BY <1>1, <1>2, <1>8 DEF StopUnserves
  <2>2. Fits("stopped", "stop", mine[c]) /\ "stopped" \in Pc /\ "stop" \in Call
    BY DEF Fits, Pc, Call
  <2>. QED  BY <1>1, <1>3, <2>1, <2>2, TrackQuietMove
<1>9. CASE StopMarks(c)
  <2>1. Leave(c) /\ pc[c] = "stopped" /\ RestTyped'
    BY <1>1, <1>9 DEF StopMarks, RuntimeStatus
  <2>2. committer' # c
    BY <1>3, <2>1, CallerFacts
  <2>. QED  BY <1>3, <2>1, <2>2, TrackLeave
<1>. QED  BY <1>4, <1>5, <1>6, <1>7, <1>8, <1>9

LEMMA TrackVisit ==
  ASSUME TrackInv, CompilerInv, CompilerInv', [Next]_vars, NEW c \in Callers,
         BeginPause(c) \/ BeginResume(c) \/ VisitNext(c) \/ EndVisit(c)
  PROVE  TrackInv'
<1>. USE DEF Leave, Enter
<1>1. /\ call[c] \in Call /\ live[c] \in BOOLEAN /\ mine[c] \in SUBSET PendingOperation
      /\ call = [call EXCEPT ![c] = call[c]]
      /\ live = [live EXCEPT ![c] = live[c]] /\ mine = [mine EXCEPT ![c] = mine[c]]
      /\ RestTyped
  BY CallerFacts
<1>. USE DEF RestTyped
<1>2. ASSUME NEW name \in {"pause", "resume"}, NEW from, NEW marking \in RuntimeStatus,
             BeginVisit(c, name, from, marking)
      PROVE  TrackInv'
  <2>1. /\ pc' = [pc EXCEPT ![c] = "each"] /\ call' = [call EXCEPT ![c] = name]
        /\ live' = [live EXCEPT ![c] = live[c]] /\ mine' = [mine EXCEPT ![c] = mine[c]]
        /\ pc[c] = "idle" /\ RestTyped' /\ committer' = committer
    BY <1>1, <1>2 DEF BeginVisit, vars, callerVars
  <2>2. Fits("each", name, mine[c]) /\ "each" \in Pc /\ name \in Call
    BY DEF Fits, Pc, Call
  <2>. QED  BY <1>1, <2>1, <2>2, TrackQuietMove
<1>3. CASE BeginPause(c) \/ BeginResume(c)
  BY <1>2, <1>3 DEF BeginPause, BeginResume, RuntimeStatus
<1>4. CASE VisitNext(c)
  <2>1. /\ UNCHANGED <<pc, call, live, mine>> /\ RestTyped'
    BY <1>1, <1>4 DEF VisitNext
  <2>2. PICK p \in Processors : PauseProcessor(p) \/ ResumeProcessor(p) \/ UNCHANGED vars
    BY <1>4 DEF VisitNext
  <2>3. committer' = committer
    BY <2>2, CallersOfEdit DEF Edit, callerVars, vars
  <2>. QED  BY <2>1, <2>3, TrackStay
<1>5. CASE EndVisit(c)
  <2>1. Leave(c) /\ pc[c] = "each" /\ RestTyped' /\ committer' = committer
    BY <1>1, <1>5 DEF EndVisit, RuntimeStatus, vars, callerVars
  <2>2. committer' # c
    BY <2>1, CallerFacts
  <2>. QED  BY <2>1, <2>2, TrackLeave
<1>. QED  BY <1>3, <1>4, <1>5

\* A commit comes back to c, whose operations are seen to.
LEMMA TrackResolve ==
  ASSUME TrackInv, CompilerInv, CompilerInv', [Next]_vars, NEW c \in Callers, NEW ok \in BOOLEAN,
         pc[c] = "compiling", Resolve(c, ok), locked' \in BOOLEAN, committer' # c,
         committer' = committer \/ (committer' = NoCaller /\ committer = c),
         \A o \in mine[c] \cap Adds : Known(o)' /\ Nowhere(o)',
         \A o \in mine[c] \cap Removals : Gone(o)'
  PROVE  TrackInv'
<1>1. /\ call[c] \in {"edit", "start", "stop", "listen"} /\ live[c] \in BOOLEAN
      /\ mine[c] \in SUBSET PendingOperation
      /\ call = [call EXCEPT ![c] = call[c]]
      /\ live = [live EXCEPT ![c] = live[c]] /\ mine = [mine EXCEPT ![c] = mine[c]]
      /\ RestTyped
  BY CallerFacts DEF Fits
<1>2. RestTyped'
  BY <1>1 DEF Resolve, Leave, RestTyped
<1>3. CASE call[c] # "listen" /\ pc' = [pc EXCEPT ![c] = AfterCommit[call[c]]]
           /\ UNCHANGED <<call, live, mine>>
  <2>1. PICK at \in {"publish", "announce", "clear"} :
          pc' = [pc EXCEPT ![c] = at] /\ Fits(at, call[c], mine[c])
    <3>1. /\ call[c] = "edit" => AfterCommit[call[c]] = "publish"
          /\ call[c] = "start" => AfterCommit[call[c]] = "announce"
          /\ call[c] = "stop" => AfterCommit[call[c]] = "clear"
      BY SMTT(30) DEF AfterCommit
    <3>. QED  BY <1>1, <1>3, <3>1 DEF Fits
  <2>2. pc'[c] = at /\ mine'[c] = mine[c]
    BY <1>3, <2>1 DEF TrackInv, RunnerTypeOK
  <2>3. Tracked(c)'
    BY <2>1, <2>2 DEF Tracked, Commits
  <2>4. /\ call' = [call EXCEPT ![c] = call[c]] /\ live' = [live EXCEPT ![c] = live[c]]
        /\ mine' = [mine EXCEPT ![c] = mine[c]] /\ at \in Pc /\ call[c] \in Call
    BY <1>1, <1>3 DEF Pc, Call
  <2>. QED  BY <1>1, <1>2, <2>1, <2>3, <2>4, TrackMove
<1>4. CASE Leave(c)
  BY <1>2, <1>4, TrackLeave
<1>. QED  BY <1>3, <1>4 DEF Resolve, Goto

LEMMA TrackCommit ==
  ASSUME TrackInv, CompilerInv, CompilerInv', [Next]_vars, NEW c \in Callers,
         CallCommit(c) \/ EnterCommit(c)
  PROVE  TrackInv'
<1>1. /\ call[c] \in Call /\ live[c] \in BOOLEAN /\ mine[c] \in SUBSET PendingOperation
      /\ call = [call EXCEPT ![c] = call[c]]
      /\ live = [live EXCEPT ![c] = live[c]] /\ mine = [mine EXCEPT ![c] = mine[c]]
      /\ Fits(pc[c], call[c], mine[c]) /\ Tracked(c)
      /\ RestTyped
  BY CallerFacts
<1>2. /\ \A o \in Adds : Known(o) => Known(o)' /\ (Nowhere(o) => Nowhere(o)')
      /\ \A o \in Removals : (Gone(o) => Gone(o)') /\ (InHand(o) => InHand(o)')
  BY AddsKeep, RemovalsKeep DEF CompilerInv
<1>3. CASE CallCommit(c)
  <2>1. /\ pc' = [pc EXCEPT ![c] = "compiling"] /\ call' = [call EXCEPT ![c] = call[c]]
        /\ live' = [live EXCEPT ![c] = live[c]] /\ mine' = [mine EXCEPT ![c] = mine[c]]
        /\ pc[c] = "commit" /\ committer' = committer /\ committer' # c /\ RestTyped'
    BY <1>1, <1>3 DEF CallCommit, Goto, RequestCommit, RestTyped
  <2>2. pc'[c] = "compiling" /\ mine'[c] = mine[c]
    BY <2>1 DEF TrackInv, RunnerTypeOK
  <2>3. Commits(c) /\ ~Committed(c)'
    BY <2>1, <2>2 DEF Commits, Committed
  <2>4. Tracked(c)'
    BY <1>1, <2>1, <2>2, <2>3, TrackedKept
  <2>5. Fits("compiling", call[c], mine[c]) /\ "compiling" \in Pc
    BY <1>1, <2>1 DEF Fits, Pc
  <2>. QED  BY <1>1, <2>1, <2>4, <2>5, TrackMove
<1>4. CASE EnterCommit(c) /\ txn = <<>>
  <2>1. /\ pc[c] = "compiling" /\ phase = "idle" /\ Range(txn) = {}
        /\ Resolve(c, TRUE) /\ committer' = committer /\ locked' \in BOOLEAN
    BY <1>1, <1>4, ElementsOfEmpty DEF EnterCommit, TakeBatch, RestTyped
  <2>2. committer' # c
    BY <2>1, CallerAssumption DEF CompilerInv, DoneInv, GateIsHeld
  <2>3. /\ \A o \in Removals : InHand(o) => Gone(o)
        /\ \A o \in Adds : Nowhere(o)
    BY <2>1, IdleSettles DEF CompilerInv
  <2>4. Commits(c)
    BY <2>1 DEF Commits
  <2>5. /\ \A o \in mine[c] \cap Adds : Known(o) /\ Nowhere(o)
        /\ \A o \in mine[c] \cap Removals : Gone(o)
    BY <1>1, <2>1, <2>3, <2>4 DEF Tracked
  <2>6. /\ \A o \in mine[c] \cap Adds : Known(o)' /\ Nowhere(o)'
        /\ \A o \in mine[c] \cap Removals : Gone(o)'
    BY <1>2, <2>5
  <2>. QED  BY <2>1, <2>2, <2>6, TrackResolve
<1>5. CASE EnterCommit(c) /\ txn # <<>>
  <2>1. /\ pc[c] = "compiling" /\ phase = "idle" /\ batch' = txn /\ Range(txn') = {}
        /\ committer' = c
    BY <1>5, ElementsOfEmpty DEF EnterCommit, TakeBatch
  <2>2. UNCHANGED <<pc, call, live, mine>> /\ RestTyped'
    BY <1>1, <1>5 DEF EnterCommit, runnerVars, callVars, RestTyped
  <2>3. RunnerTypeOK'
    BY <2>2 DEF TrackInv, RunnerTypeOK, RestTyped, CompilerInv, IInv
  <2>4. ASSUME NEW d \in Callers, d # c  PROVE Fits(pc[d], call[d], mine[d])' /\ Tracked(d)'
    <3>1. committer # d /\ committer' # d
      BY <2>1, <2>4, CallerAssumption DEF CompilerInv, DoneInv, GateIsHeld
    <3>2. Commits(d)' = Commits(d) /\ Committed(d)' = Committed(d)
      BY <2>2 DEF Commits, Committed
    <3>3. Tracked(d)'
      BY <2>2, <3>1, <3>2, TrackedKept DEF TrackInv
    <3>. QED  BY <2>2, <3>3 DEF TrackInv, Fits
  <2>5. Tracked(c)'
    <3>1. Commits(c) /\ ~Committed(c)' /\ mine'[c] = mine[c]
      BY <2>1, <2>2 DEF Commits, Committed
    <3>2. \A o \in mine[c] \cap Adds : Known(o)' /\ o \notin Range(txn')
      BY <1>1, <1>2, <2>1, <3>1 DEF Tracked
    <3>3. \A o \in Range(txn) : InHand(o)'
      BY <2>1 DEF InHand
    <3>4. \A o \in mine[c] \cap Removals : InHand(o)'
      BY <1>1, <1>2, <3>1, <3>3 DEF Tracked
    <3>. QED  BY <3>1, <3>2, <3>4 DEF Tracked
  <2>6. Fits(pc[c], call[c], mine[c])'
    BY <1>1, <2>2 DEF Fits
  <2>. QED  BY <2>1, <2>2, <2>3, <2>4, <2>5, <2>6 DEF TrackInv
<1>. QED  BY <1>3, <1>4, <1>5

LEMMA TrackCompile ==
  ASSUME TrackInv, CompilerInv, CompilerInv', [Next]_vars, CompileGoesOn \/ CompileReturns
  PROVE  TrackInv'
<1>1. RestTyped
  BY DEF TrackInv, RunnerTypeOK, RestTyped
<1>2. CASE CompileGoesOn
  <2>1. UNCHANGED <<pc, call, live, mine, committer>> /\ RestTyped'
    BY <1>1, <1>2 DEF CompileGoesOn, runnerVars, callVars, RestTyped
  <2>. QED  BY <2>1, TrackStay
<1>3. CASE CompileReturns
  <2> DEFINE c == committer
  <2>1. Ends
    <3>1. Sorts \/ Walks \/ Ends
      BY <1>3, CompileMoves DEF CompileReturns, CompilerInv
    <3>. QED  BY <1>3, <3>1 DEF CompileReturns, Sorts, Categorize, Walks, callerVars
  <2>2. /\ phase # "idle" /\ committer' = NoCaller
        /\ Range(batch') = {} /\ Range(toRemove') = {} /\ Range(linksToRemove') = {}
        /\ Range(toAdd') = {} /\ Wirings' = {}
    BY <2>1, ElementsOfEmpty DEF Ends, Return, LatePhases, Wirings
  <2>3. c \in Callers /\ c # NoCaller
    BY <2>2 DEF CompilerInv, DoneInv, GateIsHeld, IInv, TypeOK
  <2>4. pc[c] = "compiling" /\ Tracked(c) /\ Commits(c)
    BY <2>3 DEF TrackInv, Commits
  <2>5. Resolve(c, work = <<>>) /\ locked' \in BOOLEAN
    BY <1>3 DEF CompileReturns
  <2>6. \A o \in mine[c] \cap Adds : Known(o)' /\ Nowhere(o)'
    <3>1. \A o \in mine[c] \cap Adds : Known(o) /\ o \notin Range(txn)
      BY <2>4 DEF Tracked
    <3>2. \A o \in mine[c] \cap Adds : Known(o)' /\ o \notin Range(txn')
      BY <3>1, AddsKeep DEF CompilerInv
    <3>. QED  BY <2>2, <3>2 DEF Nowhere
  <2>7. \A o \in mine[c] \cap Removals : Gone(o)'
    <3>1. \A o \in mine[c] \cap Removals : InHand(o)'
      BY <2>4, RemovalsKeep DEF Tracked, CompilerInv
    <3>. QED  BY <2>2, <3>1 DEF InHand
  <2>8. (work = <<>>) \in BOOLEAN
    OBVIOUS
  <2>9. committer' # c /\ committer' = NoCaller /\ committer = c
    BY <2>2, <2>3
  <2>. HIDE DEF c
  <2>. QED  BY <2>3, <2>4, <2>5, <2>6, <2>7, <2>8, <2>9, TrackResolve
<1>. QED  BY <1>2, <1>3

LEMMA TrackInit == RunnerInit => TrackInv
<1>. SUFFICES ASSUME RunnerInit  PROVE TrackInv
  OBVIOUS
<1>1. TypeOK
  BY SafeInit DEF RunnerInit, IInv
<1>2. RunnerTypeOK
  BY <1>1 DEF RunnerInit, RunnerTypeOK, RuntimeStatus, Pc, Call
<1>3. committer = NoCaller /\ NoCaller \notin Callers
  BY CallerAssumption DEF RunnerInit, Init
<1>4. ASSUME NEW c \in Callers  PROVE Fits(pc[c], call[c], mine[c]) /\ Tracked(c)
  <2>1. pc[c] = "idle" /\ mine[c] = {} /\ committer # c
    BY <1>3 DEF RunnerInit
  <2>. QED  BY <2>1 DEF Fits, Tracked, Commits, Committed
<1>. QED  BY <1>2, <1>3, <1>4 DEF TrackInv

LEMMA TrackStep ==
  ASSUME TrackInv, CompilerInv, CompilerInv', [RunnerNext]_allVars
  PROVE  TrackInv'
<1>0. [Next]_vars /\ Hosts \subseteq Callers /\ Tasks \subseteq Callers /\ RestTyped
  BY RunnerSimulates, RunnerAssumption DEF TrackInv, RunnerTypeOK, RestTyped
<1>1. ASSUME UNCHANGED runnerVars, UNCHANGED callerVars, locked' \in BOOLEAN
      PROVE  TrackInv'
  <2>1. UNCHANGED <<pc, call, live, mine, committer>> /\ RestTyped'
    BY <1>0, <1>1 DEF runnerVars, callVars, callerVars, RestTyped
  <2>. QED  BY <1>0, <2>1, TrackStay
<1>2. ASSUME NEW h \in Hosts, HostCalls(h)  PROVE TrackInv'
  <2>1. CASE GateProcessor(h)
    BY <1>0, <1>1, <2>1, CallersOfEdit DEF GateProcessor, Edit, RestTyped
  <2>2. CASE BeginStart(h)
    BY <1>0, <2>2, TrackStart
  <2>3. CASE ClaimStop(h)
    BY <1>0, <2>3, TrackStop
  <2>4. CASE BeginPause(h) \/ BeginResume(h)
    BY <1>0, <2>4, TrackVisit
  <2>. QED  BY <1>2, <2>1, <2>2, <2>3, <2>4 DEF HostCalls
<1>3. ASSUME NEW c \in Callers, BeginEdit(c) \/ CallStep(c) \/ EnterCommit(c)
      PROVE  TrackInv'
  <2>1. CASE BeginEdit(c) \/ EditScope(c) \/ ConfigScope(c) \/ EditRefused(c) \/ PublishChange(c)
    BY <1>0, <2>1, TrackEdits
  <2>2. CASE StartConnects(c) \/ StartFailsEarly(c) \/ StartMarks(c) \/ StartReturns(c)
    BY <1>0, <2>2, TrackStart
  <2>3. CASE StopSnapshots(c) \/ StopQueues(c) \/ StopClears(c) \/ StopUnserves(c) \/ StopMarks(c)
    BY <1>0, <2>3, TrackStop
  <2>4. CASE VisitNext(c) \/ EndVisit(c)
    BY <1>0, <2>4, TrackVisit
  <2>5. CASE CallCommit(c) \/ EnterCommit(c)
    BY <1>0, <2>5, TrackCommit
  <2>. QED  BY <1>3, <2>1, <2>2, <2>3, <2>4, <2>5 DEF CallStep
<1>4. CASE CompileGoesOn \/ CompileReturns
  BY <1>0, <1>4, TrackCompile
<1>5. CASE OnGraphDidChange
  <2>1. undelivered' \in Nat /\ UNCHANGED <<vars, status, ctx, service, locked>>
    BY SMTT(30), <1>0, <1>5 DEF OnGraphDidChange, RestTyped
  <2>2. CASE UNCHANGED callVars
    <3>1. UNCHANGED <<pc, call, live, mine, committer>> /\ RestTyped'
      BY <1>0, <2>1, <2>2 DEF callVars, vars, callerVars, RestTyped
    <3>. QED  BY <1>0, <3>1, TrackStay
  <2>3. ASSUME NEW t \in Tasks, Enter(t, "listen", "commit"), UNCHANGED <<live, mine, todo>>
        PROVE  TrackInv'
    <3>1. /\ live[t] \in BOOLEAN /\ live = [live EXCEPT ![t] = live[t]]
          /\ mine = [mine EXCEPT ![t] = mine[t]] /\ Fits(pc[t], call[t], mine[t])
      BY <1>0, CallerFacts
    <3>2. /\ pc' = [pc EXCEPT ![t] = "commit"] /\ call' = [call EXCEPT ![t] = "listen"]
          /\ live' = [live EXCEPT ![t] = live[t]] /\ mine' = [mine EXCEPT ![t] = {}]
          /\ pc[t] = "idle"
      BY <2>3, <3>1 DEF Enter, Fits
    <3>3. RestTyped' /\ committer' = committer
      BY <1>0, <2>1, <2>3 DEF RestTyped, vars, callerVars
    <3>4. {} \in SUBSET Range(txn')
      OBVIOUS
    <3>. QED  BY <1>0, <3>1, <3>2, <3>3, <3>4, TrackEnterMove
  <2>. QED  BY <1>5, <2>2, <2>3 DEF OnGraphDidChange
<1>6. ASSUME NEW p \in Processors, ThreadRuns(p) \/ ThreadMisbehaves(p)
      PROVE  TrackInv'
  BY <1>0, <1>1, <1>6, CallersOfThread DEF ThreadRuns, ThreadMisbehaves, RestTyped
<1>7. CASE LockForLink \/ UNCHANGED allVars
  BY <1>0, <1>1, <1>7 DEF LockForLink, allVars, vars, RestTyped
<1>. QED  BY <1>2, <1>3, <1>4, <1>5, <1>6, <1>7 DEF RunnerNext

LEMMA TrackInvariance == RunnerSafety => []TrackInv
<1>1. RunnerSafety => []CompilerInv
  BY RunnerImplementsCompiler, Invariance, PlanInvariance, DoneInvariance, PTL DEF CompilerInv
<1>2. TrackInv /\ CompilerInv /\ CompilerInv' /\ [RunnerNext]_allVars => TrackInv'
  BY TrackStep
<1>. QED  BY <1>1, <1>2, TrackInit, PTL DEF RunnerSafety

\* Every variable of the runtime keeps its type, whatever hosts, processors
\* and the listener do.
THEOREM RunnerTypes == RunnerSafety => []RunnerTypeOK
<1>1. TrackInv => RunnerTypeOK
  BY DEF TrackInv
<1>. QED  BY <1>1, TrackInvariance, PTL

\* A call whose commit returned Ok finds every operation it committed for
\* settled: start()'s queued operations are processed, stop()'s processors gone,
\* an inline edit seen to, whichever caller's commit took the operation
\* (Compiler::commit takes the whole log under the compile gate).
THEOREM CommittedOperationsAreSettled == RunnerSafety => []CommittedIsSettled
<1>1. TrackInv => CommittedIsSettled
  <2>. SUFFICES ASSUME TrackInv, NEW c \in Callers, Committed(c), NEW o \in mine[c]
                PROVE  Settled(o)
    BY DEF CommittedIsSettled, Committed
  <2>1. o \in PendingOperation
    BY CallerFacts
  <2>2. /\ o \in Adds => Nowhere(o)
        /\ o \in Removals => Gone(o)
    BY DEF TrackInv, Tracked
  <2>3. Range(linksToAdd) \subseteq Wirings
    BY DEF Wirings
  <2>. QED  BY <2>1, <2>2, <2>3 DEF Settled, Adds, Removals, Nowhere, Gone
<1>. QED  BY <1>1, TrackInvariance, PTL
=============================================================================
