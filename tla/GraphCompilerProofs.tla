------------------------ MODULE GraphCompilerProofs -------------------------
(***************************************************************************)
(* The inductive invariant IInv of GraphCompiler holds initially and is    *)
(* preserved by every step: edits, callers, planning, removals, additions, *)
(* the processors' threads.  The safety properties follow, for any finite  *)
(* graph, any number of callers and any bound on the edits.                *)
(***************************************************************************)
EXTENDS GraphCompilerTypes

\* A leaf that names no prover is tried with Zenon, then with the SMT solver.
USE ZenonT(30), SMTT(30)

LEMMA SafeInit == Init => IInv
<1>. SUFFICES ASSUME Init PROVE IInv
  OBVIOUS
<1>1. TypeOK /\ WorkFitsPhase
  BY TypedInit DEF Typed
<1>2. Range(toAdd) = {}
  BY ElementsOfEmpty DEF Init
<1>. QED
  BY <1>1, <1>2, GraphAssumption
     DEF Init, IInv, UnbornIsBlank, LiveThreadHasNode, LiveThreadHasHandle, LiveThreadHasChannel,
         PreparedHasChannel, SentMeansLeaving, EdgeHasEnds, WiredHasInstances,
         ErrorIsAfterSetup, Live, EdgeIn

\* An edit adds nodes and edges and shows states; it touches no thread, no
\* handle, no channel and nothing the compiler holds.
LEMMA EditFrame ==
    ASSUME IInv, Edit
    PROVE  /\ UNCHANGED <<shutdown, instance, handle, thread, toAdd, phase, work, joining>>
           /\ \A p \in Processors :
                /\ node'[p] = node[p] \/ (node[p] = "unborn" /\ node'[p] = "in")
                /\ state'[p] = "Error" => state[p] = "Error" \/ node[p] = "unborn"
           /\ \A l \in Links :
                \/ edge'[l] = edge[l]
                \/ edge'[l] = "Pending" /\ NodeIn(Source[l]) /\ NodeIn(Target[l])
<1>. USE DEF Log, CountEdit, nodeVars, threadVars, planVars, compileVars, callerVars, IInv, TypeOK
<1>1. ASSUME NEW p \in Processors, AddProcessor(p) \/ RemoveProcessor(p) \/ UpdateProcessorConfig(p)
      PROVE  /\ UNCHANGED <<nodeVars, thread, toAdd, phase, work, joining, edge>>
             /\ \A q \in Processors :
                  node'[q] = node[q] \/ (node[q] = "unborn" /\ node'[q] = "in")
  BY <1>1 DEF AddProcessor, RemoveProcessor, UpdateProcessorConfig
<1>2. ASSUME NEW p \in Processors, AddUnregisteredProcessor(p)
      PROVE  /\ UNCHANGED <<shutdown, instance, handle, thread, toAdd, phase, work, joining, edge>>
             /\ \A q \in Processors :
                  /\ node'[q] = node[q] \/ (node[q] = "unborn" /\ node'[q] = "in")
                  /\ state'[q] = "Error" => state[q] = "Error" \/ node[q] = "unborn"
  BY <1>2 DEF AddUnregisteredProcessor
<1>3. ASSUME NEW p \in Processors, PauseProcessor(p) \/ ResumeProcessor(p)
      PROVE  /\ UNCHANGED <<shutdown, instance, handle, thread, toAdd, phase, work, joining, node,
                            edge>>
             /\ \A q \in Processors : state'[q] = "Error" => state[q] = "Error"
  BY <1>3 DEF PauseProcessor, ResumeProcessor, SetGate
<1>4. ASSUME NEW l \in Links, Connect(l) \/ Disconnect(l)
      PROVE  /\ UNCHANGED <<nodeVars, thread, toAdd, phase, work, joining, node>>
             /\ \A k \in Links :
                  \/ edge'[k] = edge[k]
                  \/ edge'[k] = "Pending" /\ NodeIn(Source[k]) /\ NodeIn(Target[k])
  BY <1>4 DEF Connect, Disconnect
<1>5. ASSUME QueueRemovalOfEveryProcessor
      PROVE  UNCHANGED <<nodeVars, thread, toAdd, phase, work, joining, node, edge>>
  BY <1>5 DEF QueueRemovalOfEveryProcessor
<1>. HIDE DEF Log, CountEdit, IInv, TypeOK
<1>. QED  BY <1>1, <1>2, <1>3, <1>4, <1>5 DEF Edit

LEMMA SafeEdit == IInv /\ Edit => IInv'
<1>. SUFFICES ASSUME IInv, Edit PROVE IInv'
  OBVIOUS
<1>1. TypeOK' /\ WorkFitsPhase'
  BY TypedEdit DEF IInv, Typed
<1>. USE DEF IInv
<1>a. UNCHANGED <<shutdown, instance, handle, thread, toAdd, phase, work, joining>>
  BY EditFrame
<1>b. \A p \in Processors : node'[p] = node[p] \/ (node[p] = "unborn" /\ node'[p] = "in")
  BY EditFrame
<1>c. \A p \in Processors : state'[p] = "Error" => state[p] = "Error" \/ node[p] = "unborn"
  BY EditFrame
<1>d. \A l \in Links : \/ edge'[l] = edge[l]
                       \/ edge'[l] = "Pending" /\ NodeIn(Source[l]) /\ NodeIn(Target[l])
  BY EditFrame
<1>2. UnbornIsBlank' /\ LiveThreadHasNode' /\ LiveThreadHasHandle' /\ LiveThreadHasChannel'
  BY <1>a, <1>b
     DEF UnbornIsBlank, LiveThreadHasNode, LiveThreadHasHandle, LiveThreadHasChannel, NodeIn,
         BeingJoined, BeingSpawned
<1>3. PreparedHasChannel'
  <2>1. Range(toAdd) \subseteq Processors
    BY ElementsOf DEF TypeOK
  <2>. QED  BY <1>a, <1>c, <2>1 DEF PreparedHasChannel, UnbornIsBlank, BeingSpawned
<1>4. SentMeansLeaving'
  BY <1>a, <1>b DEF SentMeansLeaving, UnbornIsBlank, NodeIn, BeingJoined
<1>5. EdgeHasEnds' /\ WiredHasInstances'
  BY SMTT(30), <1>a, <1>b, <1>d, GraphAssumption
     DEF EdgeHasEnds, WiredHasInstances, EdgeIn, NodeIn
<1>6. ErrorIsAfterSetup'
  BY <1>a, <1>c DEF ErrorIsAfterSetup, LiveThreadHasNode, NodeIn, Live
<1>. QED  BY <1>1, <1>2, <1>3, <1>4, <1>5, <1>6

\* Nothing but the compiler's own place in its plan changes, and no removal or
\* spawn is cut in two.
LEMMA SafeQuietStep ==
    ASSUME IInv, Typed', UNCHANGED <<graphVars, nodeVars, thread>>,
           phase # "join", phase = "attachHandle" => thread[Head(work)] \notin Live,
           phase' \notin {"join", "attachHandle"},
           \A p \in Range(toAdd') : node[p] # "unborn",
           PreparedHasChannel'
    PROVE  IInv'
<1>. USE DEF IInv, graphVars, nodeVars
<1>1. UnbornIsBlank' /\ LiveThreadHasNode' /\ LiveThreadHasHandle' /\ LiveThreadHasChannel'
  BY DEF UnbornIsBlank, LiveThreadHasNode, LiveThreadHasHandle, LiveThreadHasChannel, NodeIn,
         BeingJoined, BeingSpawned
<1>2. SentMeansLeaving' /\ EdgeHasEnds' /\ WiredHasInstances' /\ ErrorIsAfterSetup'
  BY DEF SentMeansLeaving, EdgeHasEnds, WiredHasInstances, ErrorIsAfterSetup, NodeIn, EdgeIn,
         BeingJoined
<1>. QED  BY <1>1, <1>2 DEF Typed

LEMMA SafeAbort ==
    ASSUME IInv, Abort, phase # "join", phase = "attachHandle" => thread[Head(work)] \notin Live
    PROVE  IInv'
<1>1. Typed'
  BY TypedAbort DEF IInv, Typed
<1>2. Range(toAdd') = {} /\ phase' = "idle"
  BY ElementsOfEmpty DEF Abort, Return
<1>3. PreparedHasChannel'
  BY <1>2 DEF PreparedHasChannel
<1>. QED  BY <1>1, <1>2, <1>3, SafeQuietStep DEF Abort

LEMMA SafePlanning ==
    IInv /\ (Categorize \/ BeginReconcile \/ DropLinkAddsIntoRemovedProcessors
             \/ AdvancePhase \/ ReturnOk) => IInv'
<1>. SUFFICES ASSUME IInv,
                     Categorize \/ BeginReconcile \/ DropLinkAddsIntoRemovedProcessors
                       \/ AdvancePhase \/ ReturnOk
              PROVE  IInv'
  OBVIOUS
<1>1. Typed'
  BY TypedPlanning DEF IInv, Typed
<1>2. UNCHANGED <<graphVars, nodeVars, thread>>
  BY DEF Categorize, BeginReconcile, DropLinkAddsIntoRemovedProcessors, AdvancePhase, ReturnOk,
         threadVars
<1>3. phase \notin {"join", "attachHandle"} /\ phase' \notin {"join", "attachHandle"}
  <2>1. CASE Categorize \/ BeginReconcile \/ DropLinkAddsIntoRemovedProcessors
    BY <2>1 DEF Categorize, BeginReconcile, DropLinkAddsIntoRemovedProcessors
  <2>2. CASE AdvancePhase
    BY SMTT(30), <2>2 DEF AdvancePhase, Following
  <2>3. CASE ReturnOk
    BY <2>3 DEF ReturnOk, Return
  <2>. QED  BY <2>1, <2>2, <2>3
<1>4. \A p \in Range(toAdd) : p \in Processors /\ node[p] # "unborn"
  BY ElementsOf DEF IInv, TypeOK, UnbornIsBlank
<1>5. /\ \A p \in Range(toAdd') : node[p] # "unborn"
      /\ PreparedHasChannel'
  <2>1. CASE Categorize
    <3> DEFINE o == Head(batch)
    <3>1. o \in PendingOperation
      BY <2>1, HeadAndTail DEF Categorize, IInv, TypeOK
    <3>2. AddIsDue(o) => o.id \in Processors /\ NodeIn(o.id)
      BY <3>1 DEF AddIsDue, PendingOperation
    <3>3. toAdd' = Append1(toAdd, AddIsDue(o), o.id)
      BY <2>1 DEF Categorize
    <3>4. Range(toAdd') \subseteq Range(toAdd) \cup {y \in {o.id} : AddIsDue(o)}
      <4>1. toAdd \in Seq(Processors) /\ (AddIsDue(o) => o.id \in Processors)
        BY <3>2 DEF IInv, TypeOK
      <4>. HIDE DEF o
      <4>. QED  BY SMTT(30), <3>3, <4>1, ElementsOfAppend1
    <3>5. phase' = "categorize"
      BY <2>1 DEF Categorize
    <3>6. \A p \in Range(toAdd') : node[p] # "unborn"
      BY <1>4, <3>2, <3>4 DEF NodeIn
    <3>7. PreparedHasChannel'
      BY <3>5 DEF PreparedHasChannel, SpawnPhases
    <3>. QED  BY <3>6, <3>7
  <2>2. CASE BeginReconcile \/ DropLinkAddsIntoRemovedProcessors
    <3>1. UNCHANGED toAdd /\ phase' = "reconcile"
      BY <2>2 DEF BeginReconcile, DropLinkAddsIntoRemovedProcessors
    <3>. QED  BY <1>4, <3>1 DEF PreparedHasChannel, SpawnPhases
  <2>3. CASE AdvancePhase
    <3>1. UNCHANGED toAdd /\ work = <<>> /\ phase' = Following[phase] /\ work' = WorkOf(phase')
      BY <2>3 DEF AdvancePhase, planVars
    <3>2. phase \in DOMAIN Following
      BY <2>3 DEF AdvancePhase
    <3>3. phase' = "prepare" => work' = toAdd
      BY <3>1 DEF WorkOf
    <3>4. phase' \in SpawnPhases => phase = "prepare"
      BY SMTT(30), <3>1, <3>2 DEF Following, SpawnPhases
    <3>5. \A p \in Range(toAdd) : phase' \in SpawnPhases =>
            shutdown[p] = "empty" /\ (state[p] = "Error" => handle[p])
      BY <3>1, <3>4, ElementsOfEmpty DEF IInv, PreparedHasChannel, BeingSpawned
    <3>6. PreparedHasChannel'
      BY <1>2, <3>1, <3>3, <3>5 DEF PreparedHasChannel, nodeVars
    <3>. QED  BY <1>4, <3>1, <3>6
  <2>4. CASE ReturnOk
    <3>1. Range(toAdd') = {}
      BY <2>4, ElementsOfEmpty DEF ReturnOk, Return
    <3>. QED  BY <3>1 DEF PreparedHasChannel
  <2>. QED  BY <2>1, <2>2, <2>3, <2>4
<1>. QED  BY <1>1, <1>2, <1>3, <1>5, SafeQuietStep

\* RequestCommit and a stuttering step leave everything the invariant mentions.
LEMMA SafeCaller ==
    ASSUME IInv, NEW c \in Callers, RequestCommit(c) \/ TakeBatch(c)
    PROVE  IInv'
<1>1. Typed'
  BY TypedCaller DEF IInv, Typed
<1>2. CASE RequestCommit(c)
  BY <1>1, <1>2
     DEF RequestCommit, IInv, Typed, UnbornIsBlank, LiveThreadHasNode, LiveThreadHasHandle,
         LiveThreadHasChannel, PreparedHasChannel, SentMeansLeaving, EdgeHasEnds,
         WiredHasInstances, ErrorIsAfterSetup, NodeIn, EdgeIn, BeingJoined, BeingSpawned,
         graphVars, nodeVars, threadVars, planVars, compileVars
<1>3. CASE TakeBatch(c)
  <2>1. phase = "idle" /\ phase' \in {"idle", "categorize"} /\ UNCHANGED toAdd
        /\ UNCHANGED <<graphVars, nodeVars, thread>>
    BY <1>3 DEF TakeBatch, planVars, threadVars
  <2>2. PreparedHasChannel'
    BY <2>1 DEF PreparedHasChannel, SpawnPhases
  <2>3. \A p \in Range(toAdd') : node[p] # "unborn"
    BY <2>1, ElementsOf DEF IInv, TypeOK, UnbornIsBlank
  <2>. QED  BY <1>1, <2>1, <2>2, <2>3, SafeQuietStep
<1>. QED  BY <1>2, <1>3

\* Closing, dropping and wiring a link, away from any removal or spawn.
LEMMA SafeLinkStep ==
    IInv /\ (UnwireLink \/ DropEdge \/ WireLink) => IInv'
<1>. SUFFICES ASSUME IInv, UnwireLink \/ DropEdge \/ WireLink PROVE IInv'
  OBVIOUS
<1>1. Typed'
  BY TypedRemoval, TypedFinishing DEF IInv, Typed
<1>2. /\ UNCHANGED <<node, nodeVars, thread, toAdd>>
      /\ phase \in {"unlink", "dropEdge", "wire"}
      /\ phase' \in {"unlink", "dropEdge", "wire"}
  BY DEF UnwireLink, DropEdge, WireLink, WireHead, threadVars, planVars
<1>3. ASSUME NEW l \in Links
      PROVE  /\ EdgeIn(l)' => EdgeIn(l)
             /\ edge'[l] = "Wired" =>
                  edge[l] = "Wired" \/ (instance[Source[l]] /\ instance[Target[l]])
  BY DEF UnwireLink, DropEdge, WireLink, WireHead, EdgeIn, IInv, TypeOK
<1>. USE <1>2 DEF IInv, nodeVars
<1>4. UnbornIsBlank' /\ LiveThreadHasNode' /\ LiveThreadHasHandle' /\ LiveThreadHasChannel'
  BY DEF UnbornIsBlank, LiveThreadHasNode, LiveThreadHasHandle, LiveThreadHasChannel, NodeIn,
         BeingJoined, BeingSpawned
<1>5. PreparedHasChannel' /\ SentMeansLeaving' /\ ErrorIsAfterSetup'
  BY DEF PreparedHasChannel, SentMeansLeaving, ErrorIsAfterSetup, NodeIn, BeingJoined,
     SpawnPhases
<1>6. EdgeHasEnds' /\ WiredHasInstances'
  BY <1>3, GraphAssumption DEF EdgeHasEnds, WiredHasInstances, NodeIn
<1>. QED  BY <1>1, <1>4, <1>5, <1>6 DEF Typed

\* The signal phase hands the processor over to the join: whatever channel it
\* had is spent, and a live thread is waited for.
LEMMA SafeSignal == IInv /\ SignalShutdown => IInv'
<1>. SUFFICES ASSUME IInv, SignalShutdown PROVE IInv'
  OBVIOUS
<1>1. Typed'
  BY TypedRemoval DEF IInv, Typed
<1> DEFINE q == Head(work)
<1>2. q \in Processors
  BY WorkHead DEF SignalShutdown, IInv, Typed, ProcessorPhases
<1>3. /\ UNCHANGED <<node, edge, instance, thread, toAdd, work>>
      /\ phase = "signal" /\ phase' = "join"
  BY DEF SignalShutdown, removalFrame, graphVars, threadVars, planVars
<1>4. \A p \in Processors : p # q =>
        shutdown'[p] = shutdown[p] /\ state'[p] = state[p] /\ handle'[p] = handle[p]
  BY <1>2 DEF SignalShutdown, BeginRemoval, IInv, TypeOK
<1>5. thread[q] \in Live => joining'
  <2>1. thread[q] \in Live => NodeIn(q) /\ handle[q]
    BY <1>2, <1>3
       DEF IInv, LiveThreadHasNode, LiveThreadHasHandle, BeingSpawned, BeingJoined
  <2>2. NodeIn(q) => joining' = handle[q]
    BY DEF SignalShutdown, BeginRemoval
  <2>. QED  BY <2>1, <2>2
<1>6. /\ state'[q] = "Error" => state[q] = "Error"
      /\ node[q] = "unborn" => shutdown'[q] = shutdown[q]
      /\ ~NodeIn(q) => shutdown'[q] = shutdown[q]
  BY <1>2 DEF SignalShutdown, BeginRemoval, NodeIn, IInv, TypeOK
<1>7. \A p \in Processors : /\ BeingJoined(p)' <=> p = q
                            /\ ~BeingJoined(p) /\ ~BeingSpawned(p) /\ ~BeingSpawned(p)'
  BY <1>3 DEF BeingJoined, BeingSpawned
<1>. HIDE DEF q
<1>. USE <1>2, <1>3, <1>4 DEF IInv
<1>8. UnbornIsBlank' /\ LiveThreadHasNode'
  BY <1>6 DEF UnbornIsBlank, LiveThreadHasNode, NodeIn
<1>9. LiveThreadHasHandle'
  BY <1>5, <1>7 DEF LiveThreadHasHandle
<1>10. LiveThreadHasChannel'
  BY <1>7 DEF LiveThreadHasChannel
<1>11. PreparedHasChannel'
  BY DEF PreparedHasChannel, SpawnPhases
<1>12. SentMeansLeaving'
  BY <1>7 DEF SentMeansLeaving, NodeIn
<1>13. EdgeHasEnds' /\ WiredHasInstances' /\ ErrorIsAfterSetup'
  BY <1>6 DEF EdgeHasEnds, WiredHasInstances, ErrorIsAfterSetup, NodeIn, EdgeIn
<1>. QED  BY <1>1, <1>8, <1>9, <1>10, <1>11, <1>12, <1>13 DEF Typed

\* Once the thread is joined the node goes, with every edge at it.
LEMMA SafeForget == IInv /\ JoinAndForget => IInv'
<1>. SUFFICES ASSUME IInv, JoinAndForget PROVE IInv'
  OBVIOUS
<1>1. Typed'
  BY TypedRemoval DEF IInv, Typed
<1> DEFINE q == Head(work)
<1>2. q \in Processors
  BY WorkHead DEF JoinAndForget, Forget, IInv, Typed, WorkFitsPhase, ProcessorPhases
<1>3. /\ UNCHANGED <<shutdown, instance, handle, thread, toAdd>>
      /\ phase = "join" /\ phase' = "signal"
  BY DEF JoinAndForget, Forget, threadVars, planVars
<1>4. thread[q] \notin Live
  <2>1. CASE joining
    BY <2>1 DEF JoinAndForget, Live
  <2>2. CASE ~joining
    BY <1>2, <1>3, <2>2 DEF IInv, LiveThreadHasHandle, BeingJoined
  <2>. QED  BY <2>1, <2>2
<1>5. /\ \A p \in Processors : p # q => node'[p] = node[p] /\ state'[p] = state[p]
      /\ node'[q] # "in" /\ (node'[q] = "unborn" => node[q] = "unborn")
      /\ state'[q] = "Error" => state[q] = "Error"
  <2>. USE <1>2 DEF JoinAndForget, Forget, NodeIn, IInv, TypeOK
  <2>1. CASE NodeIn(q)
    BY <2>1
  <2>2. CASE ~NodeIn(q)
    BY <2>2
  <2>. QED  BY <2>1, <2>2
<1>6. \A l \in Links : /\ edge'[l] = edge[l] \/ edge'[l] = "removed"
                       /\ EdgeIn(l)' => EdgeIn(l) /\ Source[l] # q /\ Target[l] # q
  BY DEF JoinAndForget, Forget, EdgeIn, IInv, TypeOK
<1>. HIDE DEF q
<1>. USE <1>2, <1>3, <1>5 DEF IInv
<1>7. \A p \in Processors : /\ BeingJoined(p) <=> p = q
                            /\ ~BeingSpawned(p) /\ ~BeingJoined(p)' /\ ~BeingSpawned(p)'
  BY DEF BeingJoined, BeingSpawned, q
<1>8. UnbornIsBlank' /\ LiveThreadHasNode'
  BY <1>4 DEF UnbornIsBlank, LiveThreadHasNode, NodeIn
<1>9. LiveThreadHasHandle' /\ LiveThreadHasChannel'
  BY <1>4, <1>7 DEF LiveThreadHasHandle, LiveThreadHasChannel
<1>10. PreparedHasChannel'
  BY DEF PreparedHasChannel, SpawnPhases
<1>11. SentMeansLeaving'
  BY <1>7 DEF SentMeansLeaving, NodeIn
<1>12. EdgeHasEnds' /\ WiredHasInstances'
  BY <1>6, GraphAssumption DEF EdgeHasEnds, WiredHasInstances, NodeIn
<1>13. ErrorIsAfterSetup'
  BY DEF ErrorIsAfterSetup
<1>. QED  BY <1>1, <1>8, <1>9, <1>10, <1>11, <1>12, <1>13 DEF Typed

LEMMA SafePrepare == IInv /\ PrepareProcessor => IInv'
<1>. SUFFICES ASSUME IInv, PrepareProcessor PROVE IInv'
  OBVIOUS
<1>1. Typed'
  BY TypedAdding DEF IInv, Typed
<1> DEFINE q == Head(work)
<1>2. q \in Processors /\ NodeIn(q) /\ Range(work) = {q} \cup Range(work')
  BY WorkHead DEF PrepareProcessor, Visited, IInv, Typed, ProcessorPhases
<1>3. /\ UNCHANGED <<node, edge, instance, handle, thread, toAdd>>
      /\ phase = "prepare" /\ phase' = "prepare"
  BY DEF PrepareProcessor, graphVars, planVars
<1>4. /\ shutdown'[q] = "empty" /\ state'[q] = "Idle"
      /\ \A p \in Processors : p # q => shutdown'[p] = shutdown[p] /\ state'[p] = state[p]
  BY <1>2 DEF PrepareProcessor, IInv, TypeOK
<1>5. Range(toAdd) \subseteq Processors
  BY ElementsOf DEF IInv, TypeOK
<1>. HIDE DEF q
<1>. USE <1>2, <1>3, <1>4 DEF IInv
<1>6. \A p \in Processors : ~BeingJoined(p) /\ ~BeingSpawned(p) /\ ~BeingJoined(p)' /\ ~BeingSpawned(p)'
  BY DEF BeingJoined, BeingSpawned
<1>7. UnbornIsBlank' /\ LiveThreadHasNode' /\ LiveThreadHasHandle' /\ LiveThreadHasChannel'
  BY <1>6
     DEF UnbornIsBlank, LiveThreadHasNode, LiveThreadHasHandle, LiveThreadHasChannel, NodeIn
<1>8. PreparedHasChannel'
  BY <1>5, <1>6 DEF PreparedHasChannel, SpawnPhases
<1>9. SentMeansLeaving' /\ EdgeHasEnds' /\ WiredHasInstances' /\ ErrorIsAfterSetup'
  BY <1>6
     DEF SentMeansLeaving, EdgeHasEnds, WiredHasInstances, ErrorIsAfterSetup, NodeIn, EdgeIn
<1>. QED  BY <1>1, <1>7, <1>8, <1>9 DEF Typed

\* A new thread finds the channel PREPARE made for it.
LEMMA SafeSpawn == IInv /\ SpawnThread => IInv'
<1>. SUFFICES ASSUME IInv, SpawnThread PROVE IInv'
  OBVIOUS
<1>1. Typed'
  BY TypedAdding DEF IInv, Typed
<1> DEFINE q == Head(work)
<1>2. q \in Processors /\ q \in Range(toAdd)
  BY WorkHead DEF SpawnThread, IInv, Typed, WorkFitsPhase, ProcessorPhases, SpawnPhases
<1>3. /\ UNCHANGED <<node, edge, nodeVars, toAdd, joining>>
      /\ phase = "spawn"
  BY DEF SpawnThread, graphVars, planVars
<1>4. CASE handle[q]
  <2>1. UNCHANGED <<thread, phase>>
    BY <1>4 DEF SpawnThread
  <2>2. PreparedHasChannel'
    BY <1>3, <2>1 DEF IInv, PreparedHasChannel, SpawnPhases, nodeVars, BeingSpawned
  <2>3. \A p \in Range(toAdd') : node[p] # "unborn"
    BY <1>3, ElementsOf DEF IInv, TypeOK, UnbornIsBlank
  <2>4. UNCHANGED <<graphVars, nodeVars, thread>>
    BY <2>1 DEF SpawnThread
  <2>. QED  BY <1>1, <1>3, <2>1, <2>2, <2>3, <2>4, SafeQuietStep
<1>5. CASE ~handle[q]
  <2>1. /\ NodeIn(q) /\ phase' = "attachHandle" /\ UNCHANGED work
        /\ thread' = [thread EXCEPT ![q] = "started"]
    BY <1>5 DEF SpawnThread
  <2>2. \A p \in Processors :
          /\ BeingSpawned(p)' <=> p = q
          /\ ~BeingJoined(p) /\ ~BeingSpawned(p) /\ ~BeingJoined(p)'
    BY <1>3, <2>1 DEF BeingSpawned, BeingJoined
  <2>3. shutdown[q] = "empty" /\ state[q] # "Error"
    BY <1>2, <1>3, <1>5, <2>2 DEF IInv, PreparedHasChannel, SpawnPhases
  <2>4. thread'[q] = "started" /\ \A p \in Processors : p # q => thread'[p] = thread[p]
    BY <1>2, <2>1 DEF IInv, TypeOK
  <2>5. Range(toAdd) \subseteq Processors
    BY ElementsOf DEF IInv, TypeOK
  <2>. HIDE DEF q
  <2>. USE <1>2, <1>3, <2>2, <2>3, <2>4 DEF IInv, nodeVars
  <2>6. UnbornIsBlank' /\ LiveThreadHasNode' /\ LiveThreadHasHandle' /\ LiveThreadHasChannel'
    BY <2>1
       DEF UnbornIsBlank, LiveThreadHasNode, LiveThreadHasHandle, LiveThreadHasChannel, NodeIn
  <2>7. PreparedHasChannel'
    BY <2>1, <2>5 DEF PreparedHasChannel, SpawnPhases
  <2>8. SentMeansLeaving' /\ EdgeHasEnds' /\ WiredHasInstances'
    BY DEF SentMeansLeaving, EdgeHasEnds, WiredHasInstances, NodeIn, EdgeIn
  <2>9. ErrorIsAfterSetup'
    BY DEF ErrorIsAfterSetup
  <2>. QED  BY <1>1, <2>6, <2>7, <2>8, <2>9 DEF Typed
<1>. QED  BY <1>4, <1>5

LEMMA SafeAttach == IInv /\ AttachHandle => IInv'
<1>. SUFFICES ASSUME IInv, AttachHandle PROVE IInv'
  OBVIOUS
<1>1. Typed'
  BY TypedAdding DEF IInv, Typed
<1> DEFINE q == Head(work)
<1>2. q \in Processors /\ phase = "attachHandle"
  BY WorkHead DEF AttachHandle, IInv, Typed, WorkFitsPhase, ProcessorPhases
<1>3. CASE ~NodeIn(q)
  <2>1. thread[q] \notin Live
    BY <1>2, <1>3 DEF IInv, LiveThreadHasNode
  <2>2. Abort
    BY <1>3 DEF AttachHandle
  <2>. QED  BY <1>2, <2>1, <2>2, SafeAbort
<1>4. CASE NodeIn(q)
  <2>1. /\ UNCHANGED <<node, edge, state, shutdown, instance, thread, toAdd>>
        /\ handle' = [handle EXCEPT ![q] = TRUE]
        /\ phase' = "spawn"
    BY <1>4 DEF AttachHandle, graphVars, threadVars, planVars
  <2>2. handle'[q] /\ \A p \in Processors : p # q => handle'[p] = handle[p]
    BY <1>2, <2>1 DEF IInv, TypeOK
  <2>3. \A p \in Processors :
          /\ BeingSpawned(p) <=> p = q
          /\ ~BeingJoined(p) /\ ~BeingSpawned(p)' /\ ~BeingJoined(p)'
    BY <1>2, <2>1 DEF BeingSpawned, BeingJoined
  <2>4. Range(toAdd) \subseteq Processors
    BY ElementsOf DEF IInv, TypeOK
  <2>. HIDE DEF q
  <2>. USE <1>2, <2>1, <2>2, <2>3 DEF IInv
  <2>5. UnbornIsBlank' /\ LiveThreadHasNode' /\ LiveThreadHasHandle' /\ LiveThreadHasChannel'
    BY DEF UnbornIsBlank, LiveThreadHasNode, LiveThreadHasHandle, LiveThreadHasChannel, NodeIn
  <2>6. PreparedHasChannel'
    BY <2>4 DEF PreparedHasChannel, SpawnPhases
  <2>7. SentMeansLeaving' /\ EdgeHasEnds' /\ WiredHasInstances' /\ ErrorIsAfterSetup'
    BY DEF SentMeansLeaving, EdgeHasEnds, WiredHasInstances, ErrorIsAfterSetup, NodeIn, EdgeIn
  <2>. QED  BY <1>1, <2>5, <2>6, <2>7 DEF Typed
<1>. QED  BY <1>3, <1>4

LEMMA SafeFinishing == IInv /\ (AwaitReady \/ SignalContinue \/ ApplyConfig) => IInv'
<1>. SUFFICES ASSUME IInv, AwaitReady \/ SignalContinue \/ ApplyConfig PROVE IInv'
  OBVIOUS
<1>1. Typed'
  BY TypedAdding, TypedFinishing DEF IInv, Typed
<1>2. /\ UNCHANGED <<graphVars, nodeVars, thread, toAdd, phase>>
      /\ phase \in {"awaitReady", "continue", "config"}
  BY DEF AwaitReady, SignalContinue, ApplyConfig, threadVars, planVars
<1>3. PreparedHasChannel'
  BY <1>2 DEF PreparedHasChannel, SpawnPhases
<1>4. \A p \in Range(toAdd') : node[p] # "unborn"
  BY <1>2, ElementsOf DEF IInv, TypeOK, UnbornIsBlank
<1>. QED  BY <1>1, <1>2, <1>3, <1>4, SafeQuietStep

\* A thread changes only what belongs to its own processor; it comes to life
\* only by being spawned, and reports Error only once setup() has begun.
LEMMA ThreadFrame ==
    ASSUME IInv, NEW p \in Processors, ThreadStep(p) \/ ThreadFailure(p)
    PROVE  /\ UNCHANGED <<node, edge, handle, toAdd, phase, work, joining>>
           /\ thread[p] \in Live
           /\ \A q \in Processors :
                q # p => /\ thread'[q] = thread[q] /\ state'[q] = state[q]
                         /\ shutdown'[q] = shutdown[q] /\ instance'[q] = instance[q]
           /\ shutdown'[p] = shutdown[p] \/ (shutdown[p] = "sent" /\ shutdown'[p] = "taken")
           /\ instance[p] => instance'[p]
           /\ thread'[p] \in {"ready", "setup"} => thread[p] \in {"started", "ready"}
           /\ thread'[p] # "started"
           /\ state'[p] = "Error" =>
                state[p] = "Error" \/ thread'[p] \in {"exited", "teardown", "loopFailed"}
           /\ state[p] = "Error" => state'[p] = "Error" \/ thread[p] = "setup"
<1>1. UNCHANGED <<node, edge, handle, toAdd, phase, work, joining>>
  BY DEF ThreadStep, ThreadFailure, ThreadAttachesInstance, ThreadContinues, RunSetup,
         SetupSucceeds, SetupFails, StartFails, LoopReportsFailure, LoopSeesShutdown,
         ThreadExits, threadFrame, graphVars, planVars, compileVars
<1>. USE DEF IInv, TypeOK, Step
<1>2. CASE ThreadAttachesInstance(p)
  <2>1. NodeIn(p) = TRUE
    BY <1>2 DEF ThreadAttachesInstance, LiveThreadHasNode, Live, NodeIn
  <2>2. instance'[p]
    BY <1>2, <2>1 DEF ThreadAttachesInstance
  <2>. QED  BY <1>1, <1>2, <2>2 DEF ThreadAttachesInstance, Live
<1>3. CASE ThreadContinues(p)
  BY <1>1, <1>3 DEF ThreadContinues, RunSetup, Live
<1>4. CASE SetupSucceeds(p)
  BY <1>1, <1>4 DEF SetupSucceeds, Live
<1>5. CASE SetupFails(p)
  BY <1>1, <1>5 DEF SetupFails, Live
<1>6. CASE StartFails(p)
  BY <1>1, <1>6 DEF StartFails, Live
<1>7. CASE LoopReportsFailure(p)
  BY <1>1, <1>7 DEF LoopReportsFailure, Live
<1>8. CASE LoopSeesShutdown(p)
  BY <1>1, <1>8 DEF LoopSeesShutdown, Live
<1>9. CASE ThreadExits(p)
  BY <1>1, <1>9 DEF ThreadExits, Live
<1>. QED
  BY <1>2, <1>3, <1>4, <1>5, <1>6, <1>7, <1>8, <1>9 DEF ThreadStep, ThreadFailure

LEMMA SafeThread ==
    ASSUME IInv, NEW p \in Processors, ThreadStep(p) \/ ThreadFailure(p)
    PROVE  IInv'
<1>1. Typed'
  BY TypedThread DEF IInv, Typed
<1>a. UNCHANGED <<node, edge, handle, toAdd, phase, work, joining>>
  BY ThreadFrame
<1>b. thread[p] \in Live
  BY ThreadFrame
<1>c. \A q \in Processors :
        q # p => /\ thread'[q] = thread[q] /\ state'[q] = state[q]
                 /\ shutdown'[q] = shutdown[q] /\ instance'[q] = instance[q]
  BY ThreadFrame
<1>d. shutdown'[p] = shutdown[p] \/ (shutdown[p] = "sent" /\ shutdown'[p] = "taken")
  BY ThreadFrame
<1>e. instance[p] => instance'[p]
  BY ThreadFrame
<1>f. /\ thread'[p] \in {"ready", "setup"} => thread[p] \in {"started", "ready"}
      /\ thread'[p] # "started"
      /\ state'[p] = "Error" =>
           state[p] = "Error" \/ thread'[p] \in {"exited", "teardown", "loopFailed"}
  BY ThreadFrame
<1>. USE DEF IInv
<1>2. UnbornIsBlank' /\ LiveThreadHasNode'
  <2>1. NodeIn(p)
    BY <1>b DEF LiveThreadHasNode
  <2>. QED  BY <1>a, <1>c, <2>1 DEF UnbornIsBlank, LiveThreadHasNode, NodeIn
<1>3. LiveThreadHasHandle'
  BY <1>a, <1>b, <1>c DEF LiveThreadHasHandle, BeingJoined, BeingSpawned
<1>4. LiveThreadHasChannel'
  BY <1>a, <1>b, <1>c, <1>d DEF LiveThreadHasChannel, BeingJoined
<1>5. PreparedHasChannel'
  <2>1. Range(toAdd) \subseteq Processors
    BY ElementsOf DEF TypeOK
  <2>2. phase \in {"prepare", "spawn", "attachHandle"} =>
          /\ shutdown[p] = "empty"
          /\ handle[p] \/ BeingSpawned(p)
    BY <1>b DEF LiveThreadHasChannel, LiveThreadHasHandle, BeingJoined
  <2>3. SUFFICES ASSUME NEW q \in Range(toAdd),
                        (phase = "prepare" /\ q \notin Range(work)) \/ phase \in SpawnPhases
                 PROVE  /\ shutdown'[q] = "empty"
                        /\ state'[q] = "Error" => handle[q] \/ BeingSpawned(q)
    BY <1>a DEF PreparedHasChannel, BeingSpawned
  <2>4. CASE q = p
    BY <1>d, <2>2, <2>3, <2>4 DEF SpawnPhases
  <2>5. CASE q # p
    BY <1>c, <2>1, <2>3, <2>5 DEF PreparedHasChannel
  <2>. QED  BY <2>4, <2>5
<1>6. SentMeansLeaving'
  BY <1>a, <1>c, <1>d DEF SentMeansLeaving, NodeIn, BeingJoined
<1>7. EdgeHasEnds' /\ WiredHasInstances'
  <2>1. \A q \in Processors : instance[q] => instance'[q]
    BY <1>c, <1>e
  <2>. QED
    BY <1>a, <2>1, GraphAssumption DEF EdgeHasEnds, WiredHasInstances, NodeIn, EdgeIn
<1>8. ErrorIsAfterSetup'
  BY <1>c, <1>f DEF ErrorIsAfterSetup
<1>. QED  BY <1>1, <1>2, <1>3, <1>4, <1>5, <1>6, <1>7, <1>8 DEF Typed

LEMMA SafeStep == IInv /\ [Next]_vars => IInv'
<1>. SUFFICES ASSUME IInv, [Next]_vars PROVE IInv'
  OBVIOUS
<1>1. CASE Edit
  BY <1>1, SafeEdit
<1>2. ASSUME NEW c \in Callers, RequestCommit(c) \/ TakeBatch(c) PROVE IInv'
  BY <1>2, SafeCaller
<1>3. CASE CompileStep
  <2>1. CASE PrepareFindsNoNode \/ SpawnFails \/ WireFails \/ ConfigFails
    <3>1. phase \notin {"join", "attachHandle"}
      BY <2>1 DEF PrepareFindsNoNode, SpawnFails, WireFails, ConfigFails
    <3>. QED  BY <2>1, <3>1, FailureIsAbort, SafeAbort
  <2>. QED
    BY <1>3, <2>1, SafePlanning, SafeLinkStep, SafeSignal, SafeForget, SafePrepare, SafeSpawn,
       SafeAttach, SafeFinishing DEF CompileStep
<1>4. ASSUME NEW p \in Processors, ThreadStep(p) \/ ThreadFailure(p) PROVE IInv'
  BY <1>4, SafeThread
<1>5. CASE UNCHANGED vars
  BY <1>5
     DEF vars, graphVars, nodeVars, threadVars, planVars, compileVars, callerVars, IInv, TypeOK,
         WorkFitsPhase, UnbornIsBlank, LiveThreadHasNode, LiveThreadHasHandle,
         LiveThreadHasChannel, PreparedHasChannel, SentMeansLeaving, EdgeHasEnds,
         WiredHasInstances, ErrorIsAfterSetup, NodeIn, EdgeIn, BeingJoined, BeingSpawned
<1>. QED  BY <1>1, <1>2, <1>3, <1>4, <1>5 DEF Next

LEMMA Invariance == Safety => []IInv
  BY SafeInit, SafeStep, PTL DEF Safety

\* compile() drops a node only after the thread on it has been joined, whatever
\* edits, commits and failures came in between: no processor thread is left
\* running without its node, for any graph and any number of callers.
THEOREM NoOrphan == Safety => []NoOrphanThread
<1>1. IInv => NoOrphanThread
  BY DEF IInv, LiveThreadHasNode, NoOrphanThread, NodeIn
<1>. QED  BY <1>1, Invariance, PTL

\* Between commits a live thread always has the handle and the unused shutdown
\* channel that a later removal needs, also after a commit that aborted with
\* its threads half started.
THEOREM LiveThreadsCanBeStopped == Safety => []EveryLiveThreadCanBeStopped
<1>1. IInv => EveryLiveThreadCanBeStopped
  BY DEF IInv, LiveThreadHasNode, LiveThreadHasHandle, LiveThreadHasChannel,
         EveryLiveThreadCanBeStopped, BeingJoined, BeingSpawned
<1>. QED  BY <1>1, Invariance, PTL

\* signal_shutdown(), which sends while the graph lock is held, never finds its
\* one-place channel full.
THEOREM SendNeverBlocks == Safety => []ShutdownSendNeverBlocks
<1>1. IInv => ShutdownSendNeverBlocks
  <2>. SUFFICES ASSUME IInv, phase = "signal", work # <<>>, NodeIn(Head(work))
                PROVE  shutdown[Head(work)] # "sent"
    BY DEF ShutdownSendNeverBlocks
  <2>1. Head(work) \in Processors
    BY WorkHead DEF IInv, Typed, ProcessorPhases
  <2>. QED  BY <2>1 DEF IInv, SentMeansLeaving, BeingJoined
<1>. QED  BY <1>1, Invariance, PTL

\* A link shown Wired has a node and an instance at both ends: WIRE demands the
\* instances, and a node that leaves takes its links along.
THEOREM WiredLinks == Safety => []WiredLinkHasBothEnds
<1>1. IInv => WiredLinkHasBothEnds
  BY GraphAssumption
     DEF IInv, EdgeHasEnds, WiredHasInstances, WiredLinkHasBothEnds, EdgeIn
<1>. QED  BY <1>1, Invariance, PTL

\* A thread never replaces the Error its processor reported by another state:
\* an Error is reported at the end of setup() or later, and from there on the
\* thread only stores transition_to_unless_already_failed.
THEOREM ErrorIsKept == Safety => ThreadKeepsError
<1> DEFINE Kept == \A p \in Processors :
             thread'[p] # thread[p] /\ state[p] = "Error" => state'[p] = "Error"
<1>1. IInv /\ [Next]_vars => [Kept]_vars
  <2>. SUFFICES ASSUME IInv, Next, NEW q \in Processors,
                       thread'[q] # thread[q], state[q] = "Error"
                PROVE  state'[q] = "Error"
    OBVIOUS
  <2>1. CASE Edit
    BY <2>1, EditFrame
  <2>2. CASE \E c \in Callers : RequestCommit(c) \/ TakeBatch(c)
    BY <2>2 DEF RequestCommit, TakeBatch, threadVars
  <2>3. CASE CompileStep
    <3>1. UNCHANGED thread \/ SpawnThread
      BY <2>3
         DEF CompileStep, Categorize, BeginReconcile, DropLinkAddsIntoRemovedProcessors,
             AdvancePhase, ReturnOk, UnwireLink, DropEdge, SignalShutdown, removalFrame,
             JoinAndForget, Forget, PrepareProcessor, PrepareFindsNoNode, SpawnFails,
             AttachHandle, AwaitReady, WireLink, WireHead, WireFails, SignalContinue,
             ApplyConfig, ConfigFails, Abort, threadVars
    <3>. QED  BY <3>1 DEF SpawnThread, nodeVars
  <2>4. ASSUME NEW p \in Processors, ThreadStep(p) \/ ThreadFailure(p)
        PROVE  state'[q] = "Error"
    BY <2>4, ThreadFrame DEF IInv, ErrorIsAfterSetup
  <2>. QED  BY <2>1, <2>2, <2>3, <2>4 DEF Next
<1>. QED  BY <1>1, Invariance, PTL DEF Safety, ThreadKeepsError
=============================================================================
