---------------------------- MODULE GraphCompiler ----------------------------
(***************************************************************************)
(* The graph, its transaction log, the compiler that turns logged changes  *)
(* into running processors, and the threads those processors run on.       *)
(*                                                                         *)
(* Any thread may edit the graph at any time under the graph's write lock: *)
(* an edit changes the graph and logs a PendingOperation.  Any thread may  *)
(* call commit(); the mutex one_commit_at_a_time admits one at a time.  A  *)
(* commit takes the whole log, sorts it into a plan, and walks the plan:   *)
(* unlink, remove, PREPARE, SPAWN, wait READY, WIRE, CONTINUE, configs.    *)
(* It gives the graph lock up between any two elements of a list, so edits *)
(* and processor threads interleave with it everywhere.  Every `?` of      *)
(* Compiler::compile is an Abort: the rest of the plan is discarded.       *)
(***************************************************************************)
EXTENDS Naturals, Sequences, FiniteSets, Functions

CONSTANTS
    Processors,     \* processor ids; an id is given to one node, ever
    Links,          \* link ids; an id is given to one edge, ever
    Source, Target, \* the processors a link leaves and enters
    Callers,        \* threads that may call Compiler::commit
    NoCaller,
    MaxEdits        \* bound: edits made to the graph in one behaviour

ASSUME GraphAssumption ==
    /\ IsFiniteSet(Processors) /\ IsFiniteSet(Links)
    /\ Processors \cap Links = {}
    /\ Source \in [Links -> Processors]
    /\ Target \in [Links -> Processors]

ASSUME CallerAssumption == NoCaller \notin Callers

ASSUME MaxEditsAssumption == MaxEdits \in Nat

VARIABLES
    \* the graph
    node,           \* is the processor's node not added yet, in, or removed
    edge,           \* the same for a link, with its LinkState while it is in
    marked,         \* ids carrying a PendingDeletionComponent
    edits,          \* how many edits were made, for the bound
    \* the components of a node
    state,          \* StateComponent
    gate,           \* ProcessorPauseGateComponent
    shutdown,       \* ShutdownChannelComponent: the one-place channel
    instance,       \* ProcessorInstanceComponent attached
    handle,         \* ThreadHandleComponent attached
    \* the processor's thread and the compiler's end of its barrier
    thread,
    cont,           \* has CONTINUE been sent, or its sender dropped
    \* the compiler
    txn,            \* the transaction: operations logged, not yet taken
    phase,          \* where compile() is; "idle" when no commit runs
    batch,          \* operations taken and not yet categorized
    toAdd, toRemove, linksToAdd, linksToRemove, configs, \* CompilationPlan
    work,           \* what the current phase has still to visit
    joining,        \* a thread handle was extracted and must be joined
    \* the callers of commit()
    waiting,        \* blocked on one_commit_at_a_time
    committer       \* the one holding it

graphVars == <<node, edge, marked, edits>>
nodeVars == <<state, gate, shutdown, instance, handle>>
threadVars == <<thread, cont>>
planVars == <<toAdd, toRemove, linksToAdd, linksToRemove, configs>>
compileVars == <<phase, batch, work, joining>>
callerVars == <<waiting, committer>>
vars == <<graphVars, nodeVars, threadVars, txn, planVars, compileVars, callerVars>>

ProcessorState ==
    {"Pending", "Idle", "Running", "Paused", "Stopping", "Stopped", "Error"}

\* "started": spawned, instance not attached.  "ready": READY sent, blocked on
\* CONTINUE.  "loopFailed": still in its loop, having reported a failure.
ThreadState ==
    {"none", "started", "ready", "setup", "loop", "loopFailed", "teardown", "exited"}

Phase ==
    {"idle", "categorize", "reconcile", "unlink", "dropEdge", "signal", "join",
     "prepare", "spawn", "attachHandle", "awaitReady", "wire", "continue", "config"}

PendingOperation ==
    [op : {"AddProcessor", "RemoveProcessor", "UpdateProcessorConfig"}, id : Processors]
    \cup [op : {"AddLink", "RemoveLink"}, id : Links]

Op(kind, x) == [op |-> kind, id |-> x]

\* The orders in which a query of the graph may return the elements of S.
Orders(S) == Injection(1..Cardinality(S), S) \cap Seq(S)

Live == {"started", "ready", "setup", "loop", "loopFailed", "teardown"}

NodeIn(p) == node[p] = "in"
EdgeIn(l) == edge[l] \in {"Pending", "Wired", "Disconnected"}
Inbound(p) == {l \in Links : EdgeIn(l) /\ Target[l] = p}
Outbound(p) == {l \in Links : EdgeIn(l) /\ Source[l] = p}

TypeOK ==
    /\ node \in [Processors -> {"unborn", "in", "removed"}]
    /\ edge \in [Links -> {"unborn", "Pending", "Wired", "Disconnected", "removed"}]
    /\ marked \subseteq Processors \cup Links
    /\ edits \in 0..MaxEdits
    /\ state \in [Processors -> ProcessorState]
    /\ gate \in [Processors -> {"none", "open", "paused"}]
    /\ shutdown \in [Processors -> {"none", "empty", "sent", "taken"}]
    /\ instance \in [Processors -> BOOLEAN]
    /\ handle \in [Processors -> BOOLEAN]
    /\ thread \in [Processors -> ThreadState]
    /\ cont \in [Processors -> {"none", "sent", "dropped"}]
    /\ txn \in Seq(PendingOperation)
    /\ phase \in Phase
    /\ batch \in Seq(PendingOperation)
    /\ toAdd \in Seq(Processors)
    /\ toRemove \in Seq(Processors)
    /\ linksToAdd \in Seq(Links)
    /\ linksToRemove \in Seq(Links)
    /\ configs \in Seq(Processors)
    /\ work \in Seq(Processors) \cup Seq(Links)
    /\ joining \in BOOLEAN
    /\ waiting \subseteq Callers
    /\ committer \in Callers \cup {NoCaller}

Init ==
    /\ node = [p \in Processors |-> "unborn"]
    /\ edge = [l \in Links |-> "unborn"]
    /\ marked = {}
    /\ edits = 0
    /\ state = [p \in Processors |-> "Pending"]
    /\ gate = [p \in Processors |-> "none"]
    /\ shutdown = [p \in Processors |-> "none"]
    /\ instance = [p \in Processors |-> FALSE]
    /\ handle = [p \in Processors |-> FALSE]
    /\ thread = [p \in Processors |-> "none"]
    /\ cont = [p \in Processors |-> "none"]
    /\ txn = <<>>
    /\ phase = "idle"
    /\ batch = <<>>
    /\ toAdd = <<>> /\ toRemove = <<>>
    /\ linksToAdd = <<>> /\ linksToRemove = <<>> /\ configs = <<>>
    /\ work = <<>>
    /\ joining = FALSE
    /\ waiting = {}
    /\ committer = NoCaller

-----------------------------------------------------------------------------
(***************************************************************************)
(* Edits.  Each is one Compiler::scope: one hold of the graph write lock.  *)
(***************************************************************************)

CountEdit ==
    /\ edits < MaxEdits
    /\ edits' = edits + 1

Log(ops) ==
    /\ CountEdit
    /\ txn' = txn \o ops
    /\ UNCHANGED <<threadVars, planVars, compileVars, callerVars>>

AddProcessor(p) ==
    /\ node[p] = "unborn"
    /\ Log(<<Op("AddProcessor", p)>>)
    /\ node' = [node EXCEPT ![p] = "in"]
    /\ UNCHANGED <<edge, marked, nodeVars>>

\* The registry does not know the type: the node stays visible, in Error, and
\* nothing is logged for it.
AddUnregisteredProcessor(p) ==
    /\ node[p] = "unborn"
    /\ node' = [node EXCEPT ![p] = "in"]
    /\ state' = [state EXCEPT ![p] = "Error"]
    /\ CountEdit
    /\ UNCHANGED <<edge, marked, gate, shutdown, instance, handle, threadVars,
                   txn, planVars, compileVars, callerVars>>

\* Every incident link is marked and logged ahead of the node itself.
RemoveProcessor(p) ==
    /\ NodeIn(p)
    /\ \E ins \in Orders(Inbound(p)), outs \in Orders(Outbound(p)) :
         LET links == ins \o outs IN
         Log([i \in 1..Len(links) |-> Op("RemoveLink", links[i])]
             \o <<Op("RemoveProcessor", p)>>)
    /\ marked' = marked \cup {p} \cup Inbound(p) \cup Outbound(p)
    /\ UNCHANGED <<node, edge, nodeVars>>

Connect(l) ==
    /\ edge[l] = "unborn"
    /\ NodeIn(Source[l]) /\ NodeIn(Target[l])
    /\ Log(<<Op("AddLink", l)>>)
    /\ edge' = [edge EXCEPT ![l] = "Pending"]
    /\ UNCHANGED <<node, marked, nodeVars>>

Disconnect(l) ==
    /\ EdgeIn(l)
    /\ Log(<<Op("RemoveLink", l)>>)
    /\ marked' = marked \cup {l}
    /\ UNCHANGED <<node, edge, nodeVars>>

\* Logged whether or not the node is still there.
UpdateProcessorConfig(p) ==
    /\ node[p] # "unborn"
    /\ Log(<<Op("UpdateProcessorConfig", p)>>)
    /\ UNCHANGED <<node, edge, marked, nodeVars>>

SetGate(p, from, to, shown) ==
    /\ NodeIn(p) /\ gate[p] = from
    /\ gate' = [gate EXCEPT ![p] = to]
    /\ state' = [state EXCEPT ![p] = shown]
    /\ CountEdit
    /\ UNCHANGED <<node, edge, marked, shutdown, instance, handle, threadVars,
                   txn, planVars, compileVars, callerVars>>

PauseProcessor(p) == SetGate(p, "open", "paused", "Paused")

ResumeProcessor(p) == SetGate(p, "paused", "open", "Running")

\* The scope of Runner::stop: every node is logged for removal, none is marked.
QueueRemovalOfEveryProcessor ==
    /\ \E ps \in Orders({p \in Processors : NodeIn(p)}) :
         Log([i \in 1..Len(ps) |-> Op("RemoveProcessor", ps[i])])
    /\ UNCHANGED <<node, edge, marked, nodeVars>>

-----------------------------------------------------------------------------
(***************************************************************************)
(* Compiler::commit and Compiler::compile.                                 *)
(***************************************************************************)

RequestCommit(c) ==
    /\ c \notin waiting /\ committer # c
    /\ waiting' = waiting \cup {c}
    /\ UNCHANGED <<graphVars, nodeVars, threadVars, txn, planVars, compileVars,
                   committer>>

\* With a bug: the log is looked at before the gate is taken.
TakeBatchPeeking(c) ==
    /\ c \in waiting /\ (phase = "idle" \/ txn = <<>>)
    /\ waiting' = waiting \ {c}
    /\ \/ /\ txn = <<>>
          /\ UNCHANGED <<txn, phase, batch, committer>>
       \/ /\ txn # <<>>
          /\ txn' = <<>> /\ batch' = txn
          /\ phase' = "categorize"
          /\ committer' = c
    /\ UNCHANGED <<graphVars, nodeVars, threadVars, planVars, work, joining>>

\* The gate is taken and the whole log with it; an empty log is an Ok at once.
TakeBatch(c) ==
    /\ c \in waiting /\ phase = "idle"
    /\ waiting' = waiting \ {c}
    /\ \/ /\ txn = <<>>
          /\ UNCHANGED <<txn, phase, batch, committer>>
       \/ /\ txn # <<>>
          /\ txn' = <<>> /\ batch' = txn
          /\ phase' = "categorize"
          /\ committer' = c
    /\ UNCHANGED <<graphVars, nodeVars, threadVars, planVars, work, joining>>

\* The commit returns; a compile that is over has forgotten its plan.
Return ==
    /\ phase' = "idle"
    /\ batch' = <<>>
    /\ toAdd' = <<>> /\ toRemove' = <<>> /\ configs' = <<>>
    /\ linksToAdd' = <<>> /\ linksToRemove' = <<>>
    /\ work' = <<>>
    /\ committer' = NoCaller
    /\ UNCHANGED <<txn, joining, waiting>>

\* A `?` returned: the barrier handles go with the stack frame, so a thread
\* blocked on a CONTINUE that was not sent stops waiting for it.
Abort ==
    /\ Return
    /\ cont' = [p \in Processors |->
                  IF p \in Range(toAdd) /\ cont[p] = "none" THEN "dropped" ELSE cont[p]]
    /\ UNCHANGED <<graphVars, nodeVars, thread>>

AddIsDue(o) ==
    /\ o.op = "AddProcessor"
    /\ o.id \notin marked /\ NodeIn(o.id) /\ ~instance[o.id]

WiringIsDue(o) ==
    /\ o.op = "AddLink"
    /\ o.id \notin marked /\ EdgeIn(o.id) /\ edge[o.id] # "Wired"

Append1(s, due, x) == IF due THEN Append(s, x) ELSE s

\* One operation of the batch is read against the graph and sorted.
Categorize ==
    /\ phase = "categorize" /\ batch # <<>>
    /\ LET o == Head(batch) IN
         /\ toAdd' = Append1(toAdd, AddIsDue(o), o.id)
         /\ toRemove' = Append1(toRemove, o.op = "RemoveProcessor", o.id)
         /\ linksToAdd' = Append1(linksToAdd, WiringIsDue(o), o.id)
         /\ linksToRemove' = Append1(linksToRemove, o.op = "RemoveLink", o.id)
         /\ configs' = Append1(configs, o.op = "UpdateProcessorConfig", o.id)
    /\ batch' = Tail(batch)
    /\ UNCHANGED <<graphVars, nodeVars, threadVars, txn, phase, work, joining, callerVars>>

BeginReconcile ==
    /\ phase = "categorize" /\ batch = <<>>
    /\ phase' = "reconcile"
    /\ work' = linksToAdd /\ linksToAdd' = <<>>
    /\ UNCHANGED <<graphVars, nodeVars, threadVars, txn, toAdd, toRemove,
                   linksToRemove, configs, batch, joining, callerVars>>

\* With a bug: the plan is not reconciled with its own removals.
KeepsAnyLink(l) == TRUE

\* A link survives unless this batch removes one of its endpoints.
KeepsEndpoints(l) ==
    toRemove # <<>> => /\ EdgeIn(l)
                       /\ {Source[l], Target[l]} \cap Range(toRemove) = {}

DropLinkAddsIntoRemovedProcessors ==
    /\ phase = "reconcile" /\ work # <<>>
    /\ linksToAdd' = Append1(linksToAdd, KeepsEndpoints(Head(work)), Head(work))
    /\ work' = Tail(work)
    /\ UNCHANGED <<graphVars, nodeVars, threadVars, txn, toAdd, toRemove,
                   linksToRemove, configs, phase, batch, joining, callerVars>>

PlanIsEmpty ==
    /\ toAdd = <<>> /\ toRemove = <<>> /\ linksToAdd = <<>>
    /\ linksToRemove = <<>> /\ configs = <<>>

\* The phases in order, each with the list it walks.
Following ==
    [reconcile |-> "unlink", unlink |-> "signal", signal |-> "prepare",
     prepare |-> "spawn", spawn |-> "awaitReady", awaitReady |-> "wire",
     wire |-> "continue", continue |-> "config"]

WorkOf(ph) ==
    CASE ph = "unlink" -> linksToRemove
      [] ph = "signal" -> toRemove
      [] ph \in {"prepare", "spawn", "awaitReady", "continue"} -> toAdd
      [] ph = "wire" -> linksToAdd
      [] ph = "config" -> configs

AdvancePhase ==
    /\ phase \in DOMAIN Following /\ work = <<>>
    /\ ~(phase = "reconcile" /\ PlanIsEmpty)
    /\ phase' = Following[phase]
    /\ work' = WorkOf(phase')
    /\ UNCHANGED <<graphVars, nodeVars, threadVars, txn, planVars, batch, joining, callerVars>>

\* Nothing to compile, or everything compiled.
ReturnOk ==
    /\ work = <<>>
    /\ (phase = "reconcile" /\ PlanIsEmpty) \/ phase = "config"
    /\ Return
    /\ UNCHANGED <<graphVars, nodeVars, threadVars>>

Visited == work' = Tail(work)

\* close_iceoryx2_service, under one hold of the lock ...
UnwireLink ==
    /\ phase = "unlink" /\ work # <<>>
    /\ LET l == Head(work) IN
         edge' = IF EdgeIn(l) THEN [edge EXCEPT ![l] = "Disconnected"] ELSE edge
    /\ phase' = "dropEdge"
    /\ UNCHANGED <<node, marked, edits, nodeVars, threadVars, txn, planVars, batch,
                   work, joining, callerVars>>

\* ... and the edge dropped under the next.
DropEdge ==
    /\ phase = "dropEdge"
    /\ LET l == Head(work) IN
         edge' = IF EdgeIn(l) THEN [edge EXCEPT ![l] = "removed"] ELSE edge
    /\ phase' = "unlink" /\ Visited
    /\ UNCHANGED <<node, marked, edits, nodeVars, threadVars, txn, planVars, batch,
                   joining, callerVars>>

BeginRemoval(p, signalled) ==
    /\ shutdown[p] # "sent"     \* a second send would block
    /\ state' = [state EXCEPT ![p] = "Stopping"]
    /\ shutdown' = [shutdown EXCEPT ![p] = signalled]
    /\ joining' = handle[p]
    /\ handle' = [handle EXCEPT ![p] = FALSE]

removalFrame == <<graphVars, gate, instance, threadVars, txn, planVars, batch, work, callerVars>>

\* With a bug: the shutdown signal is not sent.
SignalNothing ==
    /\ phase = "signal" /\ work # <<>>
    /\ phase' = "join"
    /\ NodeIn(Head(work)) /\ BeginRemoval(Head(work), shutdown[Head(work)])
    /\ UNCHANGED removalFrame

\* Phase 1 of a removal: state, shutdown signal and thread handle, in one hold.
SignalShutdown ==
    /\ phase = "signal" /\ work # <<>>
    /\ phase' = "join"
    /\ LET p == Head(work) IN
         \/ /\ NodeIn(p)
            /\ BeginRemoval(p, IF shutdown[p] = "empty" THEN "sent" ELSE shutdown[p])
         \/ /\ ~NodeIn(p)
            /\ joining' = FALSE
            /\ UNCHANGED <<state, shutdown, handle>>
    /\ UNCHANGED removalFrame

\* The node leaves the graph and petgraph takes its edges with it.
Forget(p) ==
    /\ phase = "join"
    /\ state' = IF NodeIn(p) THEN [state EXCEPT ![p] = "Stopped"] ELSE state
    /\ node' = IF NodeIn(p) THEN [node EXCEPT ![p] = "removed"] ELSE node
    /\ edge' = [l \in Links |-> IF EdgeIn(l) /\ p \in {Source[l], Target[l]}
                                THEN "removed" ELSE edge[l]]
    /\ joining' = FALSE
    /\ phase' = "signal" /\ Visited
    /\ UNCHANGED <<marked, edits, gate, shutdown, instance, handle, threadVars,
                   txn, planVars, batch, callerVars>>

\* With a bug: the thread is not joined.
ForgetWithoutJoin == Forget(Head(work))

\* With a bug: the node is left in the graph.
JoinAndKeepNode ==
    /\ phase = "join"
    /\ joining => thread[Head(work)] = "exited"
    /\ joining' = FALSE
    /\ phase' = "signal" /\ Visited
    /\ UNCHANGED <<graphVars, nodeVars, threadVars, txn, planVars, batch, callerVars>>

\* With a bug: a processor that has no shutdown channel yet is skipped.
JoinSkippingUnprepared ==
    /\ phase = "join"
    /\ IF NodeIn(Head(work)) /\ shutdown[Head(work)] = "none"
       THEN /\ joining' = FALSE
            /\ phase' = "signal" /\ Visited
            /\ UNCHANGED <<graphVars, nodeVars, threadVars, txn, planVars, batch,
                           callerVars>>
       ELSE /\ joining => thread[Head(work)] = "exited"
            /\ Forget(Head(work))

\* Phases 2 and 3: the thread is joined with no lock held, then the node goes.
JoinAndForget ==
    /\ joining => thread[Head(work)] = "exited"
    /\ Forget(Head(work))

\* PREPARE: barrier, shutdown channel and pause gate are attached afresh.
PrepareProcessor ==
    /\ phase = "prepare" /\ work # <<>> /\ NodeIn(Head(work))
    /\ LET p == Head(work) IN
         /\ cont' = [cont EXCEPT ![p] = "none"]
         /\ shutdown' = [shutdown EXCEPT ![p] = "empty"]
         /\ gate' = [gate EXCEPT ![p] = "open"]
         /\ state' = [state EXCEPT ![p] = "Idle"]
    /\ Visited
    /\ UNCHANGED <<graphVars, instance, handle, thread, txn, planVars, phase,
                   batch, joining, callerVars>>

PrepareFindsNoNode ==
    /\ phase = "prepare" /\ work # <<>> /\ ~NodeIn(Head(work))
    /\ Abort

\* SPAWN starts the thread, unless one has a handle already; the new thread's
\* handle is attached under a later hold.
SpawnThread ==
    /\ phase = "spawn" /\ work # <<>>
    /\ LET p == Head(work) IN
         IF handle[p]
         THEN Visited /\ UNCHANGED <<thread, phase>>
         ELSE /\ NodeIn(p)
              /\ thread' = [thread EXCEPT ![p] = "started"]
              /\ phase' = "attachHandle"
              /\ UNCHANGED work
    /\ UNCHANGED <<graphVars, nodeVars, cont, txn, planVars, batch, joining, callerVars>>

\* The factory refuses to create the instance, or no thread can be spawned.
SpawnFails ==
    /\ phase = "spawn" /\ work # <<>> /\ ~handle[Head(work)]
    /\ Abort

\* With a bug: the handle is let go, which detaches the thread.
AttachNoHandle ==
    /\ phase = "attachHandle"
    /\ phase' = "spawn" /\ Visited
    /\ UNCHANGED <<graphVars, nodeVars, threadVars, txn, planVars, batch, joining, callerVars>>

AttachHandle ==
    /\ phase = "attachHandle"
    /\ IF NodeIn(Head(work))
       THEN /\ handle' = [handle EXCEPT ![Head(work)] = TRUE]
            /\ phase' = "spawn" /\ Visited
            /\ UNCHANGED <<graphVars, state, gate, shutdown, instance, threadVars,
                           txn, planVars, batch, joining, callerVars>>
       ELSE Abort

\* With a bug: READY is not waited for.
AwaitNothing ==
    /\ phase = "awaitReady" /\ work # <<>>
    /\ Visited
    /\ UNCHANGED <<graphVars, nodeVars, threadVars, txn, planVars, phase, batch,
                   joining, callerVars>>

AwaitReady ==
    /\ phase = "awaitReady" /\ work # <<>>
    /\ thread[Head(work)] \notin {"none", "started"}
    /\ Visited
    /\ UNCHANGED <<graphVars, nodeVars, threadVars, txn, planVars, phase, batch,
                   joining, callerVars>>

WireHead ==
    /\ phase = "wire" /\ work # <<>>
    /\ edge' = [edge EXCEPT ![Head(work)] = "Wired"]
    /\ Visited
    /\ UNCHANGED <<node, marked, edits, nodeVars, threadVars, txn, planVars,
                   phase, batch, joining, callerVars>>

\* With a bug: an endpoint without an instance is wired all the same.
WireWhateverIsThere == WireHead

\* WIRE needs the edge and an instance at both ends of it.
WireLink ==
    /\ WireHead
    /\ EdgeIn(Head(work))
    /\ instance[Source[Head(work)]] /\ instance[Target[Head(work)]]

\* The edge or an endpoint's instance is missing, or a service does not open.
WireFails ==
    /\ phase = "wire" /\ work # <<>>
    /\ Abort

SignalContinue ==
    /\ phase = "continue" /\ work # <<>>
    /\ cont' = [cont EXCEPT ![Head(work)] = "sent"]
    /\ Visited
    /\ UNCHANGED <<graphVars, nodeVars, thread, txn, planVars, phase, batch,
                   joining, callerVars>>

\* A config reaches the instance; a node that has gone is passed over.
ApplyConfig ==
    /\ phase = "config" /\ work # <<>>
    /\ NodeIn(Head(work)) => instance[Head(work)]
    /\ Visited
    /\ UNCHANGED <<graphVars, nodeVars, threadVars, txn, planVars, phase, batch,
                   joining, callerVars>>

\* No instance to hand the config to, or the instance refuses it.
ConfigFails ==
    /\ phase = "config" /\ work # <<>> /\ NodeIn(Head(work))
    /\ Abort

-----------------------------------------------------------------------------
(***************************************************************************)
(* The processor's dedicated thread.                                       *)
(***************************************************************************)

threadFrame == <<graphVars, gate, handle, cont, txn, planVars, compileVars, callerVars>>

Step(p, from, to) ==
    /\ thread[p] = from
    /\ thread' = [thread EXCEPT ![p] = to]

\* The instance is attached to the node and READY sent.
ThreadAttachesInstance(p) ==
    /\ Step(p, "started", "ready")
    /\ instance' = [instance EXCEPT ![p] = NodeIn(p)]
    /\ UNCHANGED <<state, shutdown, threadFrame>>

RunSetup(p) ==
    /\ Step(p, "ready", IF NodeIn(p) THEN "setup" ELSE "exited")
    /\ UNCHANGED <<state, shutdown, instance, threadFrame>>

\* With a bug: the thread does not wait for CONTINUE.
ThreadDoesNotWait(p) == RunSetup(p)

\* wait_for_continue returns on CONTINUE and on a dropped sender alike.  The
\* thread then looks its node up, and gives up if the node has gone.
ThreadContinues(p) == cont[p] # "none" /\ RunSetup(p)

SetupSucceeds(p) ==
    /\ Step(p, "setup", "loop")
    /\ state' = [state EXCEPT ![p] = "Running"]
    /\ UNCHANGED <<shutdown, instance, threadFrame>>

\* The thread returns from a failed setup without running teardown.
SetupFails(p) ==
    /\ Step(p, "setup", "exited")
    /\ state' = [state EXCEPT ![p] = "Error"]
    /\ UNCHANGED <<shutdown, instance, threadFrame>>

\* A manual processor whose start() fails goes straight to teardown.
StartFails(p) ==
    /\ Step(p, "loop", "teardown")
    /\ state' = [state EXCEPT ![p] = "Error"]
    /\ UNCHANGED <<shutdown, instance, threadFrame>>

\* A manual processor that failed reports it once and stays in its loop.
LoopReportsFailure(p) ==
    /\ Step(p, "loop", "loopFailed")
    /\ state' = [state EXCEPT ![p] = "Error"]
    /\ UNCHANGED <<shutdown, instance, threadFrame>>

LoopSeesShutdown(p) ==
    /\ shutdown[p] = "sent"
    /\ \E from \in {"loop", "loopFailed"} : Step(p, from, "teardown")
    /\ shutdown' = [shutdown EXCEPT ![p] = "taken"]
    /\ UNCHANGED <<state, instance, threadFrame>>

\* With a bug: the state the thread unwinds into is stored whatever it was.
ThreadExitsAsStopped(p) ==
    /\ Step(p, "teardown", "exited")
    /\ state' = [state EXCEPT ![p] = "Stopped"]
    /\ UNCHANGED <<shutdown, instance, threadFrame>>

\* teardown(), then transition_to_unless_already_failed(Stopped).
ThreadExits(p) ==
    /\ Step(p, "teardown", "exited")
    /\ state' = [state EXCEPT ![p] = IF @ = "Error" THEN "Error" ELSE "Stopped"]
    /\ UNCHANGED <<shutdown, instance, threadFrame>>

-----------------------------------------------------------------------------
Edit ==
    \/ \E p \in Processors :
         \/ AddProcessor(p) \/ AddUnregisteredProcessor(p) \/ RemoveProcessor(p)
         \/ UpdateProcessorConfig(p) \/ PauseProcessor(p) \/ ResumeProcessor(p)
    \/ \E l \in Links : Connect(l) \/ Disconnect(l)
    \/ QueueRemovalOfEveryProcessor

CompileStep ==
    \/ Categorize \/ BeginReconcile \/ DropLinkAddsIntoRemovedProcessors
    \/ AdvancePhase \/ ReturnOk
    \/ UnwireLink \/ DropEdge
    \/ SignalShutdown \/ JoinAndForget
    \/ PrepareProcessor \/ PrepareFindsNoNode
    \/ SpawnThread \/ SpawnFails \/ AttachHandle \/ AwaitReady
    \/ WireLink \/ WireFails
    \/ SignalContinue
    \/ ApplyConfig \/ ConfigFails

\* What the thread does of its own accord, given code of its own that returns.
ThreadStep(p) ==
    \/ ThreadAttachesInstance(p) \/ ThreadContinues(p)
    \/ SetupSucceeds(p) \/ SetupFails(p)
    \/ LoopSeesShutdown(p) \/ ThreadExits(p)

ThreadFailure(p) == StartFails(p) \/ LoopReportsFailure(p)

Next ==
    \/ Edit
    \/ \E c \in Callers : RequestCommit(c) \/ TakeBatch(c)
    \/ CompileStep
    \/ \E p \in Processors : ThreadStep(p) \/ ThreadFailure(p)

\* The committing thread and the processors' threads keep running; setup,
\* process and teardown return; one_commit_at_a_time is an eventually fair lock.
Fairness ==
    /\ WF_vars(CompileStep)
    /\ \A p \in Processors : WF_vars(ThreadStep(p))
    /\ \A c \in Callers : SF_vars(TakeBatch(c))

Safety == Init /\ [][Next]_vars

Spec == Safety /\ Fairness

-----------------------------------------------------------------------------
(***************************************************************************)
(* Safety.                                                                 *)
(***************************************************************************)

\* compile() joins a processor's thread before it drops the node, so no thread
\* outlives its node.
NoOrphanThread ==
    \A p \in Processors : node[p] = "removed" => thread[p] \notin Live

\* Between commits every thread still alive has its handle on a node of the
\* graph and a shutdown channel nobody has used, also when the commit that
\* spawned it aborted half way: a later removal can stop and join it.
EveryLiveThreadCanBeStopped ==
    phase = "idle" =>
        \A p \in Processors :
            thread[p] \in Live => NodeIn(p) /\ handle[p] /\ shutdown[p] = "empty"

\* The READY/CONTINUE barrier: no processor of the batch enters setup() before
\* the batch's links are wired.
SetupWaitsForWiring ==
    phase \in {"spawn", "attachHandle", "awaitReady", "wire"} =>
        \A p \in Range(toAdd) : thread[p] \in {"none", "started", "ready"}

\* Edges are dropped only by the compiler and the plan is reconciled with its
\* own removals, so WIRE never raises a spurious LinkNotFound.
WiringFindsItsLinks ==
    phase = "wire" => \A l \in Range(work) : EdgeIn(l)

\* A link shown Wired has a processor instance at both ends.
WiredLinkHasBothEnds ==
    \A l \in Links : edge[l] = "Wired" =>
        \A p \in {Source[l], Target[l]} : NodeIn(p) /\ instance[p]

\* signal_shutdown() sends on a one-place channel while it holds the graph
\* lock; the place is always free, also for a processor that has no thread or
\* whose thread is gone.
ShutdownSendNeverBlocks ==
    phase = "signal" /\ work # <<>> =>
        (NodeIn(Head(work)) => shutdown[Head(work)] # "sent")

\* A commit that has got as far as its config updates wired every link it kept
\* and has every processor it added past its barrier.
CompiledMeansWiredAndReleased ==
    phase = "config" =>
        /\ \A l \in Range(linksToAdd) : edge[l] = "Wired"
        /\ \A p \in Range(toAdd) : instance[p] /\ cont[p] = "sent"

\* The thread never replaces an Error it, or its processor, has reported: the
\* promise of transition_to_unless_already_failed.
ThreadKeepsError ==
    [][\A p \in Processors :
         thread'[p] # thread[p] /\ state[p] = "Error" => state'[p] = "Error"]_vars

\* No removal leaves the plan before what it removes has left the graph: however
\* compile() ends, at the first phase that can fail or after the last, its
\* removals are behind it, and no later commit has to know of them.
RemovalsSurviveAborts ==
    [][/\ \A p \in Range(toRemove) \ Range(toRemove') : node[p] = "removed"
       /\ \A l \in Range(linksToRemove) \ Range(linksToRemove') : edge[l] = "removed"]_vars

(***************************************************************************)
(* Liveness.                                                               *)
(***************************************************************************)

\* Every commit() returns: neither the READY wait nor the join waits forever.
CommitReturns ==
    \A c \in Callers : c \in waiting ~> c \notin waiting /\ committer # c

-----------------------------------------------------------------------------
(***************************************************************************)
(* The inductive invariant behind the safety properties.                   *)
(***************************************************************************)

LinkPhases == {"reconcile", "unlink", "dropEdge", "wire"}
ProcessorPhases ==
    {"signal", "join", "prepare", "spawn", "attachHandle", "awaitReady", "continue", "config"}
SpawnPhases == {"spawn", "attachHandle"}

\* The compiler is in the middle of removing p, or of spawning it.
BeingJoined(p) == phase = "join" /\ p = Head(work)
BeingSpawned(p) == phase = "attachHandle" /\ p = Head(work)

WorkFitsPhase ==
    /\ phase \in {"idle", "categorize"} => work = <<>>
    /\ phase \in LinkPhases => work \in Seq(Links)
    /\ phase \in ProcessorPhases => work \in Seq(Processors)
    /\ phase \in {"dropEdge", "join", "attachHandle"} => work # <<>>
    /\ phase \in SpawnPhases => Range(work) \subseteq Range(toAdd)

\* A node that was not added yet has left no trace.
UnbornIsBlank ==
    \A p \in Processors : node[p] = "unborn" => shutdown[p] = "none" /\ p \notin Range(toAdd)

LiveThreadHasNode == \A p \in Processors : thread[p] \in Live => NodeIn(p)

LiveThreadHasHandle ==
    \A p \in Processors :
        thread[p] \in Live =>
            /\ BeingJoined(p) => joining
            /\ ~BeingJoined(p) => handle[p] \/ BeingSpawned(p)

LiveThreadHasChannel ==
    \A p \in Processors : thread[p] \in Live => shutdown[p] = "empty" \/ BeingJoined(p)

\* PREPARE has given every processor of the batch it visited a fresh channel
\* and the state Idle, which nothing but the processor's own thread turns to
\* Error.
PreparedHasChannel ==
    \A p \in Range(toAdd) :
        (phase = "prepare" /\ p \notin Range(work)) \/ phase \in SpawnPhases =>
            /\ shutdown[p] = "empty"
            /\ state[p] = "Error" => handle[p] \/ BeingSpawned(p)

SentMeansLeaving ==
    \A p \in Processors : shutdown[p] = "sent" /\ NodeIn(p) => BeingJoined(p)

EdgeHasEnds ==
    \A l \in Links : EdgeIn(l) => NodeIn(Source[l]) /\ NodeIn(Target[l])

WiredHasInstances ==
    \A l \in Links : edge[l] = "Wired" => instance[Source[l]] /\ instance[Target[l]]

ErrorIsAfterSetup ==
    \A p \in Processors : state[p] = "Error" => thread[p] \notin {"started", "ready", "setup"}

IInv ==
    /\ TypeOK /\ WorkFitsPhase /\ UnbornIsBlank
    /\ LiveThreadHasNode /\ LiveThreadHasHandle /\ LiveThreadHasChannel
    /\ PreparedHasChannel /\ SentMeansLeaving
    /\ EdgeHasEnds /\ WiredHasInstances /\ ErrorIsAfterSetup

-----------------------------------------------------------------------------
(***************************************************************************)
(* The inductive invariant behind the barrier and the wiring: how a logged *)
(* operation moves through batch and plan.                                 *)
(***************************************************************************)

RemovalPhases == {"unlink", "dropEdge", "signal", "join"}
BarrierPhases == {"spawn", "attachHandle", "awaitReady", "wire"}

\* No processor's AddProcessor occurs twice in the list s.
AddedOnce(s) ==
    \A i, j \in DOMAIN s : s[i].op = "AddProcessor" /\ s[i] = s[j] => i = j

\* A processor's AddProcessor is logged once, and until it is planned the
\* processor has no thread.
AddsAreNew ==
    /\ AddedOnce(txn) /\ AddedOnce(batch)
    /\ \A p \in Processors :
         LET o == Op("AddProcessor", p) IN
         /\ o \in Range(txn) => o \notin Range(batch)
         /\ o \in Range(txn) \cup Range(batch) =>
              node[p] # "unborn" /\ thread[p] = "none" /\ p \notin Range(toAdd)

\* A thread is spawned only for a node of the graph.
UnbornHasNoThread ==
    \A p \in Processors : node[p] = "unborn" => thread[p] = "none"

\* A removal is logged for what is or was in the graph, a link's with its mark.
RemovalsAreKnown ==
    /\ \A l \in Links : Op("RemoveLink", l) \in Range(txn) \cup Range(batch) =>
         l \in marked /\ edge[l] # "unborn"
    /\ \A p \in Processors : Op("RemoveProcessor", p) \in Range(txn) \cup Range(batch) =>
         node[p] # "unborn"
    /\ \A l \in Range(linksToRemove) : l \in marked /\ edge[l] # "unborn"
    /\ \A p \in Range(toRemove) : node[p] # "unborn"

\* What is still to be visited comes from the list the phase walks; the plan is
\* empty between commits.
PlanFollowsPhase ==
    /\ phase = "idle" => PlanIsEmpty
    /\ phase # "categorize" => batch = <<>>
    /\ phase \in {"unlink", "dropEdge"} => Range(work) \subseteq Range(linksToRemove)
    /\ phase \in {"signal", "join"} => Range(work) \subseteq Range(toRemove)
    /\ phase = "wire" => Range(work) \subseteq Range(linksToAdd)
    /\ phase \in {"awaitReady", "continue"} => Range(work) \subseteq Range(toAdd)

\* READY is sent with the instance attached.
ReadyHasInstance ==
    \A p \in Processors : thread[p] \notin {"none", "started"} => instance[p]

\* A processor of the batch goes from no thread through the barrier to CONTINUE.
BarrierHolds ==
    \A p \in Range(toAdd) :
        /\ phase \in {"categorize", "reconcile", "prepare"} \cup RemovalPhases =>
             thread[p] = "none"
        /\ (phase = "prepare" /\ p \notin Range(work)) \/ phase \in BarrierPhases =>
             cont[p] = "none"
        /\ phase \in BarrierPhases => thread[p] \in {"none", "started", "ready"}
        /\ (phase = "awaitReady" /\ p \notin Range(work))
             \/ phase \in {"wire", "continue", "config"} =>
             thread[p] \notin {"none", "started"}
        /\ (phase = "continue" /\ p \notin Range(work)) \/ phase = "config" =>
             cont[p] = "sent"

\* A link the plan wires is in the graph, and nothing the plan removes takes it
\* away.
Wirings == Range(linksToAdd) \cup (IF phase = "reconcile" THEN Range(work) ELSE {})

WiringsStay ==
    \A l \in Wirings :
        /\ EdgeIn(l)
        /\ l \notin Range(linksToRemove) /\ Op("RemoveLink", l) \notin Range(batch)
        /\ phase # "categorize" /\ l \in Range(linksToAdd) =>
             Source[l] \notin Range(toRemove) /\ Target[l] \notin Range(toRemove)
        /\ (phase = "wire" /\ l \notin Range(work)) \/ phase \in {"continue", "config"} =>
             edge[l] = "Wired"

PlanInv ==
    /\ AddsAreNew /\ UnbornHasNoThread /\ RemovalsAreKnown /\ PlanFollowsPhase
    /\ ReadyHasInstance /\ BarrierHolds /\ WiringsStay

-----------------------------------------------------------------------------
(***************************************************************************)
(* What a commit's outcome rests on: where the operations of a caller are, *)
(* and that the removals of a plan are done before anything can fail.      *)
(***************************************************************************)

LatePhases ==
    {"prepare", "spawn", "attachHandle", "awaitReady", "wire", "continue", "config"}

RemovalsDone ==
    /\ phase \in {"unlink", "dropEdge"} =>
         \A l \in Range(linksToRemove) : l \in Range(work) \/ edge[l] = "removed"
    /\ phase \in {"signal", "join"} =>
         \A p \in Range(toRemove) : p \in Range(work) \/ node[p] = "removed"
    /\ phase \in {"signal", "join"} \cup LatePhases =>
         \A l \in Range(linksToRemove) : edge[l] = "removed"
    /\ phase \in LatePhases => \A p \in Range(toRemove) : node[p] = "removed"

LinkAddsAreKnown ==
    \A l \in Links : Op("AddLink", l) \in Range(txn) \cup Range(batch) => edge[l] # "unborn"

GateIsHeld == phase = "idle" <=> committer = NoCaller

DoneInv == RemovalsDone /\ LinkAddsAreKnown /\ GateIsHeld

Adds == {o \in PendingOperation : o.op \in {"AddProcessor", "AddLink"}}
Removals == {o \in PendingOperation : o.op \in {"RemoveProcessor", "RemoveLink"}}

\* What o adds was added to the graph; what o removes has left it.
Known(o) == IF o.op = "AddProcessor" THEN node[o.id] # "unborn" ELSE edge[o.id] # "unborn"
Gone(o) == IF o.op = "RemoveProcessor" THEN node[o.id] = "removed" ELSE edge[o.id] = "removed"

\* The commit under way, or an earlier one, has seen to the removal o.
InHand(o) ==
    \/ o \in Range(batch)
    \/ o.id \in Range(toRemove) \cup Range(linksToRemove)
    \/ Gone(o)

\* No commit, under way or to come, has the addition o before it.
Nowhere(o) ==
    /\ o \notin Range(txn) \cup Range(batch)
    /\ o.id \notin Range(toAdd) \cup Wirings
=============================================================================
