------------------------------- MODULE Runner -------------------------------
(***************************************************************************)
(* Runner: the runtime's lifecycle (start, stop, pause, resume), its graph *)
(* operations, and the listener that commits what nobody committed inline, *)
(* composed with the graph and the compiler of GraphCompiler.              *)
(*                                                                         *)
(* Three kinds of thread call in: hosts (the embedding program and its run *)
(* loop), processors' own threads (from setup() and process()), and the    *)
(* tokio tasks GraphChangeListener spawns.  A call is a sequence of steps, *)
(* one per lock it takes; pc says where it is.                             *)
(***************************************************************************)
EXTENDS GraphCompiler

CONSTANTS
    Hosts,          \* threads of the embedding program
    Makes,          \* the calls each of them makes
    Tasks           \* bound: commits the listener may have outstanding

ASSUME RunnerAssumption ==
    /\ Callers = Hosts \cup Tasks \cup Processors
    /\ Hosts \cap Tasks = {}
    /\ (Hosts \cup Tasks) \cap Processors = {}
    /\ Makes \in [Hosts -> SUBSET {"edit", "gate", "start", "stop", "pause", "resume"}]

VARIABLES
    status,         \* RuntimeStatus
    ctx,            \* is there a RuntimeContext
    service,        \* is the surface-sharing service of new() still up
    pc,             \* where a caller is in its call
    call,           \* the call it is in
    live,           \* the context it captured: Some or None
    mine,           \* the operations its commit must see to
    todo,           \* processors pause() or resume() has still to visit
    undelivered,    \* GraphDidChange events the listener has not seen
    locked          \* compile() holds the graph lock and wants processors' mutexes

callVars == <<pc, call, live, mine, todo>>
runnerVars == <<status, ctx, service, callVars, undelivered>>
allVars == <<vars, runnerVars, locked>>

RuntimeStatus ==
    {"Initial", "Starting", "Started", "Stopping", "Stopped", "Pausing", "Paused"}

Call == {"none", "edit", "start", "stop", "pause", "resume", "listen"}

Pc ==
    {"idle", "scope", "commit", "compiling", "publish",
     "connect", "platform", "announce",
     "snapshot", "queue", "clear", "unserve", "stopped",
     "each"}

RunnerTypeOK ==
    /\ TypeOK
    /\ status \in RuntimeStatus
    /\ ctx \in BOOLEAN /\ service \in BOOLEAN
    /\ pc \in [Callers -> Pc]
    /\ call \in [Callers -> Call]
    /\ live \in [Callers -> BOOLEAN]
    /\ mine \in [Callers -> SUBSET PendingOperation]
    /\ todo \in [Callers -> SUBSET Processors]
    /\ undelivered \in Nat
    /\ locked \in BOOLEAN

\* Runner::new(): nothing runs, the surface-sharing service is up.
RunnerInit ==
    /\ Init
    /\ status = "Initial" /\ ctx = FALSE /\ service = TRUE
    /\ pc = [c \in Callers |-> "idle"]
    /\ call = [c \in Callers |-> "none"]
    /\ live = [c \in Callers |-> FALSE]
    /\ mine = [c \in Callers |-> {}]
    /\ todo = [c \in Callers |-> {}]
    /\ undelivered = 0
    /\ locked = FALSE

-----------------------------------------------------------------------------
(***************************************************************************)
(* The steps of a call.                                                    *)
(***************************************************************************)

Enter(c, name, at) ==
    /\ pc[c] = "idle"
    /\ pc' = [pc EXCEPT ![c] = at]
    /\ call' = [call EXCEPT ![c] = name]

Goto(c, at) ==
    /\ pc' = [pc EXCEPT ![c] = at]
    /\ UNCHANGED call

Leave(c) ==
    /\ pc' = [pc EXCEPT ![c] = "idle"]
    /\ call' = [call EXCEPT ![c] = "none"]
    /\ live' = [live EXCEPT ![c] = FALSE]
    /\ mine' = [mine EXCEPT ![c] = {}]
    /\ UNCHANGED todo

\* Edits that calls under way have still to make, kept out of the budget.
Promised ==
    Cardinality({h \in Hosts : pc[h] \in {"snapshot", "queue"}})
    + Cardinality({q \in Hosts \X Processors : q[2] \in todo[q[1]]})

HasBudget(n) == edits + Promised + n <= MaxEdits

\* The operations the step logs.
Logged == Range(SubSeq(txn', Len(txn) + 1, Len(txn')))

-----------------------------------------------------------------------------
(***************************************************************************)
(* Graph operations: add_processor, remove_processor, connect, disconnect  *)
(* and update_processor_config.                                            *)
(***************************************************************************)

\* With a bug: a processor's own thread commits inline as well.
LiveOnAnyThread(c) == status = "Started" /\ ctx

\* A processor's own thread never commits inline.
live_commit_context(c) ==
    /\ c \notin Processors
    /\ status = "Started"
    /\ ctx

\* The context is captured first, and a processor may be calling from setup()
\* or from its loop.
BeginEdit(c) ==
    /\ \/ c \in Hosts /\ "edit" \in Makes[c]
       \/ c \in Processors /\ thread[c] \in {"setup", "loop"}
    /\ HasBudget(1)
    /\ Enter(c, "edit", "scope")
    /\ live' = [live EXCEPT ![c] = live_commit_context(c)]
    /\ UNCHANGED <<vars, status, ctx, service, mine, todo, undelivered, locked>>

\* The scope: the graph changes and the change is logged.
EditScope(c) ==
    /\ pc[c] = "scope" /\ ~locked /\ HasBudget(1)
    /\ \/ \E p \in Processors : AddProcessor(p) \/ RemoveProcessor(p)
       \/ \E l \in Links : Connect(l) \/ Disconnect(l)
    /\ mine' = [mine EXCEPT ![c] = Logged]
    /\ Goto(c, IF live[c] THEN "commit" ELSE "publish")
    /\ UNCHANGED <<status, ctx, service, live, todo, undelivered, locked>>

\* update_processor_config leaves the commit to the listener.
ConfigScope(c) ==
    /\ pc[c] = "scope" /\ ~locked /\ HasBudget(1)
    /\ \E p \in Processors : UpdateProcessorConfig(p)
    /\ live' = [live EXCEPT ![c] = FALSE]
    /\ Goto(c, "publish")
    /\ UNCHANGED <<status, ctx, service, mine, todo, undelivered, locked>>

\* The id is unknown, or the type is: the call returns its error.
EditRefused(c) ==
    /\ pc[c] = "scope" /\ ~locked
    /\ \/ UNCHANGED vars
       \/ HasBudget(1) /\ \E p \in Processors : AddUnregisteredProcessor(p)
    /\ Leave(c)
    /\ UNCHANGED <<status, ctx, service, undelivered, locked>>

\* GraphDidChange is published last and the call returns Ok.
PublishChange(c) ==
    /\ pc[c] = "publish"
    /\ undelivered' = undelivered + 1
    /\ Leave(c)
    /\ UNCHANGED <<vars, status, ctx, service, locked>>

\* pause_processor and resume_processor are one scope each.
GateProcessor(h) ==
    /\ pc[h] = "idle" /\ ~locked /\ HasBudget(1)
    /\ \E p \in Processors : PauseProcessor(p) \/ ResumeProcessor(p)
    /\ UNCHANGED <<runnerVars, locked>>

-----------------------------------------------------------------------------
(***************************************************************************)
(* The commit inside a call.                                               *)
(***************************************************************************)

\* What a call does after a commit that returned Ok; on Err it returns.
AfterCommit == [edit |-> "publish", start |-> "announce", stop |-> "clear"]

Resolve(c, ok) ==
    /\ \/ /\ ok /\ call[c] # "listen"
          /\ Goto(c, AfterCommit[call[c]])
          /\ UNCHANGED <<live, mine, todo>>
       \/ /\ ~ok \/ call[c] = "listen"
          /\ Leave(c)
    /\ UNCHANGED <<status, ctx, service, undelivered>>

CallCommit(c) ==
    /\ pc[c] = "commit"
    /\ RequestCommit(c)
    /\ Goto(c, "compiling")
    /\ UNCHANGED <<status, ctx, service, live, mine, todo, undelivered, locked>>

\* An empty log: Ok at once.
EnterCommit(c) ==
    /\ pc[c] = "compiling"
    /\ TakeBatch(c)
    /\ IF txn = <<>> THEN Resolve(c, TRUE) ELSE UNCHANGED runnerVars
    /\ UNCHANGED locked

\* compile() is at a link that is in the graph, to open or close its services.
AtLink == phase \in {"unlink", "wire"} /\ work # <<>> /\ EdgeIn(Head(work))

\* It takes the graph lock for the link and goes for the mutexes of its ends.
LockForLink ==
    /\ AtLink /\ ~locked
    /\ locked' = TRUE
    /\ UNCHANGED <<vars, runnerVars>>

\* A processor's thread has the instance's mutex through setup() and through the
\* process() that made a call.  A process() that makes none lets go by itself.
MutexHeld(p) == thread[p] = "setup" \/ pc[p] # "idle"

\* The mutexes the step takes: of a link's ends with the graph lock held, of a
\* processor to configure without.
MutexesTaken ==
    LET wanted == CASE locked -> {Source[Head(work)], Target[Head(work)]}
                    [] ~locked /\ phase = "config" /\ work # <<>> -> {Head(work)}
                    [] OTHER -> {}
    IN {p \in wanted : instance[p]}

\* The step has the locks it needs.
LocksTaken == (AtLink => locked) /\ \A p \in MutexesTaken : ~MutexHeld(p)

CompileGoesOn ==
    /\ LocksTaken
    /\ CompileStep
    /\ committer' = committer
    /\ locked' = FALSE
    /\ UNCHANGED runnerVars

\* compile() is over: with nothing left to visit it returned Ok.
CompileReturns ==
    /\ LocksTaken
    /\ CompileStep
    /\ committer' # committer
    /\ locked' = FALSE
    /\ Resolve(committer, work = <<>>)

-----------------------------------------------------------------------------
(***************************************************************************)
(* Runner::start.  A host starts a runtime that is not running.            *)
(***************************************************************************)

BeginStart(h) ==
    /\ status \in {"Initial", "Stopped"}
    /\ Enter(h, "start", "connect")
    /\ status' = "Starting"
    /\ UNCHANGED <<vars, ctx, service, live, mine, todo, undelivered, locked>>

\* The GPU context is made, the surface store connects to the service, and
\* the RuntimeContext is published.
StartConnects(h) ==
    /\ pc[h] = "connect" /\ service
    /\ ctx' = TRUE
    /\ Goto(h, "platform")
    /\ UNCHANGED <<vars, status, service, live, mine, todo, undelivered, locked>>

\* No GPU, no service, a setup hook fails, the platform is not ready: start()
\* returns Err and leaves status and context as they are.
StartFailsEarly(h) ==
    /\ pc[h] \in {"connect", "platform"}
    /\ Leave(h)
    /\ UNCHANGED <<vars, status, ctx, service, undelivered, locked>>

\* From here on the listener and inline commits are live; start() commits what
\* was queued before.
StartMarks(h) ==
    /\ pc[h] = "platform" /\ ~locked
    /\ status' = "Started"
    /\ mine' = [mine EXCEPT ![h] = Range(txn)]
    /\ Goto(h, "commit")
    /\ UNCHANGED <<vars, ctx, service, live, todo, undelivered, locked>>

StartReturns(h) ==
    /\ pc[h] = "announce"
    /\ Leave(h)
    /\ UNCHANGED <<vars, status, ctx, service, undelivered, locked>>

-----------------------------------------------------------------------------
(***************************************************************************)
(* Runner::stop, from any host at any time.                                *)
(***************************************************************************)

\* stop() on a stopped runtime returns at once.
ClaimStop(h) ==
    /\ status # "Stopped"
    /\ HasBudget(1)
    /\ Enter(h, "stop", "snapshot")
    /\ status' = "Stopping"
    /\ UNCHANGED <<vars, ctx, service, live, mine, todo, undelivered, locked>>

StopSnapshots(h) ==
    /\ pc[h] = "snapshot"
    /\ live' = [live EXCEPT ![h] = ctx]
    /\ Goto(h, "queue")
    /\ UNCHANGED <<vars, status, ctx, service, mine, todo, undelivered, locked>>

\* Without a context there is nothing to commit against.
StopQueues(h) ==
    /\ pc[h] = "queue" /\ ~locked
    /\ QueueRemovalOfEveryProcessor
    /\ mine' = [mine EXCEPT ![h] = Logged]
    /\ Goto(h, IF live[h] THEN "commit" ELSE "clear")
    /\ UNCHANGED <<status, ctx, service, live, todo, undelivered, locked>>

StopClears(h) ==
    /\ pc[h] = "clear"
    /\ ctx' = FALSE
    /\ Goto(h, "unserve")
    /\ UNCHANGED <<vars, status, service, live, mine, todo, undelivered, locked>>

StopUnserves(h) ==
    /\ pc[h] = "unserve"
    /\ service' = FALSE
    /\ Goto(h, "stopped")
    /\ UNCHANGED <<vars, status, ctx, live, mine, todo, undelivered, locked>>

StopMarks(h) ==
    /\ pc[h] = "stopped"
    /\ status' = "Stopped"
    /\ Leave(h)
    /\ UNCHANGED <<vars, ctx, service, undelivered, locked>>

-----------------------------------------------------------------------------
(***************************************************************************)
(* Runner::pause and Runner::resume.  A host pauses a started runtime and  *)
(* resumes a paused one.                                                   *)
(***************************************************************************)

BeginVisit(h, name, from, marking) ==
    /\ status = from
    /\ LET all == {p \in Processors : NodeIn(p)} IN
         /\ HasBudget(Cardinality(all))
         /\ todo' = [todo EXCEPT ![h] = all]
    /\ Enter(h, name, "each")
    /\ status' = marking
    /\ UNCHANGED <<vars, ctx, service, live, mine, undelivered, locked>>

BeginPause(h) == BeginVisit(h, "pause", "Started", "Pausing")
BeginResume(h) == BeginVisit(h, "resume", "Paused", "Starting")

\* One processor: its gate moves, or it has none, has gone or is there already.
VisitNext(h) ==
    /\ pc[h] = "each" /\ ~locked
    /\ \E p \in Processors :
         /\ p \in todo[h]
         /\ LET from == IF call[h] = "pause" THEN "open" ELSE "paused" IN
            IF NodeIn(p) /\ gate[p] = from
            THEN IF call[h] = "pause" THEN PauseProcessor(p) ELSE ResumeProcessor(p)
            ELSE UNCHANGED vars
         /\ todo' = [todo EXCEPT ![h] = @ \ {p}]
    /\ UNCHANGED <<status, ctx, service, pc, call, live, mine, undelivered, locked>>

\* The status is stored whatever it has become and whoever failed to follow.
EndVisit(h) ==
    /\ pc[h] = "each" /\ ~locked /\ todo[h] = {}
    /\ status' = IF call[h] = "pause" THEN "Paused" ELSE "Started"
    /\ Leave(h)
    /\ UNCHANGED <<vars, ctx, service, undelivered, locked>>

-----------------------------------------------------------------------------
(***************************************************************************)
(* GraphChangeListener, and the processors' threads.                       *)
(***************************************************************************)

\* With a bug: a commit under way is trusted to pick the change up.
ListenerTrustsCommitter ==
    /\ undelivered > 0
    /\ undelivered' = undelivered - 1
    /\ IF status = "Started" /\ ctx /\ committer = NoCaller
       THEN \E t \in Tasks : Enter(t, "listen", "commit") /\ UNCHANGED <<live, mine, todo>>
       ELSE UNCHANGED callVars
    /\ UNCHANGED <<vars, status, ctx, service, locked>>

\* A delivered GraphDidChange spawns a commit on a started runtime and is
\* dropped on any other.
OnGraphDidChange ==
    /\ undelivered > 0
    /\ undelivered' = undelivered - 1
    /\ IF status = "Started" /\ ctx
       THEN \E t \in Tasks : Enter(t, "listen", "commit") /\ UNCHANGED <<live, mine, todo>>
       ELSE UNCHANGED callVars
    /\ UNCHANGED <<vars, status, ctx, service, locked>>

\* A thread inside a graph operation does nothing else.
ThreadRuns(p) ==
    /\ pc[p] = "idle"
    /\ locked => thread[p] \notin {"started", "ready"}
    /\ ThreadStep(p)
    /\ UNCHANGED <<runnerVars, locked>>

ThreadMisbehaves(p) ==
    /\ pc[p] = "idle"
    /\ ThreadFailure(p)
    /\ UNCHANGED <<runnerVars, locked>>

-----------------------------------------------------------------------------
HostCalls(h) ==
    \/ "gate" \in Makes[h] /\ GateProcessor(h)
    \/ "start" \in Makes[h] /\ BeginStart(h)
    \/ "stop" \in Makes[h] /\ ClaimStop(h)
    \/ "pause" \in Makes[h] /\ BeginPause(h)
    \/ "resume" \in Makes[h] /\ BeginResume(h)

\* A step of a call that waits for nobody.
CallStep(c) ==
    \/ EditScope(c) \/ ConfigScope(c) \/ EditRefused(c) \/ PublishChange(c)
    \/ CallCommit(c)
    \/ StartConnects(c) \/ StartFailsEarly(c) \/ StartMarks(c) \/ StartReturns(c)
    \/ StopSnapshots(c) \/ StopQueues(c) \/ StopClears(c) \/ StopUnserves(c) \/ StopMarks(c)
    \/ VisitNext(c) \/ EndVisit(c)

RunnerNext ==
    \/ \E h \in Hosts : HostCalls(h)
    \/ \E c \in Callers : BeginEdit(c) \/ CallStep(c) \/ EnterCommit(c)
    \/ LockForLink \/ CompileGoesOn \/ CompileReturns
    \/ OnGraphDidChange
    \/ \E p \in Processors : ThreadRuns(p) \/ ThreadMisbehaves(p)

\* Every thread inside a call keeps running, and the listener's subscriber
\* thread polls; a setup() or process() makes finitely many calls, so its thread
\* goes on between them, and the instance's mutex is an eventually fair lock; the
\* rest is the fairness of GraphCompiler.
RunnerFairness ==
    /\ SF_allVars(LockForLink \/ CompileGoesOn \/ CompileReturns)
    /\ WF_allVars(OnGraphDidChange)
    /\ \A p \in Processors : SF_allVars(ThreadRuns(p))
    /\ \A c \in Callers : WF_allVars(CallStep(c)) /\ SF_allVars(EnterCommit(c))

RunnerSafety == RunnerInit /\ [][RunnerNext]_allVars

RunnerSpec == RunnerSafety /\ RunnerFairness

-----------------------------------------------------------------------------
(***************************************************************************)
(* Properties.                                                             *)
(***************************************************************************)

\* The change o asks for has been carried out or refused: nothing of it is
\* left for a later commit.
Settled(o) ==
    CASE o.op = "RemoveProcessor" -> node[o.id] = "removed"
      [] o.op = "RemoveLink" -> edge[o.id] = "removed"
      [] o.op \in {"AddProcessor", "AddLink"} ->
           /\ o \notin Range(txn) \cup Range(batch)
           /\ o.id \notin Range(toAdd) \cup Range(linksToAdd)
      [] OTHER -> TRUE    \* configs: not told apart from one another

\* A call that has come back from its commit with Ok finds every operation it
\* was committing for settled, whichever caller's commit took it: start()'s
\* "all queued operations are processed before start() returns", and stop()
\* clears the context only when the processors it queued are gone.
CommittedIsSettled ==
    \A c \in Callers :
        pc[c] \in {"publish", "announce", "clear"} /\ (live[c] \/ call[c] = "start") =>
            \A o \in mine[c] : Settled(o)

\* A processor's own thread neither waits for the commit gate nor holds it, so
\* no commit ever joins a thread that waits for that commit to end.
NoThreadCommits ==
    \A p \in Processors : p \notin waiting /\ committer # p

\* "claimed under one lock acquisition so two concurrent callers cannot both
\* pass the check" (runtime.rs:520): one stop() under way at a time.
OneStopAtATime == Cardinality({h \in Hosts : call[h] = "stop"}) <= 1

\* "doing it here makes the socket file disappear before stop() returns"
\* (runtime.rs:577): no stop() returns with the service still up.
StopTearsTheServiceDown ==
    [][\A h \in Hosts : call[h] = "stop" /\ call'[h] = "none" => ~service']_allVars

\* What o asks for is there, or somebody asked for its removal since.
Took(o) ==
    CASE o.op = "AddProcessor" -> instance[o.id] \/ o.id \in marked \/ ~NodeIn(o.id)
      [] o.op = "AddLink" -> edge[o.id] # "Pending" \/ o.id \in marked
      [] OTHER -> TRUE

\* "so the caller learns whether its change took" (operations_runtime.rs:51): a
\* graph operation that committed inline and returns Ok has had its effect.
CallerLearnsItsOutcome ==
    \A c \in Callers : pc[c] = "publish" /\ live[c] => \A o \in mine[c] : Took(o)

\* A processor waits for the graph lock inside setup() or process(), and compile(),
\* which has the lock, waits for that processor's mutex: neither goes on.
LockCycle == locked /\ \E p \in MutexesTaken : pc[p] = "scope"

\* "a processor's own execution thread, which never waits for a compile"
\* (operations_runtime.rs:30), and compile() lets go of the lock where "processors
\* may be waiting on runtime operations that need this lock" (compiler.rs:280).
NoThreadWaitsForACompile == ~LockCycle

\* Every call returns, also remove_processor called on itself by the processor
\* being removed, whose thread never waits for the commit that joins it.  The one
\* thing that can keep a call is the cycle over the graph lock.
CallReturns ==
    \A c \in Callers : pc[c] # "idle" ~> pc[c] = "idle" \/ LockCycle

\* A removal that reached the plan takes its node out of the graph, whatever
\* the rest of the batch fails at, unless the commit is caught in that cycle.
RemovalCompletes ==
    \A p \in Processors : p \in Range(toRemove) ~> node[p] = "removed" \/ LockCycle

\* There is a change in the log of a runtime that may compile.
Uncommitted == status = "Started" /\ ctx /\ txn # <<>>

\* The change somebody has still to announce or to commit.
Heralded == undelivered > 0 \/ waiting # {} \/ \E c \in Callers : pc[c] \in {"publish", "commit"}

\* A logged change whose announcement or commit is outstanding on a started
\* runtime is committed: start() takes what was queued before it, the listener
\* what was logged without an inline commit, however the two race.
QueuedIsCommitted == Uncommitted /\ Heralded ~> ~Uncommitted \/ LockCycle

\* "Runtime not started, commit deferred to start()" (graph_change_listener.rs:42):
\* of the change whose announcement found the runtime not started as well.
DeferredIsCommitted == Uncommitted ~> ~Uncommitted \/ LockCycle

-----------------------------------------------------------------------------
(***************************************************************************)
(* The inductive invariant behind NoThreadCommits.                         *)
(***************************************************************************)

CallsTyped ==
    /\ pc = [c \in Callers |-> pc[c]]
    /\ live \in [Callers -> BOOLEAN] /\ ctx \in BOOLEAN
    /\ committer \in Callers \cup {NoCaller}

ThreadsStayOutOfCommit ==
    \A p \in Processors : pc[p] \in {"idle", "scope", "publish"} /\ ~live[p]

RInv == CallsTyped /\ ThreadsStayOutOfCommit /\ NoThreadCommits

-----------------------------------------------------------------------------
(***************************************************************************)
(* The inductive invariant behind CommittedIsSettled.                      *)
(***************************************************************************)

\* The place at of a call named name that sees to ops.
Fits(at, name, ops) ==
    /\ at = "idle" => ops = {}
    /\ at \in {"scope", "publish"} => name = "edit"
    /\ at \in {"connect", "platform", "announce"} => name = "start"
    /\ at \in {"snapshot", "queue", "clear", "unserve", "stopped"} => name = "stop"
    /\ at \in {"commit", "compiling"} => name \in {"edit", "start", "stop", "listen"}

Commits(c) == pc[c] \in {"commit", "compiling"}

Committed(c) ==
    pc[c] \in {"publish", "announce", "clear"} /\ (live[c] \/ call[c] = "start")

\* Until its commit has taken them c's operations are in the log, in hand or
\* done; while it compiles none of them is left for another commit; and when it
\* has come back they are done.
Tracked(c) ==
    /\ Commits(c) =>
         /\ \A o \in mine[c] \cap Adds : Known(o)
         /\ \A o \in mine[c] \cap Removals : o \in Range(txn) \/ InHand(o)
    /\ committer = c =>
         /\ \A o \in mine[c] \cap Adds : o \notin Range(txn)
         /\ \A o \in mine[c] \cap Removals : InHand(o)
    /\ Committed(c) =>
         /\ \A o \in mine[c] \cap Adds : Known(o) /\ Nowhere(o)
         /\ \A o \in mine[c] \cap Removals : Gone(o)

TrackInv ==
    /\ RunnerTypeOK
    /\ \A c \in Callers : Fits(pc[c], call[c], mine[c]) /\ Tracked(c)
    /\ committer \in Callers => pc[committer] = "compiling"
=============================================================================
