# Verification of the streamlib runtime

streamlib runs a graph of media processors. This directory holds TLA+
specifications of the part of it where concurrency decides correctness, the
model-checking configurations for TLC, and proofs checked by TLAPS. Every
definition is translated from the Rust source; `PROJECT.json` maps each one to
its lines. Paths below are relative to `src/runtime/streamlib-engine/src/core/`
unless they say otherwise.

## 1. The system

### How the parts interact

A host program builds a graph of processors and links through the runtime
operations (`runtime/operations_runtime.rs`). An operation changes the graph
under the graph's write lock and logs a `PendingOperation`. A commit
(`compiler/compiler.rs`) takes the log and makes the running system follow: it
stops and joins threads of removed processors, spawns threads for added ones,
opens an iceoryx2 service per link, and lets the new threads go on. Processor
threads (`compiler/compiler_ops/spawn_processor_op.rs`,
`execution/thread_runner.rs`) run the processors' own code, which may itself
call runtime operations. The runtime (`runtime/runtime.rs`) starts, stops,
pauses and resumes all of it; a listener (`runtime/graph_change_listener.rs`)
commits changes nobody committed inline.

Pixels travel by id. A producer acquires a slot of a ring pool
(`context/gpu_context.rs`) and publishes `slot#generation`; a consumer in the
same process resolves it from a cache, one in another process checks it out from
the surface-share service (`../linux/surface_share/`), which records a lease so
that the slot is not reused under it. Python processors are such consumers: each
runs in a helper process (`_helper.py` of the Python wheel), driven over a socket
by a host that sits in the graph in its place, through a bridge
(`compiler/compiler_ops/subprocess_bridge.rs`).

### Inventory

| component | state | operations | hard part |
|---|---|---|---|
| graph compiler | log, plan, commit gate | scope, commit, compile | edits between any two lock holds; `?` half way through a plan |
| processor threads | thread phase, shutdown channel, barrier, join handle | spawn, READY, CONTINUE, setup, loop, teardown | removal while a thread is anywhere; setup before wiring |
| graph | nodes, edges, components | add, remove, connect, disconnect | what a stale id in a plan finds |
| runtime operations | captured context | the four edits, config update | inline commit racing others' commits |
| runtime lifecycle | status, context, service | start, stop, pause, resume | all of these racing one another and the listener |
| graph readiness | processor states | wait | pause and resume before setup has finished |
| event bus (`pubsub/`) | subscriptions, bounded queues | subscribe, publish | confirmation racing a timeout, overflow |
| data plane (`../iceoryx2/`) | rings, mailboxes, listeners | publish, notify, drain, read | coalesced wakeups, eviction, listener replacement |
| surface pool and leases (`context/`, `../linux/surface_share/`) | slots, generations, leases | acquire, publish, check out, release | reuse racing check-out; helper crash |
| helper process (Python wheel, `compiler/compiler_ops/subprocess_*.rs`) | child, socket, reply channel, escalate registry | lifecycle hooks, wiring, config, drop | late replies, hangs, deaths at any point |
| texture ring and pool | slots | acquire, return | reuse while in use |
| escalate gate | holder | enter, exit | exit from another thread |
| surface adapters (`src/adapters/`) | readers, writer, timeline | register, acquire, release | unregister under a live guard |
| logging | queue, doorbell | push, drain, shutdown | overwrite, final drain |
| signals and run loop | latched request | forward, poll, stop | request at any point of start or stop |
| windows, audio clock, devices | device handles | callbacks | external |
| GPU, codecs, colour, media blocks, packages | device state | driver calls | external |
| control plane, Python wheel, SDK | none of its own that matters here | front ends | go through the runtime operations |

`PROJECT.json` lists every component with its sources and status, and the
hazards of the code at the lines where they bite.

## 2. The modules

| module | models |
|---|---|
| `GraphCompiler` | graph, log, commit and compile, processor threads |
| `Runner` | `GraphCompiler` composed with the runtime's calls, lifecycle and listener |
| `ReactiveLoop` | one reactive processor's loop, its inbound links, rings, listener and mailboxes |
| `FrameContract` | abstract: what a published surface id promises its holders |
| `SurfacePool` | the ring pool, the cache, the lease table, connections and helper processes |
| `HelperProcess` | one Python processor: its host, bridge, socket and helper process |
| `MCGraphCompiler`, `MCRunner`, `MCReactiveLoop` | constants for TLC |
| `GraphCompilerTypes` | lists and their elements; proof of type correctness |
| `GraphCompilerProofs` | the invariant `IInv` and the safety theorems of the compiler |
| `GraphCompilerPlanProofs` | the invariant `PlanInv`: barrier, wiring, what a finished compile achieved; `DoneInv`: what becomes of an operation |
| `RunnerProofs` | `Runner` implements `GraphCompiler`, and what follows; a commit settles its caller's operations |
| `ReactiveLoopProofs` | a loop that is not paused never sleeps on a bag; pause callbacks; types, accounting and order of bags |
| `SurfacePoolInvariant` | the pool's inductive invariant: types, ring, cache, threads, connections |
| `SurfacePoolProofs` | its part about helpers and leases; what follows; `SurfacePool` implements `FrameContract` |
| `HelperProcessProofs` | replies match commands, windows, what outlives the bridge, no survivors; ports follow the envelope |

### GraphCompiler

`node`, `edge`, `marked` (the `PendingDeletion` components) are the graph;
`state`, `gate`, `shutdown`, `instance`, `handle` are the components of a node;
`thread` and `cont` are the thread and the CONTINUE half of its barrier; `txn`
is the log; `toAdd` ... `configs` the `CompilationPlan`; `phase`, `batch`,
`work`, `joining` are compile()'s position; `waiting` and `committer` the mutex
`one_commit_at_a_time`. `marked` keeps ids of nodes and edges together.

One action is one hold of the graph lock, or one step of a thread that takes
none. `compile()` releases the lock between any two elements of a list and
between the phases of a removal, and the model interleaves edits and threads
exactly there. Each `?` of `compile()` is an action ending in `Abort`, which
also drops the barrier handles of the batch, so that a thread that is still
waiting for CONTINUE is released, as a dropped sender releases it in the code.

The order in which a traversal returns ids is left open. An id is given out
once, as the code's unique ids are. The three execution modes differ only in
which failures the thread can report (`StartFails`, `LoopReportsFailure` are
manual mode's), so a processor may behave like any of them.

### Runner

`status`, `ctx`, `service` are the runtime's fields. `pc`, `call`, `live`,
`mine`, `todo` belong to the caller: where it is, which call it is in, the
context it captured, the operations it is committing for, the processors
pause() or resume() has still to visit. `undelivered` counts `GraphDidChange`
events under way. Callers are host threads, the tokio tasks of the listener, and
processors' own threads, which may edit from setup() and process().

Two locks appear as themselves, where one is wanted with the other held. A
processor's thread has its instance's mutex throughout setup() and process()
(`MutexHeld`), and a graph operation it calls from there needs the graph lock.
compile() takes the graph lock for each link it wires or unwires (`LockForLink`,
`locked`) and locks the instances of both ends under it (`LocksTaken`); to
configure a processor it locks the instance alone. While `locked` holds, nothing
that needs the graph lock happens. Every other hold of a lock is one step.
`GraphCompiler` by itself has the locks as atomicity only, so `CommitReturns` is
about a compiler whose locks come free; `CallReturns` has them.

Assumptions on the environment: a host starts only an `Initial` or `Stopped`
runtime, pauses a `Started` and resumes a `Paused` one; stop() may come at any
time and from any host. `GraphDidChange` is delivered. At most `Tasks` listener
commits are outstanding at once. Storing `Pausing` and taking the list of
processors are one step.

### ReactiveLoop

What `GraphCompiler` calls a running thread, step by step, for a reactive
processor. `ring` is a link's subscriber ring, `box` a port's mailbox, `subs`
the subscribers in wiring order, `dropped` the per-link count; `listener` is the
generation of the installed listener and `event` whether it has a notification.
`pc`, `waiter`, `eventfd`, `setupFailed` and `toldPaused` are the locals of
`run_reactive_mode`: the loop looks at the listener (`RefreshWaiter`), at the
shutdown channel and the pause gate (`Check`), waits (`Wait`), clears the
listener (`DrainListener`), looks at the ports (`Gate`), and runs process()
(`Read`, `ProcessReturns`) until they are empty (`AfterProcess`). `overrun`,
`taken`, `last`, `unheard` are history.

A source's send() and notify() are two steps, and anything may happen between
them. The compiler wires the subscriber before the listener, both under the
processor's mutex (`Held`); the loop cannot take the mutex meanwhile, but a
source can publish. A bag is its number on its link, and the ring's eviction by
the library (`enable_safe_overflow`) is modelled as `output.rs` and `node.rs`
rely on it. process() may read any ports any number of times, or none. The
library may refuse the subscriber (`WireNoSubscriber`), which leaves the source's
end alone until the link is unwired (`UnwireRefused`), or the listener (the second
disjunct of `WireListener`), which leaves a subscriber that nobody notifies until
the next link brings one; either ends the commit.

A port's ring and mailbox have the same depth, as the delivery profile gives
them. An `epoll_wait` interrupted by a signal is like one that timed out, and
happens only with nothing readable.

### SurfacePool and FrameContract

`n`, `next`, `gen` are the ring; `pc`, `caller`, `left`, `picked` are where the
running `acquire()` is. It holds the pool's mutex throughout, and the lease
table's from the start of its scan to the retirement of the outgoing id, which
the guard `TableFree` of the service's actions stands for. `cache` and `plain`
are `buffer_cache`; `holds` and `shared` what the threads have; `current` and
`leases` the lease table; `line`, `op`, `asked` a connection and the request it
is serving; `conn` and `claims` the helper's own books. Check-out is two steps,
since `handle_check_out` lets the table go between `handle_lookup` and
`record_check_out_lease`; the helper's receipt of the answer is a third. A
release goes over the connection the helper has at that time, as
`release_check_out` does.

A frame `<<s, g>>` is the g-th frame of slot s. The pool is the one of a given
size and format. That a slot could not be registered with the service, that its
descriptors could not be duplicated, or that the surface is unknown, is one
refusal of `CheckOut`. A request and the critical section of its handler are one
step. A dead helper is not restarted, as nothing in the code does.

`FrameContract` is the promise of
`src/docs/decisions/surface-id-lifetime-contract.md`: a slot publishes its next
frame only when nobody holds the last one. `SurfacePool` implements it under the
mapping `frame <- gen`, `held <- HeldBy`. `HeldBy` leaves out the holders that
the code does not protect, which the history variables `exposed` and `failed`
delimit: a thread that resolved an id inside the hand-off that retires
it, one whose slot's entry was cleared from an overfull cache, one that imported
the planes anew by a lookup without a lease, and a helper that lost a connection.
`failed` is broader than it need be there: it takes in a helper that held nothing
over the connection it lost. The first is finding 5.

### HelperProcess

The host's hooks run one at a time, under the processor's mutex. `call` and `at`
are the call in progress: the command is noted in the registry (`SendNotes`),
written (`SendWrites`), and its reply awaited (`TakeReply`, `ReplyTimesOut`,
`ReplyDisconnected`); teardown, a setup that timed out, and the drop go on to
close the bridge, drain its windows and handles, and reap the child. `reader` is
the bridge's reader thread, `down` and `up` the two directions of the socket.
The writer's lock is held by one step of the host, or by a reader that is
"writing" an answer. `write_frame` has no deadline, so with `SocketRoom` frames
unread a write waits, with the lock, until the helper reads or is gone; `up` has
no such limit, as the bridge's reader always reads on. The reader looks whether a
window may be granted (`ServesWindow`) and makes it later (`ReaderMints`), as the
event pump and the GPU come between.
In the child, `queue` is filled by its reader thread and emptied by its main
thread at `pc`, which carries out `work`.

Commands that expect a reply are numbered in the model and not on the wire;
`serial`, `reported` and `midProcess` are history. The mode of execution is
chosen when `run` is carried out. Deadlines are choices: a wait with an empty
channel may end at any time. Frames written before a shutdown or a death stay
readable, and writes after it fail. `ChildWedges` makes the processor's own code
never return, and its reader thread then need not read either; `ChildDies` ends
the process anywhere. A setup whose reply names another protocol version fails
like one that was refused. An answer to an escalate request waits for room and
takes none: what it holds and the helper threads that wait for it are left out,
and so are explicit releases of handles and windows.

## 3. What is checked

| run | bounds | shows |
|---|---|---|
| `graph_compiler` | 2 processors, 1 link between them, 1 committer, 4 edits | the safety properties of the compiler, no planned removal forgotten; commits return |
| `runner` | 1 processor, a self-link, 2 hosts, 1 listener task, 3 edits | a commit that returns Ok has settled its caller's operations; no processor thread commits |
| `runner_live` | 1 processor, a self-link, 1 host, 2 edits, from a new runtime and from one with the processor in its loop | save for finding 1: every call returns; a change whose announcement is outstanding is committed; planned removals complete |
| `reactive_loop` | 2 links into 1 port, depth 2, 3 bags a link, one link wired later, no pause | accounting of bags, order, no sleep on a bag |
| `reactive_loop_live` | 2 links into 2 ports, one read newest-first, depth 1, 1 bag a link, both wired later, pauses | shutdown is seen, notifications are served, pause callbacks |
| `surface_pool` | 2 threads, 1 helper, a ring of 1 slot that grows to 2, 2 frames a slot, 1 connection, 2 leases a slot | the pool implements the frame contract; leases end with their connection; acquire() returns |
| `helper_process` | 1 link, 1 call beyond the lifecycle's own and 1 escalate request, or 2 requests | replies match, no window for a request of process(), ports follow the envelope, no survivors; only a full socket keeps a call, deaths are reported |
| `lock_cycle` | 1 processor in its loop, a self-link, 1 host, 2 edits | violated: see finding 1 |
| `stop_fails` | one host | violated: see finding 2 |
| `caller_outcome` | two hosts that edit | violated: see finding 3 |
| `paused_backlog` | 2 links into 1 port, 1 bag a link, pauses | violated: see finding 4 |
| `surface_pool_reader` | 2 threads, no helper | violated: see finding 5 |

Why the bounds are enough. Two processors and a link between them are the least
graph in which one batch adds one processor, removes the other and wires or
unwires what joins them. Four edits allow add, add, connect and a removal, with
commits and aborts between any two of them. The runtime's runs use one
processor because its questions are about callers, and the compiler's own are
answered above for two; a link from the processor to itself is enough for
compile() to want the mutex of a processor that wants the graph lock. In `runner`
one host drives the lifecycle and edits while the other stops, beside the
processor's own thread and the listener (786,729 states); the instance in which
the second host edits as well (2,847,304 states) passes too. `runner_live` has one
host, which makes every call, and starts from two states: a new runtime, and
`ProcessorInItsLoop`, so that its two edits can be a connect and a disconnect of a
running processor, or that processor's own. Two links into one mailbox of depth 2 with three bags
each overflow both ring and mailbox and let one link's push evict the other's
bag; a link wired while the loop runs replaces no listener, installs the first
one, or installs a second after the last link went. In the pool, two threads are
a producer and a reader, or two producers; a ring of one slot that grows by one
reaches its limit; two frames a slot make ids go stale, and two leases a slot
let a helper hold one frame twice. A cache of one entry overflows. One
connection is enough, as the contract does not cover a helper that lost one. The
helper process needs one call beyond setup, run, stop and teardown to race a
configuration update, a pause or a wiring with any of them, and two requests for
one to be served while another waits; the run keeps the call and the second
request apart (172,231 states), and the instance with all three (`MaxExtras = 3`,
538,870 states) passes too. A socket with room for one frame (`SocketRoom = 1`) is
the smallest: one command the helper has not read fills it.

`MaxEdits` bounds edits and `Tasks` listener commits; `MaxBags` publications;
`MaxGen`, `MaxHolders` and `MaxLeases` frames, connections and leases;
`MaxCalls`, `MaxRequests` and `MaxExtras` calls, requests and their sum.
`SocketRoom` is the program's own bound, made small. Nothing else is bounded. Except in `surface_pool`, where deadlock is checked, the system
may stop (a host need not call anything again); that no call is stuck is stated
by `CommitReturns`, `CallReturns` and `HostCallReturns`.

Fairness. The committing thread, processor threads and callers inside a call
keep running; setup(), process() and teardown() return, without which no join
could end. The commit mutex is strongly fair to each waiter, and so are the graph
lock and the instance's mutex to a commit, as parking_lot's eventual fairness
makes them; a processor's thread is strongly fair between its own calls, as a
setup() or process() makes finitely many. The rest is weak fairness. In `ReactiveLoop` the loop's thread
runs and process() returns; a source inside `write_raw` and a compiler inside
WIRE go on; nobody need publish, rewire, pause or shut down. The listener's thread polls. In `SurfacePool`,
`acquire()` runs once called, and a service thread gets the lease table's mutex in the end although `acquire()` keeps taking it; no
helper need release, answer or die. In `HelperProcess`, a call in progress goes
on, deadlines included; the failure check of the loop, the reader thread and the
child's main thread run; the child's reader reads and its hooks return unless it
is wedged. No fairness is assumed of edits, host calls or failures.

### Findings

1. `lock_cycle`. A processor calls a graph operation from process(), or from
   setup(), while a commit wires or unwires one of its links. The processor has
   its instance's mutex and waits for the graph lock; compile() has the graph lock
   (`compiler/compiler.rs:223` and `466`) and waits for the mutex
   (`compiler/compiler_ops/open_iceoryx2_service_op.rs:670`). Neither goes on, nor
   does any later call. `runtime/operations_runtime.rs:30` says a processor's own
   thread "never waits for a compile", and the comment at `compiler/compiler.rs:280`
   releases the lock around the join for this very reason. `CallReturns`,
   `QueuedIsCommitted` and `RemovalCompletes` name the cycle (`LockCycle`) as the
   one exception, and TLC shows there is no other.
2. `stop_fails`. A processor added while the runtime is paused is still queued
   when stop() commits. The batch removes the node and then prepares it; PREPARE
   fails, stop() leaves by `?`, and the surface-sharing service stays up,
   against the comment at `runtime/runtime.rs:576`.
3. `caller_outcome`. A commit takes everybody's operations. When start()'s
   commit fails on another caller's add, that caller's own commit finds an empty
   log and returns Ok, against `runtime/operations_runtime.rs:51`.
4. `paused_backlog`. While paused the loop clears its listener and leaves the
   ports alone. Resumed, it waits for a notification that is gone; the wait
   times out and the loop goes round without looking at the ports. Bags that
   arrived during the pause stay unread until the source publishes again,
   against the comment at `execution/thread_runner.rs:287` ("Call `process()`
   until every input port reports empty, then go back to sleep"). Without
   pauses the property is checked (`reactive_loop`) and proved.
5. `surface_pool_reader`. `get_from_cache` takes only the cache's mutex, so a
   thread resolves an id after `acquire()` has found its slot unshared and before
   it retires the id (`context/gpu_context.rs:534-542`). It then reads a buffer
   its producer is writing, against `surface-id-lifetime-contract.md:18` ("a
   slot is never recycled or rewritten under a holder").

### Other statements the models refute

Eight definitions state a comment of the code as it is worded, and TLC refutes
each of them. They have no run of their own; to see a trace, check the definition
with the constants given.

| definition | says | refuted because |
|---|---|---|
| `Runner!OneStopAtATime` | two concurrent callers cannot both pass stop()'s check (`runtime/runtime.rs:520`) | the check refuses `Stopped` only, so a caller that finds `Stopping` passes and runs the teardown as well |
| `Runner!DeferredIsCommitted` | the commit of a change made while the runtime is not started is deferred to start() (`runtime/graph_change_listener.rs:42`) | the listener drops the announcement of a change made while paused, and resume() commits nothing; the change waits for the next commit somebody makes |
| `HelperProcess!NoCommandParks` | no command can park the engine's thread forever (`python_helper_process_spawn_host.rs:233-234`) | the wait for the reply has a deadline, the write of the command has none |
| `HelperProcess!NeverMintedMidProcess` | a window is never minted mid-process() (`subprocess_escalate.rs:926-927`, `src/docs/plan/ARCHITECTURE.md:1016-1017`) | `run` is sent between the check of a request made in setup and the mint |
| `HelperProcess!ReportedConfigIsRunning` | a configuration reported as applied is running (`python_helper_process_spawn_host.rs:686-689`) | `_update_config` answers ok also when the processor refused the update |
| `HelperProcess!NobodyWaitsOnAClosedChannel` | the next command is `None` once the parent is gone (`_helper.py:208`) | the run loop takes the one `None`, and the main thread then waits for another; the host's reaper ends it |
| `HelperProcess!GoneMeansItStoppedAnswering` | `child_is_gone` is set once the child stops answering (`python_helper_process_spawn_host.rs:149-152`) | a configuration update before setup finds no bridge and sets it; `run` is then never sent |
| `SurfacePool!ClaimOnOpenConnectionStands` | releasing one of two claims leaves the other standing (`surface_check_out_lease_registry.rs:47-49`) | after a reconnection the old connection's claim is released over the new one |

The first with the constants of `runner`, the second with those of `runner_live`,
the third and fourth with those of `helper_process`; the other three of
`HelperProcess` with `Links = {}`, `SocketRoom = 1`, `MaxCalls = 1`,
`MaxRequests = 0`, `MaxExtras = 1`; the last with one thread, one helper, a ring of one slot, `MaxGen = 2`, `MaxHolders = 2`
and `MaxLeases = 2`.

## 4. What is proved

For every value of the constants that satisfies the named assumptions of the
modules (finite sets of processors and links, positive depths and the like), and
from nothing else:

| theorem | statement |
|---|---|
| `TypeCorrect` | `Safety => []TypeOK` |
| `NoOrphan` | no thread outlives its node |
| `LiveThreadsCanBeStopped` | between commits every live thread has its node, handle and an unused channel |
| `SendNeverBlocks` | signal_shutdown never blocks with the graph lock held |
| `WiredLinks` | a link shown Wired has an instance at both ends |
| `ErrorIsKept` | a thread never overwrites a reported Error |
| `BarrierHoldsSetupBack` | no processor of a batch runs setup() before the batch is wired |
| `WireFindsEveryLink` | WIRE finds every link it is given |
| `RemovalsAreCarriedOut` | compile() forgets no removal of its plan before it is done, however it ends |
| `CompiledIsWired` | a compile at its configs has wired its links and released its processors |
| `RunnerImplementsCompiler` | `RunnerSafety => Safety` of the compiler |
| `RunnerLeavesNoOrphan`, `RunnerCanStopThreads` | the compiler's theorems, for the runtime |
| `ThreadsNeverCommit` | no processor thread waits for or holds the commit gate |
| `CommittedOperationsAreSettled`, `RunnerTypes` | a commit that returned Ok has settled its caller's operations; types |
| `SleepsOnlyWhenEmpty` | never paused, the reactive loop sleeps on no bag it was notified of |
| `ProcessOnlyWhenResumed` | no process() between on_pause() and on_resume() |
| `BagsAreAccountedFor` | sent = overrun + queued + dropped + read, on every wired link |
| `OrderIsKept` | a link's bags are read in the order they were sent |
| `LoopTypeCorrect` | types; no ring or mailbox exceeds its depth |
| `Refinement` | `SurfacePool` implements `FrameContract` |
| `HeldIsCurrent` | a frame held under the contract is not rewritten |
| `LeasesEnd`, `CacheIsLive`, `Types` | no lease outlives its connection; the cache answers for live frames; types |
| `RepliesMatch` | a call takes the reply to its own command |
| `NoWindowOnceRunning` | no window is granted to a request written during process() |
| `OneRequestOutlives` | at most one request survives the drop of the bridge |
| `PortsFollow` | the child ends up with a port for exactly the links of the envelope |
| `ChildrenAreReaped`, `HelperTypes` | no helper process outlives the host's handle; types |

The compiler's properties are not inductive. `NoOrphanThread` needs that the
compiler is joining the very thread whose node it drops, hence that a live
thread has a handle, or the compiler holds it, or has not attached it yet
(`LiveThreadHasHandle`). That a shutdown send finds its place free needs that a
sent signal belongs to a removal under way (`SentMeansLeaving`), and that every
prepared processor got a fresh channel (`PreparedHasChannel`). `IInv` collects
these. `GraphCompilerTypes` proves the type part one action at a time and
`GraphCompilerProofs` that every step preserves the rest. `ErrorIsKept` follows
from `ErrorIsAfterSetup`.

The barrier and the wiring need to know where an operation can be. `PlanInv`
follows it from the log through the batch into the plan. An AddProcessor is
logged once, so a processor of the plan has no thread until SPAWN gives it one
(`AddsAreNew`), and none passes its barrier before CONTINUE (`BarrierHolds`). A
link is marked in the same hold of the lock that logs its removal
(`RemovalsAreKnown`), so a link sorted into the plan unmarked has no removal
ahead of it in this batch, and reconciling takes out the links whose endpoints
leave (`WiringsStay`). Each phase has achieved its part for the elements of its
list it has visited; the invariant was model-checked with five edits before it
was proved.

`RInv` is the runtime's: a processor's thread never captures a live context, so
inside a call it is only ever at its scope or its publication. The refinement
does not depend on the locks: a step that waits for them is a stutter of the
compiler.

That a commit settles its caller's operations is a statement about several
commits: another caller's may take them first. `TrackInv` follows them. Until
its commit has taken them they are in the log, in the hands of the commit under
way, or done; while the caller itself compiles none of them is left in the log;
and once it has come back they are done (`Tracked`). `Fits` ties a caller's place
to the call it is in. The compiler's side is `DoneInv`: each removal of the plan
is done or ahead, and all of them are done before PREPARE, the first phase that
can fail (`RemovalsDone`), so an abort leaves no removal half way; an added link
that is still in the log exists (`LinkAddsAreKnown`); and the commit gate is held
exactly while a compile is under way (`GateIsHeld`). Both were checked with TLC
on that larger instance of `runner` before they were proved. The action property
`RemovalsSurviveAborts` follows from `DoneInv` alone; with `CommitReturns` it gives
what `RemovalCompletes` says, which TLC checks on the composed system.

`SleepInv` is the reactive loop's. From the look that found every port empty to
the next wake, the mailboxes are empty and a bag in a ring has its notification
pending on the listener, on its way, or unheard (`NothingLeftBehind`). It
survives the loss of a listener because only bound links have bags in their
rings (`OnlyBoundRingsHoldBags`), and a first listener because without one no
notification is pending (`NoListenerNoEvent`). The theorem assumes `~MayPause`,
which finding 4 shows to be needed.

`BagInv` is behind the accounting and the order of bags. Neither is inductive: a
link gets its subscriber with all its counts at zero and none of its bags in a
mailbox (`FreshLinksAreEmpty`, `BoxesHoldTheirOwn`); the rings that are emptied
are those of the subscribers in `subs`, each once, so these have to be the bound
links (`SubscribersAreBound`); and a read moves `last` forward because what was
read precedes what the mailbox holds, which precedes what the ring holds
(`RingsAreInOrder`, `BoxesAreInOrder`). The heart is `ArrivedIs`: whatever the
order of the subscribers, the mailbox with the rings behind it has the bags of
both, all of them, and each link's in order. A look and a read then differ only
in how many of the oldest bags are dropped and how many taken, which
`EmptiedRings` treats together; `CountSplit` and `CountJoined` say that counts
add up when a list is cut or put together. TLC checked `BagInv` first, on the
constants of `reactive_loop` (924,572 states) and with two ports, one read
newest-first, depth 1, two bags a link and pauses (2,065,210 states).

The pool's invariant (`SurfacePoolInvariant`) says, of each kind of holder, what
stands for it in the reuse test. A thread the test sees has a share of a slot
whose cache entry stands and that is not in the middle of a hand-off
(`ThreadInv`), so the share count is at least three. A helper that never lost a
connection has, for each claim and each answer on its way, a lease on the slot's
current frame (`HelperInv`); the answer on its way is what a death between the
recording and the receipt needs. `LineInv` ties a connection to its helper, so
that the end of one cannot take another's leases. The steps of the runtime's
threads and those of the service are proved apart, as each leaves the other
side's variables alone. Nothing bounds threads, helpers, slots or connections
except that the threads are finitely many.

The helper's invariant (`HelperProcessProofs`) follows a reply from the command
that asks for it. While a call waits, one numbered item at most is on the socket,
in the child or on the channel, and it bears the number of that call (`Flow`);
while none waits and the child has not been given up on, there is none. A call
that gave up sets `child_is_gone`, after which no call waits again, and this is
what keeps a late reply from being taken. `Noted` says that while the last note
is setup no run is anywhere on its way to the child, because the note precedes
the frame; it is what the check of a window sees, and says nothing of the time the
window is made. `Draining` counts what the registry can still gain: one item, as the
reader that finds its answer unwritable stops.

The ports of the child need the way of each command from the host to the child.
`PortInv` states the property with the commands taken one place at a time: those
the child has been handed (`Handed`), those on the socket (`Written`), the one
the host is sending (`Begun`). A command that moves from one place to the next
leaves the outcome as it was (`CarryMoves`), so only the host's beginning of a
command and the child's end of one are left to look at. The property does not
hold after a setup that failed, but has to hold again when a later one is on its
way (`SetupAhead`), and it needs that a bridge whose socket is shut is known to
be dead, and that the socket is open before the first setup (`Sockets`). TLC checked it with two links and two calls.

Two properties are about lists of any length, a fold over the subscribers and
one over the commands on their way. The library's induction theorems do not
apply, as they are about operators. `ReactiveLoopProofs` therefore states
induction for sets of numbers (`ByInduction`), from the well-foundedness of the
naturals, and derives from it that the recursive function in `Arrived` exists
and has the values its definition gives it (`Recursion`, `ArrivedUp`).
`PortsAfter` looks at the last command that settles a link, so that no recursion
is needed, and `RemoveByLink` takes a list apart at a position as
`remove_by_link` does.

In each module a leaf that names no prover is tried with Zenon first, then with
the SMT solver; leaves about numbers and lists name the latter.

Only model-checked: liveness (`CommitReturns`, `CallReturns`,
`QueuedIsCommitted`, `RemovalCompletes`, `ShutdownIsSeen`, `NotificationIsServed`,
`DeadConnectionPinsNothing`, `AcquireReturns`, `HostCallReturns`,
`DeathIsReported`, `ShutChildEnds`), which is beyond this prover. Every
invariant and every action property of the passing runs is proved, and so are the
types of every component.

## 5. What is not modelled

Inside the modelled components: thread panics; the compiler's own termination
path for a child process (`compiler/compiler.rs:321-365`), for which no code
attaches a handle; ports, schemas and names, and so the errors about them beyond "refused"; channel sizing; the run
loop, snapshots and GPU initialisation of the runtime. commit() takes the log
without the graph lock, so a batch may hold only some of the operations one
scope logs; the model takes them together. Locks other than the commit gate, the
graph lock and the instances' mutexes appear only as atomicity.
In the data plane: windowed audio ports, the staging of frames larger than an
out-of-process reader's buffer, taps, manual injection, frames refused for their
size or header, several links from one output port, and failures of the library
at the source's end of a link. In the pool: a poisoned lease table, textures,
registration and unregistration of surfaces. In the helper process: the answers to escalate requests. The other
components and the reasons are in `PROJECT.json`.

## 6. Plan

In this order; each comes with its runs and, where an invariant is worth it, a
proof.

1. `ReactiveLoop`: an abstract lossy bounded queue per link that it implements,
   and the body of the continuous loop.
2. `SurfacePool`: registration and unregistration, with the watchdog of a
   connection's own surfaces; textures.
3. The escalate gate, with the processors' mutexes `Runner` has.
4. `AdapterRegistry`: readers and writer of a surface across re-registration.
5. `EventBus`, then `LogWorker`, then the run loop with signals and readiness.
