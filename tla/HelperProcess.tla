---------------------------- MODULE HelperProcess ----------------------------
(***************************************************************************)
(* One Python processor: the host that sits in the graph in its place, the *)
(* bridge between the host and the helper process, and the helper process. *)
(*                                                                         *)
(* The processor's thread calls the host's lifecycle hooks in order, and   *)
(* the compiler calls it to wire a link or to update the configuration.    *)
(* Each call runs under the processor's mutex, so there is one at a time.  *)
(* Beside it run the bridge's reader thread and, in the helper process,    *)
(* the reader thread and the main thread.  A call that expects a reply     *)
(* takes the next message of the lifecycle channel: nothing on the wire    *)
(* says which command a reply answers.                                     *)
(*                                                                         *)
(* The helper process dies at any moment, and the code of the processor it *)
(* hosts may never return, nor let the helper's reader thread run.         *)
(* Deadlines are choices: a wait with nothing to take may run out at any   *)
(* point.  A write has none: it waits while the socket is full.            *)
(***************************************************************************)
EXTENDS Naturals, Sequences, FiniteSets

CONSTANTS
    Links,          \* links the compiler wires to this processor
    SocketRoom,     \* frames the socket to the helper process holds unread
    MaxCalls,       \* bound: calls other than the lifecycle's own
    MaxRequests,    \* bound: escalate requests of the helper process
    MaxExtras       \* bound: the two together

ASSUME HelperAssumption ==
    /\ SocketRoom \in Nat \ {0}
    /\ MaxCalls \in Nat /\ MaxRequests \in Nat /\ MaxExtras \in Nat

VARIABLES
    \* the host
    thread,         \* what the processor's thread does next
    wasPaused,      \* was_paused
    call,           \* the call that holds the processor's mutex
    at,             \* where it is
    gone,           \* child_is_gone
    handle,         \* child: the host owns a process to reap
    envelope,       \* link_wiring
    error,          \* the graph shows the processor in error
    dropped,        \* the host itself has been dropped
    calls,          \* calls made other than the lifecycle's own
    serial,         \* commands sent that expect a reply
    reported,       \* the last configuration reported as applied
    \* the bridge
    bridge,         \* the host has one
    dead,           \* its dead flag
    shut,           \* its end of the socket is shut down
    replies,        \* lifecycle_rx
    lastCommand,    \* last_lifecycle_command_sent_to_the_helper_process
    handles,        \* handles in the escalate registry
    windows,        \* windows in the escalate registry
    reader,         \* the reader thread
    \* the socket
    down,           \* frames on the way to the helper process
    up,             \* frames on the way to the host
    \* the helper process
    child,          \* none, alive, exited
    pc,             \* its main thread: boot, idle, loop, leave
    work,           \* the command its main thread is carrying out
    queue,          \* _lifecycle_commands
    listening,      \* its reader thread has not seen the end of the channel
    hosted,         \* the processor's setup: no, up, failed
    ports,          \* links it has opened its port for
    refused,        \* links whose port it failed to open or to release
    config,         \* the configuration the processor runs with
    requests,       \* escalate requests made
    wedged,         \* the processor's code does not return
    midProcess      \* history: a window was granted to a request of process()

hostVars == <<thread, wasPaused, call, at, gone, handle, envelope, error, dropped,
              calls, serial, reported>>
bridgeVars == <<bridge, dead, shut, replies, lastCommand>>
readerVars == <<handles, windows, reader, midProcess>>
childVars == <<child, pc, work, queue, listening, hosted, ports,
               refused, config, requests, wedged>>
vars == <<hostVars, bridgeVars, readerVars, down, up, childVars>>

Answered == {"setup", "stop", "teardown", "on_pause", "on_resume", "update_config"}
Silent == {"run", "wire_link", "unwire_link"}
Wiring == {"setup", "wire_link", "unwire_link"}
Serials == 0..(MaxCalls + 3)

\* A command, numbered when it expects a reply; 0: it expects none.
Command(c, k, ls) == [cmd |-> c, n |-> k, links |-> ls]
Idle == Command("none", 0, {})
Closed == Command("closed", 0, {})
Commands ==
    {c \in [cmd : Answered, n : Serials \ {0}, links : SUBSET Links]
            \cup [cmd : Silent, n : {0}, links : SUBSET Links] :
        c.links # {} => c.cmd \in Wiring}

\* What the helper process writes: the reply to a command, or a request.
Reply(k, b) == [rpc |-> "reply", n |-> k, flag |-> b]
Request(o, mid) == [rpc |-> o, n |-> 0, flag |-> mid]
Replies == [rpc : {"reply"}, n : Serials \ {0}, flag : BOOLEAN]
Requests == [rpc : {"acquire", "window"}, n : {0}, flag : BOOLEAN]

\* The types of the variables.
TypeOK ==
    /\ thread \in {"setup", "start", "loop", "teardown", "ended"}
    /\ wasPaused \in BOOLEAN
    /\ call \in Commands \cup {Idle, Command("teardown", 0, {}), Command("drop", 0, {})}
    /\ at \in {"free", "send", "write", "wait", "close", "windows", "handles", "reap"}
    /\ gone \in BOOLEAN /\ handle \in BOOLEAN /\ error \in BOOLEAN
    /\ dropped \in BOOLEAN
    /\ envelope \subseteq Links
    /\ calls \in 0..MaxCalls /\ serial \in Serials /\ reported \in Serials
    /\ bridge \in BOOLEAN /\ dead \in BOOLEAN /\ shut \in BOOLEAN
    /\ replies \in Seq(Replies)
    /\ lastCommand \in Answered \cup Silent \cup {"none"}
    /\ handles \in Nat /\ windows \in Nat
    /\ reader \in {"none", "reading", "minting", "answering", "writing", "done"}
    /\ down \in Seq(Commands) /\ up \in Seq(Replies \cup Requests)
    /\ child \in {"none", "alive", "exited"}
    /\ pc \in {"boot", "idle", "loop", "leave"}
    /\ work \in Commands \cup {Idle}
    /\ queue \in Seq(Commands \cup {Closed})
    /\ listening \in BOOLEAN
    /\ hosted \in {"no", "up", "failed"}
    /\ ports \subseteq Links /\ refused \subseteq Links
    /\ config \in Serials
    /\ requests \in 0..MaxRequests
    /\ wedged \in BOOLEAN /\ midProcess \in BOOLEAN

Init ==
    /\ thread = "setup" /\ wasPaused = FALSE /\ call = Idle /\ at = "free"
    /\ gone = FALSE /\ handle = FALSE /\ envelope \in SUBSET Links /\ error = FALSE
    /\ dropped = FALSE /\ calls = 0 /\ serial = 0 /\ reported = 0
    /\ bridge = FALSE /\ dead = FALSE /\ shut = FALSE
    /\ replies = <<>> /\ lastCommand = "none"
    /\ handles = 0 /\ windows = 0 /\ reader = "none"
    /\ midProcess = FALSE
    /\ down = <<>> /\ up = <<>>
    /\ child = "none" /\ pc = "boot" /\ work = Idle /\ queue = <<>>
    /\ listening = TRUE /\ hosted = "no"
    /\ ports = {} /\ refused = {} /\ config = 0 /\ requests = 0
    /\ wedged = FALSE

HasBudget == calls + requests < MaxExtras

-----------------------------------------------------------------------------
(* The calls of the host.                                                  *)

\* The mutex is taken and the command c is about to be sent.
Begin(c, ls) ==
    LET k == IF c \in Answered THEN serial + 1 ELSE 0
    IN  /\ call' = Command(c, k, ls)
        /\ serial' = IF c \in Answered THEN k ELSE serial
        /\ at' = "send"

\* exchange_with_child refuses at once when the child has been given up on.
Exchange(c) == ~gone /\ Begin(c, {})

HasFailed == gone \/ (bridge /\ dead)

HostSetup ==
    /\ thread = "setup" /\ at = "free"
    /\ \/ /\ thread' = "ended" /\ error' = TRUE
          /\ UNCHANGED <<call, at, serial, handle, child, bridge, shut, reader>>
       \/ /\ thread' = "ended" /\ error' = TRUE
          /\ handle' = TRUE /\ child' = "alive" /\ shut' = TRUE
          /\ UNCHANGED <<call, at, serial, bridge, reader>>
       \/ /\ handle' = TRUE /\ child' = "alive"
          /\ bridge' = TRUE /\ reader' = "reading"
          /\ Begin("setup", envelope)
          /\ UNCHANGED <<thread, error, shut>>
    /\ UNCHANGED <<wasPaused, gone, envelope, dropped, calls, reported, dead,
                   replies, lastCommand, handles, windows, midProcess,
                   down, up, pc, work, queue, listening, hosted,
                   ports, refused, config, requests, wedged>>

HostStart ==
    /\ thread = "start" /\ at = "free"
    /\ \/ gone /\ thread' = "loop" /\ UNCHANGED <<call, at, serial>>
       \/ ~gone /\ Begin("run", {}) /\ UNCHANGED thread
    /\ UNCHANGED <<wasPaused, gone, handle, envelope, error, dropped, calls,
                   reported, bridgeVars, readerVars, down, up, childVars>>

HostPauseOrResume ==
    /\ thread = "loop" /\ at = "free"
    /\ HasBudget /\ calls < MaxCalls /\ calls' = calls + 1
    /\ wasPaused' = ~wasPaused
    /\ \/ gone /\ UNCHANGED <<call, at, serial>>
       \/ Exchange(IF wasPaused THEN "on_resume" ELSE "on_pause")
    /\ UNCHANGED <<thread, gone, handle, envelope, error, dropped, reported,
                   bridgeVars, readerVars, down, up, childVars>>

HostSeesFailure ==
    /\ thread = "loop" /\ at = "free"
    /\ ~error /\ HasFailed
    /\ error' = TRUE
    /\ UNCHANGED <<thread, wasPaused, call, at, gone, handle, envelope, dropped,
                   calls, serial, reported, bridgeVars, readerVars, down, up,
                   childVars>>

HostStop ==
    /\ thread = "loop" /\ at = "free"
    /\ \/ gone /\ thread' = "teardown" /\ UNCHANGED <<call, at, serial>>
       \/ Exchange("stop") /\ UNCHANGED thread
    /\ UNCHANGED <<wasPaused, gone, handle, envelope, error, dropped, calls,
                   reported, bridgeVars, readerVars, down, up, childVars>>

HostTeardown ==
    /\ thread = "teardown" /\ at = "free"
    /\ \/ /\ gone /\ call' = Command("teardown", 0, {}) /\ at' = "close"
          /\ UNCHANGED serial
       \/ Exchange("teardown")
    /\ UNCHANGED <<thread, wasPaused, gone, handle, envelope, error, dropped,
                   calls, reported, bridgeVars, readerVars, down, up, childVars>>

\* A child that is not there counts as one that has stopped listening.
HostUpdatesConfig ==
    /\ at = "free" /\ ~dropped /\ ~gone
    /\ HasBudget /\ calls < MaxCalls /\ calls' = calls + 1
    /\ \/ ~bridge /\ gone' = TRUE /\ UNCHANGED <<call, at, serial>>
       \/ bridge /\ Exchange("update_config") /\ UNCHANGED gone
    /\ UNCHANGED <<thread, wasPaused, handle, envelope, error, dropped, reported,
                   bridgeVars, readerVars, down, up, childVars>>

\* Mutant: the link is recorded for a setup that has already been sent.
MutWireOnlyRecords(l) ==
    /\ at = "free" /\ ~dropped /\ l \notin envelope
    /\ HasBudget /\ calls < MaxCalls /\ calls' = calls + 1
    /\ envelope' = envelope \cup {l}
    /\ UNCHANGED <<thread, wasPaused, call, at, gone, handle, error, dropped,
                   serial, reported, bridgeVars, readerVars, down, up, childVars>>

\* The compiler records the link, then has the host hand it to the child.
HostWires(l) ==
    /\ at = "free" /\ ~dropped /\ l \notin envelope
    /\ HasBudget /\ calls < MaxCalls /\ calls' = calls + 1
    /\ envelope' = envelope \cup {l}
    /\ \/ (HasFailed \/ ~bridge) /\ UNCHANGED <<call, at, serial>>
       \/ ~HasFailed /\ bridge /\ Begin("wire_link", {l})
    /\ UNCHANGED <<thread, wasPaused, gone, handle, error, dropped, reported,
                   bridgeVars, readerVars, down, up, childVars>>

HostUnwires(l) ==
    /\ at = "free" /\ ~dropped /\ l \in envelope
    /\ HasBudget /\ calls < MaxCalls /\ calls' = calls + 1
    /\ envelope' = envelope \ {l}
    /\ \/ (HasFailed \/ ~bridge) /\ UNCHANGED <<call, at, serial>>
       \/ ~HasFailed /\ bridge /\ Begin("unwire_link", {l})
    /\ UNCHANGED <<thread, wasPaused, gone, handle, error, dropped, reported,
                   bridgeVars, readerVars, down, up, childVars>>

HostDrop ==
    /\ thread = "ended" /\ at = "free" /\ ~dropped
    /\ \/ ~handle /\ dropped' = TRUE /\ UNCHANGED <<call, at, gone>>
       \/ /\ handle /\ gone' = TRUE
          /\ call' = Command("drop", 0, {}) /\ at' = "close"
          /\ UNCHANGED dropped
    /\ UNCHANGED <<thread, wasPaused, handle, envelope, error, calls, serial,
                   reported, bridgeVars, readerVars, down, up, childVars>>

-----------------------------------------------------------------------------
(* The steps of a call.                                                    *)

\* The thread's next step, once its call has returned.
NextAfter(ok) ==
    CASE call.cmd = "setup" -> IF ok THEN "start" ELSE "ended"
      [] call.cmd = "run"   -> IF ok THEN "loop" ELSE "teardown"
      [] call.cmd = "stop"  -> "teardown"
      [] OTHER              -> thread

\* The call returns; the teardown hook goes on to drop the bridge.
Return(ok) ==
    IF call.cmd = "teardown"
    THEN at' = "close" /\ UNCHANGED <<call, thread, error>>
    ELSE /\ at' = "free" /\ call' = Idle
         /\ thread' = NextAfter(ok)
         /\ error' = (error \/ (~ok /\ call.cmd \in {"setup", "run"}))

\* Mutant: only commands that expect a reply are noted.
MutNotesOnlyAnswered ==
    /\ at = "send"
    /\ \/ /\ dead /\ gone' = TRUE /\ Return(FALSE)
          /\ UNCHANGED lastCommand
       \/ /\ ~dead /\ at' = "write"
          /\ lastCommand' = IF call.cmd \in Answered THEN call.cmd ELSE lastCommand
          /\ UNCHANGED <<gone, call, thread, error>>
    /\ UNCHANGED <<wasPaused, handle, envelope, dropped, calls, serial, reported,
                   bridge, dead, shut, replies, readerVars, down, up, childVars>>

\* SubprocessBridge::send looks at the dead flag and notes the command.
SendNotes ==
    /\ at = "send"
    /\ \/ /\ dead /\ gone' = TRUE /\ Return(FALSE)
          /\ UNCHANGED lastCommand
       \/ /\ ~dead /\ lastCommand' = call.cmd /\ at' = "write"
          /\ UNCHANGED <<gone, call, thread, error>>
    /\ UNCHANGED <<wasPaused, handle, envelope, dropped, calls, serial, reported,
                   bridge, dead, shut, replies, readerVars, down, up, childVars>>

\* A frame to a helper process that does not read finds no room.
SocketIsFull == Len(down) >= SocketRoom

\* Then it locks the writer and writes the frame: the write waits for room, and
\* fails once the helper process is gone.
SendWrites ==
    /\ at = "write" /\ reader # "writing"
    /\ \/ /\ child # "alive" /\ dead' = TRUE /\ gone' = TRUE /\ Return(FALSE)
          /\ UNCHANGED down
       \/ /\ child = "alive" /\ ~SocketIsFull /\ down' = Append(down, call)
          /\ IF call.cmd \in Answered
             THEN at' = "wait" /\ UNCHANGED <<call, thread, error>>
             ELSE Return(TRUE)
          /\ UNCHANGED <<dead, gone>>
    /\ UNCHANGED <<wasPaused, handle, envelope, dropped, calls, serial, reported,
                   bridge, shut, replies, lastCommand, readerVars, up, childVars>>

\* recv_lifecycle_timeout takes the next reply, whichever command it answers;
\* setup refuses one from a helper of another protocol version.
TakeReply ==
    /\ at = "wait" /\ replies # <<>>
    /\ replies' = Tail(replies)
    /\ Return(Head(replies).flag) \/ (call.cmd = "setup" /\ Return(FALSE))
    /\ reported' = IF call.cmd = "update_config" /\ Head(replies).flag
                   THEN call.n ELSE reported
    /\ UNCHANGED <<wasPaused, gone, handle, envelope, dropped, calls, serial,
                   bridge, dead, shut, lastCommand, readerVars, down, up,
                   childVars>>

\* Mutant: a call that ran out of time does not give up on the child.
MutTimeoutKeepsChild ==
    /\ at = "wait" /\ replies = <<>> /\ reader # "done"
    /\ IF call.cmd = "setup"
       THEN at' = "close" /\ gone' = TRUE /\ UNCHANGED <<call, thread, error>>
       ELSE Return(FALSE) /\ UNCHANGED gone
    /\ UNCHANGED <<wasPaused, handle, envelope, dropped, calls, serial, reported,
                   bridgeVars, readerVars, down, up, childVars>>

\* Mutant: only setup has a deadline.
MutOnlySetupTimesOut ==
    /\ at = "wait" /\ replies = <<>> /\ reader # "done"
    /\ call.cmd = "setup" /\ at' = "close" /\ gone' = TRUE
    /\ UNCHANGED <<call, thread, error, wasPaused, handle, envelope, dropped,
                   calls, serial, reported, bridgeVars, readerVars, down, up,
                   childVars>>

\* The deadline passes; a setup that ran out of time kills the child.
ReplyTimesOut ==
    /\ at = "wait" /\ replies = <<>> /\ reader # "done"
    /\ gone' = TRUE
    /\ IF call.cmd = "setup"
       THEN at' = "close" /\ UNCHANGED <<call, thread, error>>
       ELSE Return(FALSE)
    /\ UNCHANGED <<wasPaused, handle, envelope, dropped, calls, serial, reported,
                   bridgeVars, readerVars, down, up, childVars>>

\* The reader thread has ended, and its end of the channel with it.
ReplyDisconnected ==
    /\ at = "wait" /\ replies = <<>> /\ reader = "done"
    /\ gone' = TRUE /\ Return(FALSE)
    /\ UNCHANGED <<wasPaused, handle, envelope, dropped, calls, serial, reported,
                   bridgeVars, readerVars, down, up, childVars>>

\* Dropping the bridge: it is marked dead and its socket shut down, which
\* takes the writer's lock,
CloseBridge ==
    /\ at = "close" /\ (bridge => reader # "writing")
    /\ \/ /\ bridge /\ dead' = TRUE /\ shut' = TRUE /\ at' = "windows"
       \/ /\ ~bridge /\ at' = "reap" /\ UNCHANGED <<dead, shut>>
    /\ UNCHANGED <<thread, wasPaused, call, gone, handle, envelope, error,
                   dropped, calls, serial, reported, bridge, replies,
                   lastCommand, readerVars, down, up, childVars>>

\* then the windows it still has are closed,
DrainWindows ==
    /\ at = "windows" /\ at' = "handles"
    /\ windows' = 0
    /\ UNCHANGED <<thread, wasPaused, call, gone, handle, envelope, error,
                   dropped, calls, serial, reported, bridgeVars, handles,
                   reader, midProcess, down, up, childVars>>

\* then its handles are released, and the channel's receiver goes.
DrainHandles ==
    /\ at = "handles" /\ at' = "reap"
    /\ handles' = 0 /\ bridge' = FALSE /\ replies' = <<>>
    /\ UNCHANGED <<thread, wasPaused, call, gone, handle, envelope, error,
                   dropped, calls, serial, reported, dead, shut, lastCommand,
                   windows, reader, midProcess, down, up, childVars>>

\* The process is no more; frames it wrote stay readable.
ChildEnds ==
    /\ child' = "exited" /\ pc' = "leave" /\ work' = Idle
    /\ down' = <<>> /\ queue' = <<>> /\ listening' = FALSE
    /\ hosted' = "no" /\ ports' = {} /\ refused' = {} /\ config' = 0
    /\ requests' = 0 /\ wedged' = FALSE

\* Mutant: a child that does not exit in time is left behind.
MutReapGivesUp ==
    /\ at = "reap"
    /\ at' = "free" /\ call' = Idle /\ thread' = "ended"
    /\ handle' = FALSE
    /\ dropped' = (call.cmd = "drop")
    /\ error' = (error \/ call.cmd = "setup")
    /\ UNCHANGED <<wasPaused, gone, envelope, calls, serial, reported,
                   bridgeVars, readerVars, down, up, childVars>>

\* reap_child and kill_child end the same way: killed if it has not exited.
Reap ==
    /\ at = "reap"
    /\ at' = "free" /\ call' = Idle /\ thread' = "ended"
    /\ handle' = FALSE
    /\ dropped' = (call.cmd = "drop")
    /\ error' = (error \/ call.cmd = "setup")
    /\ ChildEnds
    /\ UNCHANGED <<wasPaused, gone, envelope, calls, serial, reported,
                   bridgeVars, readerVars, up>>
-----------------------------------------------------------------------------
(* The bridge's reader thread.                                             *)

ReaderForwards ==
    /\ reader = "reading" /\ up # <<>> /\ Head(up).rpc = "reply"
    /\ up' = Tail(up)
    /\ \/ bridge /\ replies' = Append(replies, Head(up)) /\ UNCHANGED reader
       \/ ~bridge /\ reader' = "done" /\ UNCHANGED replies
    /\ UNCHANGED <<hostVars, bridge, dead, shut, lastCommand, handles, windows,
                   midProcess, down, childVars>>

\* A resource is acquired for the child and kept in the escalate registry.
ServesAcquire ==
    /\ Head(up).rpc = "acquire" /\ handles' = handles + 1
    /\ reader' = "answering"
    /\ UNCHANGED <<windows, midProcess>>

\* A window is granted only when the last command sent was setup.
ServesWindow ==
    /\ Head(up).rpc = "window" /\ lastCommand = "setup"
    /\ midProcess' = (midProcess \/ Head(up).flag)
    /\ reader' = "minting"
    /\ UNCHANGED <<handles, windows>>

\* process_bridge_message: any request may fail.
ReaderServes ==
    /\ reader = "reading" /\ up # <<>> /\ Head(up).rpc # "reply"
    /\ up' = Tail(up)
    /\ \/ ServesAcquire
       \/ ServesWindow
       \/ reader' = "answering" /\ UNCHANGED <<handles, windows, midProcess>>
    /\ UNCHANGED <<hostVars, bridgeVars, down, childVars>>

\* The window comes from the event pump and a GPU round trip later, if it comes
\* at all; the command noted meanwhile is not looked at again.
ReaderMints ==
    /\ reader = "minting" /\ reader' = "answering"
    /\ windows' = windows + 1 \/ UNCHANGED windows
    /\ UNCHANGED <<hostVars, bridgeVars, handles, midProcess, down, up, childVars>>

\* The answer is written to the same socket as the commands, under its lock.
ReaderLocksWriter ==
    /\ reader = "answering" /\ reader' = "writing"
    /\ UNCHANGED <<hostVars, bridgeVars, handles, windows, midProcess, down, up,
                   childVars>>

\* Mutant: the reader goes on after an answer it could not write.
MutReaderGoesOn ==
    /\ reader = "writing" /\ reader' = "reading"
    /\ UNCHANGED <<hostVars, bridgeVars, handles, windows, midProcess, down, up,
                   childVars>>

\* It waits for room as well; the answer itself goes to the helper's thread that
\* asked and is not followed further.
ReaderAnswers ==
    /\ reader = "writing"
    /\ \/ (shut \/ child # "alive") /\ reader' = "done" /\ dead' = TRUE
       \/ /\ ~shut /\ child = "alive" /\ ~SocketIsFull
          /\ reader' = "reading" /\ UNCHANGED dead
    /\ UNCHANGED <<hostVars, bridge, shut, replies, lastCommand, handles,
                   windows, midProcess, down, up, childVars>>

\* Mutant: the reader ends without marking the bridge dead.
MutReaderEndsQuietly ==
    /\ reader = "reading" /\ up = <<>> /\ (shut \/ child # "alive")
    /\ reader' = "done"
    /\ UNCHANGED <<hostVars, bridgeVars, handles, windows, midProcess, down, up,
                   childVars>>

ReaderEnds ==
    /\ reader = "reading" /\ up = <<>> /\ (shut \/ child # "alive")
    /\ reader' = "done" /\ dead' = TRUE
    /\ UNCHANGED <<hostVars, bridge, shut, replies, lastCommand, handles,
                   windows, midProcess, down, up, childVars>>

-----------------------------------------------------------------------------
(* The helper process.                                                     *)

Alive == child = "alive" /\ ~wedged

\* Frames the helper process writes are lost once the host has shut down.
Writes(frame) == up' = IF shut THEN up ELSE Append(up, frame)

ChildBoots ==
    /\ Alive /\ pc = "boot" /\ pc' = "idle"
    /\ UNCHANGED <<hostVars, bridgeVars, readerVars, down, up, child, work,
                   queue, listening, hosted, ports, refused, config,
                   requests, wedged>>

\* _demultiplex_frames_from_parent
ChildReads ==
    /\ child = "alive" /\ listening
    /\ \/ /\ down # <<>>
          /\ queue' = Append(queue, Head(down)) /\ down' = Tail(down)
          /\ UNCHANGED listening
       \/ /\ down = <<>> /\ shut
          /\ queue' = Append(queue, Closed) /\ listening' = FALSE
          /\ UNCHANGED down
    /\ UNCHANGED <<hostVars, bridgeVars, readerVars, up, child, pc, work,
                   hosted, ports, refused, config, requests, wedged>>

\* Mutant: the end of the channel is skipped as no command at all.
MutSkipsClosed ==
    /\ Head(queue) = Closed
    /\ pc' = "idle" /\ UNCHANGED work

\* The end of the channel, taken from the queue: outside the loop it ends the
\* process, inside the loop it ends the loop.
ChildSeesClosed ==
    /\ Head(queue) = Closed
    /\ pc' = IF pc = "loop" THEN "idle" ELSE "leave"
    /\ UNCHANGED work

\* A second run is ignored, and so is one without a processor to run; the
\* manual mode calls a hook instead of entering a loop.
ChildRuns ==
    /\ Head(queue).cmd = "run"
    /\ IF pc = "loop" \/ hosted # "up" THEN UNCHANGED <<pc, work>>
       ELSE \/ pc' = "loop" /\ UNCHANGED work
            \/ work' = Head(queue) /\ UNCHANGED pc

ChildDispatches ==
    /\ Head(queue) # Closed /\ Head(queue).cmd # "run"
    /\ work' = Head(queue)
    /\ pc' = CASE Head(queue).cmd = "stop"     -> "idle"
               [] Head(queue).cmd = "teardown" -> "leave"
               [] OTHER                        -> pc

ChildTakes ==
    /\ Alive /\ pc \in {"idle", "loop"} /\ work = Idle /\ queue # <<>>
    /\ queue' = Tail(queue)
    /\ ChildSeesClosed \/ ChildRuns \/ ChildDispatches
    /\ UNCHANGED <<hostVars, bridgeVars, readerVars, down, up, child, listening,
                   hosted, ports, refused, config, requests, wedged>>

\* _setup: ports are opened one by one, and any of it may raise.
FinishSetup ==
    /\ work.cmd = "setup"
    /\ \/ /\ hosted' = "up" /\ ports' = work.links
          /\ Writes(Reply(work.n, TRUE))
       \/ /\ hosted' = "failed" /\ ports' \in SUBSET work.links
          /\ Writes(Reply(work.n, FALSE))
    /\ UNCHANGED <<refused, config>>

\* _wire_link and _unwire_link answer nothing, and log what they could not do.
FinishWiring ==
    /\ work.cmd \in {"wire_link", "unwire_link"}
    /\ \/ /\ ports' = IF work.cmd = "wire_link" THEN ports \cup work.links
                                                ELSE ports \ work.links
          /\ UNCHANGED refused
       \/ /\ refused' = refused \cup work.links
          /\ UNCHANGED ports
    /\ UNCHANGED <<up, hosted, config>>

\* _update_config answers ok whether or not the processor took the update.
FinishUpdate ==
    /\ work.cmd = "update_config"
    /\ config' = work.n \/ UNCHANGED config
    /\ Writes(Reply(work.n, TRUE))
    /\ UNCHANGED <<hosted, ports, refused>>

\* The other hooks: what they raise is logged, and run has no reply.
FinishHook ==
    /\ work.cmd \in {"run", "stop", "teardown", "on_pause", "on_resume"}
    /\ IF work.cmd = "run" THEN UNCHANGED up ELSE Writes(Reply(work.n, TRUE))
    /\ UNCHANGED <<hosted, ports, refused, config>>

ChildFinishes ==
    /\ Alive /\ work # Idle /\ work' = Idle
    /\ FinishSetup \/ FinishWiring \/ FinishUpdate \/ FinishHook
    /\ UNCHANGED <<hostVars, bridgeVars, readerVars, down, child, pc, queue,
                   listening, requests, wedged>>

\* The interval timer failed: the continuous loop is left.
ChildLeavesLoop ==
    /\ Alive /\ pc = "loop" /\ work = Idle /\ pc' = "idle"
    /\ UNCHANGED <<hostVars, bridgeVars, readerVars, down, up, child, work,
                   queue, listening, hosted, ports, refused, config,
                   requests, wedged>>

\* request_from_parent, from a hook or from a thread the processor started.
ChildAsks(o) ==
    /\ child = "alive" /\ ~shut
    /\ work.cmd = "setup" \/ hosted = "up"
    /\ HasBudget /\ requests < MaxRequests /\ requests' = requests + 1
    /\ Writes(Request(o, o = "window" /\ pc = "loop"))
    /\ UNCHANGED <<hostVars, bridgeVars, readerVars, down, child, pc, work,
                   queue, listening, hosted, ports, refused, config,
                   wedged>>

\* The processor's module or one of its hooks does not return.
ChildWedges ==
    /\ Alive /\ (pc \in {"boot", "loop"} \/ work # Idle)
    /\ wedged' = TRUE
    /\ UNCHANGED <<hostVars, bridgeVars, readerVars, down, up, child, pc, work,
                   queue, listening, hosted, ports, refused, config,
                   requests>>

\* The main thread returns, once its last command is done.
ChildLeaves ==
    /\ Alive /\ pc = "leave" /\ work = Idle
    /\ ChildEnds
    /\ UNCHANGED <<hostVars, bridgeVars, readerVars, up>>

ChildDies ==
    /\ child = "alive"
    /\ ChildEnds
    /\ UNCHANGED <<hostVars, bridgeVars, readerVars, up>>

-----------------------------------------------------------------------------
(* The specification.                                                      *)

CallStep ==
    \/ SendNotes \/ SendWrites \/ TakeReply \/ ReplyTimesOut
    \/ ReplyDisconnected \/ CloseBridge \/ DrainWindows \/ DrainHandles
    \/ Reap

HostStep ==
    \/ HostSetup \/ HostStart \/ HostPauseOrResume \/ HostSeesFailure
    \/ HostStop \/ HostTeardown \/ HostUpdatesConfig \/ HostDrop
    \/ \E l \in Links : HostWires(l) \/ HostUnwires(l)

ReaderStep ==
    \/ ReaderForwards \/ ReaderServes \/ ReaderMints \/ ReaderLocksWriter
    \/ ReaderAnswers \/ ReaderEnds

ChildMain == ChildBoots \/ ChildTakes \/ ChildFinishes \/ ChildLeaves

ChildStep ==
    \/ ChildMain \/ ChildReads \/ ChildLeavesLoop \/ ChildWedges \/ ChildDies
    \/ \E o \in {"acquire", "window"} : ChildAsks(o)

Next == HostStep \/ CallStep \/ ReaderStep \/ ChildStep

Spec == Init /\ [][Next]_vars

\* A processor whose code does not return may keep the interpreter to itself:
\* nothing then makes the helper's reader thread run.
Fairness ==
    /\ WF_vars(CallStep) /\ WF_vars(HostSeesFailure)
    /\ WF_vars(ReaderStep)
    /\ WF_vars(~wedged /\ ChildReads) /\ WF_vars(ChildMain)

LiveSpec == Spec /\ Fairness

-----------------------------------------------------------------------------
(* Properties.                                                             *)

\* The reply a call is about to take answers the command it has just sent,
\* although replies carry nothing to match them by: a call that gave up on a
\* reply gives up on the child, so the late reply finds nobody.
EveryReplyAnswersItsCommand ==
    at = "wait" /\ replies # <<>> => Head(replies).n = call.n

\* No window is granted to a request made during process(): the note of a
\* command precedes its frame, so the reader sees run before the child does.
\* What a request granted earlier mints may come later: NeverMintedMidProcess.
NoWindowForAProcessRequest == ~midProcess

\* The drop of the bridge never joins the reader, so one request that was
\* being read or served can outlive the drain of the registry; two cannot.
OneRequestOutlivesTheBridge == ~bridge => handles + windows <= 1

\* Once the host has let go of its child handle no child process is left.
NoSurvivors ==
    thread = "ended" /\ at = "free" /\ ~handle => child # "alive"

\* The commands the child has yet to finish, oldest first.
UnderWay ==
    <<work>> \o queue \o down
        \o (IF at \in {"send", "write"} THEN <<call>> ELSE <<>>)

\* Command c settles whether the child has a port for link l, or opens it.
Settles(c, l) == c.cmd = "setup" \/ l \in c.links
Opens(c, l) == c.cmd # "unwire_link" /\ l \in c.links

\* The links a child with ports P has one for, once it has carried out s: the
\* last command that settles a link decides.
PortsAfter(s, P) ==
    {l \in Links :
        \/ l \in P /\ \A i \in 1..Len(s) : ~Settles(s[i], l)
        \/ \E i \in 1..Len(s) :
              Opens(s[i], l) /\ \A j \in 1..Len(s) : j > i => ~Settles(s[j], l)}

\* The ports of a child that is up, or coming up, end up being those of the
\* compiler's envelope: a link wired or unwired before setup reaches the child
\* through the envelope, one after it through a command of its own, and no
\* interleaving of the two loses or doubles one.  Left out are the links whose
\* port the child itself reported it could not open or release.
PortsFollowTheEnvelope ==
    bridge /\ ~HasFailed /\ at \notin {"close", "windows", "handles", "reap"}
           /\ child = "alive" /\ hosted # "failed"
        => \A l \in Links \ refused :
                l \in PortsAfter(UnderWay, ports) <=> l \in envelope

\* The call waits for room on the socket, or for the lock of a reader thread
\* that does, and the helper process lives and does not read.
Parked ==
    /\ at = "write" \/ (at = "close" /\ reader = "writing")
    /\ SocketIsFull /\ child = "alive" /\ wedged

\* A call of the host returns, whether the child answers, fails, hangs or dies:
\* the one thing that can park the engine's thread is a full socket.
HostCallReturns == at # "free" ~> at = "free" \/ Parked

\* A child that dies while the processor runs puts the processor in error,
\* although the host sends it nothing.
DeathIsReported ==
    thread = "loop" /\ child = "exited" ~> thread # "loop" \/ error

\* A child whose socket has been shut down ends, unless the processor's own
\* code never returns: also when no bridge was ever made, and the host keeps
\* the process until it is itself dropped, which may be never.
ShutChildEnds == shut ~> child # "alive" \/ wedged

(* What the comments of the code say, where the code does otherwise.       *)

\* "reporting success while the child runs the old configuration would be a
\* lie the control plane passes on": an update reported as applied is the
\* configuration the child runs with.
ReportedConfigIsRunning ==
    reported # 0 /\ child = "alive" => config >= reported

\* "no command can park the engine's thread forever": also not on a child that
\* is alive and does not read.
NoCommandParks == at # "free" ~> at = "free"

\* "released at teardown or with its processor - never minted mid-process()": no
\* window comes into being while the processor runs.
NeverMintedMidProcess == [][windows' > windows => pc # "loop"]_vars

\* "Block until the parent sends one, or None once it is gone": the main
\* thread does not wait for a command that can no longer come.
NobodyWaitsOnAClosedChannel ==
    ~(Alive /\ pc = "idle" /\ work = Idle /\ queue = <<>> /\ ~listening)

\* "Set once the child stops answering": a child is not given up on before
\* there is one.
GoneMeansItStoppedAnswering == thread = "setup" /\ at = "free" => ~gone

=============================================================================
