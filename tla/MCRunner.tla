------------------------------ MODULE MCRunner ------------------------------
(***************************************************************************)
(* One processor, one or two hosts, one outstanding listener commit.       *)
(***************************************************************************)
EXTENDS Runner, TLC

CONSTANTS p1, l1, h1, h2, t1

\* The empty graph of links, and one link from the processor to itself.
NoLinks == [l \in {} |-> p1]
SelfLoop == [l \in {l1} |-> p1]

\* One host drives the lifecycle and edits; the other, its run loop, stops.
OwnerAndRunLoop ==
    (h1 :> {"start", "stop", "pause", "resume", "gate", "edit"}) @@ (h2 :> {"stop"})

\* A host by itself, beside the listener and the processor's own thread.
Alone == h1 :> {"start", "stop", "pause", "resume", "gate", "edit"}

\* Two hosts that both edit a runtime one of them started.
TwoEditors == (h1 :> {"start", "edit"}) @@ (h2 :> {"edit"})

\* One host does everything, one call after the other.
OneHost == (h1 :> {"start", "pause", "edit", "stop"}) @@ (h2 :> {})

\* What RunnerInit comes to when the processor was added, the runtime started and
\* both compiled: the processor is in its loop.  Edits are counted from here.
ProcessorInItsLoop ==
    /\ node = (p1 :> "in") /\ edge = [l \in Links |-> "unborn"] /\ marked = {} /\ edits = 0
    /\ state = (p1 :> "Running") /\ gate = (p1 :> "open") /\ shutdown = (p1 :> "empty")
    /\ instance = (p1 :> TRUE) /\ handle = (p1 :> TRUE)
    /\ thread = (p1 :> "loop") /\ cont = (p1 :> "sent")
    /\ txn = <<>> /\ phase = "idle" /\ batch = <<>> /\ work = <<>> /\ joining = FALSE
    /\ toAdd = <<>> /\ toRemove = <<>>
    /\ linksToAdd = <<>> /\ linksToRemove = <<>> /\ configs = <<>>
    /\ waiting = {} /\ committer = NoCaller
    /\ status = "Started" /\ ctx = TRUE /\ service = TRUE
    /\ pc = [c \in Callers |-> "idle"] /\ call = [c \in Callers |-> "none"]
    /\ live = [c \in Callers |-> FALSE] /\ mine = [c \in Callers |-> {}]
    /\ todo = [c \in Callers |-> {}] /\ undelivered = 0 /\ locked = FALSE

\* RunnerSpec from a new runtime and from one that has a processor in its loop.
NewOrRunning ==
    (RunnerInit \/ ProcessorInItsLoop) /\ [][RunnerNext]_allVars /\ RunnerFairness

\* The second alone.
Running == ProcessorInItsLoop /\ [][RunnerNext]_allVars /\ RunnerFairness
=============================================================================
