---------------------------- MODULE ReactiveLoop ----------------------------
(***************************************************************************)
(* One reactive processor and the links that feed it: the sources that     *)
(* publish and notify, the subscriber rings, the listener, the port        *)
(* mailboxes, and run_reactive_mode, the loop that waits, drains and       *)
(* calls process().                                                        *)
(*                                                                         *)
(* Sources run concurrently with everything.  The compiler wires and       *)
(* unwires one link at a time, and holds the processor's mutex while it    *)
(* changes the destination's end; the loop takes that mutex for each of    *)
(* its looks at the mailboxes and for the whole of process().  A bag is    *)
(* the number of its publication on its link.                              *)
(***************************************************************************)
EXTENDS Naturals, Sequences, FiniteSets

CONSTANTS
    Links,          \* link ids; an id is wired once, from a port of its own
    Ports,          \* input ports of the processor
    PortOf,         \* the port a link feeds
    Newest,         \* the ports whose delivery profile is newest
    Depth,          \* ring and mailbox depth of a delivery profile
    WiredFirst,     \* the link wired before the loop starts, or none
    MayPause,       \* whether the host pauses this processor
    MaxBags         \* bound: bags published on one link

ASSUME LinkAssumption ==
    /\ IsFiniteSet(Links)
    /\ PortOf \in [Links -> Ports]
    /\ Newest \subseteq Ports
    /\ WiredFirst \subseteq Links /\ Cardinality(WiredFirst) <= 1

ASSUME BoundAssumption ==
    /\ Depth \in Nat \ {0}
    /\ MaxBags \in Nat
    /\ MayPause \in BOOLEAN

VARIABLES
    \* the links
    link,           \* how far a link is wired
    subs,           \* the channel subscribers, in wiring order
    source,         \* is the source between send() and notify()
    sent,           \* bags sent since the subscriber was bound
    ring,           \* bags in the subscriber's ring
    \* the destination's mailboxes
    box,            \* a port's mailbox, oldest first
    dropped,        \* the link's dropped-bag count
    listener,       \* generation of the listener, 0 when there is none
    installed,      \* listeners installed so far
    event,          \* is a notification pending on the listener
    \* the loop
    pc,
    waiter,         \* generation of the listener the epoll set holds, 0: none
    eventfd,        \* where the loop's shutdown eventfd is
    setupFailed,    \* epoll setup failed
    toldPaused,     \* on_pause() was dispatched, on_resume() not yet
    \* what others ask of it
    paused,         \* the pause gate
    shutdown,       \* how far signal_shutdown() is
    \* history
    overrun,        \* bags the full ring evicted
    taken,          \* bags a read took off the mailbox
    last,           \* the bag the last read returned
    unheard         \* links whose last notification found no listener

linkVars == <<link, subs, source, sent>>
boxVars == <<ring, box, dropped>>
listenerVars == <<listener, installed, event>>
loopVars == <<pc, waiter, eventfd, setupFailed, toldPaused>>
askVars == <<paused, shutdown>>
historyVars == <<overrun, taken, last, unheard>>
vars == <<linkVars, boxVars, listenerVars, loopVars, askVars, historyVars>>

Bag == [link : Links, n : 1..MaxBags]

\* "refused": the source's end is there and no subscriber could be made.
LinkProgress ==
    {"unwired", "sourced", "refused", "subscribed", "wired", "unsourced", "gone"}

LoopPoint == {"top", "check", "paused", "wait", "drain", "gate", "process", "after", "done"}

TypeOK ==
    /\ link \in [Links -> LinkProgress]
    /\ subs \in Seq(Links)
    /\ source \in [Links -> {"idle", "notify"}]
    /\ sent \in [Links -> 0..MaxBags]
    /\ ring \in [Links -> Seq(1..MaxBags)] /\ \A l \in Links : Len(ring[l]) <= Depth
    /\ box \in [Ports -> Seq(Bag)] /\ \A p \in Ports : Len(box[p]) <= Depth
    /\ dropped \in [Links -> Nat]
    /\ listener \in Nat /\ installed \in Nat /\ event \in BOOLEAN
    /\ pc \in LoopPoint
    /\ waiter \in Nat
    /\ eventfd \in {"slot", "waiter", "closed"}
    /\ setupFailed \in BOOLEAN /\ toldPaused \in BOOLEAN
    /\ paused \in BOOLEAN /\ shutdown \in {"none", "eventfd", "sent", "taken"}
    /\ overrun \in [Links -> Nat] /\ taken \in [Links -> Nat]
    /\ last \in [Links -> 0..MaxBags]
    /\ unheard \subseteq Links

\* The loop starts after CONTINUE, so after the batch's links are wired.
Init ==
    /\ link = [l \in Links |-> IF l \in WiredFirst THEN "wired" ELSE "unwired"]
    /\ subs \in {s \in {<<>>} \cup {<<l>> : l \in Links} :
                   {s[i] : i \in DOMAIN s} = WiredFirst}
    /\ source = [l \in Links |-> "idle"]
    /\ sent = [l \in Links |-> 0]
    /\ ring = [l \in Links |-> <<>>]
    /\ box = [p \in Ports |-> <<>>]
    /\ dropped = [l \in Links |-> 0]
    /\ installed = Cardinality(WiredFirst)
    /\ listener = installed /\ event = FALSE
    /\ pc = "top" /\ waiter = 0 /\ eventfd = "slot"
    /\ setupFailed = FALSE /\ toldPaused = FALSE
    /\ paused = FALSE /\ shutdown = "none"
    /\ overrun = [l \in Links |-> 0] /\ taken = [l \in Links |-> 0]
    /\ last = [l \in Links |-> 0]
    /\ unheard = {}

-----------------------------------------------------------------------------
(***************************************************************************)
(* Sources: OutputWriterInner::write_raw sends once, then notifies.        *)
(***************************************************************************)

\* The link has a subscriber.
Bound(l) == link[l] \in {"subscribed", "wired", "unsourced"}

\* With a bug: one element more than there is room for.
NewerByOne(s, k) == IF Len(s) <= k + 1 THEN s ELSE SubSeq(s, Len(s) - k, Len(s))

\* The newest k elements of s.
Newer(s, k) == IF Len(s) <= k THEN s ELSE SubSeq(s, Len(s) - k + 1, Len(s))

\* Safe overflow: a full ring evicts its oldest bag, and nobody counts it.  A
\* bag sent before the subscriber is bound reaches nobody.
Send(l) ==
    /\ link[l] \in {"sourced", "refused", "subscribed", "wired"} /\ source[l] = "idle"
    /\ source' = [source EXCEPT ![l] = "notify"]
    /\ \/ /\ Bound(l) /\ sent[l] < MaxBags
          /\ sent' = [sent EXCEPT ![l] = @ + 1]
          /\ ring' = [ring EXCEPT ![l] = Newer(Append(@, sent[l] + 1), Depth)]
          /\ overrun' = [overrun EXCEPT ![l] = IF Len(ring[l]) = Depth THEN @ + 1 ELSE @]
       \/ /\ ~Bound(l)
          /\ UNCHANGED <<sent, ring, overrun>>
    /\ UNCHANGED <<link, subs, box, dropped, listenerVars, loopVars, askVars,
                   taken, last, unheard>>

\* Notifications coalesce; one sent to no listener is lost.
Notify(l) ==
    /\ source[l] = "notify"
    /\ source' = [source EXCEPT ![l] = "idle"]
    /\ event' = (event \/ listener # 0)
    /\ unheard' = IF listener = 0 THEN unheard \cup {l} ELSE unheard \ {l}
    /\ UNCHANGED <<link, subs, sent, boxVars, listener, installed, loopVars, askVars,
                   overrun, taken, last>>

-----------------------------------------------------------------------------
(***************************************************************************)
(* The compiler: open_iceoryx2_service and close_iceoryx2_service, one     *)
(* link at a time, the source's end first.                                 *)
(***************************************************************************)

Wiring == \E l \in Links : link[l] \in {"sourced", "subscribed", "unsourced"}

\* The compiler holds the processor's mutex.
Held == \E l \in Links : link[l] = "subscribed"

WireSource(l) ==
    /\ link[l] = "unwired" /\ ~Wiring
    /\ link' = [link EXCEPT ![l] = "sourced"]
    /\ UNCHANGED <<subs, source, sent, boxVars, listenerVars, loopVars, askVars, historyVars>>

\* The destination's end: the subscriber first, then the one listener all its
\* links share, under one hold of the processor's mutex.
WireSubscriber(l) ==
    /\ link[l] = "sourced" /\ pc # "process"
    /\ link' = [link EXCEPT ![l] = "subscribed"]
    /\ subs' = Append(subs, l)
    /\ UNCHANGED <<source, sent, boxVars, listenerVars, loopVars, askVars, historyVars>>

\* create_subscriber fails: WIRE aborts and leaves the source's end as it is.
WireNoSubscriber(l) ==
    /\ link[l] = "sourced" /\ pc # "process"
    /\ link' = [link EXCEPT ![l] = "refused"]
    /\ UNCHANGED <<subs, source, sent, boxVars, listenerVars, loopVars, askVars, historyVars>>

\* Where create_listener fails, WIRE aborts with the subscriber bound.
WireListener(l) ==
    /\ link[l] = "subscribed"
    /\ link' = [link EXCEPT ![l] = "wired"]
    /\ \/ /\ listener = 0
          /\ installed' = installed + 1 /\ listener' = installed + 1 /\ event' = FALSE
       \/ UNCHANGED listenerVars
    /\ UNCHANGED <<subs, source, sent, boxVars, loopVars, askVars, historyVars>>

\* write_raw holds the channel's lock from send() to notify().
UnwireSource(l) ==
    /\ link[l] = "wired" /\ ~Wiring /\ source[l] = "idle"
    /\ link' = [link EXCEPT ![l] = "unsourced"]
    /\ UNCHANGED <<subs, source, sent, boxVars, listenerVars, loopVars, askVars, historyVars>>

\* Of a link without a subscriber only the source's end is there to go.
UnwireRefused(l) ==
    /\ link[l] = "refused" /\ ~Wiring /\ source[l] = "idle"
    /\ link' = [link EXCEPT ![l] = "gone"]
    /\ UNCHANGED <<subs, source, sent, boxVars, listenerVars, loopVars, askVars, historyVars>>

\* The links besides l that have a subscriber.
Others(l) == {m \in Links \ {l} : Bound(m)}

\* remove_by_link: where the link's subscriber stands, and the others in order.
Position(l) == CHOOSE i \in 1..Len(subs) : subs[i] = l
RemoveByLink(l) ==
    SubSeq(subs, 1, Position(l) - 1) \o SubSeq(subs, Position(l) + 1, Len(subs))

\* remove_channel_link: the ring and the count go with the link, the mailbox
\* with its port's last link, the listener with the processor's.
UnwireSubscriber(l) ==
    /\ link[l] = "unsourced" /\ pc # "process"
    /\ link' = [link EXCEPT ![l] = "gone"]
    /\ subs' = RemoveByLink(l)
    /\ ring' = [ring EXCEPT ![l] = <<>>]
    /\ dropped' = [dropped EXCEPT ![l] = 0]
    /\ box' = IF \E m \in Others(l) : PortOf[m] = PortOf[l]
              THEN box ELSE [box EXCEPT ![PortOf[l]] = <<>>]
    /\ IF Others(l) = {} THEN listener' = 0 /\ event' = FALSE ELSE UNCHANGED <<listener, event>>
    /\ UNCHANGED <<source, sent, installed, loopVars, askVars, historyVars>>

-----------------------------------------------------------------------------
(***************************************************************************)
(* receive_pending and the mailboxes.                                      *)
(***************************************************************************)

\* With a bug: a ring is emptied newest first.
TaggedNewestFirst(l) ==
    [i \in 1..Len(ring[l]) |-> [link |-> l, n |-> ring[l][Len(ring[l]) + 1 - i]]]

Tagged(l) == [i \in 1..Len(ring[l]) |-> [link |-> l, n |-> ring[l][i]]]

\* The mailbox of p with everything its links' rings hold behind it.
Arrived(p) ==
    LET upTo[i \in 0..Len(subs)] ==
          IF i = 0 THEN box[p]
          ELSE IF PortOf[subs[i]] = p THEN upTo[i - 1] \o Tagged(subs[i]) ELSE upTo[i - 1]
    IN upTo[Len(subs)]

\* Pushing into a full mailbox evicts its oldest bag.
Received(p) == Newer(Arrived(p), Depth)

CountOf(l, s) == Cardinality({i \in DOMAIN s : s[i].link = l})

\* With a bug: an eviction is counted against the link whose push made room.
EvictedByPusher(l) ==
    IF ring[l] # <<>>
    THEN Len(Arrived(PortOf[l])) - Len(Received(PortOf[l]))
    ELSE 0

Evicted(l) == CountOf(l, Arrived(PortOf[l])) - CountOf(l, Received(PortOf[l]))

\* Every ring is emptied into its port's mailbox, and each eviction is counted
\* against the link the evicted bag came in on.
ReceivePending ==
    /\ ring' = [l \in Links |-> IF Bound(l) THEN <<>> ELSE ring[l]]
    /\ dropped' = [l \in Links |-> dropped[l] + Evicted(l)]

-----------------------------------------------------------------------------
(***************************************************************************)
(* run_reactive_mode.                                                      *)
(***************************************************************************)

outside == <<linkVars, askVars>>

\* With a bug: the waiter is built for the first listener and kept.
RefreshWaiterOnce ==
    /\ pc = "top" /\ ~Held
    /\ pc' = "check"
    /\ waiter' = IF waiter = 0 THEN listener ELSE waiter
    /\ UNCHANGED <<eventfd, setupFailed, toldPaused, outside, boxVars, listenerVars,
                   historyVars>>

\* refresh_reactive_loop_waiter: a waiter on another listener than the present
\* one is released and its eventfd recovered, and a new one is built.  When
\* epoll refuses, the eventfd goes with the attempt, for good.
RefreshWaiter ==
    /\ pc = "top" /\ ~Held
    /\ pc' = "check"
    /\ LET keep == waiter # 0 /\ waiter = listener
           spare == IF waiter # 0 /\ eventfd = "waiter" THEN "slot" ELSE eventfd
       IN \/ /\ keep \/ setupFailed \/ listener = 0
             /\ waiter' = (IF keep THEN waiter ELSE 0)
             /\ eventfd' = (IF keep THEN eventfd ELSE spare)
             /\ UNCHANGED setupFailed
          \/ /\ ~keep /\ ~setupFailed /\ listener # 0
             /\ \/ /\ waiter' = listener
                   /\ eventfd' = (IF spare = "slot" THEN "waiter" ELSE spare)
                   /\ UNCHANGED setupFailed
                \/ waiter' = 0 /\ eventfd' = "closed" /\ setupFailed' = TRUE
    /\ UNCHANGED <<toldPaused, outside, boxVars, listenerVars, historyVars>>

\* With a bug: a paused loop goes on to wait.
CheckWithoutContinue ==
    /\ pc = "check" /\ shutdown # "sent"
    /\ toldPaused # paused => ~Held
    /\ toldPaused' = paused
    /\ pc' = "wait"
    /\ UNCHANGED <<outside, boxVars, listenerVars, waiter, eventfd, setupFailed, historyVars>>

\* try_recv, then the pause gate, then on_pause() or on_resume().
Check ==
    /\ pc = "check"
    /\ \/ /\ shutdown = "sent"
          /\ shutdown' = "taken" /\ pc' = "done"
          /\ UNCHANGED toldPaused
       \/ /\ shutdown # "sent"
          /\ toldPaused # paused => ~Held
          /\ toldPaused' = paused
          /\ pc' = IF paused THEN "paused" ELSE "wait"
          /\ UNCHANGED shutdown
    /\ UNCHANGED <<linkVars, paused, boxVars, listenerVars, waiter, eventfd, setupFailed,
                   historyVars>>

\* Paused, the loop polls, and keeps the listener's queue empty.
PollPaused ==
    /\ pc = "paused" /\ ~Held
    /\ pc' = "top"
    /\ event' = FALSE
    /\ UNCHANGED <<outside, boxVars, listener, installed, waiter, eventfd, setupFailed,
                   toldPaused, historyVars>>

Readable == waiter # 0 /\ waiter = listener /\ event
ShutdownReadable == waiter # 0 /\ eventfd = "waiter" /\ shutdown # "none"

\* epoll_wait: shutdown first, then the listener; otherwise it times out.  An
\* error, and a loop with no waiter, sleep and look for themselves.
Wait ==
    /\ pc = "wait"
    /\ \/ ShutdownReadable /\ pc' = "done"
       \/ ~ShutdownReadable /\ Readable /\ pc' = "drain"
       \/ waiter # 0 /\ ~ShutdownReadable /\ ~Readable /\ pc' = "top"
       \/ pc' = "drain" /\ (waiter = 0 \/ ~ShutdownReadable)
    /\ UNCHANGED <<outside, boxVars, listenerVars, waiter, eventfd, setupFailed, toldPaused,
                   historyVars>>

DrainListener ==
    /\ pc = "drain" /\ ~Held
    /\ pc' = "gate"
    /\ event' = FALSE
    /\ UNCHANGED <<outside, boxVars, listener, installed, waiter, eventfd, setupFailed,
                   toldPaused, historyVars>>

\* ports_would_return_something, before the first process() and after each.
LookAtPorts(ready, empty) ==
    /\ ~Held
    /\ ReceivePending
    /\ box' = [p \in Ports |-> Received(p)]
    /\ pc' = IF \E p \in Ports : box'[p] # <<>> THEN ready ELSE empty
    /\ unheard' = {}

Gate ==
    /\ pc = "gate"
    /\ LookAtPorts("process", "top")
    /\ UNCHANGED <<outside, listenerVars, waiter, eventfd, setupFailed, toldPaused,
                   overrun, taken, last>>

\* A read inside process(): all that arrived is received, then one bag is
\* popped, or on a newest port the mailbox is emptied down to its newest bag.
Read(p) ==
    /\ pc = "process"
    /\ ReceivePending
    /\ LET all == Received(p)
           got == IF all = <<>> THEN 0 ELSE IF p \in Newest THEN Len(all) ELSE 1
       IN /\ box' = [q \in Ports |->
                       IF q = p THEN SubSeq(all, got + 1, Len(all)) ELSE Received(q)]
          /\ last' = IF got = 0 THEN last ELSE [last EXCEPT ![all[got].link] = all[got].n]
          /\ taken' = [l \in Links |-> taken[l] + CountOf(l, SubSeq(all, 1, got))]
    /\ unheard' = {}
    /\ UNCHANGED <<outside, listenerVars, loopVars, overrun>>

ProcessReturns ==
    /\ pc = "process"
    /\ pc' = "after"
    /\ UNCHANGED <<outside, boxVars, listenerVars, waiter, eventfd, setupFailed, toldPaused,
                   historyVars>>

\* With a bug: one process() per wake.
AfterOneProcess ==
    /\ pc = "after"
    /\ \/ shutdown = "sent" /\ shutdown' = "taken" /\ pc' = "done"
       \/ shutdown # "sent" /\ pc' = "top" /\ UNCHANGED shutdown
    /\ UNCHANGED <<linkVars, paused, boxVars, listenerVars, waiter, eventfd, setupFailed,
                   toldPaused, historyVars>>

\* With a bug: no look at the shutdown channel while draining.
AfterProcessOnly ==
    /\ pc = "after"
    /\ LookAtPorts("process", "top")
    /\ UNCHANGED <<outside, listenerVars, waiter, eventfd, setupFailed, toldPaused,
                   overrun, taken, last>>

\* The drain loop: again while a port would return something, unless shut down.
AfterProcess ==
    /\ pc = "after"
    /\ \/ /\ shutdown = "sent"
          /\ shutdown' = "taken" /\ pc' = "done"
          /\ UNCHANGED <<boxVars, unheard>>
       \/ /\ shutdown # "sent"
          /\ LookAtPorts("process", "top")
          /\ UNCHANGED shutdown
    /\ UNCHANGED <<linkVars, paused, listenerVars, waiter, eventfd, setupFailed, toldPaused,
                   overrun, taken, last>>

-----------------------------------------------------------------------------
(***************************************************************************)
(* The pause gate and signal_shutdown.                                     *)
(***************************************************************************)

SetPauseGate ==
    /\ MayPause
    /\ paused' = ~paused
    /\ UNCHANGED <<linkVars, boxVars, listenerVars, loopVars, shutdown, historyVars>>

\* The eventfd is written first, then the channel.
SignalShutdown ==
    /\ \/ shutdown = "none" /\ shutdown' = "eventfd"
       \/ shutdown = "eventfd" /\ shutdown' = "sent"
    /\ UNCHANGED <<linkVars, paused, boxVars, listenerVars, loopVars, historyVars>>

-----------------------------------------------------------------------------
LoopStep ==
    \/ RefreshWaiter \/ Check \/ PollPaused \/ Wait \/ DrainListener
    \/ Gate \/ ProcessReturns \/ AfterProcess

WireStep(l) ==
    \/ WireSource(l) \/ WireSubscriber(l) \/ WireNoSubscriber(l) \/ WireListener(l)
    \/ UnwireSource(l) \/ UnwireRefused(l) \/ UnwireSubscriber(l)

Next ==
    \/ \E l \in Links : Send(l) \/ Notify(l) \/ WireStep(l)
    \/ \E p \in Ports : Read(p)
    \/ LoopStep
    \/ SetPauseGate \/ SignalShutdown

Safety == Init /\ [][Next]_vars

\* The loop's thread runs and process() returns, having read anything or
\* nothing; a source inside write_raw and a compiler inside WIRE go on.
Fairness ==
    /\ WF_vars(LoopStep)
    /\ \A l \in Links : WF_vars(Notify(l)) /\ WF_vars(WireListener(l))

Spec == Safety /\ Fairness

-----------------------------------------------------------------------------
(***************************************************************************)
(* Properties.                                                             *)
(***************************************************************************)

\* "counted plus delivered must account for every bag published" (the test at
\* input.rs:1762), and what the count leaves out: on a wired link every bag
\* sent was overrun in the ring, is queued, was counted as dropped against
\* this link, or was taken by a read.
EveryBagIsAccountedFor ==
    \A l \in Links :
        Bound(l) =>
            sent[l] = overrun[l] + Len(ring[l]) + CountOf(l, box[PortOf[l]])
                      + dropped[l] + taken[l]

\* "Bags from one link arrive in the order that link sent them" (input.rs:1055),
\* through ring, mailbox, eviction and fan-in.
BagsKeepTheirOrder ==
    [][\A l \in Links : last'[l] >= last[l]]_vars

\* process() never runs between on_pause() and the on_resume() that follows it.
NoProcessWhileToldPaused ==
    pc \in {"wait", "drain", "gate", "process", "after"} => ~toldPaused

\* The loop waits on the present listener and nothing will wake it.
Asleep == pc = "wait" /\ waiter # 0 /\ waiter = listener /\ ~event

\* "Call process() until every input port reports empty, then go back to
\* sleep" (thread_runner.rs:287): asleep, the loop has left no bag behind whose
\* notification was sent to a listener, however notifications coalesced.
AsleepMeansEmpty ==
    Asleep =>
        /\ \A p \in Ports : box[p] = <<>>
        /\ \A l \in Links :
             ring[l] # <<>> => source[l] = "notify" \/ l \in unheard

\* A signalled shutdown ends the loop: asleep, paused, in the middle of a
\* drain, without a waiter, or with one on a listener that has gone.
ShutdownIsSeen == shutdown = "sent" ~> pc = "done"

\* A notification wakes the loop, also when its listener was installed while
\* the loop slept on an earlier one: it is taken off the listener, unless
\* process() is running and keeps leaving its bags unread.
NotificationIsServed == event ~> ~event \/ pc \in {"process", "done"}

-----------------------------------------------------------------------------
(***************************************************************************)
(* The inductive invariant behind AsleepMeansEmpty for a processor that is *)
(* never paused.                                                           *)
(***************************************************************************)

\* The values, as far as the argument looks at them.
Shapes ==
    /\ link \in [Links -> LinkProgress]
    /\ source \in [Links -> {"idle", "notify"}]
    /\ ring = [l \in Links |-> ring[l]]
    /\ box = [p \in Ports |-> box[p]]
    /\ event \in BOOLEAN
    /\ pc \in LoopPoint

OnlyBoundRingsHoldBags == \A l \in Links : ring[l] # <<>> => Bound(l)

NoListenerNoEvent == listener = 0 => ~event

NeverPaused == ~paused /\ pc # "paused"

\* From a look that found nothing to the next wake, the mailboxes stay empty,
\* and a bag in a ring has its notification pending, on its way, or unheard.
NothingLeftBehind ==
    pc \in {"top", "check", "wait"} =>
        /\ \A p \in Ports : box[p] = <<>>
        /\ \A l \in Links :
             ring[l] # <<>> => event \/ source[l] = "notify" \/ l \in unheard

SleepInv ==
    Shapes /\ OnlyBoundRingsHoldBags /\ NoListenerNoEvent /\ NeverPaused /\ NothingLeftBehind

-----------------------------------------------------------------------------
(***************************************************************************)
(* The inductive invariant behind EveryBagIsAccountedFor and               *)
(* BagsKeepTheirOrder.                                                     *)
(***************************************************************************)

\* The subscribers are those of the links that have one, each once.
SubscribersAreBound ==
    /\ \A l \in Links : Bound(l) <=> \E i \in 1..Len(subs) : subs[i] = l
    /\ \A i, j \in 1..Len(subs) : subs[i] = subs[j] => i = j

\* A link that has had no subscriber yet has nothing to account for.
Fresh(l) == link[l] \in {"unwired", "sourced", "refused"}
FreshLinksAreEmpty ==
    \A l \in Links : Fresh(l) =>
        sent[l] = 0 /\ overrun[l] = 0 /\ dropped[l] = 0 /\ taken[l] = 0

\* A mailbox holds bags of its own port's links.
BoxesHoldTheirOwn ==
    \A p \in Ports : \A i \in 1..Len(box[p]) :
        PortOf[box[p][i].link] = p /\ ~Fresh(box[p][i].link)

\* The bags of one link are in order in s.
InOrder(s) ==
    \A i, j \in 1..Len(s) : i < j /\ s[i].link = s[j].link => s[i].n < s[j].n

\* What the last read returned precedes what the mailbox holds, which precedes
\* what the ring holds.
RingsAreInOrder ==
    \A l \in Links :
        /\ last[l] <= sent[l]
        /\ \A i \in 1..Len(ring[l]) : last[l] < ring[l][i] /\ ring[l][i] <= sent[l]
        /\ \A i, j \in 1..Len(ring[l]) : i < j => ring[l][i] < ring[l][j]

BoxesAreInOrder ==
    \A p \in Ports :
        /\ InOrder(box[p])
        /\ \A i \in 1..Len(box[p]) :
             LET l == box[p][i].link
             IN  /\ last[l] < box[p][i].n /\ box[p][i].n <= sent[l]
                 /\ \A j \in 1..Len(ring[l]) : box[p][i].n < ring[l][j]

BagInv ==
    /\ TypeOK /\ OnlyBoundRingsHoldBags /\ SubscribersAreBound /\ FreshLinksAreEmpty
    /\ BoxesHoldTheirOwn /\ RingsAreInOrder /\ BoxesAreInOrder /\ EveryBagIsAccountedFor
=============================================================================
