------------------------- MODULE ReactiveLoopProofs -------------------------
(***************************************************************************)
(* A reactive loop that nobody pauses never goes to sleep on a bag, for    *)
(* any number of links, ports and bags, any depth and any wiring; no loop  *)
(* runs process() between on_pause() and on_resume(); and every bag sent   *)
(* to a subscriber is accounted for and read in the order it was sent.     *)
(***************************************************************************)
EXTENDS ReactiveLoop, FiniteSetTheorems, WellFoundedInduction, TLAPS

\* A leaf that names no prover is tried with Zenon, then with the SMT solver.
USE ZenonT(30), SMTT(30)

(***************************************************************************)
(* The look at the ports is what establishes the invariant.                *)
(***************************************************************************)

\* After a look no ring of a link holds a bag, and the loop goes back to the
\* top only with every mailbox empty.
LEMMA LookLeavesNothing ==
  ASSUME SleepInv, LookAtPorts("process", "top"), UNCHANGED <<linkVars, listenerVars, paused>>
  PROVE  SleepInv'
<1>. USE DEF SleepInv, LookAtPorts, ReceivePending, linkVars, listenerVars
<1>1. Shapes'
  BY DEF Shapes, LoopPoint
<1>2. \A l \in Links : ring'[l] = <<>>
  BY DEF OnlyBoundRingsHoldBags, Bound
<1>3. OnlyBoundRingsHoldBags'
  BY <1>2 DEF OnlyBoundRingsHoldBags
<1>4. NoListenerNoEvent' /\ NeverPaused'
  BY DEF NoListenerNoEvent, NeverPaused
<1>5. NothingLeftBehind'
  BY <1>2 DEF NothingLeftBehind
<1>. QED  BY <1>1, <1>3, <1>4, <1>5

\* The loop is between two wakes with nothing left behind when it starts.
LEMMA SleepInit ==
  ASSUME Init
  PROVE  SleepInv
<1>1. Shapes
  BY DEF Init, Shapes, LinkProgress, LoopPoint
<1>2. OnlyBoundRingsHoldBags
  BY DEF Init, OnlyBoundRingsHoldBags
<1>3. NoListenerNoEvent /\ NeverPaused
  BY DEF Init, NoListenerNoEvent, NeverPaused
<1>4. NothingLeftBehind
  BY DEF Init, NothingLeftBehind
<1>. QED  BY <1>1, <1>2, <1>3, <1>4 DEF SleepInv

-----------------------------------------------------------------------------
(***************************************************************************)
(* Sources and the compiler.                                               *)
(***************************************************************************)

\* A bag enters a ring only together with the promise of a notification.
LEMMA SendKeeps ==
  ASSUME SleepInv, NEW l \in Links, Send(l)
  PROVE  SleepInv'
<1>. USE DEF SleepInv, Send, listenerVars, loopVars, askVars
<1>1. Shapes'
  BY DEF Shapes
<1>2. \A m \in Links : m # l => ring'[m] = ring[m] /\ source'[m] = source[m]
  BY DEF Shapes
<1>3. source'[l] = "notify"
  BY DEF Shapes
<1>4. ~Bound(l) => ring'[l] = ring[l]
  OBVIOUS
<1>5. OnlyBoundRingsHoldBags'
  BY <1>2, <1>4 DEF OnlyBoundRingsHoldBags, Bound
<1>6. NoListenerNoEvent' /\ NeverPaused'
  BY DEF NoListenerNoEvent, NeverPaused
<1>7. NothingLeftBehind'
  BY <1>2, <1>3 DEF NothingLeftBehind
<1>. QED  BY <1>1, <1>5, <1>6, <1>7

\* The notification arrives, or the link's bags are known to be unheard.
LEMMA NotifyKeeps ==
  ASSUME SleepInv, NEW l \in Links, Notify(l)
  PROVE  SleepInv'
<1>. USE DEF SleepInv, Notify, boxVars, loopVars, askVars
<1>1. Shapes'
  BY DEF Shapes
<1>2. OnlyBoundRingsHoldBags'
  BY DEF OnlyBoundRingsHoldBags, Bound
<1>3. NoListenerNoEvent' /\ NeverPaused'
  BY DEF NoListenerNoEvent, NeverPaused
<1>4. \A m \in Links : m # l => source'[m] = source[m]
  BY DEF Shapes
<1>5. CASE listener = 0
  BY <1>1, <1>2, <1>3, <1>4, <1>5 DEF NothingLeftBehind
<1>6. CASE listener # 0
  BY <1>1, <1>2, <1>3, <1>6 DEF NothingLeftBehind
<1>. QED  BY <1>5, <1>6

\* Wiring moves no bag; a first listener starts without a notification, and
\* there was none to lose.
LEMMA WireKeeps ==
  ASSUME SleepInv, NEW l \in Links,
         \/ WireSource(l) \/ WireSubscriber(l) \/ WireNoSubscriber(l) \/ WireListener(l)
         \/ UnwireSource(l) \/ UnwireRefused(l)
  PROVE  SleepInv'
<1>. USE DEF SleepInv, WireSource, WireSubscriber, WireNoSubscriber, WireListener, UnwireSource,
             UnwireRefused, boxVars, listenerVars, loopVars, askVars, historyVars
<1>1. PICK next \in LinkProgress :
        /\ link' = [link EXCEPT ![l] = next]
        /\ Bound(l) => next \in {"subscribed", "wired", "unsourced"}
  BY DEF LinkProgress, Bound, Shapes
<1>2. event' \in BOOLEAN /\ (listener = 0 => event' = event) /\ (listener # 0 => event' = event)
  BY DEF Shapes, NoListenerNoEvent
<1>3. Shapes'
  BY <1>1, <1>2 DEF Shapes
<1>4. OnlyBoundRingsHoldBags'
  BY <1>1 DEF OnlyBoundRingsHoldBags, Bound, Shapes
<1>5. NoListenerNoEvent' /\ NeverPaused'
  BY SMTT(30), <1>2 DEF NoListenerNoEvent, NeverPaused
<1>6. NothingLeftBehind'
  BY SMTT(30), <1>2 DEF NothingLeftBehind
<1>. QED  BY <1>3, <1>4, <1>5, <1>6

\* The listener goes only with the last link, when no ring is left.
LEMMA UnwireKeeps ==
  ASSUME SleepInv, NEW l \in Links, UnwireSubscriber(l)
  PROVE  SleepInv'
<1>. USE DEF SleepInv, UnwireSubscriber, loopVars, askVars, historyVars
<1>1. Shapes'
  BY DEF Shapes, LinkProgress
<1>2. ring'[l] = <<>> /\ \A m \in Links : m # l => ring'[m] = ring[m] /\ link'[m] = link[m]
  BY DEF Shapes
<1>3. \A p \in Ports : box[p] = <<>> => box'[p] = <<>>
  BY DEF Shapes
<1>4. OnlyBoundRingsHoldBags'
  BY <1>2 DEF OnlyBoundRingsHoldBags, Bound
<1>5. NoListenerNoEvent' /\ NeverPaused'
  BY DEF NoListenerNoEvent, NeverPaused
<1>6. CASE Others(l) = {}
  <2>1. \A m \in Links : ring'[m] = <<>>
    BY <1>2, <1>6 DEF Others, OnlyBoundRingsHoldBags
  <2>. QED  BY <1>1, <1>3, <1>4, <1>5, <2>1 DEF NothingLeftBehind
<1>7. CASE Others(l) # {}
  BY SMTT(30), <1>1, <1>2, <1>3, <1>4, <1>5, <1>7 DEF NothingLeftBehind
<1>. QED  BY <1>6, <1>7

-----------------------------------------------------------------------------
(***************************************************************************)
(* The loop.                                                               *)
(***************************************************************************)

\* Every step of the loop, none of which is the poll of a paused one.
LEMMA LoopKeeps ==
  ASSUME SleepInv, LoopStep
  PROVE  SleepInv'
<1>1. CASE Gate
  BY <1>1, LookLeavesNothing DEF Gate, outside, askVars
<1>2. CASE AfterProcess /\ shutdown # "sent"
  BY <1>2, LookLeavesNothing DEF AfterProcess
<1>3. CASE AfterProcess /\ shutdown = "sent"
  BY <1>3 DEF AfterProcess, SleepInv, Shapes, LoopPoint, OnlyBoundRingsHoldBags, Bound,
     NoListenerNoEvent, NeverPaused, NothingLeftBehind, linkVars, boxVars, listenerVars
<1>4. CASE RefreshWaiter
  BY <1>4 DEF RefreshWaiter, SleepInv, Shapes, LoopPoint, OnlyBoundRingsHoldBags, Bound,
     NoListenerNoEvent, NeverPaused, NothingLeftBehind,
     outside, linkVars, askVars, boxVars, listenerVars, historyVars
<1>5. CASE Check
  BY <1>5 DEF Check, SleepInv, Shapes, LoopPoint, OnlyBoundRingsHoldBags, Bound,
     NoListenerNoEvent, NeverPaused, NothingLeftBehind,
     linkVars, boxVars, listenerVars, historyVars
<1>6. CASE PollPaused
  BY <1>6 DEF PollPaused, SleepInv, NeverPaused
<1>7. CASE Wait
  BY <1>7 DEF Wait, SleepInv, Shapes, LoopPoint, OnlyBoundRingsHoldBags, Bound,
     NoListenerNoEvent, NeverPaused, NothingLeftBehind,
     outside, linkVars, askVars, boxVars, listenerVars, historyVars
<1>8. CASE DrainListener
  BY <1>8 DEF DrainListener, SleepInv, Shapes, LoopPoint, OnlyBoundRingsHoldBags, Bound,
     NoListenerNoEvent, NeverPaused, NothingLeftBehind,
     outside, linkVars, askVars, boxVars, historyVars
<1>9. CASE ProcessReturns
  BY <1>9 DEF ProcessReturns, SleepInv, Shapes, LoopPoint, OnlyBoundRingsHoldBags, Bound,
     NoListenerNoEvent, NeverPaused, NothingLeftBehind,
     outside, linkVars, askVars, boxVars, listenerVars, historyVars
<1>. QED  BY <1>1, <1>2, <1>3, <1>4, <1>5, <1>6, <1>7, <1>8, <1>9 DEF LoopStep

\* A read happens inside process(), where nothing is promised yet.
LEMMA ReadKeeps ==
  ASSUME SleepInv, NEW p \in Ports, Read(p)
  PROVE  SleepInv'
<1>. USE DEF SleepInv, Read, ReceivePending, outside, linkVars, askVars, listenerVars, loopVars
<1>1. Shapes'
  BY DEF Shapes
<1>2. OnlyBoundRingsHoldBags'
  BY DEF OnlyBoundRingsHoldBags, Bound
<1>3. NoListenerNoEvent' /\ NeverPaused' /\ NothingLeftBehind'
  BY DEF NoListenerNoEvent, NeverPaused, NothingLeftBehind
<1>. QED  BY <1>1, <1>2, <1>3

\* SleepInv is inductive while nobody sets the pause gate.
LEMMA SleepStep ==
  ASSUME ~MayPause, SleepInv, [Next]_vars
  PROVE  SleepInv'
<1>1. ASSUME NEW l \in Links, Send(l) \/ Notify(l) \/ WireStep(l)
      PROVE  SleepInv'
  BY <1>1, SendKeeps, NotifyKeeps, WireKeeps, UnwireKeeps DEF WireStep
<1>2. ASSUME NEW p \in Ports, Read(p)
      PROVE  SleepInv'
  BY <1>2, ReadKeeps
<1>3. CASE LoopStep
  BY <1>3, LoopKeeps
<1>4. CASE SetPauseGate
  BY <1>4 DEF SetPauseGate
<1>5. CASE SignalShutdown \/ UNCHANGED vars
  BY SMTT(30), <1>5 DEF SignalShutdown, vars, SleepInv, Shapes, OnlyBoundRingsHoldBags, Bound,
     NoListenerNoEvent, NeverPaused, NothingLeftBehind,
     linkVars, askVars, boxVars, listenerVars, loopVars, historyVars
<1>. QED  BY <1>1, <1>2, <1>3, <1>4, <1>5 DEF Next

\* A reactive loop that is never paused sleeps only with its mailboxes empty and
\* its rings drained: the drain loop of run_reactive_mode makes up for every
\* notification that coalesced with another.
THEOREM SleepsOnlyWhenEmpty ==
  ASSUME ~MayPause
  PROVE  Safety => []AsleepMeansEmpty
<1>1. Init => SleepInv
  BY SleepInit
<1>2. SleepInv /\ [Next]_vars => SleepInv'
  BY SleepStep
<1>3. SleepInv => AsleepMeansEmpty
  BY DEF SleepInv, NothingLeftBehind, AsleepMeansEmpty, Asleep
<1>. QED  BY <1>1, <1>2, <1>3, PTL DEF Safety

-----------------------------------------------------------------------------
(***************************************************************************)
(* The pause callbacks.                                                    *)
(***************************************************************************)

\* run_reactive_mode dispatches on_resume() before it leaves the paused branch,
\* so no wait, wake or process() falls between on_pause() and on_resume(),
\* whatever the gate does meanwhile.
THEOREM ProcessOnlyWhenResumed == Safety => []NoProcessWhileToldPaused
<1>1. Init => NoProcessWhileToldPaused
  BY DEF Init, NoProcessWhileToldPaused
<1>2. NoProcessWhileToldPaused /\ [Next]_vars => NoProcessWhileToldPaused'
  <2>. SUFFICES ASSUME NoProcessWhileToldPaused, [Next]_vars
                PROVE  NoProcessWhileToldPaused'
    OBVIOUS
  <2>. USE DEF NoProcessWhileToldPaused
  <2>1. ASSUME NEW l \in Links, Send(l) \/ Notify(l) \/ WireStep(l)
        PROVE  NoProcessWhileToldPaused'
    BY <2>1 DEF Send, Notify, WireStep, WireSource, WireSubscriber, WireNoSubscriber,
       WireListener, UnwireSource, UnwireRefused, UnwireSubscriber, loopVars
  <2>2. ASSUME NEW p \in Ports, Read(p)
        PROVE  NoProcessWhileToldPaused'
    BY <2>2 DEF Read, loopVars
  <2>3. CASE RefreshWaiter \/ PollPaused
    BY <2>3 DEF RefreshWaiter, PollPaused
  <2>4. CASE Check
    BY <2>4 DEF Check
  <2>5. CASE Wait \/ DrainListener \/ ProcessReturns
    BY <2>5 DEF Wait, DrainListener, ProcessReturns
  <2>6. CASE Gate \/ AfterProcess
    BY <2>6 DEF Gate, AfterProcess, LookAtPorts
  <2>7. CASE SetPauseGate \/ SignalShutdown \/ UNCHANGED vars
    BY <2>7 DEF SetPauseGate, SignalShutdown, vars, loopVars
  <2>. QED  BY <2>1, <2>2, <2>3, <2>4, <2>5, <2>6, <2>7 DEF Next, LoopStep
<1>. QED  BY <1>1, <1>2, PTL DEF Safety

-----------------------------------------------------------------------------
(***************************************************************************)
(* Induction over numbers, and functions defined by it.                    *)
(***************************************************************************)

\* Numbers have a least one among them.
LEMMA Least ==
  ASSUME NEW T \in SUBSET Nat, T # {}
  PROVE  \E x \in T : \A y \in T : x <= y
<1>1. PICK x \in T : \A y \in T : ~(<<y, x>> \in OpToRel(<, Nat))
  BY ZenonT(30), WFMin, NatLessThanWellFounded
<1>2. ASSUME NEW y \in T PROVE  x <= y
  <2>0. x \in Nat /\ y \in Nat /\ <<y, x>>[1] = y /\ <<y, x>>[2] = x
    OBVIOUS
  <2>1. ~(y < x)
    BY <2>0, <1>1, ZenonT(30) DEF OpToRel
  <2>. QED  BY SMTT(30), <2>1
<1>. QED  BY <1>2

\* What holds of 0 and goes from each number to the next holds up to n.
LEMMA ByInduction ==
  ASSUME NEW n \in Nat, NEW T, 0 \in T,
         \A i \in 0..n : i \in T /\ i < n => i + 1 \in T
  PROVE  \A i \in 0..n : i \in T
<1>. DEFINE Bad == {i \in 0..n : i \notin T}
<1>. SUFFICES ASSUME Bad # {} PROVE FALSE
  OBVIOUS
<1>1. Bad \in SUBSET Nat
  BY SMTT(30)
<1>2. PICK x \in Bad : \A y \in Bad : x <= y
  BY <1>1, Least
<1>3. x \in 0..n /\ x \notin T /\ x # 0
  OBVIOUS
<1>4. x - 1 \in 0..n /\ x - 1 < n /\ (x - 1) + 1 = x /\ ~(x <= x - 1)
  BY SMTT(30), <1>3
<1>5. x - 1 \in T
  BY <1>2, <1>4
<1>. QED  BY <1>3, <1>4, <1>5

\* G[i] leads from each value of X to the next; f goes that way from b on.
Leads(n, X, G) == \A i \in 1..n, x \in X : G[i][x] \in X
Climbs(f, n, X, b, G) ==
    f \in [0..n -> X] /\ f[0] = b /\ \A i \in 1..n : f[i] = G[i][f[i - 1]]

\* A function is defined from 0 on by its value there and by each next one.
LEMMA Recursion ==
  ASSUME NEW n \in Nat, NEW X, NEW b \in X, NEW G, Leads(n, X, G)
  PROVE  \E f : Climbs(f, n, X, b, G)
<1>. DEFINE Up(k, f) == f[0] = b /\ \A i \in 1..k : f[i] = G[i][f[i - 1]]
            T == {k \in 0..n : \E f \in [0..k -> X] : Up(k, f)}
<1>1. 0 \in T
  <2>1. [i \in 0..0 |-> b] \in [0..0 -> X] /\ Up(0, [i \in 0..0 |-> b])
    BY SMTT(30)
  <2>2. 0 \in 0..n
    BY SMTT(30)
  <2>. HIDE DEF Up
  <2>. QED  BY <2>1, <2>2
<1>2. ASSUME NEW k \in 0..n, k \in T, k < n PROVE  k + 1 \in T
  <2>1. PICK f \in [0..k -> X] : Up(k, f)
    BY <1>2
  <2>. DEFINE g == [i \in 0..(k + 1) |-> IF i \in 0..k THEN f[i] ELSE G[k + 1][f[k]]]
  <2>2. k + 1 \in 1..n /\ k \in 0..k /\ k + 1 \notin 0..k /\ k + 1 \in 0..n
    BY SMTT(30), <1>2
  <2>3. G[k + 1][f[k]] \in X
    BY <2>2 DEF Leads
  <2>4. g \in [0..(k + 1) -> X]
    BY <2>3
  <2>5. g[0] = b
    BY SMTT(30), <2>1
  <2>6. ASSUME NEW i \in 1..(k + 1) PROVE  g[i] = G[i][g[i - 1]]
    <3>1. i - 1 \in 0..k /\ i - 1 \in 0..(k + 1) /\ i \in 0..(k + 1)
      BY SMTT(30)
    <3>2. g[i - 1] = f[i - 1]
      BY <3>1
    <3>3. CASE i \in 1..k
      <4>1. i \in 0..k
        BY SMTT(30), <3>3
      <4>. QED  BY <2>1, <3>1, <3>2, <3>3, <4>1
    <3>4. CASE i = k + 1
      <4>1. i - 1 = k
        BY SMTT(30), <3>4
      <4>. QED  BY <2>2, <3>1, <3>2, <3>4, <4>1
    <3>5. i \in 1..k \/ i = k + 1
      BY SMTT(30)
    <3>. QED  BY <3>3, <3>4, <3>5
  <2>7. Up(k + 1, g)
    BY <2>5, <2>6
  <2>. HIDE DEF Up, g
  <2>. QED  BY <2>2, <2>4, <2>7
<1>3. \A i \in 0..n : i \in T
  <2>. HIDE DEF T
  <2>. QED  BY <1>1, <1>2, ByInduction
<1>4. n \in T
  BY SMTT(30), <1>3
<1>. QED  BY <1>4 DEF Climbs

-----------------------------------------------------------------------------
(***************************************************************************)
(* Lists of bags, and how many of them are of one link.                    *)
(***************************************************************************)

\* A list and its elements.
LEMMA ListIs ==
  ASSUME NEW S, NEW s \in Seq(S)
  PROVE  /\ Len(s) \in Nat /\ DOMAIN s = 1..Len(s)
         /\ \A i \in 1..Len(s) : s[i] \in S
BY SMTT(30)

\* One list after another.
LEMMA JoinIs ==
  ASSUME NEW S, NEW s \in Seq(S), NEW t \in Seq(S)
  PROVE  /\ s \o t \in Seq(S) /\ Len(s \o t) = Len(s) + Len(t)
         /\ \A i \in 1..Len(s) : (s \o t)[i] = s[i]
         /\ \A i \in 1..Len(t) : (s \o t)[Len(s) + i] = t[i]
BY SMTT(30)

\* Lists with the same elements are the same.
LEMMA SameList ==
  ASSUME NEW S, NEW s \in Seq(S), NEW t \in Seq(S), Len(s) = Len(t),
         \A i \in 1..Len(t) : s[i] = t[i]
  PROVE  s = t
BY SMTT(30)

\* The list s from behind its first d elements on.
Behind(s, d) == SubSeq(s, d + 1, Len(s))

LEMMA BehindIs ==
  ASSUME NEW S, NEW s \in Seq(S), NEW d \in 0..Len(s)
  PROVE  /\ Behind(s, d) \in Seq(S) /\ Len(Behind(s, d)) = Len(s) - d
         /\ \A i \in 1..(Len(s) - d) : Behind(s, d)[i] = s[i + d] /\ i + d \in 1..Len(s)
BY SMTT(30) DEF Behind

\* The newest k elements of a list are what is behind the others.
LEMMA NewerIs ==
  ASSUME NEW S, NEW s \in Seq(S), NEW k \in Nat \ {0}
  PROVE  \E d \in 0..Len(s) :
           /\ Newer(s, k) = Behind(s, d)
           /\ d = IF Len(s) <= k THEN 0 ELSE Len(s) - k
<1>1. CASE Len(s) <= k
  <2>1. 0 \in 0..Len(s) /\ Newer(s, k) = s
    BY SMTT(30), <1>1 DEF Newer
  <2>2. Behind(s, 0) = s
    BY SMTT(30) DEF Behind
  <2>. QED  BY <1>1, <2>1, <2>2
<1>2. CASE ~(Len(s) <= k)
  <2>1. Len(s) - k \in 0..Len(s) /\ Len(s) - k + 1 = (Len(s) - k) + 1
    BY SMTT(30), <1>2
  <2>. QED  BY <1>2, <2>1 DEF Newer, Behind
<1>. QED  BY <1>1, <1>2

\* The places of a list that hold a bag of link l.
Of(l, s) == {i \in DOMAIN s : s[i].link = l}

LEMMA PlacesAreFinite ==
  ASSUME NEW S, NEW s \in Seq(S), NEW l
  PROVE  /\ DOMAIN s = 1..Len(s) /\ Len(s) \in Nat
         /\ IsFiniteSet(Of(l, s)) /\ CountOf(l, s) = Cardinality(Of(l, s))
         /\ CountOf(l, s) \in Nat
<1>1. DOMAIN s = 1..Len(s) /\ Len(s) \in Nat /\ Len(s) \in Int /\ 1 \in Int
  BY SMTT(30)
<1>2. IsFiniteSet(1..Len(s))
  BY <1>1, FS_Interval
<1>3. Of(l, s) \in SUBSET (1..Len(s))
  BY <1>1 DEF Of
<1>4. IsFiniteSet(Of(l, s))
  BY <1>2, <1>3, FS_Subset
<1>5. CountOf(l, s) = Cardinality(Of(l, s))
  BY DEF CountOf, Of
<1>. QED  BY <1>1, <1>4, <1>5, FS_CardinalityType

\* A list without a bag of the link, and one of nothing else.
LEMMA CountNoneOrAll ==
  ASSUME NEW S, NEW s \in Seq(S), NEW l
  PROVE  /\ (\A i \in 1..Len(s) : s[i].link # l) => CountOf(l, s) = 0
         /\ (\A i \in 1..Len(s) : s[i].link = l) => CountOf(l, s) = Len(s)
<1>1. DOMAIN s = 1..Len(s) /\ Len(s) \in Nat /\ CountOf(l, s) = Cardinality(Of(l, s))
  BY PlacesAreFinite
<1>2. ASSUME \A i \in 1..Len(s) : s[i].link # l PROVE  CountOf(l, s) = 0
  <2>1. Of(l, s) = {}
    BY <1>1, <1>2 DEF Of
  <2>. QED  BY <1>1, <2>1, FS_EmptySet
<1>3. ASSUME \A i \in 1..Len(s) : s[i].link = l PROVE  CountOf(l, s) = Len(s)
  <2>1. Of(l, s) = 1..Len(s)
    BY <1>1, <1>3 DEF Of
  <2>2. Len(s) \in Int /\ 1 \in Int /\ (1 > Len(s) => Len(s) = 0) /\ Len(s) - 1 + 1 = Len(s)
    BY SMTT(30), <1>1
  <2>3. Cardinality(1..Len(s)) = IF 1 > Len(s) THEN 0 ELSE Len(s) - 1 + 1
    BY <2>2, FS_Interval
  <2>. QED  BY <1>1, <2>1, <2>2, <2>3
<1>. QED  BY <1>2, <1>3

\* Lists put together have the bags of both.
LEMMA CountJoined ==
  ASSUME NEW S, NEW s \in Seq(S), NEW t \in Seq(S), NEW l
  PROVE  s \o t \in Seq(S) /\ CountOf(l, s \o t) = CountOf(l, s) + CountOf(l, t)
<1>. DEFINE n == Len(s)
            m == Len(t)
            u == s \o t
            A == Of(l, s)
            B == Of(l, t)
            C == {i \in (n + 1)..(n + m) : u[i].link = l}
            f == [i \in B |-> n + i]
<1>1. /\ n \in Nat /\ m \in Nat /\ u \in Seq(S) /\ Len(u) = n + m
      /\ \A i \in 1..n : u[i] = s[i]
      /\ \A i \in 1..m : u[n + i] = t[i]
  BY SMTT(30)
<1>2. /\ DOMAIN s = 1..n /\ DOMAIN t = 1..m
      /\ IsFiniteSet(A) /\ CountOf(l, s) = Cardinality(A) /\ CountOf(l, s) \in Nat
      /\ IsFiniteSet(B) /\ CountOf(l, t) = Cardinality(B) /\ CountOf(l, t) \in Nat
  BY PlacesAreFinite
<1>3. DOMAIN u = 1..(n + m) /\ CountOf(l, u) = Cardinality(Of(l, u))
  BY <1>1, PlacesAreFinite
<1>. HIDE DEF n, m, u
<1>4. /\ \A i \in 1..(n + m) : i \in 1..n \/ i \in (n + 1)..(n + m)
      /\ \A i \in 1..n : i \in 1..(n + m) /\ i \notin (n + 1)..(n + m)
      /\ \A i \in (n + 1)..(n + m) : i \in 1..(n + m) /\ i - n \in 1..m /\ n + (i - n) = i
      /\ \A i \in 1..m : n + i \in (n + 1)..(n + m)
      /\ \A i, j \in 1..m : n + i = n + j => i = j
  BY SMTT(30), <1>1
<1>5. Of(l, u) = A \cup C /\ A \cap C = {}
  BY SMTT(30), <1>1, <1>2, <1>3, <1>4 DEF Of
<1>6. ExistsBijection(B, C)
  <2>1. ASSUME NEW i \in B PROVE  n + i \in C
    BY <1>1, <1>2, <1>4 DEF Of
  <2>2. f \in [B -> C]
    BY <2>1
  <2>3. ASSUME NEW i \in B, NEW j \in B, f[i] = f[j] PROVE  i = j
    BY <1>2, <1>4, <2>3 DEF Of
  <2>4. ASSUME NEW c \in C PROVE  \E i \in B : f[i] = c
    <3>1. c - n \in B /\ n + (c - n) = c
      BY <1>1, <1>2, <1>4 DEF Of
    <3>. QED  BY <3>1
  <2>5. f \in Bijection(B, C)
    <3>. HIDE DEF f, B, C
    <3>. QED  BY <2>2, <2>3, <2>4 DEF Bijection, Injection, IsInjective, Surjection
  <2>. HIDE DEF f
  <2>. QED  BY <2>5 DEF ExistsBijection
<1>. HIDE DEF A, B, C
<1>7. IsFiniteSet(C) /\ Cardinality(C) = Cardinality(B)
  BY <1>2, <1>6, FS_Bijection
<1>8. Cardinality(A \cup C) = Cardinality(A) + Cardinality(C) - Cardinality(A \cap C)
  BY <1>2, <1>7, FS_Union
<1>9. Cardinality(A \cap C) = 0
  BY <1>5, FS_EmptySet
<1>10. CountOf(l, u) = CountOf(l, s) + CountOf(l, t)
  BY SMTT(30), <1>2, <1>3, <1>5, <1>7, <1>8, <1>9
<1>. QED  BY <1>1, <1>10 DEF u

\* What is behind, and what is not, make up the whole.
LEMMA CountSplit ==
  ASSUME NEW S, NEW s \in Seq(S), NEW d \in 0..Len(s), NEW l
  PROVE  /\ CountOf(l, s) = CountOf(l, SubSeq(s, 1, d)) + CountOf(l, Behind(s, d))
         /\ SubSeq(s, 1, d) \in Seq(S) /\ Len(SubSeq(s, 1, d)) = d
         /\ \A i \in 1..d : SubSeq(s, 1, d)[i] = s[i] /\ i \in 1..Len(s)
         /\ CountOf(l, SubSeq(s, 1, d)) \in Nat /\ CountOf(l, Behind(s, d)) \in Nat
         /\ CountOf(l, s) \in Nat
<1>1. /\ SubSeq(s, 1, d) \in Seq(S) /\ Len(SubSeq(s, 1, d)) = d
      /\ \A i \in 1..d : SubSeq(s, 1, d)[i] = s[i] /\ i \in 1..Len(s)
  BY SMTT(30)
<1>2. Behind(s, d) \in Seq(S) /\ Len(Behind(s, d)) = Len(s) - d
  BY BehindIs
<1>3. SubSeq(s, 1, d) \o Behind(s, d) = s
  <2>. DEFINE a == SubSeq(s, 1, d)
              b == Behind(s, d)
  <2>1. \A i \in 1..(Len(s) - d) : b[i] = s[i + d]
    BY BehindIs
  <2>. HIDE DEF a, b
  <2>2. /\ a \o b \in Seq(S) /\ Len(a \o b) = Len(s)
        /\ \A i \in 1..Len(s) : (a \o b)[i] = IF i <= d THEN a[i] ELSE b[i - d]
    BY SMTT(30), <1>1, <1>2 DEF a, b
  <2>3. ASSUME NEW i \in 1..Len(s) PROVE  (a \o b)[i] = s[i]
    <3>1. CASE i <= d
      <4>1. i \in 1..d
        BY SMTT(30), <3>1
      <4>. QED  BY <1>1, <2>2, <3>1, <4>1 DEF a
    <3>2. CASE ~(i <= d)
      <4>1. i - d \in 1..(Len(s) - d) /\ (i - d) + d = i
        BY SMTT(30), <3>2
      <4>2. b[i - d] = s[i]
        BY <2>1, <4>1
      <4>. QED  BY <2>2, <3>2, <4>2
    <3>. QED  BY <3>1, <3>2
  <2>4. a \o b = s
    BY <2>2, <2>3, SameList
  <2>. QED  BY <2>4 DEF a, b
<1>4. CountOf(l, SubSeq(s, 1, d) \o Behind(s, d))
        = CountOf(l, SubSeq(s, 1, d)) + CountOf(l, Behind(s, d))
  BY <1>1, <1>2, CountJoined
<1>5. /\ CountOf(l, SubSeq(s, 1, d)) \in Nat /\ CountOf(l, Behind(s, d)) \in Nat
      /\ CountOf(l, s) \in Nat
  BY <1>1, <1>2, PlacesAreFinite
<1>. QED  BY <1>1, <1>3, <1>4, <1>5

-----------------------------------------------------------------------------
(***************************************************************************)
(* receive_pending: what a mailbox and its links' rings come to.           *)
(***************************************************************************)

\* The bags of a ring, as they reach the mailbox.
LEMMA TaggedIs ==
  ASSUME TypeOK, NEW l \in Links
  PROVE  /\ Tagged(l) \in Seq(Bag) /\ Len(Tagged(l)) = Len(ring[l])
         /\ Len(ring[l]) \in Nat
         /\ \A i \in 1..Len(Tagged(l)) : Tagged(l)[i].link = l /\ Tagged(l)[i].n = ring[l][i]
<1>1. ring[l] \in Seq(1..MaxBags)
  BY DEF TypeOK
<1>2. /\ Len(ring[l]) \in Nat
      /\ \A i \in 1..Len(ring[l]) : ring[l][i] \in 1..MaxBags
  BY <1>1, ListIs
<1>3. \A i \in 1..Len(ring[l]) : [link |-> l, n |-> ring[l][i]] \in Bag
  BY <1>2 DEF Bag
<1>4. ASSUME NEW k \in Nat, NEW e \in [1..k -> Bag]
      PROVE  e \in Seq(Bag) /\ Len(e) = k
  <2>1. e \in Seq(Bag)
    BY SMTT(30)
  <2>2. Len(e) \in Nat /\ 1..Len(e) = 1..k
    BY SMTT(30), <2>1
  <2>3. (Len(e) > k => Len(e) \in 1..Len(e) \ 1..k) /\ (k > Len(e) => k \in 1..k \ 1..Len(e))
    BY SMTT(30), <2>2
  <2>4. ~(Len(e) > k) /\ ~(k > Len(e))
    BY <2>2, <2>3
  <2>. QED  BY SMTT(30), <2>1, <2>2, <2>4
<1>. DEFINE e == [i \in 1..Len(ring[l]) |-> [link |-> l, n |-> ring[l][i]]]
<1>5. \A i \in 1..Len(ring[l]) : e[i].link = l /\ e[i].n = ring[l][i]
  BY SMTT(30)
<1>6. e \in [1..Len(ring[l]) -> Bag]
  BY <1>3
<1>7. Tagged(l) = e
  BY DEF Tagged
<1>. HIDE DEF e
<1>8. e \in Seq(Bag) /\ Len(e) = Len(ring[l])
  BY <1>2, <1>4, <1>6
<1>. QED  BY <1>2, <1>5, <1>7, <1>8

\* The mailbox with the rings of the first k subscribers behind it.
LEMMA ArrivedUp ==
  ASSUME TypeOK, NEW p \in Ports
  PROVE  \E f \in [0..Len(subs) -> Seq(Bag)] :
           /\ f[0] = box[p]
           /\ \A i \in 1..Len(subs) :
                f[i] = IF PortOf[subs[i]] = p THEN f[i - 1] \o Tagged(subs[i]) ELSE f[i - 1]
           /\ Arrived(p) = f[Len(subs)]
<1>. DEFINE n == Len(subs)
            X == Seq(Bag)
            G == [i \in 1..n |-> [x \in X |->
                    IF PortOf[subs[i]] = p THEN x \o Tagged(subs[i]) ELSE x]]
<1>1. n \in Nat /\ \A i \in 1..n : subs[i] \in Links
  BY SMTT(30) DEF TypeOK
<1>2. box[p] \in X
  BY DEF TypeOK
<1>3. ASSUME NEW x \in X, NEW y \in X PROVE  x \o y \in X
  BY SMTT(30)
<1>4. Leads(n, X, G)
  BY <1>1, <1>3, TaggedIs DEF Leads
<1>5. \A i \in 1..n, x \in X :
        G[i][x] = IF PortOf[subs[i]] = p THEN x \o Tagged(subs[i]) ELSE x
  OBVIOUS
<1>. HIDE DEF X, G
<1>6. PICK f : Climbs(f, n, X, box[p], G)
  <2>. HIDE DEF n
  <2>. QED  BY <1>1, <1>2, <1>4, Recursion
<1>. f \in [0..n -> X] /\ f[0] = box[p] /\ \A i \in 1..n : f[i] = G[i][f[i - 1]]
  BY <1>6 DEF Climbs
<1>7. /\ \A i \in 0..n : i # 0 => i \in 1..n
      /\ \A i \in 1..n : i - 1 \in 0..n /\ i # 0 /\ i \in 0..n
      /\ \A i \in 0..n : i < n => i + 1 \in 1..n /\ (i + 1) - 1 = i
      /\ 0 \in 0..n /\ n \in 0..n
  BY SMTT(30), <1>1
<1>8. ASSUME NEW i \in 1..n
      PROVE  f[i] = IF PortOf[subs[i]] = p THEN f[i - 1] \o Tagged(subs[i]) ELSE f[i - 1]
  BY <1>5, <1>6, <1>7
<1>9. f = [i \in 0..n |-> IF i = 0 THEN box[p]
                          ELSE IF PortOf[subs[i]] = p THEN f[i - 1] \o Tagged(subs[i])
                               ELSE f[i - 1]]
  BY <1>6, <1>7, <1>8
<1>. DEFINE up == CHOOSE up : up = [i \in 0..n |->
                    IF i = 0 THEN box[p]
                    ELSE IF PortOf[subs[i]] = p THEN up[i - 1] \o Tagged(subs[i])
                         ELSE up[i - 1]]
<1>10. up = [i \in 0..n |-> IF i = 0 THEN box[p]
                            ELSE IF PortOf[subs[i]] = p THEN up[i - 1] \o Tagged(subs[i])
                                 ELSE up[i - 1]]
  BY <1>9, ZenonT(30)
<1>11. Arrived(p) = up[n]
  BY ZenonT(30) DEF Arrived
<1>. HIDE DEF up
<1>12. \A i \in 0..n : up[i] = f[i]
  <2>. DEFINE T == {i \in 0..n : up[i] = f[i]}
  <2>1. 0 \in T
    BY <1>6, <1>7, <1>10
  <2>2. ASSUME NEW i \in 0..n, i \in T, i < n PROVE  i + 1 \in T
    <3>1. i + 1 \in 1..n /\ (i + 1) - 1 = i /\ i + 1 # 0 /\ i + 1 \in 0..n
      BY <1>7, <2>2
    <3>2. up[i + 1] = IF PortOf[subs[i + 1]] = p THEN up[i] \o Tagged(subs[i + 1]) ELSE up[i]
      BY <1>10, <3>1
    <3>3. f[i + 1] = IF PortOf[subs[i + 1]] = p THEN f[i] \o Tagged(subs[i + 1]) ELSE f[i]
      BY <1>8, <3>1
    <3>. QED  BY <2>2, <3>1, <3>2, <3>3
  <2>3. \A i \in 0..n : i \in T
    <3>. HIDE DEF T, n
    <3>. QED  BY <1>1, <2>1, <2>2, ByInduction
  <2>. QED  BY <2>3
<1>13. Arrived(p) = f[n]
  BY <1>7, <1>11, <1>12
<1>. QED  BY <1>6, <1>8, <1>13 DEF X

\* Bag b is in the mailbox of p, or in the ring of one of the first k
\* subscribers, whose link feeds p.
Source(p, k, b) ==
    \/ \E i \in 1..Len(box[p]) : b = box[p][i]
    \/ \E h \in 1..k : /\ PortOf[subs[h]] = p /\ b.link = subs[h]
                       /\ \E i \in 1..Len(ring[subs[h]]) : b.n = ring[subs[h]][i]

\* What link l adds when the rings of the first k subscribers are emptied.
Share(l, k) == IF \E h \in 1..k : subs[h] = l THEN Len(ring[l]) ELSE 0

\* The mailbox with the rings of the first k subscribers behind it has their
\* bags, all of them, each link's in order.
Gathered(p, k, s) ==
    /\ \A i \in 1..Len(s) : Source(p, k, s[i])
    /\ \A l \in Links : PortOf[l] = p => CountOf(l, s) = CountOf(l, box[p]) + Share(l, k)
    /\ InOrder(s)

\* A bag of the next subscriber's link that was gathered came from the mailbox.
LEMMA GatheredEarlier ==
  ASSUME BagInv, NEW p \in Ports, NEW k \in Nat, k + 1 \in 1..Len(subs), NEW b,
         Source(p, k, b), b.link = subs[k + 1]
  PROVE  \A j \in 1..Len(ring[subs[k + 1]]) : b.n < ring[subs[k + 1]][j]
<1>1. ASSUME NEW h \in 1..k PROVE  subs[h] # subs[k + 1]
  <2>1. Len(subs) \in Nat
    BY ListIs DEF BagInv, TypeOK
  <2>2. h \in 1..Len(subs) /\ h # k + 1
    BY SMTT(30), <2>1
  <2>. QED  BY <2>2 DEF BagInv, SubscribersAreBound
<1>2. PICK i \in 1..Len(box[p]) : b = box[p][i]
  BY <1>1 DEF Source
<1>. QED  BY <1>2 DEF BagInv, BoxesAreInOrder

\* Emptying the next subscriber's ring.
LEMMA GatheredNext ==
  ASSUME BagInv, NEW p \in Ports, NEW k \in Nat, k + 1 \in 1..Len(subs),
         NEW s \in Seq(Bag), Gathered(p, k, s)
  PROVE  Gathered(p, k + 1, IF PortOf[subs[k + 1]] = p THEN s \o Tagged(subs[k + 1]) ELSE s)
<1>. DEFINE m == subs[k + 1]
            t == Tagged(m)
            u == s \o t
<1>1. TypeOK /\ Len(subs) \in Nat /\ m \in Links
  BY ListIs DEF BagInv, TypeOK
<1>2. /\ t \in Seq(Bag) /\ Len(t) = Len(ring[m]) /\ Len(ring[m]) \in Nat
      /\ \A i \in 1..Len(t) : t[i].link = m /\ t[i].n = ring[m][i]
  BY <1>1, TaggedIs
<1>3. /\ k + 1 \in 1..(k + 1)
      /\ \A h \in 1..k : h \in 1..(k + 1) /\ h \in 1..Len(subs) /\ h # k + 1
      /\ \A h \in 1..(k + 1) : h \in 1..k \/ h = k + 1
  BY SMTT(30), <1>1
<1>4. \A b : Source(p, k, b) => Source(p, k + 1, b)
  BY <1>3 DEF Source
<1>5. \A h \in 1..k : subs[h] # m
  BY <1>3 DEF BagInv, SubscribersAreBound
<1>6. \A l \in Links : l # m => Share(l, k + 1) = Share(l, k)
  BY <1>3 DEF Share
<1>7. Share(m, k) = 0 /\ Share(m, k + 1) = Len(ring[m])
  BY <1>3, <1>5 DEF Share
<1>8. CASE PortOf[m] # p
  BY <1>4, <1>6, <1>8 DEF Gathered
<1>9. CASE PortOf[m] = p
  <2>. HIDE DEF t, m
  <2>1. /\ u \in Seq(Bag) /\ Len(u) = Len(s) + Len(t)
        /\ \A i \in 1..Len(s) : u[i] = s[i]
        /\ \A i \in 1..Len(t) : u[Len(s) + i] = t[i]
    <3>1. t \in Seq(Bag)
      BY <1>2
    <3>. QED  BY SMTT(30), <3>1, JoinIs
  <2>2. Len(s) \in Nat /\ Len(t) \in Nat
    BY <1>2, ListIs
  <2>3. \A l : CountOf(l, u) = CountOf(l, s) + CountOf(l, t)
    BY <1>2, CountJoined
  <2>4. \A l : CountOf(l, s) \in Nat /\ CountOf(l, t) \in Nat
    BY <1>2, PlacesAreFinite
  <2>5. box[p] \in Seq(Bag)
    BY <1>1 DEF TypeOK
  <2>6. \A l : CountOf(l, box[p]) \in Nat
    BY <2>5, PlacesAreFinite
  <2>. HIDE DEF u
  <2>7. CountOf(m, t) = Len(ring[m]) /\ \A l : l # m => CountOf(l, t) = 0
    <3>1. \A i \in 1..Len(t) : t[i].link = m
      BY <1>2
    <3>2. CountOf(m, t) = Len(t)
      BY <1>2, <3>1, CountNoneOrAll
    <3>3. ASSUME NEW l, l # m PROVE  CountOf(l, t) = 0
      <4>1. \A i \in 1..Len(t) : t[i].link # l
        BY <3>1, <3>3
      <4>. QED  BY <1>2, <4>1, CountNoneOrAll
    <3>. QED  BY <1>2, <3>2, <3>3
  <2>8. \A i \in 1..Len(u) : i \in 1..Len(s) \/ (i - Len(s) \in 1..Len(t) /\ Len(s) + (i - Len(s)) = i)
    BY SMTT(30), <2>1, <2>2
  <2>9. ASSUME NEW i \in 1..Len(t)
        PROVE  Source(p, k + 1, t[i]) /\ t[i].link = m /\ t[i].n = ring[m][i]
    <3>1. t[i].link = m /\ t[i].n = ring[m][i] /\ i \in 1..Len(ring[m])
      BY <1>2
    <3>. QED  BY <1>3, <1>9, <3>1 DEF Source, m
  <2>10. \A i \in 1..Len(u) : Source(p, k + 1, u[i])
    <3>. TAKE i \in 1..Len(u)
    <3>1. CASE i \in 1..Len(s)
      BY <1>4, <2>1, <3>1 DEF Gathered
    <3>2. CASE i - Len(s) \in 1..Len(t) /\ Len(s) + (i - Len(s)) = i
      <4>1. u[i] = t[i - Len(s)]
        BY <2>1, <3>2
      <4>. QED  BY <2>9, <3>2, <4>1
    <3>. QED  BY <2>8, <3>1, <3>2
  <2>11. ASSUME NEW l \in Links, PortOf[l] = p
         PROVE  CountOf(l, u) = CountOf(l, box[p]) + Share(l, k + 1)
    <3>1. CountOf(l, s) = CountOf(l, box[p]) + Share(l, k)
      BY <2>11 DEF Gathered
    <3>2. CASE l = m
      BY SMTT(30), <1>2, <1>7, <2>3, <2>6, <2>7, <3>1, <3>2
    <3>3. CASE l # m
      BY SMTT(30), <1>6, <2>3, <2>4, <2>7, <3>1, <3>3
    <3>. QED  BY <3>2, <3>3
  <2>12. InOrder(u)
    <3>. SUFFICES ASSUME NEW i \in 1..Len(u), NEW j \in 1..Len(u), i < j, u[i].link = u[j].link
                  PROVE  u[i].n < u[j].n
      BY DEF InOrder
    <3>1. CASE j \in 1..Len(s)
      <4>1. i \in 1..Len(s)
        BY SMTT(30), <2>2, <3>1
      <4>. QED  BY <2>1, <3>1, <4>1 DEF Gathered, InOrder
    <3>2. CASE j - Len(s) \in 1..Len(t) /\ Len(s) + (j - Len(s)) = j
      <4>1. u[j] = t[j - Len(s)] /\ u[j].link = m /\ u[j].n = ring[m][j - Len(s)]
        BY <2>1, <2>9, <3>2
      <4>2. CASE i \in 1..Len(s)
        <5>1. Source(p, k, u[i]) /\ u[i].link = m
          BY <2>1, <4>1, <4>2 DEF Gathered
        <5>2. \A h \in 1..Len(ring[m]) : u[i].n < ring[m][h]
          BY <5>1, GatheredEarlier DEF m
        <5>. QED  BY <1>2, <3>2, <4>1, <5>2 DEF t
      <4>3. CASE i - Len(s) \in 1..Len(t) /\ Len(s) + (i - Len(s)) = i
        <5>1. u[i].n = ring[m][i - Len(s)]
          BY <2>1, <2>9, <4>3
        <5>2. i - Len(s) < j - Len(s)
          BY SMTT(30), <2>2
        <5>3. Len(t) = Len(ring[m])
          BY <1>2 DEF t
        <5>. QED  BY <1>1, <3>2, <4>1, <4>3, <5>1, <5>2, <5>3 DEF BagInv, RingsAreInOrder
      <4>. QED  BY <2>8, <4>2, <4>3
    <3>. QED  BY <2>8, <3>1, <3>2
  <2>13. Gathered(p, k + 1, u)
    BY <2>10, <2>11, <2>12 DEF Gathered
  <2>. QED  BY <1>9, <2>13 DEF u, t, m
<1>. QED  BY <1>8, <1>9

\* A bag of a link of port p that had a subscriber, sent and not yet read.
Due(p, b) ==
    /\ b \in Bag /\ PortOf[b.link] = p /\ ~Fresh(b.link)
    /\ last[b.link] < b.n /\ b.n <= sent[b.link]

\* What a mailbox and the rings of its links hold is due.
LEMMA SourcesAreDue ==
  ASSUME BagInv, NEW p \in Ports, NEW k \in 0..Len(subs), NEW b \in Bag, Source(p, k, b)
  PROVE  Due(p, b)
<1>1. CASE \E i \in 1..Len(box[p]) : b = box[p][i]
  <2>1. PICK i \in 1..Len(box[p]) : b = box[p][i]
    BY <1>1
  <2>2. PortOf[b.link] = p /\ ~Fresh(b.link)
    BY <2>1 DEF BagInv, BoxesHoldTheirOwn
  <2>3. last[b.link] < b.n /\ b.n <= sent[b.link]
    BY <2>1 DEF BagInv, BoxesAreInOrder
  <2>. QED  BY <2>2, <2>3 DEF Due
<1>2. CASE \E h \in 1..k : /\ PortOf[subs[h]] = p /\ b.link = subs[h]
                           /\ \E i \in 1..Len(ring[subs[h]]) : b.n = ring[subs[h]][i]
  <2>1. PICK h \in 1..k : /\ PortOf[subs[h]] = p /\ b.link = subs[h]
                          /\ \E i \in 1..Len(ring[subs[h]]) : b.n = ring[subs[h]][i]
    BY <1>2
  <2>2. Len(subs) \in Nat /\ \A i \in 1..Len(subs) : subs[i] \in Links
    BY ListIs DEF BagInv, TypeOK
  <2>3. h \in 1..Len(subs)
    BY SMTT(30), <2>2
  <2>4. Bound(subs[h]) /\ subs[h] \in Links
    BY <2>2, <2>3 DEF BagInv, SubscribersAreBound
  <2>5. ~Fresh(subs[h])
    BY SMTT(30), <2>4 DEF Bound, Fresh
  <2>6. last[b.link] < b.n /\ b.n <= sent[b.link]
    BY <2>1, <2>4 DEF BagInv, RingsAreInOrder
  <2>. QED  BY <2>1, <2>5, <2>6 DEF Due
<1>. QED  BY <1>1, <1>2 DEF Source

\* With every ring emptied behind it, a mailbox holds its own bags and its
\* links' rings, nothing else and nothing twice, each link's bags in order.
LEMMA ArrivedIs ==
  ASSUME BagInv, NEW p \in Ports
  PROVE  /\ Arrived(p) \in Seq(Bag) /\ InOrder(Arrived(p))
         /\ \A i \in 1..Len(Arrived(p)) : Due(p, Arrived(p)[i])
         /\ \A l \in Links : PortOf[l] = p =>
              CountOf(l, Arrived(p)) = CountOf(l, box[p]) + Len(ring[l])
<1>1. PICK f \in [0..Len(subs) -> Seq(Bag)] :
           /\ f[0] = box[p]
           /\ \A i \in 1..Len(subs) :
                f[i] = IF PortOf[subs[i]] = p THEN f[i - 1] \o Tagged(subs[i]) ELSE f[i - 1]
           /\ Arrived(p) = f[Len(subs)]
  BY ArrivedUp DEF BagInv
<1>2. Len(subs) \in Nat
  BY ListIs DEF BagInv, TypeOK
<1>. DEFINE T == {k \in 0..Len(subs) : Gathered(p, k, f[k])}
<1>3. 0 \in T
  <2>1. 0 \in 0..Len(subs) /\ \A h : h \notin 1..0
    BY SMTT(30), <1>2
  <2>2. box[p] \in Seq(Bag) /\ InOrder(box[p])
    BY DEF BagInv, TypeOK, BoxesAreInOrder
  <2>3. \A l \in Links : CountOf(l, box[p]) \in Nat /\ Share(l, 0) = 0
    BY <2>1, <2>2, PlacesAreFinite DEF Share
  <2>4. \A l \in Links : CountOf(l, box[p]) = CountOf(l, box[p]) + Share(l, 0)
    BY SMTT(30), <2>3
  <2>5. \A i \in 1..Len(box[p]) : Source(p, 0, box[p][i])
    BY DEF Source
  <2>. QED  BY <1>1, <2>1, <2>2, <2>4, <2>5 DEF Gathered
<1>4. ASSUME NEW k \in 0..Len(subs), k \in T, k < Len(subs) PROVE  k + 1 \in T
  <2>1. k \in Nat /\ k + 1 \in 1..Len(subs) /\ k + 1 \in 0..Len(subs) /\ (k + 1) - 1 = k
    BY SMTT(30), <1>2, <1>4
  <2>2. Gathered(p, k, f[k]) /\ f[k] \in Seq(Bag)
    BY <1>4
  <2>3. Gathered(p, k + 1, IF PortOf[subs[k + 1]] = p THEN f[k] \o Tagged(subs[k + 1]) ELSE f[k])
    BY <2>1, <2>2, GatheredNext
  <2>4. f[k + 1] = IF PortOf[subs[k + 1]] = p THEN f[k] \o Tagged(subs[k + 1]) ELSE f[k]
    BY <1>1, <2>1
  <2>. QED  BY <2>1, <2>3, <2>4
<1>5. \A k \in 0..Len(subs) : k \in T
  <2>. HIDE DEF T
  <2>. QED  BY <1>2, <1>3, <1>4, ByInduction
<1>6. Len(subs) \in 0..Len(subs)
  BY SMTT(30), <1>2
<1>7. Arrived(p) \in Seq(Bag) /\ Gathered(p, Len(subs), Arrived(p))
  BY <1>1, <1>5, <1>6
<1>8. \A i \in 1..Len(Arrived(p)) : Arrived(p)[i] \in Bag
  BY <1>7, ListIs
<1>9. \A i \in 1..Len(Arrived(p)) : Due(p, Arrived(p)[i])
  BY <1>6, <1>7, <1>8, SourcesAreDue DEF Gathered
<1>10. ASSUME NEW l \in Links PROVE  Share(l, Len(subs)) = Len(ring[l])
  <2>1. CASE Bound(l)
    BY <2>1 DEF BagInv, SubscribersAreBound, Share
  <2>2. CASE ~Bound(l)
    <3>1. ring[l] = <<>> /\ ~\E h \in 1..Len(subs) : subs[h] = l
      BY <2>2 DEF BagInv, SubscribersAreBound, OnlyBoundRingsHoldBags
    <3>2. Len(<<>>) = 0
      BY SMTT(30)
    <3>. QED  BY <3>1, <3>2 DEF Share
  <2>. QED  BY <2>1, <2>2
<1>. QED  BY <1>7, <1>9, <1>10 DEF Gathered

\* Link l's last read is the one before, or one of the first k bags of s.
ReadUpTo(l, s, k) ==
    \/ last'[l] = last[l]
    \/ \E i \in 1..k : s[i].link = l /\ last'[l] = s[i].n

\* Emptying the rings, with the first c[p] bags of each port dropped or taken,
\* keeps the books, whichever of the two it was.
LEMMA EmptiedRings ==
  ASSUME BagInv, TypeOK', UNCHANGED <<link, subs, sent, overrun>>,
         \A l \in Links : ring'[l] = <<>>,
         NEW c,
         \A p \in Ports : c[p] \in 0..Len(Arrived(p)) /\ box'[p] = Behind(Arrived(p), c[p]),
         \A l \in Links :
           dropped'[l] + taken'[l] =
             dropped[l] + taken[l] + CountOf(l, SubSeq(Arrived(PortOf[l]), 1, c[PortOf[l]])),
         \A l \in Links : ReadUpTo(l, Arrived(PortOf[l]), c[PortOf[l]])
  PROVE  BagInv'
<1>1. \A l \in Links : PortOf[l] \in Ports
  BY LinkAssumption
<1>2. ASSUME NEW p \in Ports
      PROVE  /\ Arrived(p) \in Seq(Bag) /\ InOrder(Arrived(p))
             /\ \A i \in 1..Len(Arrived(p)) : Due(p, Arrived(p)[i])
             /\ Len(Arrived(p)) \in Nat /\ c[p] \in Nat /\ c[p] <= Len(Arrived(p))
             /\ box'[p] \in Seq(Bag) /\ Len(box'[p]) = Len(Arrived(p)) - c[p]
             /\ \A i \in 1..Len(box'[p]) :
                  box'[p][i] = Arrived(p)[i + c[p]] /\ i + c[p] \in 1..Len(Arrived(p))
  <2>1. Arrived(p) \in Seq(Bag) /\ InOrder(Arrived(p))
           /\ \A i \in 1..Len(Arrived(p)) : Due(p, Arrived(p)[i])
    BY ArrivedIs
  <2>2. Len(Arrived(p)) \in Nat
    BY <2>1, ListIs
  <2>3. c[p] \in Nat /\ c[p] <= Len(Arrived(p))
    BY SMTT(30), <2>2
  <2>4. c[p] \in 0..Len(Arrived(p)) /\ box'[p] = Behind(Arrived(p), c[p])
    OBVIOUS
  <2>. DEFINE a == Arrived(p)
              d == c[p]
              b == Behind(a, d)
  <2>5. a \in Seq(Bag) /\ d \in 0..Len(a) /\ box'[p] = b
    BY <2>1, <2>4
  <2>. HIDE DEF a, d
  <2>6. /\ b \in Seq(Bag) /\ Len(b) = Len(a) - d
        /\ \A i \in 1..(Len(a) - d) : b[i] = a[i + d] /\ i + d \in 1..Len(a)
    BY <2>5, BehindIs
  <2>. HIDE DEF b
  <2>. QED  BY <2>1, <2>2, <2>3, <2>5, <2>6 DEF a, d
<1>3. \A l \in Links : Len(ring'[l]) = 0 /\ \A j : j \notin 1..Len(ring'[l])
  BY SMTT(30)
<1>4. OnlyBoundRingsHoldBags' /\ SubscribersAreBound'
  BY DEF BagInv, OnlyBoundRingsHoldBags, SubscribersAreBound, Bound
<1>5. FreshLinksAreEmpty'
  <2>. SUFFICES ASSUME NEW l \in Links, Fresh(l)
                PROVE  sent[l] = 0 /\ overrun[l] = 0 /\ dropped'[l] = 0 /\ taken'[l] = 0
    BY DEF FreshLinksAreEmpty, Fresh
  <2>. DEFINE a == Arrived(PortOf[l])
              d == c[PortOf[l]]
  <2>1. a \in Seq(Bag) /\ d \in 0..Len(a) /\ \A i \in 1..Len(a) : a[i].link # l
    BY <1>1, <1>2 DEF Due
  <2>. HIDE DEF a, d
  <2>2. /\ SubSeq(a, 1, d) \in Seq(Bag) /\ Len(SubSeq(a, 1, d)) = d
        /\ \A i \in 1..d : SubSeq(a, 1, d)[i] = a[i] /\ i \in 1..Len(a)
    BY <2>1, CountSplit
  <2>3. CountOf(l, SubSeq(a, 1, d)) = 0
    BY <2>1, <2>2, CountNoneOrAll
  <2>4. sent[l] = 0 /\ overrun[l] = 0 /\ dropped[l] = 0 /\ taken[l] = 0
    BY DEF BagInv, FreshLinksAreEmpty
  <2>5. dropped'[l] + taken'[l] = 0
    BY SMTT(30), <2>3, <2>4 DEF a, d
  <2>6. dropped'[l] \in Nat /\ taken'[l] \in Nat
    BY DEF TypeOK
  <2>. QED  BY SMTT(30), <2>4, <2>5, <2>6
<1>6. BoxesHoldTheirOwn'
  <2>1. ASSUME NEW p \in Ports, NEW i \in 1..Len(box'[p])
        PROVE  PortOf[box'[p][i].link] = p /\ ~Fresh(box'[p][i].link)
    <3>1. Due(p, box'[p][i])
      BY <1>2
    <3>. QED  BY <3>1 DEF Due
  <2>. QED  BY <2>1 DEF BoxesHoldTheirOwn, Fresh
<1>7. RingsAreInOrder'
  <2>. SUFFICES ASSUME NEW l \in Links PROVE  last'[l] <= sent[l]
    BY <1>3 DEF RingsAreInOrder
  <2>1. CASE last'[l] = last[l]
    BY <2>1 DEF BagInv, RingsAreInOrder
  <2>2. ASSUME NEW i \in 1..c[PortOf[l]],
               Arrived(PortOf[l])[i].link = l, last'[l] = Arrived(PortOf[l])[i].n
        PROVE  last'[l] <= sent[l]
    <3>1. i \in 1..Len(Arrived(PortOf[l]))
      BY SMTT(30), <1>1, <1>2
    <3>. QED  BY <1>1, <1>2, <2>2, <3>1 DEF Due
  <2>. QED  BY <2>1, <2>2 DEF ReadUpTo
<1>8. BoxesAreInOrder'
  <2>. SUFFICES ASSUME NEW p \in Ports
                PROVE  /\ InOrder(box'[p])
                       /\ \A i \in 1..Len(box'[p]) :
                            /\ last'[box'[p][i].link] < box'[p][i].n
                            /\ box'[p][i].n <= sent[box'[p][i].link]
                            /\ box'[p][i].link \in Links
    BY <1>3 DEF BoxesAreInOrder, InOrder
  <2>1. ASSUME NEW i \in 1..Len(box'[p]), NEW j \in 1..Len(box'[p]), i < j,
               box'[p][i].link = box'[p][j].link
        PROVE  box'[p][i].n < box'[p][j].n
    <3>1. i + c[p] < j + c[p]
      BY SMTT(30), <1>2, <2>1
    <3>2. box'[p][i] = Arrived(p)[i + c[p]] /\ i + c[p] \in 1..Len(Arrived(p))
      BY <1>2
    <3>3. box'[p][j] = Arrived(p)[j + c[p]] /\ j + c[p] \in 1..Len(Arrived(p))
      BY <1>2
    <3>4. InOrder(Arrived(p))
      BY <1>2
    <3>. QED  BY <2>1, <3>1, <3>2, <3>3, <3>4 DEF InOrder
  <2>2. ASSUME NEW i \in 1..Len(box'[p])
        PROVE  /\ last'[box'[p][i].link] < box'[p][i].n
               /\ box'[p][i].n <= sent[box'[p][i].link]
               /\ box'[p][i].link \in Links
    <3>. DEFINE l == box'[p][i].link
    <3>1. box'[p][i] = Arrived(p)[i + c[p]] /\ i + c[p] \in 1..Len(Arrived(p))
      BY <1>2
    <3>2. Due(p, box'[p][i])
      BY <1>2, <3>1
    <3>3. l \in Links /\ PortOf[l] = p /\ last[l] < box'[p][i].n /\ box'[p][i].n <= sent[l]
      BY <3>2 DEF Due, Bag
    <3>. HIDE DEF l
    <3>4. ASSUME NEW h \in 1..c[p], Arrived(p)[h].link = l, last'[l] = Arrived(p)[h].n
          PROVE  last'[l] < box'[p][i].n
      <4>1. h \in 1..Len(Arrived(p)) /\ h < i + c[p]
        BY SMTT(30), <1>2
      <4>. QED  BY <1>2, <3>1, <3>4, <4>1 DEF InOrder, l
    <3>5. ReadUpTo(l, Arrived(p), c[p])
      BY <3>3
    <3>6. last'[l] < box'[p][i].n
      BY <3>3, <3>4, <3>5 DEF ReadUpTo
    <3>. QED  BY <3>3, <3>6 DEF l
  <2>. QED  BY <2>1, <2>2 DEF InOrder
<1>9. EveryBagIsAccountedFor'
  <2>. SUFFICES ASSUME NEW l \in Links, Bound(l)
                PROVE  sent[l] = overrun[l] + Len(ring'[l]) + CountOf(l, box'[PortOf[l]])
                                   + dropped'[l] + taken'[l]
    BY DEF EveryBagIsAccountedFor, Bound, CountOf
  <2>. DEFINE a == Arrived(PortOf[l])
              d == c[PortOf[l]]
  <2>1. /\ a \in Seq(Bag) /\ d \in 0..Len(a) /\ box'[PortOf[l]] = Behind(a, d)
        /\ dropped'[l] + taken'[l] = dropped[l] + taken[l] + CountOf(l, SubSeq(a, 1, d))
    BY <1>1, <1>2
  <2>2. CountOf(l, a) = CountOf(l, box[PortOf[l]]) + Len(ring[l])
    BY <1>1, ArrivedIs
  <2>. HIDE DEF a, d
  <2>3. /\ CountOf(l, a) = CountOf(l, SubSeq(a, 1, d)) + CountOf(l, box'[PortOf[l]])
        /\ CountOf(l, SubSeq(a, 1, d)) \in Nat /\ CountOf(l, box'[PortOf[l]]) \in Nat
    BY SMTT(30), <2>1, CountSplit
  <2>4. sent[l] = overrun[l] + Len(ring[l]) + CountOf(l, box[PortOf[l]]) + dropped[l] + taken[l]
    BY DEF BagInv, EveryBagIsAccountedFor
  <2>5. /\ overrun[l] \in Nat /\ dropped[l] \in Nat /\ taken[l] \in Nat
        /\ dropped'[l] \in Nat /\ taken'[l] \in Nat
        /\ box[PortOf[l]] \in Seq(Bag) /\ ring[l] \in Seq(1..MaxBags)
    BY <1>1 DEF BagInv, TypeOK
  <2>6. CountOf(l, box[PortOf[l]]) \in Nat /\ Len(ring[l]) \in Nat
    BY <2>5, PlacesAreFinite, ListIs
  <2>7. Len(ring'[l]) = 0
    BY <1>3
  <2>8. sent[l] \in Nat
    BY SMTT(30), <2>4, <2>5, <2>6
  <2>9. CountOf(l, box[PortOf[l]]) + Len(ring[l])
           = CountOf(l, SubSeq(a, 1, d)) + CountOf(l, box'[PortOf[l]])
    BY <2>2, <2>3
  <2>10. sent[l] = overrun[l] + 0 + CountOf(l, box'[PortOf[l]]) + dropped'[l] + taken'[l]
    <3>1. dropped'[l] + taken'[l] = dropped[l] + taken[l] + CountOf(l, SubSeq(a, 1, d))
      BY <2>1
    <3>2. CountOf(l, SubSeq(a, 1, d)) \in Nat /\ CountOf(l, box'[PortOf[l]]) \in Nat
      BY <2>3
    <3>. DEFINE z == sent[l]
                o == overrun[l]
                r == Len(ring[l])
                b == CountOf(l, box[PortOf[l]])
                d0 == dropped[l]
                t0 == taken[l]
                d1 == dropped'[l]
                t1 == taken'[l]
                x == CountOf(l, SubSeq(a, 1, d))
                y == CountOf(l, box'[PortOf[l]])
    <3>3. /\ z \in Nat /\ o \in Nat /\ r \in Nat /\ b \in Nat /\ d0 \in Nat /\ t0 \in Nat
          /\ d1 \in Nat /\ t1 \in Nat /\ x \in Nat /\ y \in Nat
      BY <2>5, <2>6, <2>8, <3>2
    <3>4. z = o + r + b + d0 + t0 /\ d1 + t1 = d0 + t0 + x /\ b + r = x + y
      BY <2>4, <2>9, <3>1
    <3>. HIDE DEF z, o, r, b, d0, t0, d1, t1, x, y
    <3>5. z = o + 0 + y + d1 + t1
      BY SMTT(30), <3>3, <3>4
    <3>. QED  BY <3>5 DEF z, o, y, d1, t1
  <2>. QED  BY <2>7, <2>10
<1>. QED  BY <1>4, <1>5, <1>6, <1>7, <1>8, <1>9 DEF BagInv

-----------------------------------------------------------------------------
(***************************************************************************)
(* Types: those of the bags and the books, and those of the loop.          *)
(***************************************************************************)

BagTypes ==
    /\ link \in [Links -> LinkProgress]
    /\ subs \in Seq(Links)
    /\ source \in [Links -> {"idle", "notify"}]
    /\ sent \in [Links -> 0..MaxBags]
    /\ ring \in [Links -> Seq(1..MaxBags)] /\ \A l \in Links : Len(ring[l]) <= Depth
    /\ box \in [Ports -> Seq(Bag)] /\ \A p \in Ports : Len(box[p]) <= Depth
    /\ dropped \in [Links -> Nat]
    /\ overrun \in [Links -> Nat] /\ taken \in [Links -> Nat]
    /\ last \in [Links -> 0..MaxBags]
    /\ unheard \subseteq Links

LoopTypes ==
    /\ listener \in Nat /\ installed \in Nat /\ event \in BOOLEAN
    /\ pc \in LoopPoint
    /\ waiter \in Nat
    /\ eventfd \in {"slot", "waiter", "closed"}
    /\ setupFailed \in BOOLEAN /\ toldPaused \in BOOLEAN
    /\ paused \in BOOLEAN /\ shutdown \in {"none", "eventfd", "sent", "taken"}

\* The variables of the loop keep their types, whoever moves.
LEMMA LoopTypesKept ==
  ASSUME LoopTypes, [Next]_vars
  PROVE  LoopTypes'
<1>. USE DEF LoopTypes
<1>1. ASSUME NEW l \in Links,
             \/ Send(l) \/ WireSource(l) \/ WireSubscriber(l) \/ WireNoSubscriber(l)
             \/ UnwireSource(l) \/ UnwireRefused(l)
      PROVE  LoopTypes'
  BY <1>1 DEF Send, WireSource, WireSubscriber, WireNoSubscriber, UnwireSource, UnwireRefused,
     listenerVars, loopVars, askVars
<1>2. ASSUME NEW l \in Links, Notify(l) \/ UnwireSubscriber(l)
      PROVE  LoopTypes'
  <2>1. 0 \in Nat
    BY SMTT(30)
  <2>. QED  BY <1>2, <2>1 DEF Notify, UnwireSubscriber, loopVars, askVars
<1>3. ASSUME NEW l \in Links, WireListener(l)
      PROVE  LoopTypes'
  <2>1. installed + 1 \in Nat
    BY SMTT(30)
  <2>. QED  BY <1>3, <2>1 DEF WireListener, listenerVars, loopVars, askVars
<1>4. ASSUME NEW p \in Ports, Read(p) PROVE  LoopTypes'
  BY <1>4 DEF Read, outside, listenerVars, loopVars, askVars
<1>5. CASE RefreshWaiter
  <2>1. 0 \in Nat
    BY SMTT(30)
  <2>2. waiter' \in {0, waiter, listener}
    BY <1>5 DEF RefreshWaiter
  <2>3. eventfd' \in {"slot", "waiter", "closed"} /\ setupFailed' \in BOOLEAN
    BY <1>5 DEF RefreshWaiter
  <2>4. /\ pc' \in LoopPoint
        /\ UNCHANGED <<toldPaused, listener, installed, event, paused, shutdown>>
    BY <1>5 DEF RefreshWaiter, LoopPoint, outside, listenerVars, askVars
  <2>. QED  BY <2>1, <2>2, <2>3, <2>4
<1>6. CASE Check \/ PollPaused
  BY <1>6 DEF Check, PollPaused, LoopPoint, outside, listenerVars, askVars
<1>7. CASE Wait \/ DrainListener \/ ProcessReturns
  BY <1>7 DEF Wait, DrainListener, ProcessReturns, LoopPoint, outside, listenerVars, askVars
<1>8. CASE Gate \/ AfterProcess
  BY <1>8 DEF Gate, AfterProcess, LookAtPorts, LoopPoint, outside, listenerVars, askVars
<1>9. CASE SetPauseGate \/ SignalShutdown \/ UNCHANGED vars
  BY <1>9 DEF SetPauseGate, SignalShutdown, vars, listenerVars, loopVars, askVars
<1>. QED  BY <1>1, <1>2, <1>3, <1>4, <1>5, <1>6, <1>7, <1>8, <1>9 DEF Next, LoopStep, WireStep

-----------------------------------------------------------------------------
(***************************************************************************)
(* Each action keeps the books.                                            *)
(***************************************************************************)

\* Steps that move no bag: control, notifications, and the wiring of either
\* end that gives the link no subscriber and takes none away.
LEMMA NoBagMoves ==
  ASSUME BagInv, LoopTypes', link' \in [Links -> LinkProgress],
         \A l \in Links : (Bound(l)' <=> Bound(l)) /\ (Fresh(l)' => Fresh(l)),
         source' \in [Links -> {"idle", "notify"}], unheard' \subseteq Links,
         UNCHANGED <<subs, sent, boxVars, overrun, taken, last>>
  PROVE  BagInv'
<1>. /\ subs' = subs /\ sent' = sent /\ ring' = ring /\ box' = box /\ dropped' = dropped
     /\ overrun' = overrun /\ taken' = taken /\ last' = last
  BY DEF boxVars
<1>1. TypeOK'
  BY DEF BagInv, TypeOK, LoopTypes
<1>2. OnlyBoundRingsHoldBags'
  BY DEF BagInv, OnlyBoundRingsHoldBags
<1>3. SubscribersAreBound'
  BY DEF BagInv, SubscribersAreBound
<1>4. FreshLinksAreEmpty'
  BY DEF BagInv, FreshLinksAreEmpty
<1>5. BoxesHoldTheirOwn'
  <2>1. ASSUME NEW p \in Ports, NEW i \in 1..Len(box[p]) PROVE  box[p][i].link \in Links
    <3>1. box[p] \in Seq(Bag)
      BY DEF BagInv, TypeOK
    <3>2. box[p][i] \in Bag
      BY <3>1, ListIs
    <3>. QED  BY <3>2 DEF Bag
  <2>. QED  BY <2>1 DEF BagInv, BoxesHoldTheirOwn
<1>6. RingsAreInOrder'
  BY DEF BagInv, RingsAreInOrder
<1>7. BoxesAreInOrder'
  BY DEF BagInv, BoxesAreInOrder, InOrder
<1>8. EveryBagIsAccountedFor'
  BY DEF BagInv, EveryBagIsAccountedFor, CountOf
<1>. QED  BY <1>1, <1>2, <1>3, <1>4, <1>5, <1>6, <1>7, <1>8 DEF BagInv

\* receive_pending empties every ring; the mailbox keeps the newest bags, and
\* the count of a link goes up by those of its bags that had to go.
LEMMA PendingIs ==
  ASSUME BagInv, ReceivePending
  PROVE  /\ \A l \in Links : ring'[l] = <<>>
         /\ ring' \in [Links -> Seq(1..MaxBags)] /\ \A l \in Links : Len(ring'[l]) <= Depth
         /\ dropped' \in [Links -> Nat]
         /\ \E k : /\ \A p \in Ports :
                        /\ k[p] \in 0..Len(Arrived(p)) /\ Received(p) = Behind(Arrived(p), k[p])
                        /\ Received(p) \in Seq(Bag) /\ Len(Received(p)) <= Depth
                   /\ \A l \in Links :
                        dropped'[l] = dropped[l]
                          + CountOf(l, SubSeq(Arrived(PortOf[l]), 1, k[PortOf[l]]))
<1>. DEFINE k == [p \in Ports |-> IF Len(Arrived(p)) <= Depth THEN 0 ELSE Len(Arrived(p)) - Depth]
<1>1. \A l \in Links : ring'[l] = <<>>
  BY DEF BagInv, OnlyBoundRingsHoldBags, ReceivePending
<1>2. <<>> \in Seq(1..MaxBags) /\ Len(<<>>) <= Depth
  BY SMTT(30), BoundAssumption
<1>3. ring' = [l \in Links |-> ring'[l]]
  BY DEF ReceivePending
<1>4. ring' \in [Links -> Seq(1..MaxBags)] /\ \A l \in Links : Len(ring'[l]) <= Depth
  BY <1>1, <1>2, <1>3
<1>5. ASSUME NEW p \in Ports
      PROVE  /\ Arrived(p) \in Seq(Bag) /\ k[p] \in 0..Len(Arrived(p))
             /\ Received(p) = Behind(Arrived(p), k[p])
             /\ Received(p) \in Seq(Bag) /\ Len(Received(p)) <= Depth
  <2>1. Arrived(p) \in Seq(Bag)
    BY ArrivedIs
  <2>2. Depth \in Nat \ {0}
    BY BoundAssumption
  <2>3. k[p] = IF Len(Arrived(p)) <= Depth THEN 0 ELSE Len(Arrived(p)) - Depth
    OBVIOUS
  <2>. HIDE DEF k
  <2>4. k[p] \in 0..Len(Arrived(p)) /\ Newer(Arrived(p), Depth) = Behind(Arrived(p), k[p])
    <3>1. PICK d \in 0..Len(Arrived(p)) :
             /\ Newer(Arrived(p), Depth) = Behind(Arrived(p), d)
             /\ d = IF Len(Arrived(p)) <= Depth THEN 0 ELSE Len(Arrived(p)) - Depth
      BY <2>1, <2>2, NewerIs
    <3>2. d = k[p]
      BY <2>3, <3>1
    <3>. QED  BY <3>1, <3>2
  <2>5. Behind(Arrived(p), k[p]) \in Seq(Bag) /\ Len(Behind(Arrived(p), k[p])) = Len(Arrived(p)) - k[p]
    BY <2>1, <2>4, BehindIs
  <2>6. Len(Arrived(p)) \in Nat
    BY <2>1, ListIs
  <2>7. Len(Arrived(p)) - k[p] <= Depth
    BY SMTT(30), <2>2, <2>3, <2>6
  <2>. QED  BY <2>1, <2>4, <2>5, <2>7 DEF Received
<1>. HIDE DEF k
<1>6. ASSUME NEW l \in Links
      PROVE  /\ dropped'[l] \in Nat
             /\ dropped'[l] = dropped[l]
                  + CountOf(l, SubSeq(Arrived(PortOf[l]), 1, k[PortOf[l]]))
  <2>1. PortOf[l] \in Ports
    BY LinkAssumption
  <2>. DEFINE a == Arrived(PortOf[l])
              d == k[PortOf[l]]
  <2>2. a \in Seq(Bag) /\ d \in 0..Len(a) /\ Received(PortOf[l]) = Behind(a, d)
    BY <2>1, <1>5
  <2>3. Evicted(l) = CountOf(l, a) - CountOf(l, Behind(a, d))
    BY <2>2 DEF Evicted
  <2>. HIDE DEF a, d
  <2>4. /\ CountOf(l, a) = CountOf(l, SubSeq(a, 1, d)) + CountOf(l, Behind(a, d))
        /\ CountOf(l, SubSeq(a, 1, d)) \in Nat /\ CountOf(l, Behind(a, d)) \in Nat
    BY SMTT(30), <2>2, CountSplit
  <2>5. dropped[l] \in Nat
    BY DEF BagInv, TypeOK
  <2>6. dropped'[l] = dropped[l] + Evicted(l)
    BY DEF ReceivePending
  <2>7. Evicted(l) = CountOf(l, SubSeq(a, 1, d))
    BY SMTT(30), <2>3, <2>4
  <2>8. dropped[l] + CountOf(l, SubSeq(a, 1, d)) \in Nat
    BY SMTT(30), <2>4, <2>5
  <2>. QED  BY <2>6, <2>7, <2>8 DEF a, d
<1>7. dropped' = [l \in Links |-> dropped'[l]]
  BY DEF ReceivePending
<1>8. dropped' \in [Links -> Nat]
  BY <1>6, <1>7
<1>. QED  BY <1>1, <1>4, <1>5, <1>6, <1>8

\* ports_would_return_something: what it evicts it counts.
LEMMA LookKeepsBooks ==
  ASSUME BagInv, LoopTypes', NEW ready, NEW empty, LookAtPorts(ready, empty),
         UNCHANGED <<linkVars, overrun, taken, last>>
  PROVE  BagInv'
<1>. /\ link' = link /\ subs' = subs /\ source' = source /\ sent' = sent
     /\ overrun' = overrun /\ taken' = taken /\ last' = last
  BY DEF linkVars
<1>1. ReceivePending /\ unheard' = {} /\ box' = [p \in Ports |-> Received(p)]
  BY DEF LookAtPorts
<1>2. /\ \A l \in Links : ring'[l] = <<>>
      /\ ring' \in [Links -> Seq(1..MaxBags)] /\ \A l \in Links : Len(ring'[l]) <= Depth
      /\ dropped' \in [Links -> Nat]
  BY <1>1, PendingIs
<1>3. PICK k : /\ \A p \in Ports :
                    /\ k[p] \in 0..Len(Arrived(p)) /\ Received(p) = Behind(Arrived(p), k[p])
                    /\ Received(p) \in Seq(Bag) /\ Len(Received(p)) <= Depth
               /\ \A l \in Links :
                    dropped'[l] = dropped[l]
                      + CountOf(l, SubSeq(Arrived(PortOf[l]), 1, k[PortOf[l]]))
  BY <1>1, PendingIs
<1>4. TypeOK'
  <2>1. box' \in [Ports -> Seq(Bag)] /\ \A p \in Ports : Len(box'[p]) <= Depth
    BY <1>1, <1>3
  <2>2. BagTypes'
    BY <1>1, <1>2, <2>1 DEF BagInv, TypeOK, BagTypes
  <2>. QED  BY <2>2 DEF TypeOK, BagTypes, LoopTypes
<1>5. ASSUME NEW p \in Ports
      PROVE  k[p] \in 0..Len(Arrived(p)) /\ box'[p] = Behind(Arrived(p), k[p])
  BY <1>1, <1>3
<1>6. ASSUME NEW l \in Links
      PROVE  dropped'[l] + taken'[l] =
               dropped[l] + taken[l] + CountOf(l, SubSeq(Arrived(PortOf[l]), 1, k[PortOf[l]]))
  <2>1. dropped[l] \in Nat /\ taken[l] \in Nat /\ PortOf[l] \in Ports
    BY LinkAssumption DEF BagInv, TypeOK
  <2>2. Arrived(PortOf[l]) \in Seq(Bag)
    BY <2>1, ArrivedIs
  <2>3. CountOf(l, SubSeq(Arrived(PortOf[l]), 1, k[PortOf[l]])) \in Nat
    BY <1>3, <2>1, <2>2, CountSplit
  <2>4. dropped'[l] = dropped[l] + CountOf(l, SubSeq(Arrived(PortOf[l]), 1, k[PortOf[l]]))
    BY <1>3
  <2>. QED  BY SMTT(30), <2>1, <2>3, <2>4
<1>7. \A l \in Links : ReadUpTo(l, Arrived(PortOf[l]), k[PortOf[l]])
  BY DEF ReadUpTo
<1>. QED  BY <1>2, <1>4, <1>5, <1>6, <1>7, EmptiedRings

\* A read: what it takes and what the mailbox drops are the oldest bags of its
\* port, and the one it returns is the newest of those.
LEMMA ReadKeepsBooks ==
  ASSUME BagInv, LoopTypes', NEW p \in Ports, Read(p)
  PROVE  BagInv' /\ \A l \in Links : last'[l] >= last[l]
<1>. DEFINE all == Received(p)
            got == IF all = <<>> THEN 0 ELSE IF p \in Newest THEN Len(all) ELSE 1
<1>0. link' = link /\ subs' = subs /\ source' = source /\ sent' = sent /\ overrun' = overrun
  BY DEF Read, outside, linkVars
<1>1. /\ ReceivePending /\ unheard' = {}
      /\ box' = [q \in Ports |-> IF q = p THEN Behind(all, got) ELSE Received(q)]
      /\ last' = IF got = 0 THEN last ELSE [last EXCEPT ![all[got].link] = all[got].n]
      /\ taken' = [l \in Links |-> taken[l] + CountOf(l, SubSeq(all, 1, got))]
  BY DEF Read, Behind
<1>2. /\ \A l \in Links : ring'[l] = <<>>
      /\ ring' \in [Links -> Seq(1..MaxBags)] /\ \A l \in Links : Len(ring'[l]) <= Depth
      /\ dropped' \in [Links -> Nat]
  BY <1>1, PendingIs
<1>3. PICK k : /\ \A q \in Ports :
                    /\ k[q] \in 0..Len(Arrived(q)) /\ Received(q) = Behind(Arrived(q), k[q])
                    /\ Received(q) \in Seq(Bag) /\ Len(Received(q)) <= Depth
               /\ \A l \in Links :
                    dropped'[l] = dropped[l]
                      + CountOf(l, SubSeq(Arrived(PortOf[l]), 1, k[PortOf[l]]))
  BY <1>1, PendingIs
<1>4. all \in Seq(Bag) /\ all = Behind(Arrived(p), k[p]) /\ Len(all) <= Depth
  BY <1>3
<1>5. Len(all) \in Nat /\ (all # <<>> => Len(all) # 0)
  <2>1. ASSUME NEW S, NEW s \in Seq(S) PROVE  Len(s) \in Nat /\ (s # <<>> => Len(s) # 0)
    BY SMTT(30)
  <2>. QED  BY <1>4, <2>1
<1>. HIDE DEF all
<1>6. got \in 0..Len(all) /\ got \in Nat /\ (got # 0 => got \in 1..Len(all))
  BY SMTT(30), <1>5
<1>. HIDE DEF got
<1>. DEFINE a == Arrived(p)
            c == [q \in Ports |-> IF q = p THEN k[p] + got ELSE k[q]]
<1>7. /\ a \in Seq(Bag) /\ InOrder(a) /\ Len(a) \in Nat /\ k[p] \in 0..Len(a)
      /\ \A i \in 1..Len(a) : Due(p, a[i])
  <2>1. a \in Seq(Bag) /\ InOrder(a) /\ \A i \in 1..Len(a) : Due(p, a[i])
    BY ArrivedIs
  <2>. QED  BY <1>3, <2>1, ListIs
<1>8. Len(all) = Len(a) - k[p] /\ \A i \in 1..Len(all) : all[i] = a[i + k[p]]
  BY <1>4, <1>7, BehindIs
<1>9. /\ k[p] + got \in 0..Len(a) /\ k[p] + got \in Nat
      /\ (got # 0 => got + k[p] \in 1..(k[p] + got) /\ got + k[p] \in 1..Len(a))
  BY SMTT(30), <1>6, <1>7, <1>8
<1>10. Behind(all, got) = Behind(a, k[p] + got)
  <2>. HIDE DEF a
  <2>1. /\ Behind(all, got) \in Seq(Bag) /\ Len(Behind(all, got)) = Len(all) - got
        /\ \A i \in 1..(Len(all) - got) :
             Behind(all, got)[i] = all[i + got] /\ i + got \in 1..Len(all)
    BY <1>4, <1>6, BehindIs
  <2>2. /\ Behind(a, k[p] + got) \in Seq(Bag)
        /\ Len(Behind(a, k[p] + got)) = Len(a) - (k[p] + got)
        /\ \A i \in 1..(Len(a) - (k[p] + got)) : Behind(a, k[p] + got)[i] = a[i + (k[p] + got)]
    BY <1>7, <1>9, BehindIs
  <2>3. /\ Len(a) - (k[p] + got) = Len(all) - got
        /\ \A i \in 1..(Len(all) - got) : i + (k[p] + got) = (i + got) + k[p]
    BY SMTT(30), <1>6, <1>7, <1>8
  <2>4. ASSUME NEW i \in 1..(Len(all) - got)
        PROVE  Behind(all, got)[i] = Behind(a, k[p] + got)[i]
    <3>1. Behind(all, got)[i] = a[(i + got) + k[p]]
      BY <1>8, <2>1
    <3>. QED  BY <2>2, <2>3, <3>1
  <2>. QED  BY <2>1, <2>2, <2>3, <2>4, SameList
<1>11. ASSUME NEW l \in Links
       PROVE  /\ CountOf(l, SubSeq(all, 1, got)) \in Nat
              /\ CountOf(l, SubSeq(a, 1, k[p] + got))
                   = CountOf(l, SubSeq(a, 1, k[p])) + CountOf(l, SubSeq(all, 1, got))
  <2>. HIDE DEF a
  <2>1. /\ CountOf(l, a) = CountOf(l, SubSeq(a, 1, k[p])) + CountOf(l, all)
        /\ CountOf(l, SubSeq(a, 1, k[p])) \in Nat
    BY SMTT(30), <1>4, <1>7, CountSplit DEF a
  <2>2. /\ CountOf(l, all) = CountOf(l, SubSeq(all, 1, got)) + CountOf(l, Behind(all, got))
        /\ CountOf(l, SubSeq(all, 1, got)) \in Nat /\ CountOf(l, Behind(all, got)) \in Nat
    BY SMTT(30), <1>4, <1>6, CountSplit
  <2>3. /\ CountOf(l, a) = CountOf(l, SubSeq(a, 1, k[p] + got)) + CountOf(l, Behind(all, got))
        /\ CountOf(l, SubSeq(a, 1, k[p] + got)) \in Nat
    BY SMTT(30), <1>7, <1>9, <1>10, CountSplit
  <2>. QED  BY SMTT(30), <2>1, <2>2, <2>3
<1>12. ASSUME NEW q \in Ports
       PROVE  /\ c[q] \in 0..Len(Arrived(q)) /\ box'[q] = Behind(Arrived(q), c[q])
              /\ box'[q] \in Seq(Bag) /\ Len(box'[q]) <= Depth
  <2>1. CASE q = p
    <3>1. Behind(all, got) \in Seq(Bag) /\ Len(Behind(all, got)) = Len(all) - got
      BY <1>4, <1>6, BehindIs
    <3>2. Len(all) - got <= Depth
      BY SMTT(30), <1>4, <1>5, <1>6, BoundAssumption
    <3>. QED  BY <1>1, <1>9, <1>10, <2>1, <3>1, <3>2
  <2>2. CASE q # p
    BY <1>1, <1>3, <2>2
  <2>. QED  BY <2>1, <2>2
<1>13. ASSUME NEW l \in Links
       PROVE  /\ taken'[l] \in Nat
              /\ dropped'[l] + taken'[l] =
                   dropped[l] + taken[l] + CountOf(l, SubSeq(Arrived(PortOf[l]), 1, c[PortOf[l]]))
  <2>1. /\ dropped[l] \in Nat /\ taken[l] \in Nat /\ PortOf[l] \in Ports
        /\ taken'[l] = taken[l] + CountOf(l, SubSeq(all, 1, got))
        /\ dropped'[l] = dropped[l] + CountOf(l, SubSeq(Arrived(PortOf[l]), 1, k[PortOf[l]]))
    BY <1>1, <1>3, LinkAssumption DEF BagInv, TypeOK
  <2>2. /\ CountOf(l, SubSeq(Arrived(PortOf[l]), 1, k[PortOf[l]])) \in Nat
        /\ CountOf(l, SubSeq(all, 1, got)) \in Nat
    <3>1. Arrived(PortOf[l]) \in Seq(Bag)
      BY <2>1, ArrivedIs
    <3>. QED  BY <1>3, <1>11, <2>1, <3>1, CountSplit
  <2>3. CountOf(l, SubSeq(Arrived(PortOf[l]), 1, c[PortOf[l]]))
          = CountOf(l, SubSeq(Arrived(PortOf[l]), 1, k[PortOf[l]])) + CountOf(l, SubSeq(all, 1, got))
    <3>1. CASE PortOf[l] = p
      BY <1>11, <3>1
    <3>2. CASE PortOf[l] # p
      <4>1. SubSeq(all, 1, got) \in Seq(Bag) /\ Len(SubSeq(all, 1, got)) = got
              /\ \A i \in 1..got : SubSeq(all, 1, got)[i] = all[i] /\ i \in 1..Len(all)
        BY <1>4, <1>6, CountSplit
      <4>2. ASSUME NEW i \in 1..Len(all) PROVE  all[i].link # l
        <5>1. i + k[p] \in 1..Len(a)
          BY SMTT(30), <1>5, <1>7, <1>8
        <5>. QED  BY <1>7, <1>8, <3>2, <5>1 DEF Due
      <4>3. CountOf(l, SubSeq(all, 1, got)) = 0
        BY <4>1, <4>2, CountNoneOrAll
      <4>4. c[PortOf[l]] = k[PortOf[l]]
        BY <2>1, <3>2
      <4>. HIDE DEF c
      <4>. QED  BY SMTT(30), <2>2, <4>3, <4>4
    <3>. QED  BY <3>1, <3>2
  <2>. HIDE DEF c
  <2>4. taken'[l] \in Nat
    BY SMTT(30), <2>1, <2>2
  <2>5. dropped'[l] + taken'[l] = dropped[l] + taken[l]
          + (CountOf(l, SubSeq(Arrived(PortOf[l]), 1, k[PortOf[l]])) + CountOf(l, SubSeq(all, 1, got)))
    BY SMTT(30), <2>1, <2>2
  <2>. QED  BY <2>3, <2>4, <2>5
<1>14. ASSUME NEW l \in Links
       PROVE  /\ ReadUpTo(l, Arrived(PortOf[l]), c[PortOf[l]])
              /\ last'[l] \in 0..MaxBags /\ last'[l] >= last[l]
  <2>0. last[l] \in 0..MaxBags /\ last[l] >= last[l] /\ last \in [Links -> 0..MaxBags]
    <3>1. last \in [Links -> 0..MaxBags]
      BY DEF BagInv, TypeOK
    <3>. QED  BY SMTT(30), <3>1
  <2>1. CASE got = 0
    BY <1>1, <2>0, <2>1 DEF ReadUpTo
  <2>2. CASE got # 0
    <3>. DEFINE m == all[got].link
    <3>1. all[got] = a[got + k[p]] /\ Due(p, a[got + k[p]])
      BY <1>6, <1>7, <1>8, <1>9, <2>2
    <3>2. m \in Links /\ PortOf[m] = p /\ all[got].n \in 1..MaxBags /\ last[m] < all[got].n
      BY <3>1 DEF Due, Bag
    <3>3. last' = [last EXCEPT ![m] = all[got].n]
      BY <1>1, <2>2
    <3>. HIDE DEF m
    <3>4. CASE l # m
      <4>1. last'[l] = last[l]
        BY <2>0, <3>3, <3>4
      <4>. QED  BY <2>0, <4>1 DEF ReadUpTo
    <3>5. CASE l = m
      <4>1. last'[l] = all[got].n
        BY <2>0, <3>2, <3>3, <3>5
      <4>2. all[got].n \in 0..MaxBags /\ all[got].n >= last[l]
        BY SMTT(30), <2>0, <3>2, <3>5
      <4>3. got + k[p] \in 1..c[p] /\ PortOf[l] = p
        BY <1>9, <2>2, <3>2, <3>5
      <4>4. a[got + k[p]].link = l
        BY <3>1, <3>5 DEF m
      <4>5. ReadUpTo(l, a, c[p])
        BY <3>1, <4>1, <4>3, <4>4 DEF ReadUpTo
      <4>. QED  BY <4>1, <4>2, <4>3, <4>5
    <3>. QED  BY <3>4, <3>5
  <2>. QED  BY <2>1, <2>2
<1>15. TypeOK'
  <2>1. box' \in [Ports -> Seq(Bag)] /\ \A q \in Ports : Len(box'[q]) <= Depth
    <3>1. box' = [q \in Ports |-> box'[q]]
      BY <1>1
    <3>. QED  BY <1>12, <3>1
  <2>2. taken' \in [Links -> Nat]
    <3>1. taken' = [l \in Links |-> taken'[l]]
      BY <1>1
    <3>. QED  BY <1>13, <3>1
  <2>3. last' \in [Links -> 0..MaxBags]
    <3>1. last' = [l \in Links |-> last'[l]]
      BY <1>1 DEF BagInv, TypeOK
    <3>. QED  BY <1>14, <3>1
  <2>4. BagTypes'
    BY <1>0, <1>1, <1>2, <2>1, <2>2, <2>3 DEF BagInv, TypeOK, BagTypes
  <2>. QED  BY <2>4 DEF TypeOK, BagTypes, LoopTypes
<1>. HIDE DEF c
<1>16. BagInv'
  BY <1>0, <1>2, <1>12, <1>13, <1>14, <1>15, EmptiedRings
<1>. QED  BY <1>14, <1>16

\* One more element at the end of a list.
LEMMA AppendIs ==
  ASSUME NEW S, NEW s \in Seq(S), NEW e \in S
  PROVE  /\ Append(s, e) \in Seq(S) /\ Len(Append(s, e)) = Len(s) + 1
         /\ \A i \in 1..Len(s) : Append(s, e)[i] = s[i]
         /\ Append(s, e)[Len(s) + 1] = e
BY SMTT(30)

\* What a send leaves in a ring: its bags without the d oldest, and the new one.
LEMMA RingAfterSend ==
  ASSUME BagInv, NEW l \in Links, sent[l] < MaxBags
  PROVE  \E d \in {0, 1} :
           /\ d = IF Len(ring[l]) = Depth THEN 1 ELSE 0
           /\ LET r == Newer(Append(ring[l], sent[l] + 1), Depth)
              IN  /\ r \in Seq(1..MaxBags) /\ Len(r) <= Depth
                  /\ Len(r) = Len(ring[l]) + 1 - d
                  /\ \A i \in 1..Len(r) :
                       \/ i + d \in 1..Len(ring[l]) /\ r[i] = ring[l][i + d]
                       \/ i + d = Len(ring[l]) + 1 /\ r[i] = sent[l] + 1
<1>. DEFINE s == ring[l]
            t == Append(s, sent[l] + 1)
            d == IF Len(s) = Depth THEN 1 ELSE 0
<1>1. s \in Seq(1..MaxBags) /\ Len(s) <= Depth /\ sent[l] \in 0..MaxBags
  BY DEF BagInv, TypeOK
<1>2. Len(s) \in Nat
  BY <1>1, ListIs
<1>3. sent[l] + 1 \in 1..MaxBags
  BY SMTT(30), <1>1, BoundAssumption
<1>. HIDE DEF s
<1>4. /\ t \in Seq(1..MaxBags) /\ Len(t) = Len(s) + 1
      /\ \A i \in 1..Len(s) : t[i] = s[i]
      /\ t[Len(s) + 1] = sent[l] + 1
  BY <1>1, <1>3, AppendIs
<1>. HIDE DEF t
<1>5. Depth \in Nat \ {0}
  BY BoundAssumption
<1>6. PICK e \in 0..Len(t) : /\ Newer(t, Depth) = Behind(t, e)
                             /\ e = IF Len(t) <= Depth THEN 0 ELSE Len(t) - Depth
  BY <1>4, <1>5, NewerIs
<1>7. e = d /\ d \in {0, 1} /\ Len(t) - d <= Depth
  BY SMTT(30), <1>1, <1>2, <1>4, <1>5, <1>6
<1>. HIDE DEF d
<1>8. /\ Newer(t, Depth) \in Seq(1..MaxBags) /\ Len(Newer(t, Depth)) = Len(t) - d
      /\ \A i \in 1..(Len(t) - d) : Newer(t, Depth)[i] = t[i + d] /\ i + d \in 1..Len(t)
  <2>1. t \in Seq(1..MaxBags) /\ d \in 0..Len(t) /\ Newer(t, Depth) = Behind(t, d)
    BY <1>4, <1>6, <1>7
  <2>2. /\ Behind(t, d) \in Seq(1..MaxBags) /\ Len(Behind(t, d)) = Len(t) - d
        /\ \A i \in 1..(Len(t) - d) : Behind(t, d)[i] = t[i + d] /\ i + d \in 1..Len(t)
    BY <2>1, BehindIs
  <2>. QED  BY <2>1, <2>2
<1>9. \A j \in 1..Len(t) : j \in 1..Len(s) \/ j = Len(s) + 1
  BY SMTT(30), <1>2, <1>4
<1>. DEFINE r == Newer(t, Depth)
<1>10. r \in Seq(1..MaxBags) /\ Len(r) <= Depth /\ Len(r) = Len(s) + 1 - d
  BY SMTT(30), <1>4, <1>7, <1>8
<1>11. ASSUME NEW i \in 1..Len(r)
       PROVE  \/ i + d \in 1..Len(s) /\ r[i] = s[i + d]
              \/ i + d = Len(s) + 1 /\ r[i] = sent[l] + 1
  <2>1. r[i] = t[i + d] /\ i + d \in 1..Len(t)
    BY <1>8
  <2>. HIDE DEF r
  <2>2. CASE i + d \in 1..Len(s)
    BY <1>4, <2>1, <2>2
  <2>3. CASE i + d = Len(s) + 1
    BY <1>4, <2>1, <2>3
  <2>. QED  BY <1>9, <2>1, <2>2, <2>3
<1>. QED  BY <1>7, <1>10, <1>11 DEF s, t, d

\* A send: one bag more sent, one more in the ring or one more overrun.
LEMMA SendKeepsBooks ==
  ASSUME BagInv, LoopTypes', NEW l \in Links, Send(l)
  PROVE  BagInv'
<1>. /\ link' = link /\ subs' = subs /\ box' = box /\ dropped' = dropped /\ taken' = taken
     /\ last' = last /\ unheard' = unheard
  BY DEF Send
<1>1. source' \in [Links -> {"idle", "notify"}]
  BY DEF Send, BagInv, TypeOK
<1>2. CASE ~Bound(l)
  <2>1. sent' = sent /\ ring' = ring /\ overrun' = overrun
    BY <1>2 DEF Send
  <2>2. \A m \in Links : (Bound(m)' <=> Bound(m)) /\ (Fresh(m)' <=> Fresh(m))
    BY DEF Bound, Fresh
  <2>3. link' \in [Links -> LinkProgress] /\ unheard' \subseteq Links
    BY DEF BagInv, TypeOK
  <2>. QED  BY <1>1, <2>1, <2>2, <2>3, NoBagMoves DEF boxVars
<1>3. CASE Bound(l)
  <2>. DEFINE r == Newer(Append(ring[l], sent[l] + 1), Depth)
  <2>1. /\ sent[l] < MaxBags
        /\ sent' = [sent EXCEPT ![l] = sent[l] + 1]
        /\ ring' = [ring EXCEPT ![l] = r]
        /\ overrun' = [overrun EXCEPT ![l] = IF Len(ring[l]) = Depth THEN overrun[l] + 1 ELSE overrun[l]]
    BY <1>3 DEF Send
  <2>2. PICK d \in {0, 1} :
           /\ d = IF Len(ring[l]) = Depth THEN 1 ELSE 0
           /\ r \in Seq(1..MaxBags) /\ Len(r) <= Depth
           /\ Len(r) = Len(ring[l]) + 1 - d
           /\ \A i \in 1..Len(r) :
                \/ i + d \in 1..Len(ring[l]) /\ r[i] = ring[l][i + d]
                \/ i + d = Len(ring[l]) + 1 /\ r[i] = sent[l] + 1
    BY <2>1, RingAfterSend
  <2>. HIDE DEF r
  <2>3. /\ sent \in [Links -> 0..MaxBags] /\ ring \in [Links -> Seq(1..MaxBags)]
        /\ overrun \in [Links -> Nat] /\ last \in [Links -> 0..MaxBags]
        /\ \A m \in Links : Len(ring[m]) <= Depth
    BY DEF BagInv, TypeOK
  <2>4. /\ sent[l] \in 0..MaxBags /\ sent[l] \in Nat /\ sent[l] + 1 \in 0..MaxBags
        /\ last[l] \in Nat /\ overrun[l] \in Nat
    BY SMTT(30), <2>1, <2>3, BoundAssumption
  <2>5. Len(ring[l]) \in Nat /\ \A i \in 1..Len(ring[l]) : ring[l][i] \in 1..MaxBags
    BY <2>3, ListIs
  <2>6. sent'[l] = sent[l] + 1 /\ \A m \in Links : m # l => sent'[m] = sent[m]
    BY <2>1, <2>3
  <2>7. ring'[l] = r /\ \A m \in Links : m # l => ring'[m] = ring[m]
    BY <2>1, <2>3
  <2>8. overrun'[l] = overrun[l] + d /\ \A m \in Links : m # l => overrun'[m] = overrun[m]
    <3>1. overrun'[l] = (IF Len(ring[l]) = Depth THEN overrun[l] + 1 ELSE overrun[l])
            /\ \A m \in Links : m # l => overrun'[m] = overrun[m]
      BY <2>1, <2>3
    <3>2. overrun[l] + 0 = overrun[l]
      BY SMTT(30), <2>4
    <3>. QED  BY <2>2, <3>1, <3>2
  <2>9. TypeOK'
    <3>1. sent' \in [Links -> 0..MaxBags]
      BY <2>1, <2>3, <2>4
    <3>2. ring' \in [Links -> Seq(1..MaxBags)]
      BY <2>1, <2>2, <2>3
    <3>3. \A m \in Links : Len(ring'[m]) <= Depth
      BY <2>2, <2>3, <2>7
    <3>4. overrun[l] + 1 \in Nat
      BY SMTT(30), <2>4
    <3>5. overrun' \in [Links -> Nat]
      BY <2>1, <2>3, <3>4
    <3>6. BagTypes'
      BY <1>1, <3>1, <3>2, <3>3, <3>5 DEF BagInv, TypeOK, BagTypes
    <3>. QED  BY <3>6 DEF TypeOK, BagTypes, LoopTypes
  <2>10. OnlyBoundRingsHoldBags' /\ SubscribersAreBound'
    <3>1. OnlyBoundRingsHoldBags'
      BY <1>3, <2>7 DEF BagInv, OnlyBoundRingsHoldBags, Bound
    <3>2. SubscribersAreBound'
      BY DEF BagInv, SubscribersAreBound, Bound
    <3>. QED  BY <3>1, <3>2
  <2>11. FreshLinksAreEmpty'
    <3>1. ~Fresh(l)
      BY SMTT(30), <1>3 DEF Bound, Fresh
    <3>. QED  BY <2>6, <2>8, <3>1 DEF BagInv, FreshLinksAreEmpty, Fresh
  <2>12. BoxesHoldTheirOwn'
    BY DEF BagInv, BoxesHoldTheirOwn, Fresh
  <2>13. /\ last[l] <= sent[l]
         /\ \A i \in 1..Len(ring[l]) : last[l] < ring[l][i] /\ ring[l][i] <= sent[l]
         /\ \A i, j \in 1..Len(ring[l]) : i < j => ring[l][i] < ring[l][j]
    BY DEF BagInv, RingsAreInOrder
  <2>14. ASSUME NEW i \in 1..Len(r) PROVE  last[l] < r[i] /\ r[i] <= sent[l] + 1
    <3>1. CASE i + d \in 1..Len(ring[l]) /\ r[i] = ring[l][i + d]
      <4>1. last[l] < r[i] /\ r[i] <= sent[l] /\ r[i] \in 1..MaxBags
        BY <2>5, <2>13, <3>1
      <4>. QED  BY SMTT(30), <2>4, <4>1
    <3>2. CASE i + d = Len(ring[l]) + 1 /\ r[i] = sent[l] + 1
      BY SMTT(30), <2>4, <2>13, <3>2
    <3>. QED  BY <2>2, <3>1, <3>2
  <2>15. ASSUME NEW i \in 1..Len(r), NEW j \in 1..Len(r), i < j PROVE  r[i] < r[j]
    <3>0. i \in Nat /\ j \in Nat /\ d \in Nat
      BY SMTT(30)
    <3>1. i + d < j + d
      BY SMTT(30), <2>15, <3>0
    <3>2. CASE j + d \in 1..Len(ring[l]) /\ r[j] = ring[l][j + d]
      <4>1. i + d # Len(ring[l]) + 1
        BY SMTT(30), <2>5, <3>1, <3>2
      <4>. QED  BY <2>2, <2>13, <3>1, <3>2, <4>1
    <3>3. CASE j + d = Len(ring[l]) + 1 /\ r[j] = sent[l] + 1
      <4>1. i + d # Len(ring[l]) + 1
        BY SMTT(30), <2>5, <3>0, <3>1, <3>3
      <4>2. r[i] <= sent[l] /\ r[i] \in 1..MaxBags
        BY <2>2, <2>5, <2>13, <4>1
      <4>. QED  BY SMTT(30), <2>4, <3>3, <4>2
    <3>. QED  BY <2>2, <3>2, <3>3
  <2>16. RingsAreInOrder'
    <3>. SUFFICES ASSUME NEW m \in Links
                  PROVE  /\ last[m] <= sent'[m]
                         /\ \A i \in 1..Len(ring'[m]) :
                              last[m] < ring'[m][i] /\ ring'[m][i] <= sent'[m]
                         /\ \A i, j \in 1..Len(ring'[m]) : i < j => ring'[m][i] < ring'[m][j]
      BY DEF RingsAreInOrder
    <3>1. CASE m = l
      <4>1. last[l] <= sent[l] + 1
        BY SMTT(30), <2>4, <2>13
      <4>. QED  BY <2>6, <2>7, <2>14, <2>15, <3>1, <4>1
    <3>2. CASE m # l
      BY <2>6, <2>7, <3>2 DEF BagInv, RingsAreInOrder
    <3>. QED  BY <3>1, <3>2
  <2>17. BoxesAreInOrder'
    <3>1. ASSUME NEW p \in Ports, NEW i \in 1..Len(box[p])
          PROVE  LET m == box[p][i].link
                 IN  /\ last[m] < box[p][i].n /\ box[p][i].n <= sent'[m]
                     /\ \A j \in 1..Len(ring'[m]) : box[p][i].n < ring'[m][j]
      <4>. DEFINE m == box[p][i].link
                  v == box[p][i].n
      <4>1. box[p] \in Seq(Bag)
        BY DEF BagInv, TypeOK
      <4>2. box[p][i] \in Bag
        BY <4>1, ListIs
      <4>3. m \in Links /\ v \in 1..MaxBags
        BY <4>2 DEF Bag
      <4>4. last[m] < v /\ v <= sent[m] /\ \A j \in 1..Len(ring[m]) : v < ring[m][j]
        BY DEF BagInv, BoxesAreInOrder
      <4>. HIDE DEF m, v
      <4>5. CASE m # l
        BY <2>6, <2>7, <4>3, <4>4, <4>5 DEF m, v
      <4>6. CASE m = l
        <5>1. v <= sent[l] + 1 /\ v < sent[l] + 1
          BY SMTT(30), <2>4, <4>3, <4>4, <4>6
        <5>2. \A j \in 1..Len(r) : v < r[j]
          BY <2>2, <4>4, <4>6, <5>1
        <5>. QED  BY <2>6, <2>7, <4>4, <4>6, <5>1, <5>2 DEF m, v
      <4>. QED  BY <4>5, <4>6
    <3>2. \A p \in Ports : InOrder(box[p])
      BY DEF BagInv, BoxesAreInOrder
    <3>. QED  BY <3>1, <3>2 DEF BoxesAreInOrder, InOrder
  <2>18. EveryBagIsAccountedFor'
    <3>. SUFFICES ASSUME NEW m \in Links, Bound(m)
                  PROVE  sent'[m] = overrun'[m] + Len(ring'[m]) + CountOf(m, box[PortOf[m]])
                                      + dropped[m] + taken[m]
      BY DEF EveryBagIsAccountedFor, Bound, CountOf
    <3>1. sent[m] = overrun[m] + Len(ring[m]) + CountOf(m, box[PortOf[m]]) + dropped[m] + taken[m]
      BY DEF BagInv, EveryBagIsAccountedFor
    <3>2. CASE m # l
      BY <2>6, <2>7, <2>8, <3>1, <3>2
    <3>3. CASE m = l
      <4>1. /\ dropped[l] \in Nat /\ taken[l] \in Nat
            /\ box[PortOf[l]] \in Seq(Bag)
        BY LinkAssumption DEF BagInv, TypeOK
      <4>2. CountOf(l, box[PortOf[l]]) \in Nat
        BY <4>1, PlacesAreFinite
      <4>. DEFINE z == sent[l]
                  o == overrun[l]
                  k == Len(ring[l])
                  b == CountOf(l, box[PortOf[l]])
                  x == dropped[l]
                  y == taken[l]
      <4>3. z = o + k + b + x + y
        BY <3>1, <3>3
      <4>4. z \in Nat /\ o \in Nat /\ k \in Nat /\ b \in Nat /\ x \in Nat /\ y \in Nat
        BY <2>4, <2>5, <4>1, <4>2
      <4>. HIDE DEF z, o, k, b, x, y
      <4>5. z + 1 = (o + d) + (k + 1 - d) + b + x + y
        BY SMTT(30), <4>3, <4>4
      <4>. QED  BY <2>2, <2>6, <2>7, <2>8, <3>3, <4>5 DEF z, o, k, b, x, y
    <3>. QED  BY <3>2, <3>3
  <2>. QED  BY <2>9, <2>10, <2>11, <2>12, <2>16, <2>17, <2>18 DEF BagInv
<1>. QED  BY <1>2, <1>3

\* A new subscriber: nothing was sent to it, and nothing of it is anywhere.
LEMMA WireSubscriberKeepsBooks ==
  ASSUME BagInv, LoopTypes', NEW l \in Links, WireSubscriber(l)
  PROVE  BagInv'
<1>. /\ source' = source /\ sent' = sent /\ ring' = ring /\ box' = box /\ dropped' = dropped
     /\ overrun' = overrun /\ taken' = taken /\ last' = last /\ unheard' = unheard
  BY DEF WireSubscriber, boxVars, historyVars
<1>1. /\ link[l] = "sourced" /\ link' = [link EXCEPT ![l] = "subscribed"]
      /\ subs' = Append(subs, l) /\ link \in [Links -> LinkProgress] /\ subs \in Seq(Links)
  BY DEF WireSubscriber, BagInv, TypeOK
<1>2. link'[l] = "subscribed" /\ \A m \in Links : m # l => link'[m] = link[m]
  BY <1>1
<1>3. Fresh(l) /\ ~Bound(l) /\ Bound(l)' /\ ~Fresh(l)'
  BY SMTT(30), <1>1, <1>2 DEF Bound, Fresh
<1>4. \A m \in Links : m # l => (Bound(m)' <=> Bound(m)) /\ (Fresh(m)' <=> Fresh(m))
  BY <1>2 DEF Bound, Fresh
<1>5. /\ subs' \in Seq(Links) /\ Len(subs') = Len(subs) + 1 /\ Len(subs) \in Nat
      /\ \A i \in 1..Len(subs) : subs'[i] = subs[i]
      /\ subs'[Len(subs) + 1] = l
  BY SMTT(30), <1>1, AppendIs, ListIs
<1>6. TypeOK'
  <2>1. link' \in [Links -> LinkProgress]
    BY <1>1 DEF LinkProgress
  <2>2. BagTypes'
    BY <1>5, <2>1 DEF BagInv, TypeOK, BagTypes
  <2>. QED  BY <2>2 DEF TypeOK, BagTypes, LoopTypes
<1>7. OnlyBoundRingsHoldBags'
  BY <1>3, <1>4 DEF BagInv, OnlyBoundRingsHoldBags
<1>8. SubscribersAreBound'
  <2>1. /\ \A i \in 1..Len(subs') : i \in 1..Len(subs) \/ i = Len(subs) + 1
        /\ \A i \in 1..Len(subs) : i \in 1..Len(subs')
        /\ Len(subs) + 1 \in 1..Len(subs')
    BY SMTT(30), <1>5
  <2>2. \A i \in 1..Len(subs) : subs[i] # l
    BY <1>3 DEF BagInv, SubscribersAreBound
  <2>3. ASSUME NEW m \in Links PROVE  Bound(m)' <=> \E i \in 1..Len(subs') : subs'[i] = m
    <3>1. CASE m = l
      BY <1>3, <1>5, <2>1, <3>1
    <3>2. CASE m # l
      <4>1. Bound(m)' <=> \E i \in 1..Len(subs) : subs[i] = m
        BY <1>4, <3>2 DEF BagInv, SubscribersAreBound
      <4>. QED  BY <1>5, <2>1, <3>2, <4>1
    <3>. QED  BY <3>1, <3>2
  <2>4. ASSUME NEW i \in 1..Len(subs'), NEW j \in 1..Len(subs'), subs'[i] = subs'[j]
        PROVE  i = j
    <3>1. CASE i \in 1..Len(subs) /\ j \in 1..Len(subs)
      BY <1>5, <2>4, <3>1 DEF BagInv, SubscribersAreBound
    <3>2. CASE i = Len(subs) + 1 \/ j = Len(subs) + 1
      BY <1>5, <2>1, <2>2, <2>4, <3>2
    <3>. QED  BY <2>1, <3>1, <3>2
  <2>. QED  BY <2>3, <2>4 DEF SubscribersAreBound
<1>9. FreshLinksAreEmpty'
  BY <1>3, <1>4 DEF BagInv, FreshLinksAreEmpty
<1>10. ASSUME NEW p \in Ports, NEW i \in 1..Len(box[p])
       PROVE  /\ box[p][i].link \in Links /\ PortOf[box[p][i].link] = p
              /\ ~Fresh(box[p][i].link) /\ box[p][i].link # l
  <2>1. box[p] \in Seq(Bag)
    BY DEF BagInv, TypeOK
  <2>2. box[p][i] \in Bag
    BY <2>1, ListIs
  <2>3. box[p][i].link \in Links
    BY <2>2 DEF Bag
  <2>. QED  BY <1>3, <2>3 DEF BagInv, BoxesHoldTheirOwn
<1>11. BoxesHoldTheirOwn'
  BY <1>4, <1>10 DEF BoxesHoldTheirOwn
<1>12. RingsAreInOrder' /\ BoxesAreInOrder'
  BY DEF BagInv, RingsAreInOrder, BoxesAreInOrder, InOrder
<1>13. EveryBagIsAccountedFor'
  <2>1. ASSUME NEW m \in Links, Bound(m)'
        PROVE  sent[m] = overrun[m] + Len(ring[m]) + CountOf(m, box[PortOf[m]])
                           + dropped[m] + taken[m]
    <3>1. CASE m # l
      BY <1>4, <2>1, <3>1 DEF BagInv, EveryBagIsAccountedFor
    <3>2. CASE m = l
      <4>1. sent[l] = 0 /\ overrun[l] = 0 /\ dropped[l] = 0 /\ taken[l] = 0
        BY <1>3 DEF BagInv, FreshLinksAreEmpty
      <4>2. ring[l] = <<>>
        BY <1>3 DEF BagInv, OnlyBoundRingsHoldBags
      <4>3. PortOf[l] \in Ports /\ box[PortOf[l]] \in Seq(Bag)
        BY LinkAssumption DEF BagInv, TypeOK
      <4>4. CountOf(l, box[PortOf[l]]) = 0
        BY <1>10, <4>3, CountNoneOrAll
      <4>5. Len(<<>>) = 0 /\ 0 = 0 + 0 + 0 + 0 + 0
        BY SMTT(30)
      <4>. QED  BY <3>2, <4>1, <4>2, <4>4, <4>5
    <3>. QED  BY <3>1, <3>2
  <2>. QED  BY <2>1 DEF EveryBagIsAccountedFor, CountOf
<1>. QED  BY <1>6, <1>7, <1>8, <1>9, <1>11, <1>12, <1>13 DEF BagInv

\* A list of different elements without its i-th: the same elements but that
\* one, each once.
LEMMA RemovedIs ==
  ASSUME NEW S, NEW s \in Seq(S), NEW k \in 1..Len(s),
         \A i, j \in 1..Len(s) : s[i] = s[j] => i = j
  PROVE  LET t == SubSeq(s, 1, k - 1) \o SubSeq(s, k + 1, Len(s))
         IN  /\ t \in Seq(S)
             /\ \A i, j \in 1..Len(t) : t[i] = t[j] => i = j
             /\ \A x : (\E i \in 1..Len(t) : t[i] = x)
                          <=> x # s[k] /\ \E i \in 1..Len(s) : s[i] = x
<1>. DEFINE n == Len(s)
            a == SubSeq(s, 1, k - 1)
            b == Behind(s, k)
            t == a \o b
<1>1. n \in Nat /\ k \in 0..n /\ k - 1 \in 0..n /\ k \in Nat
  BY SMTT(30)
<1>2. /\ a \in Seq(S) /\ Len(a) = k - 1
      /\ \A i \in 1..(k - 1) : a[i] = s[i]
  <2>1. ASSUME NEW d \in 0..n
        PROVE  /\ SubSeq(s, 1, d) \in Seq(S) /\ Len(SubSeq(s, 1, d)) = d
               /\ \A i \in 1..d : SubSeq(s, 1, d)[i] = s[i]
    BY SMTT(30)
  <2>. QED  BY <1>1, <2>1
<1>3. /\ b \in Seq(S) /\ Len(b) = n - k
      /\ \A i \in 1..(n - k) : b[i] = s[i + k]
  BY SMTT(30), <1>1, BehindIs
<1>. HIDE DEF a, b
<1>4. /\ t \in Seq(S) /\ Len(t) = Len(a) + Len(b)
      /\ \A i \in 1..Len(a) : t[i] = a[i]
      /\ \A i \in 1..Len(b) : t[Len(a) + i] = b[i]
  <2>1. a \in Seq(S) /\ b \in Seq(S)
    BY <1>2, <1>3
  <2>. QED  BY SMTT(30), <2>1, JoinIs
<1>. HIDE DEF t, n
\* place i of t holds what place At(i) of s holds
<1>. DEFINE At(i) == IF i < k THEN i ELSE i + 1
<1>5. Len(t) = n - 1
  BY SMTT(30), <1>1, <1>2, <1>3, <1>4
<1>6. ASSUME NEW i \in 1..Len(t) PROVE  t[i] = s[At(i)] /\ At(i) \in 1..n /\ At(i) # k
  <2>1. CASE i < k
    <3>1. i \in 1..(k - 1) /\ i \in 1..n /\ i # k
      BY SMTT(30), <1>1, <1>5, <2>1
    <3>. QED  BY <1>2, <1>4, <2>1, <3>1
  <2>2. CASE ~(i < k)
    <3>1. /\ i - (k - 1) \in 1..(n - k) /\ (k - 1) + (i - (k - 1)) = i
          /\ (i - (k - 1)) + k = i + 1 /\ i + 1 \in 1..n /\ i + 1 # k
      BY SMTT(30), <1>1, <1>5, <2>2
    <3>2. t[(k - 1) + (i - (k - 1))] = b[i - (k - 1)]
      BY <1>2, <1>3, <1>4, <3>1
    <3>3. b[i - (k - 1)] = s[i + 1]
      BY <1>3, <3>1
    <3>. QED  BY <2>2, <3>1, <3>2, <3>3
  <2>. QED  BY <2>1, <2>2
<1>7. ASSUME NEW i \in 1..Len(t), NEW j \in 1..Len(t), At(i) = At(j) PROVE  i = j
  BY SMTT(30), <1>1, <1>5, <1>7
<1>8. ASSUME NEW j \in 1..n, j # k PROVE  \E i \in 1..Len(t) : At(i) = j
  <2>1. CASE j < k
    <3>1. j \in 1..Len(t)
      BY SMTT(30), <1>1, <1>5, <2>1
    <3>. QED  BY <2>1, <3>1
  <2>2. CASE ~(j < k)
    <3>1. j - 1 \in 1..Len(t) /\ ~(j - 1 < k) /\ (j - 1) + 1 = j
      BY SMTT(30), <1>1, <1>5, <1>8, <2>2
    <3>. QED  BY <3>1
  <2>. QED  BY <2>1, <2>2
<1>. HIDE DEF At
<1>9. \A i, j \in 1..Len(t) : t[i] = t[j] => i = j
  BY <1>6, <1>7 DEF n
<1>10. ASSUME NEW x
       PROVE  (\E i \in 1..Len(t) : t[i] = x) <=> x # s[k] /\ \E i \in 1..n : s[i] = x
  <2>1. ASSUME NEW i \in 1..Len(t), t[i] = x
        PROVE  x # s[k] /\ \E j \in 1..n : s[j] = x
    <3>1. x = s[At(i)] /\ At(i) \in 1..n /\ At(i) # k
      BY <1>6, <2>1
    <3>. QED  BY <3>1 DEF n
  <2>2. ASSUME x # s[k], NEW j \in 1..n, s[j] = x
        PROVE  \E i \in 1..Len(t) : t[i] = x
    <3>1. PICK i \in 1..Len(t) : At(i) = j
      BY <1>8, <2>2
    <3>. QED  BY <1>6, <2>2, <3>1
  <2>. QED  BY <2>1, <2>2
<1>11. t = SubSeq(s, 1, k - 1) \o SubSeq(s, k + 1, Len(s))
  BY DEF t, a, b, Behind
<1>. QED  BY <1>4, <1>9, <1>10, <1>11 DEF n

\* A subscriber that goes takes its ring, and the count of its drops; what it
\* had in the mailbox stays, unless it was the last of its port.
LEMMA UnwireSubscriberKeepsBooks ==
  ASSUME BagInv, LoopTypes', NEW l \in Links, UnwireSubscriber(l)
  PROVE  BagInv'
<1>. /\ source' = source /\ sent' = sent
     /\ overrun' = overrun /\ taken' = taken /\ last' = last /\ unheard' = unheard
  BY DEF UnwireSubscriber, historyVars
<1>1. /\ link[l] = "unsourced" /\ link' = [link EXCEPT ![l] = "gone"]
      /\ link \in [Links -> LinkProgress] /\ subs \in Seq(Links)
      /\ ring \in [Links -> Seq(1..MaxBags)] /\ ring' = [ring EXCEPT ![l] = <<>>]
      /\ dropped \in [Links -> Nat] /\ dropped' = [dropped EXCEPT ![l] = 0]
      /\ box \in [Ports -> Seq(Bag)] /\ PortOf[l] \in Ports
      /\ box' = IF \E m \in Others(l) : PortOf[m] = PortOf[l]
                THEN box ELSE [box EXCEPT ![PortOf[l]] = <<>>]
  BY LinkAssumption DEF UnwireSubscriber, BagInv, TypeOK
<1>2. link'[l] = "gone" /\ \A m \in Links : m # l => link'[m] = link[m]
  BY <1>1
<1>3. Bound(l) /\ ~Fresh(l) /\ ~Bound(l)' /\ ~Fresh(l)'
  BY SMTT(30), <1>1, <1>2 DEF Bound, Fresh
<1>4. \A m \in Links : m # l => (Bound(m)' <=> Bound(m)) /\ (Fresh(m)' <=> Fresh(m))
  BY <1>2 DEF Bound, Fresh
<1>5. ring'[l] = <<>> /\ \A m \in Links : m # l => ring'[m] = ring[m]
  BY <1>1
<1>6. dropped'[l] = 0 /\ \A m \in Links : m # l => dropped'[m] = dropped[m]
  BY <1>1
<1>7. \A p \in Ports : box'[p] = box[p] \/ (box'[p] = <<>> /\ p = PortOf[l])
  BY <1>1
<1>8. \A m \in Links : Bound(m) /\ m # l => box'[PortOf[m]] = box[PortOf[m]]
  <2>1. ASSUME NEW m \in Links, Bound(m), m # l, PortOf[m] = PortOf[l] PROVE  box' = box
    BY <1>1, <2>1 DEF Others
  <2>. QED  BY <1>7, <2>1, LinkAssumption
<1>9. Len(<<>>) = 0 /\ <<>> \in Seq(Bag) /\ <<>> \in Seq(1..MaxBags) /\ 0 \in Nat
        /\ 0 <= Depth /\ \A i : i \notin 1..0
  <2>1. \A S : <<>> \in Seq(S)
    BY SMTT(30)
  <2>2. Len(<<>>) = 0 /\ 0 \in Nat /\ 0 <= Depth /\ \A i : i \notin 1..0
    BY SMTT(30), BoundAssumption
  <2>. QED  BY <2>1, <2>2
<1>10. /\ subs' \in Seq(Links)
       /\ \A i, j \in 1..Len(subs') : subs'[i] = subs'[j] => i = j
       /\ \A m : (\E i \in 1..Len(subs') : subs'[i] = m)
                    <=> m # l /\ \E i \in 1..Len(subs) : subs[i] = m
  <2>. DEFINE k == Position(l)
  <2>1. \E i \in 1..Len(subs) : subs[i] = l
    BY <1>3 DEF BagInv, SubscribersAreBound
  <2>2. k \in 1..Len(subs) /\ subs[k] = l
    BY <2>1 DEF Position
  <2>3. \A i, j \in 1..Len(subs) : subs[i] = subs[j] => i = j
    BY DEF BagInv, SubscribersAreBound
  <2>4. subs' = SubSeq(subs, 1, k - 1) \o SubSeq(subs, k + 1, Len(subs))
    BY DEF UnwireSubscriber, RemoveByLink
  <2>. HIDE DEF k
  <2>. DEFINE t == SubSeq(subs, 1, k - 1) \o SubSeq(subs, k + 1, Len(subs))
  <2>5. /\ t \in Seq(Links)
        /\ \A i, j \in 1..Len(t) : t[i] = t[j] => i = j
        /\ \A x : (\E i \in 1..Len(t) : t[i] = x)
                     <=> x # subs[k] /\ \E i \in 1..Len(subs) : subs[i] = x
    BY <1>1, <2>2, <2>3, RemovedIs
  <2>6. subs' = t
    BY <2>4
  <2>. HIDE DEF t
  <2>. QED  BY <2>2, <2>5, <2>6
<1>11. TypeOK'
  <2>1. link' \in [Links -> LinkProgress]
    BY <1>1 DEF LinkProgress
  <2>2. ring' \in [Links -> Seq(1..MaxBags)] /\ \A m \in Links : Len(ring'[m]) <= Depth
    BY <1>1, <1>5, <1>9 DEF BagInv, TypeOK
  <2>3. dropped' \in [Links -> Nat]
    BY <1>1, <1>9
  <2>4. box' \in [Ports -> Seq(Bag)]
    BY <1>1, <1>9
  <2>5. \A p \in Ports : Len(box'[p]) <= Depth
    BY <1>7, <1>9 DEF BagInv, TypeOK
  <2>6. BagTypes'
    BY <1>10, <2>1, <2>2, <2>3, <2>4, <2>5 DEF BagInv, TypeOK, BagTypes
  <2>. QED  BY <2>6 DEF TypeOK, BagTypes, LoopTypes
<1>12. OnlyBoundRingsHoldBags'
  BY <1>4, <1>5 DEF BagInv, OnlyBoundRingsHoldBags
<1>13. SubscribersAreBound'
  <2>1. ASSUME NEW m \in Links PROVE  Bound(m)' <=> \E i \in 1..Len(subs') : subs'[i] = m
    <3>1. CASE m = l
      BY <1>3, <1>10, <3>1
    <3>2. CASE m # l
      BY <1>4, <1>10, <3>2 DEF BagInv, SubscribersAreBound
    <3>. QED  BY <3>1, <3>2
  <2>. QED  BY <1>10, <2>1 DEF SubscribersAreBound
<1>14. FreshLinksAreEmpty'
  BY <1>3, <1>4, <1>6 DEF BagInv, FreshLinksAreEmpty
<1>15. ASSUME NEW p \in Ports, NEW i \in 1..Len(box[p]) PROVE  box[p][i].link \in Links
  <2>1. box[p][i] \in Bag
    BY <1>1, ListIs
  <2>. QED  BY <2>1 DEF Bag
<1>16. BoxesHoldTheirOwn'
  <2>1. ASSUME NEW p \in Ports, NEW i \in 1..Len(box'[p])
        PROVE  PortOf[box'[p][i].link] = p /\ link'[box'[p][i].link] \notin {"unwired", "sourced", "refused"}
    <3>1. box'[p] = box[p]
      BY <1>7, <1>9
    <3>2. PortOf[box[p][i].link] = p /\ ~Fresh(box[p][i].link) /\ box[p][i].link \in Links
      BY <1>15, <3>1 DEF BagInv, BoxesHoldTheirOwn
    <3>3. \A m \in Links : ~Fresh(m) => link'[m] \notin {"unwired", "sourced", "refused"}
      BY <1>3, <1>4 DEF Fresh
    <3>. QED  BY <3>1, <3>2, <3>3
  <2>. QED  BY <2>1 DEF BoxesHoldTheirOwn, Fresh
<1>17. RingsAreInOrder'
  BY <1>5, <1>9 DEF BagInv, RingsAreInOrder
<1>18. BoxesAreInOrder'
  <2>1. ASSUME NEW p \in Ports, box'[p] = box[p]
        PROVE  /\ InOrder(box'[p])
               /\ \A i \in 1..Len(box'[p]) :
                    LET m == box'[p][i].link
                    IN  /\ last[m] < box'[p][i].n /\ box'[p][i].n <= sent[m]
                        /\ \A j \in 1..Len(ring'[m]) : box'[p][i].n < ring'[m][j]
    <3>1. InOrder(box[p])
      BY DEF BagInv, BoxesAreInOrder
    <3>2. ASSUME NEW i \in 1..Len(box[p])
          PROVE  LET m == box[p][i].link
                 IN  /\ last[m] < box[p][i].n /\ box[p][i].n <= sent[m]
                     /\ \A j \in 1..Len(ring'[m]) : box[p][i].n < ring'[m][j]
      BY <1>5, <1>9, <1>15 DEF BagInv, BoxesAreInOrder
    <3>. QED  BY <2>1, <3>1, <3>2
  <2>2. ASSUME NEW p \in Ports, box'[p] = <<>>
        PROVE  InOrder(box'[p]) /\ \A i : i \notin 1..Len(box'[p])
    BY <1>9, <2>2 DEF InOrder
  <2>. QED  BY <1>7, <2>1, <2>2 DEF BoxesAreInOrder, InOrder
<1>19. EveryBagIsAccountedFor'
  <2>1. ASSUME NEW m \in Links, Bound(m)'
        PROVE  sent[m] = overrun[m] + Len(ring'[m]) + CountOf(m, box'[PortOf[m]])
                           + dropped'[m] + taken[m]
    <3>1. m # l /\ Bound(m)
      BY <1>3, <1>4, <2>1
    <3>. QED  BY <1>5, <1>6, <1>8, <3>1 DEF BagInv, EveryBagIsAccountedFor
  <2>. QED  BY <2>1 DEF EveryBagIsAccountedFor, CountOf
<1>. QED  BY <1>11, <1>12, <1>13, <1>14, <1>16, <1>17, <1>18, <1>19 DEF BagInv

\* When the loop starts nothing has been sent.
LEMMA BooksInit ==
  ASSUME Init
  PROVE  BagInv
<1>1. /\ link = [l \in Links |-> IF l \in WiredFirst THEN "wired" ELSE "unwired"]
      /\ sent = [l \in Links |-> 0] /\ ring = [l \in Links |-> <<>>]
      /\ box = [p \in Ports |-> <<>>] /\ dropped = [l \in Links |-> 0]
      /\ overrun = [l \in Links |-> 0] /\ taken = [l \in Links |-> 0]
      /\ last = [l \in Links |-> 0]
  BY DEF Init
<1>2. \A S : <<>> \in Seq(S)
  BY SMTT(30)
<1>3. Len(<<>>) = 0 /\ 0 \in Nat /\ 0 <= Depth /\ 0 \in 0..MaxBags /\ \A i : i \notin 1..0
  BY SMTT(30), BoundAssumption
<1>4. \A l \in Links : /\ sent[l] = 0 /\ ring[l] = <<>> /\ dropped[l] = 0
                       /\ overrun[l] = 0 /\ taken[l] = 0 /\ last[l] = 0
  BY <1>1
<1>5. \A p \in Ports : box[p] = <<>>
  BY <1>1
<1>6. \A l \in Links : Bound(l) <=> l \in WiredFirst
  BY <1>1 DEF Bound
<1>7. Cardinality(WiredFirst) \in Nat
  <2>1. IsFiniteSet(WiredFirst)
    BY LinkAssumption, FS_Subset
  <2>. QED  BY <2>1, FS_CardinalityType
<1>8. subs = <<>> \/ \E l \in Links : subs = <<l>>
  BY DEF Init
<1>9. {subs[i] : i \in DOMAIN subs} = WiredFirst
  BY DEF Init
<1>10. ASSUME NEW l \in Links
       PROVE  <<l>> \in Seq(Links) /\ Len(<<l>>) = 1 /\ <<l>>[1] = l /\ \A i \in 1..1 : i = 1
  BY SMTT(30)
<1>11. subs \in Seq(Links) /\ \A i, j \in 1..Len(subs) : i = j
  BY <1>2, <1>3, <1>8, <1>10
<1>12. DOMAIN subs = 1..Len(subs)
  BY <1>11, ListIs
<1>13. SubscribersAreBound
  BY <1>6, <1>9, <1>11, <1>12 DEF SubscribersAreBound
<1>14. TypeOK
  <2>1. LoopTypes
    BY <1>3, <1>7 DEF Init, LoopTypes, LoopPoint
  <2>2. ring \in [Links -> Seq(1..MaxBags)] /\ \A l \in Links : Len(ring[l]) <= Depth
    BY <1>1, <1>2, <1>3
  <2>3. box \in [Ports -> Seq(Bag)] /\ \A p \in Ports : Len(box[p]) <= Depth
    BY <1>1, <1>2, <1>3
  <2>4. link \in [Links -> LinkProgress]
    BY <1>1 DEF LinkProgress
  <2>5. /\ source \in [Links -> {"idle", "notify"}]
        /\ sent \in [Links -> 0..MaxBags] /\ dropped \in [Links -> Nat]
        /\ overrun \in [Links -> Nat] /\ taken \in [Links -> Nat]
        /\ last \in [Links -> 0..MaxBags]
        /\ unheard \subseteq Links
    BY <1>3 DEF Init
  <2>6. BagTypes
    BY <1>11, <2>2, <2>3, <2>4, <2>5 DEF BagTypes
  <2>. QED  BY <2>1, <2>6 DEF TypeOK, BagTypes, LoopTypes
<1>15. OnlyBoundRingsHoldBags /\ FreshLinksAreEmpty
  BY <1>4 DEF OnlyBoundRingsHoldBags, FreshLinksAreEmpty
<1>16. BoxesHoldTheirOwn /\ BoxesAreInOrder
  BY <1>3, <1>5 DEF BoxesHoldTheirOwn, BoxesAreInOrder, InOrder
<1>17. RingsAreInOrder
  <2>1. 0 <= 0
    BY SMTT(30)
  <2>. QED  BY <1>3, <1>4, <2>1 DEF RingsAreInOrder
<1>18. EveryBagIsAccountedFor
  <2>1. ASSUME NEW l \in Links PROVE  CountOf(l, box[PortOf[l]]) = 0
    <3>1. box[PortOf[l]] = <<>>
      BY <1>5, LinkAssumption
    <3>2. \A i \in 1..Len(<<>>) : <<>>[i].link # l
      BY <1>3
    <3>3. CountOf(l, <<>>) = 0
      BY <1>2, <3>2, CountNoneOrAll
    <3>. QED  BY <3>1, <3>3
  <2>2. 0 = 0 + 0 + 0 + 0 + 0
    BY SMTT(30)
  <2>. QED  BY <1>3, <1>4, <2>1, <2>2 DEF EveryBagIsAccountedFor
<1>. QED  BY <1>13, <1>14, <1>15, <1>16, <1>17, <1>18 DEF BagInv

\* BagInv is inductive, and no step sets a link's last read back.
LEMMA BooksStep ==
  ASSUME BagInv, [Next]_vars
  PROVE  BagInv' /\ [\A l \in Links : last'[l] >= last[l]]_vars
<1>1. LoopTypes'
  BY LoopTypesKept DEF BagInv, TypeOK, LoopTypes
<1>2. \A l \in Links : last[l] >= last[l]
  <2>1. \A l \in Links : last[l] \in 0..MaxBags
    BY DEF BagInv, TypeOK
  <2>. QED  BY SMTT(30), <2>1
<1>3. /\ link \in [Links -> LinkProgress] /\ source \in [Links -> {"idle", "notify"}]
      /\ unheard \subseteq Links
  BY DEF BagInv, TypeOK
<1>4. ASSUME NEW l \in Links, Send(l) PROVE  BagInv' /\ last' = last
  BY <1>1, <1>4, SendKeepsBooks DEF Send
<1>5. ASSUME NEW l \in Links, Notify(l) PROVE  BagInv' /\ last' = last
  <2>1. /\ link' = link /\ UNCHANGED <<subs, sent, boxVars, overrun, taken, last>>
        /\ source' \in [Links -> {"idle", "notify"}] /\ unheard' \subseteq Links
    BY <1>3, <1>5 DEF Notify
  <2>2. \A m \in Links : (Bound(m)' <=> Bound(m)) /\ (Fresh(m)' <=> Fresh(m))
    BY <2>1 DEF Bound, Fresh
  <2>. QED  BY <1>1, <1>3, <2>1, <2>2, NoBagMoves
<1>6. ASSUME NEW l \in Links,
             \/ WireSource(l) \/ WireNoSubscriber(l) \/ WireListener(l)
             \/ UnwireSource(l) \/ UnwireRefused(l)
      PROVE  BagInv' /\ last' = last
  <2>1. /\ UNCHANGED <<source, unheard, subs, sent, boxVars, overrun, taken, last>>
        /\ \/ link[l] = "unwired" /\ link' = [link EXCEPT ![l] = "sourced"]
           \/ link[l] = "sourced" /\ link' = [link EXCEPT ![l] = "refused"]
           \/ link[l] = "subscribed" /\ link' = [link EXCEPT ![l] = "wired"]
           \/ link[l] = "wired" /\ link' = [link EXCEPT ![l] = "unsourced"]
           \/ link[l] = "refused" /\ link' = [link EXCEPT ![l] = "gone"]
    BY <1>6 DEF WireSource, WireNoSubscriber, WireListener, UnwireSource, UnwireRefused,
       historyVars
  <2>2. link' \in [Links -> LinkProgress]
    BY <1>3, <2>1 DEF LinkProgress
  <2>3. \A m \in Links : (Bound(m)' <=> Bound(m)) /\ (Fresh(m)' => Fresh(m))
    BY SMTT(30), <1>3, <2>1 DEF Bound, Fresh
  <2>. QED  BY <1>1, <1>3, <2>1, <2>2, <2>3, NoBagMoves
<1>7. ASSUME NEW l \in Links, WireSubscriber(l) PROVE  BagInv' /\ last' = last
  BY <1>1, <1>7, WireSubscriberKeepsBooks DEF WireSubscriber, historyVars
<1>8. ASSUME NEW l \in Links, UnwireSubscriber(l) PROVE  BagInv' /\ last' = last
  BY <1>1, <1>8, UnwireSubscriberKeepsBooks DEF UnwireSubscriber, historyVars
<1>9. ASSUME NEW p \in Ports, Read(p) PROVE  BagInv' /\ \A l \in Links : last'[l] >= last[l]
  BY <1>1, <1>9, ReadKeepsBooks
<1>10. CASE Gate \/ (AfterProcess /\ shutdown # "sent")
  <2>1. LookAtPorts("process", "top") /\ UNCHANGED <<linkVars, overrun, taken, last>>
    BY <1>10 DEF Gate, AfterProcess, outside
  <2>2. BagInv'
    BY <1>1, <2>1, LookKeepsBooks
  <2>. QED  BY <1>2, <2>1, <2>2
<1>11. ASSUME UNCHANGED <<link, source, unheard, subs, sent, boxVars, overrun, taken, last>>
       PROVE  BagInv' /\ last' = last
  <2>1. \A m \in Links : (Bound(m)' <=> Bound(m)) /\ (Fresh(m)' <=> Fresh(m))
    BY <1>11 DEF Bound, Fresh
  <2>. QED  BY <1>1, <1>3, <1>11, <2>1, NoBagMoves
<1>12. CASE RefreshWaiter \/ Check \/ PollPaused
  BY <1>2, <1>11, <1>12 DEF RefreshWaiter, Check, PollPaused, outside, linkVars, historyVars
<1>13. CASE Wait \/ DrainListener \/ ProcessReturns \/ (AfterProcess /\ shutdown = "sent")
  BY <1>2, <1>11, <1>13
     DEF Wait, DrainListener, ProcessReturns, AfterProcess, outside, linkVars, historyVars
<1>14. CASE SetPauseGate \/ SignalShutdown \/ UNCHANGED vars
  BY <1>2, <1>11, <1>14 DEF SetPauseGate, SignalShutdown, vars, linkVars, historyVars
<1>15. ASSUME NEW l \in Links, Send(l) \/ Notify(l) \/ WireStep(l)
       PROVE  BagInv' /\ last' = last
  BY <1>4, <1>5, <1>6, <1>7, <1>8, <1>15 DEF WireStep
<1>. QED  BY <1>2, <1>9, <1>10, <1>12, <1>13, <1>14, <1>15 DEF Next, LoopStep

-----------------------------------------------------------------------------
(***************************************************************************)
(* What follows.                                                           *)
(***************************************************************************)

\* No variable of a reactive processor leaves its type; with it, no ring and
\* no mailbox ever holds more bags than its delivery profile's depth.
THEOREM LoopTypeCorrect == Safety => []TypeOK
<1>1. Init => BagInv
  BY BooksInit
<1>2. BagInv /\ [Next]_vars => BagInv'
  BY BooksStep
<1>3. BagInv => TypeOK
  BY DEF BagInv
<1>. QED  BY <1>1, <1>2, <1>3, PTL DEF Safety

\* "counted plus delivered must account for every bag published" (the test at
\* input.rs:1762), for any number of links on any number of ports, whatever is
\* wired and unwired meanwhile: with the overruns of the ring, which nobody
\* counts, the sum is right at every moment a link has its subscriber.
THEOREM BagsAreAccountedFor == Safety => []EveryBagIsAccountedFor
<1>1. Init => BagInv
  BY BooksInit
<1>2. BagInv /\ [Next]_vars => BagInv'
  BY BooksStep
<1>3. BagInv => EveryBagIsAccountedFor
  BY DEF BagInv
<1>. QED  BY <1>1, <1>2, <1>3, PTL DEF Safety

\* "Bags from one link arrive in the order that link sent them" (input.rs:1055):
\* no read returns a bag older than one read before on its link, through ring,
\* mailbox, eviction and the fan-in of several links on a port.
THEOREM OrderIsKept == Safety => BagsKeepTheirOrder
<1>1. Init => BagInv
  BY BooksInit
<1>2. BagInv /\ [Next]_vars => BagInv'
  BY BooksStep
<1>3. BagInv /\ [Next]_vars => [\A l \in Links : last'[l] >= last[l]]_vars
  BY BooksStep
<1>. QED  BY <1>1, <1>2, <1>3, PTL DEF Safety, BagsKeepTheirOrder

=============================================================================
