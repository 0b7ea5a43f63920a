------------------------- MODULE GraphCompilerTypes -------------------------
(***************************************************************************)
(* Type correctness of GraphCompiler for any finite graph, any number of   *)
(* callers and any bound on the edits, and facts on lists that all of its  *)
(* proofs use.                                                             *)
(***************************************************************************)
EXTENDS GraphCompiler, TLAPS

\* A leaf that names no prover is tried with Zenon, then with the SMT solver.
USE ZenonT(30), SMTT(30)

-----------------------------------------------------------------------------
(***************************************************************************)
(* Sequences.                                                              *)
(***************************************************************************)

LEMMA EmptyList == \A S : <<>> \in Seq(S)
  BY SMTT(30)

LEMMA ListLength ==
    ASSUME NEW S, NEW s \in Seq(S)
    PROVE  /\ Len(s) \in Nat
           /\ DOMAIN s = 1..Len(s)
           /\ \A i \in 1..Len(s) : s[i] \in S
           /\ s # <<>> => Len(s) > 0
  BY SMTT(30)

LEMMA TabulatedList ==
    ASSUME NEW S, NEW k \in Nat, NEW s \in [1..k -> S]
    PROVE  s \in Seq(S)
  BY SMTT(30)

\* One list after another.
LEMMA Joined ==
    ASSUME NEW S, NEW s \in Seq(S), NEW t \in Seq(S)
    PROVE  /\ s \o t \in Seq(S)
           /\ Len(s \o t) = Len(s) + Len(t)
           /\ \A i \in 1..Len(s) : (s \o t)[i] = s[i]
           /\ \A i \in 1..Len(t) : (s \o t)[Len(s) + i] = t[i]
  BY SMTT(30)

\* A list and one more element.
LEMMA Appended ==
    ASSUME NEW S, NEW s \in Seq(S), NEW x \in S
    PROVE  /\ Append(s, x) \in Seq(S)
           /\ Len(Append(s, x)) = Len(s) + 1
           /\ \A i \in 1..Len(s) : Append(s, x)[i] = s[i]
           /\ Append(s, x)[Len(s) + 1] = x
  BY SMTT(30)

LEMMA TailIsList ==
    ASSUME NEW S, NEW s \in Seq(S), s # <<>>
    PROVE  /\ Head(s) = s[1] /\ Head(s) \in S
           /\ Tail(s) \in Seq(S)
           /\ Len(Tail(s)) = Len(s) - 1
           /\ \A i \in 1..(Len(s) - 1) : Tail(s)[i] = s[i + 1]
  BY SMTT(30)

\* Visiting the head of a list leaves a list over the same set.
LEMMA HeadAndTail ==
    ASSUME NEW S, NEW s \in Seq(S), s # <<>>
    PROVE  /\ Head(s) \in S
           /\ Tail(s) \in Seq(S)
           /\ Range(s) = {Head(s)} \cup Range(Tail(s))
<1>1. /\ Head(s) \in S
      /\ Tail(s) \in Seq(S)
      /\ Len(Tail(s)) = Len(s) - 1
      /\ \A i \in 1 .. Len(Tail(s)) : Tail(s)[i] = s[i+1]
  BY TailIsList
<1>2. Len(s) \in Nat \ {0} /\ DOMAIN s = 1..Len(s) /\ DOMAIN Tail(s) = 1..(Len(s) - 1)
  BY SMTT(30), <1>1, ListLength
<1>3. Head(s) = s[1]
  BY SMTT(30)
<1>4. ASSUME NEW i \in 1..Len(s)
      PROVE  i = 1 \/ (i - 1 \in 1..(Len(s) - 1) /\ s[i] = Tail(s)[i - 1])
  BY SMTT(30), <1>1, <1>2
<1>5. Range(s) \subseteq {Head(s)} \cup Range(Tail(s))
  <2>1. SUFFICES ASSUME NEW i \in 1..Len(s)
                 PROVE  s[i] \in {Head(s)} \cup Range(Tail(s))
    BY <1>2 DEF Range
  <2>2. CASE i = 1
    BY <2>2, <1>3
  <2>3. CASE i - 1 \in 1..(Len(s) - 1) /\ s[i] = Tail(s)[i - 1]
    BY <2>3, <1>2 DEF Range
  <2>. QED  BY <1>4, <2>2, <2>3
<1>6. Range(Tail(s)) \subseteq Range(s)
  BY SMTT(30), <1>1, <1>2 DEF Range
<1>7. Head(s) \in Range(s)
  BY SMTT(30), <1>2, <1>3 DEF Range
<1>. QED  BY <1>1, <1>5, <1>6, <1>7

\* A list over S has its elements in S.
LEMMA ElementsOf ==
    ASSUME NEW S, NEW s \in Seq(S)
    PROVE  Range(s) \subseteq S
  BY SMTT(30), ListLength DEF Range

LEMMA ElementsOfEmpty == Range(<<>>) = {}
  BY SMTT(30) DEF Range

\* Appending only what belongs keeps a list over S.
LEMMA Append1Type ==
    ASSUME NEW S, NEW s \in Seq(S), NEW due, NEW x, due => x \in S
    PROVE  Append1(s, due, x) \in Seq(S)
  BY Appended DEF Append1

\* The orders in which a query may return a set are lists over it.
LEMMA OrdersAreLists ==
    ASSUME NEW S, NEW T, S \subseteq T, NEW s \in Orders(S)
    PROVE  s \in Seq(T)
<1>1. s \in Seq(S)
  BY DEF Orders
<1>. QED  BY SMTT(30), <1>1

\* Appending to a list adds one element to those it names.
LEMMA ElementsOfAppend ==
    ASSUME NEW S, NEW s \in Seq(S), NEW x \in S
    PROVE  Range(Append(s, x)) = Range(s) \cup {x}
<1>1. /\ Append(s, x) \in Seq(S)
      /\ Len(Append(s, x)) = Len(s) + 1
      /\ \A i \in 1..Len(s) : Append(s, x)[i] = s[i]
      /\ Append(s, x)[Len(s) + 1] = x
  BY Appended
<1>2. DOMAIN Append(s, x) = 1..(Len(s) + 1) /\ DOMAIN s = 1..Len(s) /\ Len(s) \in Nat
  BY <1>1, ListLength
<1>3. ASSUME NEW i \in 1..(Len(s) + 1) PROVE Append(s, x)[i] \in Range(s) \cup {x}
  <2>1. CASE i = Len(s) + 1
    BY <2>1, <1>1
  <2>2. CASE i \in 1..Len(s)
    BY <2>2, <1>1, <1>2 DEF Range
  <2>. QED  BY SMTT(30), <2>1, <2>2, <1>2
<1>4. Range(Append(s, x)) \subseteq Range(s) \cup {x}
  BY <1>2, <1>3 DEF Range
<1>5. Range(s) \subseteq Range(Append(s, x))
  <2>1. \A i \in DOMAIN s : i \in DOMAIN Append(s, x) /\ Append(s, x)[i] = s[i]
    BY SMTT(30), <1>1, <1>2
  <2>. QED  BY <2>1 DEF Range
<1>6. x \in Range(Append(s, x))
  <2>1. Len(s) + 1 \in DOMAIN Append(s, x)
    BY SMTT(30), <1>2
  <2>. QED  BY <1>1, <2>1 DEF Range
<1>. QED  BY <1>4, <1>5, <1>6

\* And Append1 adds what is due.
LEMMA ElementsOfAppend1 ==
    ASSUME NEW S, NEW s \in Seq(S), NEW due, NEW x, due => x \in S
    PROVE  Range(Append1(s, due, x)) = Range(s) \cup {y \in {x} : due}
<1>1. CASE due
  BY SMTT(30), <1>1, ElementsOfAppend DEF Append1
<1>2. CASE ~due
  BY <1>2 DEF Append1
<1>. QED  BY <1>1, <1>2

\* One list after another names what either names.
LEMMA ConcatElements ==
    ASSUME NEW S, NEW s \in Seq(S), NEW t \in Seq(S)
    PROVE  Range(s \o t) = Range(s) \cup Range(t)
<1>1. /\ DOMAIN s = 1..Len(s) /\ DOMAIN t = 1..Len(t)
      /\ Len(s) \in Nat /\ Len(t) \in Nat
  BY ListLength
<1>2. /\ s \o t \in Seq(S) /\ Len(s \o t) = Len(s) + Len(t)
      /\ \A i \in 1..(Len(s) + Len(t)) :
           (s \o t)[i] = IF i <= Len(s) THEN s[i] ELSE t[i - Len(s)]
  BY SMTT(30), Joined
<1>3. DOMAIN (s \o t) = 1..(Len(s) + Len(t))
  BY <1>2, ListLength
<1>4. Range(s \o t) \subseteq Range(s) \cup Range(t)
  <2>1. SUFFICES ASSUME NEW i \in 1..(Len(s) + Len(t))
                 PROVE  (s \o t)[i] \in Range(s) \cup Range(t)
    BY <1>3 DEF Range
  <2>2. CASE i <= Len(s)
    BY SMTT(30), <1>1, <1>2, <2>2 DEF Range
  <2>3. CASE ~(i <= Len(s))
    <3>1. i - Len(s) \in 1..Len(t) /\ (s \o t)[i] = t[i - Len(s)]
      BY SMTT(30), <1>1, <1>2, <2>3
    <3>. QED  BY <1>1, <3>1 DEF Range
  <2>. QED  BY <2>2, <2>3
<1>5. ASSUME NEW i \in 1..Len(s) PROVE s[i] \in Range(s \o t)
  <2>1. i \in 1..(Len(s) + Len(t)) /\ (s \o t)[i] = s[i]
    BY SMTT(30), <1>1, <1>2
  <2>. QED  BY <1>3, <2>1 DEF Range
<1>6. ASSUME NEW i \in 1..Len(t) PROVE t[i] \in Range(s \o t)
  <2>1. Len(s) + i \in 1..(Len(s) + Len(t)) /\ (s \o t)[Len(s) + i] = t[i]
    BY SMTT(30), <1>1, <1>2
  <2>. QED  BY <1>3, <2>1 DEF Range
<1>. QED  BY <1>1, <1>4, <1>5, <1>6 DEF Range

\* New operations keep every AddProcessor of the log unique.
LEMMA AddedOnceConcat ==
    ASSUME NEW s \in Seq(PendingOperation), NEW t \in Seq(PendingOperation),
           AddedOnce(s), AddedOnce(t),
           \A o \in Range(t) : o.op = "AddProcessor" => o \notin Range(s)
    PROVE  AddedOnce(s \o t)
<1>1. /\ DOMAIN s = 1..Len(s) /\ DOMAIN t = 1..Len(t)
      /\ Len(s) \in Nat /\ Len(t) \in Nat
  BY ListLength
<1>2. /\ s \o t \in Seq(PendingOperation) /\ Len(s \o t) = Len(s) + Len(t)
      /\ \A i \in 1..(Len(s) + Len(t)) :
           (s \o t)[i] = IF i <= Len(s) THEN s[i] ELSE t[i - Len(s)]
  BY SMTT(30), Joined
<1>3. DOMAIN (s \o t) = 1..(Len(s) + Len(t))
  BY <1>2, ListLength
<1> DEFINE u == s \o t
<1>4. SUFFICES ASSUME NEW i \in 1..(Len(s) + Len(t)), NEW j \in 1..(Len(s) + Len(t)),
                      u[i].op = "AddProcessor", u[i] = u[j]
               PROVE  i = j
  BY <1>3 DEF AddedOnce
<1>5. ASSUME NEW k \in 1..(Len(s) + Len(t))
      PROVE  \/ k \in DOMAIN s /\ u[k] = s[k] /\ u[k] \in Range(s)
             \/ k - Len(s) \in DOMAIN t /\ u[k] = t[k - Len(s)] /\ u[k] \in Range(t)
  <2>1. CASE k <= Len(s)
    <3>1. k \in DOMAIN s /\ u[k] = s[k]
      BY SMTT(30), <1>1, <1>2, <2>1
    <3>. QED  BY <3>1 DEF Range
  <2>2. CASE ~(k <= Len(s))
    <3>1. k - Len(s) \in DOMAIN t /\ u[k] = t[k - Len(s)]
      BY SMTT(30), <1>1, <1>2, <2>2
    <3>. QED  BY <3>1 DEF Range
  <2>. QED  BY <2>1, <2>2
<1>. HIDE DEF u
<1>6. CASE i \in DOMAIN s /\ u[i] = s[i] /\ j \in DOMAIN s /\ u[j] = s[j]
  BY <1>4, <1>6 DEF AddedOnce
<1>7. CASE /\ i - Len(s) \in DOMAIN t /\ u[i] = t[i - Len(s)]
           /\ j - Len(s) \in DOMAIN t /\ u[j] = t[j - Len(s)]
  <2>1. i - Len(s) = j - Len(s)
    BY <1>4, <1>7 DEF AddedOnce
  <2>. QED  BY SMTT(30), <1>1, <2>1
<1>8. ~(u[i] \in Range(s) /\ u[j] \in Range(t)) /\ ~(u[i] \in Range(t) /\ u[j] \in Range(s))
  BY <1>4
<1>9. /\ \/ i \in DOMAIN s /\ u[i] = s[i] /\ u[i] \in Range(s)
         \/ i - Len(s) \in DOMAIN t /\ u[i] = t[i - Len(s)] /\ u[i] \in Range(t)
      /\ \/ j \in DOMAIN s /\ u[j] = s[j] /\ u[j] \in Range(s)
         \/ j - Len(s) \in DOMAIN t /\ u[j] = t[j - Len(s)] /\ u[j] \in Range(t)
  BY <1>5
<1>. QED  BY <1>6, <1>7, <1>8, <1>9

\* And taking one off leaves the rest unique and without the one taken.
LEMMA AddedOnceTail ==
    ASSUME NEW s \in Seq(PendingOperation), s # <<>>, AddedOnce(s)
    PROVE  /\ AddedOnce(Tail(s))
           /\ Head(s).op = "AddProcessor" => Head(s) \notin Range(Tail(s))
<1>1. /\ Tail(s) \in Seq(PendingOperation)
      /\ Len(Tail(s)) = Len(s) - 1
      /\ \A i \in 1 .. Len(Tail(s)) : Tail(s)[i] = s[i+1]
  BY TailIsList
<1>2. Len(s) \in Nat \ {0} /\ DOMAIN s = 1..Len(s) /\ DOMAIN Tail(s) = 1..(Len(s) - 1)
  BY SMTT(30), <1>1, ListLength
<1>3. Head(s) = s[1]
  BY SMTT(30)
<1>4. \A i \in DOMAIN Tail(s) : i + 1 \in DOMAIN s /\ Tail(s)[i] = s[i + 1] /\ i + 1 # 1
  BY SMTT(30), <1>1, <1>2
<1>5. AddedOnce(Tail(s))
  <2>1. SUFFICES ASSUME NEW i \in DOMAIN Tail(s), NEW j \in DOMAIN Tail(s),
                        Tail(s)[i].op = "AddProcessor", Tail(s)[i] = Tail(s)[j]
                 PROVE  i = j
    BY DEF AddedOnce
  <2>2. i + 1 = j + 1
    BY <1>4, <2>1 DEF AddedOnce
  <2>. QED  BY SMTT(30), <1>2, <2>2
<1>6. Head(s).op = "AddProcessor" => Head(s) \notin Range(Tail(s))
  <2>1. 1 \in DOMAIN s
    BY SMTT(30), <1>2
  <2>. QED  BY <1>3, <1>4, <2>1 DEF AddedOnce, Range
<1>. QED  BY <1>5, <1>6

LEMMA OneOperation ==
    ASSUME NEW o
    PROVE  AddedOnce(<<o>>) /\ Range(<<o>>) = {o}
<1>1. DOMAIN <<o>> = {1} /\ <<o>>[1] = o
  BY SMTT(30)
<1>. QED  BY <1>1 DEF AddedOnce, Range

\* A list none of whose operations adds a processor.
LEMMA NoAdds ==
    ASSUME NEW s, \A i \in DOMAIN s : s[i].op # "AddProcessor"
    PROVE  AddedOnce(s)
  BY DEF AddedOnce

-----------------------------------------------------------------------------
(***************************************************************************)
(* Types.  A commit indexes components by the elements of its work list,   *)
(* so the list each phase walks is part of the induction.                  *)
(***************************************************************************)

Typed == TypeOK /\ WorkFitsPhase

LEMMA TypedInit == Init => Typed
<1>. SUFFICES ASSUME Init PROVE Typed
  OBVIOUS
<1>1. \A S : <<>> \in Seq(S)
  BY EmptyList
<1>2. TypeOK
  <2>1. /\ txn \in Seq(PendingOperation) /\ batch \in Seq(PendingOperation)
        /\ toAdd \in Seq(Processors) /\ toRemove \in Seq(Processors)
        /\ linksToAdd \in Seq(Links) /\ linksToRemove \in Seq(Links)
        /\ configs \in Seq(Processors)
        /\ work \in Seq(Processors) \cup Seq(Links)
    BY <1>1 DEF Init
  <2>2. edits \in 0..MaxEdits
    BY SMTT(30), MaxEditsAssumption DEF Init
  <2>. QED  BY <2>1, <2>2 DEF Init, TypeOK, ProcessorState, ThreadState, Phase
<1>3. WorkFitsPhase
  BY DEF Init, WorkFitsPhase, LinkPhases, ProcessorPhases, SpawnPhases
<1>. QED  BY <1>2, <1>3 DEF Typed

LEMMA TypedLog ==
    ASSUME Typed, NEW ops \in Seq(PendingOperation), Log(ops)
    PROVE  /\ edits' \in 0..MaxEdits
           /\ txn' \in Seq(PendingOperation)
<1>1. edits \in 0..MaxEdits /\ txn \in Seq(PendingOperation)
  BY DEF Typed, TypeOK
<1>2. edits < MaxEdits /\ edits' = edits + 1 /\ txn' = txn \o ops
  BY DEF Log, CountEdit
<1>. QED  BY SMTT(30), <1>1, <1>2, MaxEditsAssumption, Joined

LEMMA TypedEdit == Typed /\ Edit => Typed'
<1>. SUFFICES ASSUME Typed, Edit PROVE Typed'
  OBVIOUS
<1>. USE DEF Typed, TypeOK
<1>a. ASSUME NEW ops \in Seq(PendingOperation), Log(ops),
             node' \in [Processors -> {"unborn", "in", "removed"}],
             edge' \in [Links -> {"unborn", "Pending", "Wired", "Disconnected", "removed"}],
             marked' \subseteq Processors \cup Links,
             UNCHANGED nodeVars
      PROVE  Typed'
  BY <1>a, TypedLog
     DEF Log, nodeVars, threadVars, planVars, compileVars, callerVars, WorkFitsPhase
<1>b. ASSUME NEW kind \in {"AddProcessor", "RemoveProcessor", "UpdateProcessorConfig"},
             NEW p \in Processors
      PROVE  Op(kind, p) \in PendingOperation
  BY <1>b DEF Op, PendingOperation
<1>c. ASSUME NEW kind \in {"AddLink", "RemoveLink"}, NEW l \in Links
      PROVE  Op(kind, l) \in PendingOperation
  BY <1>c DEF Op, PendingOperation
<1>d. ASSUME NEW p \in Processors, NEW from, NEW to \in {"open", "paused"},
             NEW shown \in ProcessorState, SetGate(p, from, to, shown)
      PROVE  Typed'
  BY SMTT(30), <1>d, MaxEditsAssumption
     DEF SetGate, CountEdit, threadVars, planVars, compileVars, callerVars, WorkFitsPhase
<1>1. ASSUME NEW p \in Processors, AddProcessor(p) PROVE Typed'
  <2>1. <<Op("AddProcessor", p)>> \in Seq(PendingOperation)
    BY SMTT(30), <1>b
  <2>. QED  BY <1>1, <1>a, <2>1 DEF AddProcessor
<1>2. ASSUME NEW p \in Processors, AddUnregisteredProcessor(p) PROVE Typed'
  BY SMTT(30), <1>2, MaxEditsAssumption
     DEF AddUnregisteredProcessor, CountEdit, threadVars, planVars, compileVars,
         callerVars, WorkFitsPhase, ProcessorState
<1>3. ASSUME NEW p \in Processors, RemoveProcessor(p) PROVE Typed'
  <2>1. PICK ins \in Orders(Inbound(p)), outs \in Orders(Outbound(p)) :
          Log([i \in 1..Len(ins \o outs) |-> Op("RemoveLink", (ins \o outs)[i])]
              \o <<Op("RemoveProcessor", p)>>)
    BY <1>3 DEF RemoveProcessor
  <2>2. /\ Inbound(p) \subseteq Links
        /\ Outbound(p) \subseteq Links
    BY GraphAssumption DEF Inbound, Outbound
  <2>3. ins \in Seq(Links) /\ outs \in Seq(Links)
    BY <2>2, OrdersAreLists
  <2>4. ins \o outs \in Seq(Links)
    BY <2>3, Joined
  <2> DEFINE removals == [i \in 1..Len(ins \o outs) |-> Op("RemoveLink", (ins \o outs)[i])]
  <2>5. removals \in Seq(PendingOperation)
    <3>1. Len(ins \o outs) \in Nat
      BY <2>4, ListLength
    <3>2. \A i \in 1..Len(ins \o outs) : Op("RemoveLink", (ins \o outs)[i]) \in PendingOperation
      BY <2>4, <1>c, ListLength
    <3>3. removals \in [1..Len(ins \o outs) -> PendingOperation]
      BY <3>2
    <3>. QED  BY <3>1, <3>3, TabulatedList
  <2>6. <<Op("RemoveProcessor", p)>> \in Seq(PendingOperation)
    BY SMTT(30), <1>b
  <2>7. removals \o <<Op("RemoveProcessor", p)>> \in Seq(PendingOperation)
    BY <2>5, <2>6, Joined
  <2>. QED  BY <1>3, <1>a, <2>1, <2>2, <2>7 DEF RemoveProcessor
<1>4. ASSUME NEW p \in Processors, UpdateProcessorConfig(p) PROVE Typed'
  <2>1. <<Op("UpdateProcessorConfig", p)>> \in Seq(PendingOperation)
    BY SMTT(30), <1>b
  <2>. QED  BY <1>4, <1>a, <2>1 DEF UpdateProcessorConfig
<1>5. ASSUME NEW p \in Processors, PauseProcessor(p) PROVE Typed'
  BY <1>5, <1>d DEF PauseProcessor, ProcessorState
<1>6. ASSUME NEW p \in Processors, ResumeProcessor(p) PROVE Typed'
  BY <1>6, <1>d DEF ResumeProcessor, ProcessorState
<1>7. ASSUME NEW l \in Links, Connect(l) PROVE Typed'
  <2>1. <<Op("AddLink", l)>> \in Seq(PendingOperation)
    BY SMTT(30), <1>c
  <2>. QED  BY <1>7, <1>a, <2>1 DEF Connect
<1>8. ASSUME NEW l \in Links, Disconnect(l) PROVE Typed'
  <2>1. <<Op("RemoveLink", l)>> \in Seq(PendingOperation)
    BY SMTT(30), <1>c
  <2>. QED  BY <1>8, <1>a, <2>1 DEF Disconnect
<1>9. ASSUME QueueRemovalOfEveryProcessor PROVE Typed'
  <2> DEFINE present == {p \in Processors : NodeIn(p)}
  <2>1. PICK ps \in Orders(present) :
          Log([i \in 1..Len(ps) |-> Op("RemoveProcessor", ps[i])])
    BY <1>9 DEF QueueRemovalOfEveryProcessor
  <2>2. present \subseteq Processors
    BY GraphAssumption
  <2>3. ps \in Seq(Processors)
    BY <2>2, OrdersAreLists
  <2>4. [i \in 1..Len(ps) |-> Op("RemoveProcessor", ps[i])] \in Seq(PendingOperation)
    <3>1. Len(ps) \in Nat
      BY <2>3, ListLength
    <3>2. \A i \in 1..Len(ps) : Op("RemoveProcessor", ps[i]) \in PendingOperation
      BY <2>3, <1>b, ListLength
    <3>3. [i \in 1..Len(ps) |-> Op("RemoveProcessor", ps[i])] \in [1..Len(ps) -> PendingOperation]
      BY <3>2
    <3>. QED  BY <3>1, <3>3, TabulatedList
  <2>. QED  BY <1>9, <1>a, <2>1, <2>4 DEF QueueRemovalOfEveryProcessor
<1>. QED  BY <1>1, <1>2, <1>3, <1>4, <1>5, <1>6, <1>7, <1>8, <1>9 DEF Edit

LEMMA TypedCaller ==
    ASSUME Typed, NEW c \in Callers, RequestCommit(c) \/ TakeBatch(c)
    PROVE  Typed'
<1>1. CASE RequestCommit(c)
  BY <1>1 DEF RequestCommit, Typed, TypeOK, WorkFitsPhase, graphVars, nodeVars, threadVars,
              planVars, compileVars
<1>2. CASE TakeBatch(c)
  <2>1. \A S : <<>> \in Seq(S)
    BY EmptyList
  <2>. QED
    BY <1>2, <2>1
       DEF TakeBatch, Typed, TypeOK, WorkFitsPhase, Phase, LinkPhases, ProcessorPhases,
                SpawnPhases, graphVars, nodeVars, threadVars, planVars
<1>. QED  BY <1>1, <1>2

\* Both ways out of a commit leave the compiler idle and its plan empty.
LEMMA TypedReturn ==
    ASSUME Typed, Return, UNCHANGED <<graphVars, nodeVars, thread>>,
           cont' \in [Processors -> {"none", "sent", "dropped"}]
    PROVE  Typed'
<1>1. \A S : <<>> \in Seq(S)
  BY EmptyList
<1>2. TypeOK'
  BY <1>1 DEF Return, Typed, TypeOK, Phase, graphVars, nodeVars
<1>3. WorkFitsPhase'
  BY DEF Return, WorkFitsPhase, LinkPhases, ProcessorPhases, SpawnPhases
<1>. QED  BY <1>2, <1>3 DEF Typed

LEMMA TypedAbort == Typed /\ Abort => Typed'
<1>. SUFFICES ASSUME Typed, Abort PROVE Typed'
  OBVIOUS
<1>1. cont' \in [Processors -> {"none", "sent", "dropped"}]
  BY DEF Abort, Typed, TypeOK
<1>. QED  BY <1>1, TypedReturn DEF Abort

\* The list a phase walks is a list of what the phase is about.
LEMMA WorkOfType ==
    ASSUME TypeOK, NEW ph \in {"unlink", "signal", "prepare", "spawn", "awaitReady",
                               "wire", "continue", "config"}
    PROVE  /\ ph \in LinkPhases => WorkOf(ph) \in Seq(Links)
           /\ ph \in ProcessorPhases => WorkOf(ph) \in Seq(Processors)
           /\ WorkOf(ph) \in Seq(Processors) \cup Seq(Links)
           /\ ph \in SpawnPhases => WorkOf(ph) = toAdd
  BY DEF WorkOf, TypeOK, LinkPhases, ProcessorPhases, SpawnPhases

LEMMA TypedPlanning ==
    Typed /\ (Categorize \/ BeginReconcile \/ DropLinkAddsIntoRemovedProcessors
              \/ AdvancePhase \/ ReturnOk) => Typed'
<1>. SUFFICES ASSUME Typed,
                     Categorize \/ BeginReconcile \/ DropLinkAddsIntoRemovedProcessors
                       \/ AdvancePhase \/ ReturnOk
              PROVE  Typed'
  OBVIOUS
<1>e. \A S : <<>> \in Seq(S)
  BY EmptyList
<1>1. CASE Categorize
  <2> DEFINE o == Head(batch)
  <2>1. o \in PendingOperation /\ Tail(batch) \in Seq(PendingOperation)
    BY <1>1, HeadAndTail DEF Categorize, Typed, TypeOK
  <2>2. /\ o.op \in {"AddProcessor", "RemoveProcessor", "UpdateProcessorConfig"}
             => o.id \in Processors
        /\ o.op \in {"AddLink", "RemoveLink"} => o.id \in Links
    BY <2>1 DEF PendingOperation
  <2>3. /\ AddIsDue(o) => o.id \in Processors
        /\ WiringIsDue(o) => o.id \in Links
    BY <2>2 DEF AddIsDue, WiringIsDue
  <2>4. /\ toAdd' \in Seq(Processors)
        /\ toRemove' \in Seq(Processors)
        /\ linksToAdd' \in Seq(Links)
        /\ linksToRemove' \in Seq(Links)
        /\ configs' \in Seq(Processors)
    BY <1>1, <2>2, <2>3, Append1Type DEF Categorize, Typed, TypeOK
  <2>. HIDE DEF o
  <2>. QED
    BY <1>1, <2>1, <2>4
       DEF Categorize, Typed, TypeOK, WorkFitsPhase, LinkPhases, ProcessorPhases, SpawnPhases,
           graphVars, nodeVars, threadVars, callerVars, o
<1>2. CASE BeginReconcile
  BY <1>2, <1>e
     DEF BeginReconcile, Typed, TypeOK, WorkFitsPhase, Phase, LinkPhases, ProcessorPhases,
         SpawnPhases, graphVars, nodeVars, threadVars, callerVars
<1>3. CASE DropLinkAddsIntoRemovedProcessors
  <2>1. work \in Seq(Links) /\ work # <<>>
    BY <1>3 DEF DropLinkAddsIntoRemovedProcessors, Typed, WorkFitsPhase, LinkPhases
  <2>2. Head(work) \in Links /\ Tail(work) \in Seq(Links)
    BY <2>1, HeadAndTail
  <2>3. linksToAdd' \in Seq(Links)
    BY <1>3, <2>2, Append1Type DEF DropLinkAddsIntoRemovedProcessors, Typed, TypeOK
  <2>. QED
    BY <1>3, <2>2, <2>3
       DEF DropLinkAddsIntoRemovedProcessors, Typed, TypeOK, WorkFitsPhase, LinkPhases,
           ProcessorPhases, SpawnPhases, graphVars, nodeVars, threadVars, callerVars
<1>4. CASE AdvancePhase
  <2>1. phase' \in {"unlink", "signal", "prepare", "spawn", "awaitReady", "wire",
                    "continue", "config"}
    BY SMTT(30), <1>4 DEF AdvancePhase, Following
  <2>2. /\ phase' \in LinkPhases => work' \in Seq(Links)
        /\ phase' \in ProcessorPhases => work' \in Seq(Processors)
        /\ work' \in Seq(Processors) \cup Seq(Links)
        /\ phase' \in SpawnPhases => work' = toAdd
    <3>1. work' = WorkOf(phase')
      BY <1>4 DEF AdvancePhase
    <3>. QED  BY <3>1, <2>1, WorkOfType DEF Typed
  <2>. QED
    BY <1>4, <2>1, <2>2
       DEF AdvancePhase, Typed, TypeOK, WorkFitsPhase, Phase, graphVars, nodeVars, threadVars,
           planVars, callerVars
<1>5. CASE ReturnOk
  BY <1>5, TypedReturn DEF ReturnOk, threadVars, Typed, TypeOK
<1>. QED  BY <1>1, <1>2, <1>3, <1>4, <1>5

\* In a phase with work left, the head is what the phase is about.
LEMMA WorkHead ==
    ASSUME Typed, work # <<>>
    PROVE  /\ phase \in LinkPhases => Head(work) \in Links /\ Tail(work) \in Seq(Links)
           /\ phase \in ProcessorPhases =>
                Head(work) \in Processors /\ Tail(work) \in Seq(Processors)
           /\ Tail(work) \in Seq(Processors) \cup Seq(Links)
           /\ Range(work) = {Head(work)} \cup Range(Tail(work))
<1>1. phase \in LinkPhases => work \in Seq(Links)
  BY DEF Typed, WorkFitsPhase
<1>2. phase \in ProcessorPhases => work \in Seq(Processors)
  BY DEF Typed, WorkFitsPhase
<1>3. work \in Seq(Processors) \/ work \in Seq(Links)
  BY DEF Typed, TypeOK
<1>4. \A S : work \in Seq(S) => /\ Head(work) \in S /\ Tail(work) \in Seq(S)
                                /\ Range(work) = {Head(work)} \cup Range(Tail(work))
  BY HeadAndTail
<1>. QED  BY <1>1, <1>2, <1>3, <1>4

LEMMA TypedRemoval ==
    Typed /\ (UnwireLink \/ DropEdge \/ SignalShutdown \/ JoinAndForget) => Typed'
<1>. SUFFICES ASSUME Typed, UnwireLink \/ DropEdge \/ SignalShutdown \/ JoinAndForget
              PROVE  Typed'
  OBVIOUS
<1>. USE DEF Typed, LinkPhases, ProcessorPhases, SpawnPhases
<1>1. CASE UnwireLink
  BY <1>1
     DEF UnwireLink, TypeOK, WorkFitsPhase, Phase, nodeVars, threadVars, planVars, callerVars
<1>2. CASE DropEdge
  <2>1. Tail(work) \in Seq(Links)
    BY <1>2, WorkHead DEF DropEdge, WorkFitsPhase
  <2>. QED
    BY <1>2, <2>1
       DEF DropEdge, Visited, TypeOK, WorkFitsPhase, Phase, nodeVars, threadVars, planVars,
           callerVars
<1>3. CASE SignalShutdown
  <2>1. /\ state' \in [Processors -> ProcessorState]
        /\ shutdown' \in [Processors -> {"none", "empty", "sent", "taken"}]
        /\ handle' \in [Processors -> BOOLEAN]
        /\ joining' \in BOOLEAN
    <3>1. Head(work) \in Processors
      BY <1>3, WorkHead DEF SignalShutdown
    <3>. QED
      BY <1>3, <3>1 DEF SignalShutdown, BeginRemoval, TypeOK, ProcessorState
  <2>. QED
    BY <1>3, <2>1
       DEF SignalShutdown, removalFrame, TypeOK, WorkFitsPhase, Phase, graphVars, threadVars,
           planVars, callerVars
<1>4. CASE JoinAndForget
  <2>1. Tail(work) \in Seq(Processors)
    BY <1>4, WorkHead DEF JoinAndForget, Forget, WorkFitsPhase
  <2>2. /\ state' \in [Processors -> ProcessorState]
        /\ node' \in [Processors -> {"unborn", "in", "removed"}]
        /\ edge' \in [Links -> {"unborn", "Pending", "Wired", "Disconnected", "removed"}]
    BY <1>4 DEF JoinAndForget, Forget, TypeOK, ProcessorState
  <2>. QED
    BY <1>4, <2>1, <2>2
       DEF JoinAndForget, Forget, Visited, TypeOK, WorkFitsPhase, Phase, threadVars, planVars,
           callerVars
<1>. QED  BY <1>1, <1>2, <1>3, <1>4

LEMMA TypedAdding ==
    Typed /\ (PrepareProcessor \/ SpawnThread \/ AttachHandle \/ AwaitReady) => Typed'
<1>. SUFFICES ASSUME Typed, PrepareProcessor \/ SpawnThread \/ AttachHandle \/ AwaitReady
              PROVE  Typed'
  OBVIOUS
<1>. USE DEF Typed, LinkPhases, ProcessorPhases, SpawnPhases
<1>1. CASE PrepareProcessor
  <2>1. Tail(work) \in Seq(Processors)
    BY <1>1, WorkHead DEF PrepareProcessor
  <2>. QED
    BY <1>1, <2>1
       DEF PrepareProcessor, Visited, TypeOK, WorkFitsPhase, ProcessorState, graphVars,
           planVars, callerVars
<1>2. CASE SpawnThread
  <2>1. /\ Tail(work) \in Seq(Processors)
        /\ Range(Tail(work)) \subseteq Range(work)
    BY <1>2, WorkHead DEF SpawnThread
  <2>. QED
    BY <1>2, <2>1
       DEF SpawnThread, Visited, TypeOK, WorkFitsPhase, Phase, ThreadState, graphVars, nodeVars,
           planVars, callerVars
<1>3. CASE AttachHandle /\ NodeIn(Head(work))
  <2>1. /\ Tail(work) \in Seq(Processors)
        /\ Range(Tail(work)) \subseteq Range(work)
    BY <1>3, WorkHead DEF AttachHandle, WorkFitsPhase
  <2>. QED
    BY <1>3, <2>1
       DEF AttachHandle, Visited, TypeOK, WorkFitsPhase, Phase, graphVars, threadVars, planVars,
           callerVars
<1>4. CASE AttachHandle /\ ~NodeIn(Head(work))
  BY <1>4, TypedAbort DEF AttachHandle
<1>5. CASE AwaitReady
  <2>1. Tail(work) \in Seq(Processors)
    BY <1>5, WorkHead DEF AwaitReady
  <2>. QED
    BY <1>5, <2>1
       DEF AwaitReady, Visited, TypeOK, WorkFitsPhase, graphVars, nodeVars, threadVars, planVars,
           callerVars
<1>. QED  BY <1>1, <1>2, <1>3, <1>4, <1>5

LEMMA TypedFinishing ==
    Typed /\ (WireLink \/ SignalContinue \/ ApplyConfig) => Typed'
<1>. SUFFICES ASSUME Typed, WireLink \/ SignalContinue \/ ApplyConfig
              PROVE  Typed'
  OBVIOUS
<1>. USE DEF Typed, LinkPhases, ProcessorPhases, SpawnPhases
<1>1. CASE WireLink
  <2>1. Tail(work) \in Seq(Links)
    BY <1>1, WorkHead DEF WireLink, WireHead
  <2>. QED
    BY <1>1, <2>1
       DEF WireLink, WireHead, Visited, TypeOK, WorkFitsPhase, nodeVars, threadVars, planVars,
           callerVars
<1>2. CASE SignalContinue
  <2>1. Tail(work) \in Seq(Processors)
    BY <1>2, WorkHead DEF SignalContinue
  <2>. QED
    BY <1>2, <2>1
       DEF SignalContinue, Visited, TypeOK, WorkFitsPhase, graphVars, nodeVars, planVars,
           callerVars
<1>3. CASE ApplyConfig
  <2>1. Tail(work) \in Seq(Processors)
    BY <1>3, WorkHead DEF ApplyConfig
  <2>. QED
    BY <1>3, <2>1
       DEF ApplyConfig, Visited, TypeOK, WorkFitsPhase, graphVars, nodeVars, threadVars,
           planVars, callerVars
<1>. QED  BY <1>1, <1>2, <1>3

LEMMA TypedThread ==
    ASSUME Typed, NEW p \in Processors, ThreadStep(p) \/ ThreadFailure(p)
    PROVE  Typed'
<1>1. /\ thread' \in [Processors -> ThreadState]
      /\ state' \in [Processors -> ProcessorState]
      /\ shutdown' \in [Processors -> {"none", "empty", "sent", "taken"}]
  <2>. USE DEF ThreadStep, ThreadFailure, ThreadAttachesInstance, ThreadContinues, RunSetup,
               SetupSucceeds, SetupFails, StartFails, LoopReportsFailure, LoopSeesShutdown,
               ThreadExits
  <2>1. \E to \in ThreadState : thread' = [thread EXCEPT ![p] = to]
    BY DEF Step, ThreadState
  <2>2. UNCHANGED state \/ \E to \in ProcessorState : state' = [state EXCEPT ![p] = to]
    BY DEF ProcessorState
  <2>3. UNCHANGED shutdown \/ shutdown' = [shutdown EXCEPT ![p] = "taken"]
    OBVIOUS
  <2>. HIDE DEF ThreadStep, ThreadFailure
  <2>4. thread' \in [Processors -> ThreadState]
    BY <2>1 DEF Typed, TypeOK
  <2>5. state' \in [Processors -> ProcessorState]
    BY <2>2 DEF Typed, TypeOK
  <2>6. shutdown' \in [Processors -> {"none", "empty", "sent", "taken"}]
    BY <2>3 DEF Typed, TypeOK
  <2>. QED  BY <2>4, <2>5, <2>6
<1>3. instance' \in [Processors -> BOOLEAN]
  <2>1. CASE ThreadAttachesInstance(p)
    BY <2>1 DEF ThreadAttachesInstance, Typed, TypeOK, NodeIn
  <2>2. CASE UNCHANGED instance
    BY <2>2 DEF Typed, TypeOK
  <2>. QED
    BY <2>1, <2>2
       DEF ThreadStep, ThreadFailure, ThreadContinues, RunSetup, SetupSucceeds, SetupFails,
           StartFails, LoopReportsFailure, LoopSeesShutdown, ThreadExits
<1>2. UNCHANGED threadFrame
  BY DEF ThreadStep, ThreadFailure, ThreadAttachesInstance, ThreadContinues, RunSetup,
         SetupSucceeds, SetupFails, StartFails, LoopReportsFailure, LoopSeesShutdown,
         ThreadExits
<1>. QED
  BY <1>1, <1>2, <1>3
     DEF threadFrame, Typed, TypeOK, WorkFitsPhase, graphVars, planVars, compileVars, callerVars

\* An action that fails does nothing but abort the commit.
LEMMA FailureIsAbort ==
    PrepareFindsNoNode \/ SpawnFails \/ WireFails \/ ConfigFails => Abort
  BY DEF PrepareFindsNoNode, SpawnFails, WireFails, ConfigFails

LEMMA TypedStep == Typed /\ [Next]_vars => Typed'
<1>. SUFFICES ASSUME Typed, [Next]_vars PROVE Typed'
  OBVIOUS
<1>1. CASE Edit
  BY <1>1, TypedEdit
<1>2. ASSUME NEW c \in Callers, RequestCommit(c) \/ TakeBatch(c) PROVE Typed'
  BY <1>2, TypedCaller
<1>3. CASE CompileStep
  BY <1>3, TypedPlanning, TypedRemoval, TypedAdding, TypedFinishing, TypedAbort,
     FailureIsAbort
     DEF CompileStep
<1>4. ASSUME NEW p \in Processors, ThreadStep(p) \/ ThreadFailure(p) PROVE Typed'
  BY <1>4, TypedThread
<1>5. CASE UNCHANGED vars
  BY <1>5
     DEF vars, graphVars, nodeVars, threadVars, planVars, compileVars, callerVars,
         Typed, TypeOK, WorkFitsPhase
<1>. QED  BY <1>1, <1>2, <1>3, <1>4, <1>5 DEF Next

\* In every behaviour of the graph, the compiler and the threads, each variable
\* keeps its type: the compiler never indexes a component with an id of the
\* wrong kind and never walks past the end of a list.
THEOREM TypeCorrect == Safety => []TypeOK
<1>1. Typed => TypeOK
  BY DEF Typed
<1>. QED  BY <1>1, TypedInit, TypedStep, PTL DEF Safety
=============================================================================
