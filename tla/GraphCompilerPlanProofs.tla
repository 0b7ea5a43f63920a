---------------------- MODULE GraphCompilerPlanProofs ----------------------
(***************************************************************************)
(* The second inductive invariant of GraphCompiler, PlanInv: how a logged  *)
(* operation moves through batch and plan, and what each phase has done for*)
(* the part of its list it has visited.  From it follow the barrier, that  *)
(* WIRE finds its links, and what a compile that reached its last phase    *)
(* has achieved.  Then DoneInv: what becomes of every operation of a batch.*)
(***************************************************************************)
EXTENDS GraphCompilerProofs

\* A leaf that names no prover is tried with Zenon, then with the SMT solver.
USE ZenonT(30), SMTT(30)

-----------------------------------------------------------------------------
(***************************************************************************)
(* What an edit does to the log.                                           *)
(***************************************************************************)

\* What an edit may log: an AddProcessor or an AddLink with what it adds, a
\* RemoveLink with the mark of its link, a RemoveProcessor of a node in the graph.
MayLog(o) ==
    /\ o.op = "AddProcessor" => node[o.id] = "unborn" /\ node'[o.id] = "in"
    /\ o.op = "AddLink" => edge[o.id] = "unborn" /\ edge'[o.id] = "Pending"
    /\ o.op = "RemoveLink" => o.id \in marked' /\ EdgeIn(o.id)
    /\ o.op = "RemoveProcessor" => NodeIn(o.id)

LogGrows ==
    /\ AddedOnce(txn') /\ Range(txn) \subseteq Range(txn')
    /\ \A o \in Range(txn') : o \in Range(txn) \/ MayLog(o)

LEMMA LogKeeps ==
    ASSUME IInv, AddsAreNew, NEW ops \in Seq(PendingOperation), Log(ops),
           AddedOnce(ops), \A o \in Range(ops) : MayLog(o)
    PROVE  LogGrows
<1>1. txn' = txn \o ops /\ txn \in Seq(PendingOperation)
  BY DEF Log, IInv, TypeOK
<1>2. Range(txn') = Range(txn) \cup Range(ops)
  BY <1>1, ConcatElements
<1>3. \A o \in Range(ops) : o.op = "AddProcessor" => o \notin Range(txn)
  <2>1. SUFFICES ASSUME NEW o \in Range(ops), o.op = "AddProcessor", o \in Range(txn)
                 PROVE  FALSE
    OBVIOUS
  <2>2. o \in PendingOperation
    BY ElementsOf
  <2>3. o.id \in Processors /\ o = Op("AddProcessor", o.id)
    BY <2>1, <2>2 DEF PendingOperation, Op
  <2>4. node[o.id] = "unborn"
    BY <2>1 DEF MayLog
  <2>. QED  BY <2>1, <2>3, <2>4 DEF AddsAreNew
<1>4. AddedOnce(txn')
  BY <1>1, <1>3, AddedOnceConcat DEF AddsAreNew
<1>. QED  BY <1>2, <1>4 DEF LogGrows

LEMMA EditLogs ==
    ASSUME IInv, AddsAreNew, Edit
    PROVE  LogGrows /\ marked \subseteq marked'
<1>0. ASSUME NEW kind, NEW x PROVE Op(kind, x).op = kind /\ Op(kind, x).id = x
  BY DEF Op
<1>1. ASSUME NEW p \in Processors, AddProcessor(p)
      PROVE  LogGrows /\ UNCHANGED marked
  <2> DEFINE o == Op("AddProcessor", p)
  <2>1. <<o>> \in Seq(PendingOperation)
    BY SMTT(30) DEF Op, PendingOperation
  <2>2. node[p] = "unborn" /\ node'[p] = "in"
    BY <1>1 DEF AddProcessor, IInv, TypeOK
  <2>3. MayLog(o)
    BY SMTT(30), <1>0, <2>2 DEF MayLog
  <2>4. Log(<<o>>) /\ UNCHANGED marked
    BY <1>1 DEF AddProcessor
  <2>. HIDE DEF o
  <2>. QED  BY <2>1, <2>3, <2>4, OneOperation, LogKeeps
<1>2. ASSUME NEW p \in Processors, RemoveProcessor(p)
      PROVE  LogGrows /\ marked \subseteq marked'
  <2>1. PICK ins \in Orders(Inbound(p)), outs \in Orders(Outbound(p)) :
          Log([i \in 1..Len(ins \o outs) |-> Op("RemoveLink", (ins \o outs)[i])]
              \o <<Op("RemoveProcessor", p)>>)
    BY <1>2 DEF RemoveProcessor
  <2> DEFINE gone == Inbound(p) \cup Outbound(p)
  <2> DEFINE links == ins \o outs
  <2> DEFINE first == [i \in 1..Len(links) |-> Op("RemoveLink", links[i])]
  <2> DEFINE last == <<Op("RemoveProcessor", p)>>
  <2>2. /\ Inbound(p) \subseteq Links
        /\ Outbound(p) \subseteq Links
    BY GraphAssumption DEF Inbound, Outbound
  <2>3. ins \in Seq(gone) /\ outs \in Seq(gone)
    BY <2>2, OrdersAreLists
  <2>4. links \in Seq(gone) /\ Len(links) \in Nat
    BY <2>3, Joined, ListLength
  <2>5. \A i \in 1..Len(links) : links[i] \in gone
    BY <2>4, ListLength
  <2>6. \A l \in gone : l \in Links /\ EdgeIn(l) /\ l \in marked'
    BY <1>2 DEF RemoveProcessor, Inbound, Outbound
  <2>7. first \in Seq(PendingOperation) /\ last \in Seq(PendingOperation)
    <3>1. \A i \in 1..Len(links) : Op("RemoveLink", links[i]) \in PendingOperation
      BY <2>5, <2>6 DEF Op, PendingOperation
    <3>2. Op("RemoveProcessor", p) \in PendingOperation
      BY DEF Op, PendingOperation
    <3>. HIDE DEF links
    <3>. QED  BY SMTT(30), <2>4, <3>1, <3>2
  <2>8. \A o \in Range(first) : MayLog(o) /\ o.op # "AddProcessor"
    <3>1. ASSUME NEW i \in 1..Len(links)
          PROVE  MayLog(Op("RemoveLink", links[i])) /\ Op("RemoveLink", links[i]).op # "AddProcessor"
      BY SMTT(30), <1>0, <2>5, <2>6 DEF MayLog
    <3>. HIDE DEF links
    <3>. QED  BY <3>1 DEF Range
  <2>9. \A o \in Range(last) : MayLog(o) /\ o.op # "AddProcessor"
    <3>1. MayLog(Op("RemoveProcessor", p)) /\ Op("RemoveProcessor", p).op # "AddProcessor"
      BY SMTT(30), <1>0, <1>2 DEF MayLog, RemoveProcessor
    <3>2. Range(last) = {Op("RemoveProcessor", p)}
      BY OneOperation
    <3>. QED  BY <3>1, <3>2
  <2>10. Log(first \o last) /\ marked \subseteq marked'
    BY <1>2, <2>1 DEF RemoveProcessor
  <2>. HIDE DEF first, last
  <2>11. first \o last \in Seq(PendingOperation) /\ Range(first \o last) = Range(first) \cup Range(last)
    BY <2>7, ConcatElements, Joined
  <2>12. AddedOnce(first \o last)
    BY <2>8, <2>9, <2>11, NoAdds DEF Range
  <2>. QED  BY <2>8, <2>9, <2>10, <2>11, <2>12, LogKeeps
<1>3. ASSUME NEW p \in Processors, UpdateProcessorConfig(p)
      PROVE  LogGrows /\ UNCHANGED marked
  <2> DEFINE o == Op("UpdateProcessorConfig", p)
  <2>1. <<o>> \in Seq(PendingOperation)
    BY SMTT(30) DEF Op, PendingOperation
  <2>3. MayLog(o)
    BY SMTT(30), <1>0 DEF MayLog
  <2>4. Log(<<o>>) /\ UNCHANGED marked
    BY <1>3 DEF UpdateProcessorConfig
  <2>. HIDE DEF o
  <2>. QED  BY <2>1, <2>3, <2>4, OneOperation, LogKeeps
<1>4. ASSUME NEW l \in Links, Connect(l)
      PROVE  LogGrows /\ UNCHANGED marked
  <2> DEFINE o == Op("AddLink", l)
  <2>1. <<o>> \in Seq(PendingOperation)
    BY SMTT(30) DEF Op, PendingOperation
  <2>3. MayLog(o)
    BY SMTT(30), <1>0, <1>4 DEF MayLog, Connect, IInv, TypeOK
  <2>4. Log(<<o>>) /\ UNCHANGED marked
    BY <1>4 DEF Connect
  <2>. HIDE DEF o
  <2>. QED  BY <2>1, <2>3, <2>4, OneOperation, LogKeeps
<1>5. ASSUME NEW l \in Links, Disconnect(l)
      PROVE  LogGrows /\ marked \subseteq marked'
  <2> DEFINE o == Op("RemoveLink", l)
  <2>1. <<o>> \in Seq(PendingOperation)
    BY SMTT(30) DEF Op, PendingOperation
  <2>3. MayLog(o) /\ marked \subseteq marked'
    BY SMTT(30), <1>0, <1>5 DEF MayLog, Disconnect
  <2>4. Log(<<o>>)
    BY <1>5 DEF Disconnect
  <2>. HIDE DEF o
  <2>. QED  BY <2>1, <2>3, <2>4, OneOperation, LogKeeps
<1>6. ASSUME QueueRemovalOfEveryProcessor
      PROVE  LogGrows /\ UNCHANGED marked
  <2> DEFINE present == {p \in Processors : NodeIn(p)}
  <2>1. PICK ps \in Orders(present) :
          Log([i \in 1..Len(ps) |-> Op("RemoveProcessor", ps[i])])
    BY <1>6 DEF QueueRemovalOfEveryProcessor
  <2>2. present \subseteq Processors
    BY GraphAssumption
  <2>3. ps \in Seq(present) /\ Len(ps) \in Nat
    BY <2>2, OrdersAreLists, ListLength
  <2>4. \A i \in 1..Len(ps) : ps[i] \in Processors /\ NodeIn(ps[i])
    BY SMTT(30), <2>3, ListLength
  <2> DEFINE ops == [i \in 1..Len(ps) |-> Op("RemoveProcessor", ps[i])]
  <2>5. \A i \in 1..Len(ps) : /\ Op("RemoveProcessor", ps[i]) \in PendingOperation
                              /\ MayLog(Op("RemoveProcessor", ps[i]))
                              /\ Op("RemoveProcessor", ps[i]).op # "AddProcessor"
    BY <2>4, <1>0 DEF Op, PendingOperation, MayLog
  <2>6. ops \in Seq(PendingOperation)
    BY SMTT(30), <2>3, <2>5
  <2>7. \A o \in Range(ops) : MayLog(o)
    BY <2>5 DEF Range
  <2>8. AddedOnce(ops)
    BY <2>5, NoAdds
  <2>9. Log(ops) /\ UNCHANGED marked
    BY <1>6, <2>1 DEF QueueRemovalOfEveryProcessor
  <2>. HIDE DEF ops
  <2>. QED  BY <2>6, <2>7, <2>8, <2>9, LogKeeps
<1>7. ASSUME NEW p \in Processors, AddUnregisteredProcessor(p) \/ PauseProcessor(p) \/ ResumeProcessor(p)
      PROVE  UNCHANGED <<txn, marked>>
  BY <1>7 DEF AddUnregisteredProcessor, PauseProcessor, ResumeProcessor, SetGate
<1>8. UNCHANGED txn => LogGrows
  BY DEF AddsAreNew, LogGrows
<1>. QED  BY <1>1, <1>2, <1>3, <1>4, <1>5, <1>6, <1>7, <1>8 DEF Edit

\* The plan is made of processors and of links.
LEMMA PlanTypes ==
    ASSUME IInv
    PROVE  /\ Range(toAdd) \subseteq Processors /\ Range(toRemove) \subseteq Processors
           /\ Range(linksToAdd) \subseteq Links /\ Range(linksToRemove) \subseteq Links
           /\ phase = "reconcile" => Range(work) \subseteq Links
  BY ElementsOf DEF IInv, TypeOK, WorkFitsPhase, LinkPhases

LEMMA PlanInit == Init => PlanInv
<1>. SUFFICES ASSUME Init PROVE PlanInv
  OBVIOUS
<1>1. /\ Range(txn) = {} /\ Range(batch) = {} /\ Range(toAdd) = {} /\ Range(toRemove) = {}
      /\ Range(linksToAdd) = {} /\ Range(linksToRemove) = {}
      /\ AddedOnce(txn) /\ AddedOnce(batch)
  BY SMTT(30), ElementsOfEmpty DEF Init, AddedOnce
<1>2. phase = "idle" /\ PlanIsEmpty /\ batch = <<>>
  BY DEF Init, PlanIsEmpty
<1>3. ReadyHasInstance /\ UnbornHasNoThread
  BY DEF Init, ReadyHasInstance, UnbornHasNoThread
<1>. QED
  BY <1>1, <1>2, <1>3
     DEF PlanInv, AddsAreNew, RemovalsAreKnown, PlanFollowsPhase, BarrierHolds, WiringsStay, Wirings

\* An edit adds to graph and log and touches nothing of the commit under way.
LEMMA EditMoves ==
    ASSUME IInv, PlanInv, Edit
    PROVE  /\ UNCHANGED <<thread, cont, instance, planVars, phase, batch, work, callerVars>>
           /\ \A p \in Processors : node'[p] = node[p] \/ (node[p] = "unborn" /\ node'[p] = "in")
           /\ \A l \in Links : edge'[l] = edge[l] \/ (edge[l] = "unborn" /\ edge'[l] = "Pending")
           /\ LogGrows /\ marked \subseteq marked'
<1>1. UNCHANGED <<thread, cont, instance, planVars, phase, batch, work, callerVars>>
  BY DEF Edit, AddProcessor, AddUnregisteredProcessor, RemoveProcessor, UpdateProcessorConfig,
         PauseProcessor, ResumeProcessor, SetGate, Connect, Disconnect,
         QueueRemovalOfEveryProcessor, Log, nodeVars, threadVars, compileVars
<1>2. \A p \in Processors : node'[p] = node[p] \/ (node[p] = "unborn" /\ node'[p] = "in")
  BY EditFrame
<1>3. \A l \in Links : edge'[l] = edge[l] \/ (edge[l] = "unborn" /\ edge'[l] = "Pending")
  <2>1. UNCHANGED edge \/ \E l \in Links : Connect(l)
    BY DEF Edit, AddProcessor, AddUnregisteredProcessor, RemoveProcessor, UpdateProcessorConfig,
           PauseProcessor, ResumeProcessor, SetGate, Disconnect, QueueRemovalOfEveryProcessor
  <2>. QED  BY <2>1 DEF Connect, IInv, TypeOK
<1>4. LogGrows /\ marked \subseteq marked'
  BY EditLogs DEF PlanInv
<1>. QED  BY <1>1, <1>2, <1>3, <1>4

LEMMA PlanEdit == IInv /\ PlanInv /\ Edit => PlanInv'
<1>. SUFFICES ASSUME IInv, PlanInv, Edit PROVE PlanInv'
  OBVIOUS
<1>1. UNCHANGED <<thread, cont, instance, planVars, phase, batch, work>>
  BY EditMoves
<1>2. /\ \A p \in Processors : node'[p] = node[p] \/ (node[p] = "unborn" /\ node'[p] = "in")
      /\ \A l \in Links : edge'[l] = edge[l] \/ (edge[l] = "unborn" /\ edge'[l] = "Pending")
  BY EditMoves
<1>3. LogGrows /\ marked \subseteq marked'
  BY EditMoves
<1>4. \A kind, x : Op(kind, x).op = kind /\ Op(kind, x).id = x
  BY DEF Op
<1>5. AddsAreNew'
  <2>1. AddedOnce(txn') /\ AddedOnce(batch')
    BY <1>1, <1>3 DEF LogGrows, PlanInv, AddsAreNew
  <2>2. SUFFICES ASSUME NEW p \in Processors, NEW o, o = Op("AddProcessor", p)
                 PROVE  /\ o \in Range(txn') => o \notin Range(batch')
                        /\ o \in Range(txn') \cup Range(batch') =>
                             node'[p] # "unborn" /\ thread'[p] = "none" /\ p \notin Range(toAdd')
    BY <2>1 DEF AddsAreNew
  <2>3. /\ o \in Range(txn) => o \notin Range(batch)
        /\ o \in Range(txn) \cup Range(batch) =>
             node[p] # "unborn" /\ thread[p] = "none" /\ p \notin Range(toAdd)
    BY <2>2 DEF PlanInv, AddsAreNew
  <2>4. CASE o \notin Range(txn) /\ o \in Range(txn')
    <3>1. node[p] = "unborn" /\ node'[p] = "in"
      BY SMTT(30), <1>3, <1>4, <2>2, <2>4 DEF LogGrows, MayLog
    <3>2. p \notin Range(toAdd) /\ thread[p] = "none"
      BY <3>1 DEF IInv, UnbornIsBlank, PlanInv, UnbornHasNoThread
    <3>. QED  BY <1>1, <2>3, <3>1, <3>2 DEF planVars
  <2>5. CASE o \in Range(txn) \/ o \notin Range(txn')
    BY <1>1, <1>2, <2>3, <2>5 DEF planVars
  <2>. QED  BY <2>4, <2>5
<1>6. RemovalsAreKnown'
  <2>1. \A l \in Links : Op("RemoveLink", l) \in Range(txn') \cup Range(batch') =>
          l \in marked' /\ edge'[l] # "unborn"
    BY SMTT(30), <1>1, <1>2, <1>3, <1>4 DEF LogGrows, MayLog, EdgeIn, PlanInv, RemovalsAreKnown
  <2>2. \A p \in Processors : Op("RemoveProcessor", p) \in Range(txn') \cup Range(batch') =>
          node'[p] # "unborn"
    BY SMTT(30), <1>1, <1>2, <1>3, <1>4 DEF LogGrows, MayLog, NodeIn, PlanInv, RemovalsAreKnown
  <2>3. \A l \in Range(linksToRemove') : l \in marked' /\ edge'[l] # "unborn"
    BY <1>1, <1>2, <1>3, PlanTypes DEF PlanInv, RemovalsAreKnown, planVars
  <2>4. \A p \in Range(toRemove') : node'[p] # "unborn"
    BY <1>1, <1>2, PlanTypes DEF PlanInv, RemovalsAreKnown, planVars
  <2>. QED  BY <2>1, <2>2, <2>3, <2>4 DEF RemovalsAreKnown
<1>7. PlanFollowsPhase' /\ ReadyHasInstance' /\ BarrierHolds' /\ UnbornHasNoThread'
  BY <1>1, <1>2 DEF PlanInv, UnbornHasNoThread, PlanFollowsPhase, PlanIsEmpty,
     ReadyHasInstance, BarrierHolds, planVars
<1>8. WiringsStay'
  <2>1. Wirings' = Wirings /\ Wirings \subseteq Links
    BY <1>1, PlanTypes DEF Wirings, planVars
  <2>. QED
    BY <1>1, <1>2, <2>1 DEF PlanInv, WiringsStay, EdgeIn, planVars
<1>. QED  BY <1>5, <1>6, <1>7, <1>8 DEF PlanInv

\* With no batch and no plan there is little to keep.
LEMMA PlanWhenIdle ==
    ASSUME IInv, PlanInv, phase' = "idle", PlanIsEmpty', batch' = <<>>, work' = <<>>,
           UNCHANGED <<graphVars, nodeVars, thread, txn>>
    PROVE  PlanInv'
<1>1. /\ Range(batch') = {} /\ Range(toAdd') = {} /\ Range(toRemove') = {}
      /\ Range(linksToAdd') = {} /\ Range(linksToRemove') = {} /\ AddedOnce(batch')
  BY SMTT(30), ElementsOfEmpty DEF PlanIsEmpty, AddedOnce
<1>2. AddsAreNew' /\ RemovalsAreKnown'
  BY <1>1 DEF PlanInv, AddsAreNew, RemovalsAreKnown, graphVars
<1>3. UnbornHasNoThread' /\ ReadyHasInstance'
  BY DEF PlanInv, UnbornHasNoThread, ReadyHasInstance, graphVars, nodeVars
<1>4. PlanFollowsPhase' /\ BarrierHolds' /\ WiringsStay'
  BY <1>1 DEF PlanFollowsPhase, BarrierHolds, WiringsStay, Wirings
<1>. QED  BY <1>2, <1>3, <1>4 DEF PlanInv

LEMMA PlanReturn ==
    ASSUME IInv, PlanInv, ReturnOk \/ Abort
    PROVE  PlanInv'
  BY PlanWhenIdle DEF ReturnOk, Abort, Return, PlanIsEmpty, threadVars

LEMMA PlanCaller ==
    ASSUME IInv, PlanInv, NEW c \in Callers, RequestCommit(c) \/ TakeBatch(c)
    PROVE  PlanInv'
<1>1. CASE UNCHANGED <<graphVars, nodeVars, threadVars, txn, planVars, compileVars>>
  BY <1>1
     DEF PlanInv, AddsAreNew, UnbornHasNoThread, RemovalsAreKnown, PlanFollowsPhase, PlanIsEmpty,
         ReadyHasInstance, BarrierHolds, WiringsStay, Wirings, EdgeIn, graphVars, nodeVars,
         threadVars, planVars, compileVars
<1>2. CASE TakeBatch(c) /\ txn # <<>>
  <2>1. /\ phase = "idle" /\ phase' = "categorize" /\ batch' = txn /\ txn' = <<>>
        /\ UNCHANGED <<graphVars, nodeVars, thread, planVars>>
    BY <1>2 DEF TakeBatch, threadVars
  <2>2. /\ Range(txn') = {} /\ AddedOnce(txn') /\ Range(batch') = Range(txn)
        /\ Range(toAdd') = {} /\ Range(toRemove') = {}
        /\ Range(linksToAdd') = {} /\ Range(linksToRemove') = {}
    BY SMTT(30), <2>1, ElementsOfEmpty
       DEF PlanInv, PlanFollowsPhase, PlanIsEmpty, AddedOnce, planVars
  <2>3. AddsAreNew' /\ RemovalsAreKnown'
    BY <2>1, <2>2 DEF PlanInv, AddsAreNew, RemovalsAreKnown, graphVars
  <2>4. UnbornHasNoThread' /\ ReadyHasInstance'
    BY <2>1 DEF PlanInv, UnbornHasNoThread, ReadyHasInstance, graphVars, nodeVars
  <2>5. PlanFollowsPhase' /\ BarrierHolds' /\ WiringsStay'
    BY <2>1, <2>2 DEF PlanFollowsPhase, BarrierHolds, WiringsStay, Wirings
  <2>. QED  BY <2>3, <2>4, <2>5 DEF PlanInv
<1>. QED
  BY <1>1, <1>2 DEF RequestCommit, TakeBatch, compileVars

\* An operation leaves the batch for the one list it belongs in.
LEMMA SortsOne ==
    ASSUME IInv, Categorize, NEW o, o = Head(batch)
    PROVE  /\ o \in PendingOperation /\ Range(batch) = {o} \cup Range(batch')
           /\ o.op \in {"AddProcessor", "RemoveProcessor"} => o.id \in Processors
           /\ o.op \in {"AddLink", "RemoveLink"} => o.id \in Links
           /\ o = Op(o.op, o.id)
           /\ Range(toAdd') = Range(toAdd) \cup {y \in {o.id} : AddIsDue(o)}
           /\ Range(toRemove') = Range(toRemove) \cup {y \in {o.id} : o.op = "RemoveProcessor"}
           /\ Range(linksToAdd') = Range(linksToAdd) \cup {y \in {o.id} : WiringIsDue(o)}
           /\ Range(linksToRemove') =
                Range(linksToRemove) \cup {y \in {o.id} : o.op = "RemoveLink"}
<1>1. /\ o \in PendingOperation /\ Range(batch) = {o} \cup Range(batch')
  <2>1. batch \in Seq(PendingOperation) /\ batch # <<>> /\ batch' = Tail(batch)
    BY DEF Categorize, IInv, TypeOK
  <2>. QED  BY <2>1, HeadAndTail
<1>2. /\ o.op \in {"AddProcessor", "RemoveProcessor"} => o.id \in Processors
      /\ o.op \in {"AddLink", "RemoveLink"} => o.id \in Links
      /\ o = Op(o.op, o.id)
  BY <1>1 DEF PendingOperation, Op
<1>3. /\ toAdd' = Append1(toAdd, AddIsDue(o), o.id)
      /\ toRemove' = Append1(toRemove, o.op = "RemoveProcessor", o.id)
      /\ linksToAdd' = Append1(linksToAdd, WiringIsDue(o), o.id)
      /\ linksToRemove' = Append1(linksToRemove, o.op = "RemoveLink", o.id)
  BY DEF Categorize
<1>4. /\ toAdd \in Seq(Processors) /\ (AddIsDue(o) => o.id \in Processors)
      /\ toRemove \in Seq(Processors) /\ (o.op = "RemoveProcessor" => o.id \in Processors)
      /\ linksToAdd \in Seq(Links) /\ (WiringIsDue(o) => o.id \in Links)
      /\ linksToRemove \in Seq(Links) /\ (o.op = "RemoveLink" => o.id \in Links)
  BY <1>2 DEF IInv, TypeOK, AddIsDue, WiringIsDue
<1>5. Range(toAdd') = Range(toAdd) \cup {y \in {o.id} : AddIsDue(o)}
  BY SMTT(30), <1>3, <1>4, ElementsOfAppend1
<1>6. Range(toRemove') = Range(toRemove) \cup {y \in {o.id} : o.op = "RemoveProcessor"}
  <2>1. CASE o.op = "RemoveProcessor"
    <3>1. toRemove' = Append(toRemove, o.id)
      BY <1>3, <2>1 DEF Append1
    <3>. QED  BY SMTT(30), <3>1, <2>1, <1>4, ElementsOfAppend
  <2>2. CASE o.op # "RemoveProcessor"
    BY <1>3, <2>2 DEF Append1
  <2>. QED  BY <2>1, <2>2
<1>7. Range(linksToAdd') = Range(linksToAdd) \cup {y \in {o.id} : WiringIsDue(o)}
  BY SMTT(30), <1>3, <1>4, ElementsOfAppend1
<1>8. Range(linksToRemove') = Range(linksToRemove) \cup {y \in {o.id} : o.op = "RemoveLink"}
  <2>1. CASE o.op = "RemoveLink"
    <3>1. linksToRemove' = Append(linksToRemove, o.id)
      BY <1>3, <2>1 DEF Append1
    <3>. QED  BY SMTT(30), <3>1, <2>1, <1>4, ElementsOfAppend
  <2>2. CASE o.op # "RemoveLink"
    BY <1>3, <2>2 DEF Append1
  <2>. QED  BY <2>1, <2>2
<1>. QED  BY <1>1, <1>2, <1>5, <1>6, <1>7, <1>8

LEMMA PlanCategorize ==
    ASSUME IInv, PlanInv, Categorize
    PROVE  PlanInv'
<1> DEFINE o == Head(batch)
<1>1. /\ o \in PendingOperation /\ Range(batch) = {o} \cup Range(batch')
  BY SortsOne
<1>2. AddedOnce(batch') /\ (o.op = "AddProcessor" => o \notin Range(batch'))
  BY AddedOnceTail DEF Categorize, IInv, TypeOK, PlanInv, AddsAreNew
<1>3. /\ o.op \in {"AddProcessor", "RemoveProcessor"} => o.id \in Processors
      /\ o.op \in {"AddLink", "RemoveLink"} => o.id \in Links
      /\ o = Op(o.op, o.id)
  BY SortsOne
<1>4. /\ Range(toAdd') = Range(toAdd) \cup {y \in {o.id} : AddIsDue(o)}
      /\ Range(toRemove') = Range(toRemove) \cup {y \in {o.id} : o.op = "RemoveProcessor"}
      /\ Range(linksToAdd') = Range(linksToAdd) \cup {y \in {o.id} : WiringIsDue(o)}
      /\ Range(linksToRemove') =
           Range(linksToRemove) \cup {y \in {o.id} : o.op = "RemoveLink"}
  BY SortsOne
<1>5. /\ phase = "categorize" /\ phase' = "categorize"
      /\ UNCHANGED <<graphVars, nodeVars, threadVars, txn>>
  BY DEF Categorize
<1>6. /\ AddIsDue(o) => o.op = "AddProcessor"
      /\ WiringIsDue(o) => o.op = "AddLink" /\ o.id \notin marked /\ EdgeIn(o.id)
  BY DEF AddIsDue, WiringIsDue
<1>7. \A k1, k2, x, y : Op(k1, x) = Op(k2, y) => k1 = k2 /\ x = y
  BY DEF Op
<1>. HIDE DEF o
<1>. USE <1>5 DEF PlanInv, graphVars, nodeVars, threadVars
<1>8. AddsAreNew'
  <2>1. SUFFICES ASSUME NEW p \in Processors, NEW a, a = Op("AddProcessor", p)
                 PROVE  /\ a \in Range(txn') => a \notin Range(batch')
                        /\ a \in Range(txn') \cup Range(batch') =>
                             node'[p] # "unborn" /\ thread'[p] = "none" /\ p \notin Range(toAdd')
    BY <1>2 DEF AddsAreNew
  <2>2. /\ a \in Range(txn) => a \notin Range(batch)
        /\ a \in Range(txn) \cup Range(batch) =>
             node[p] # "unborn" /\ thread[p] = "none" /\ p \notin Range(toAdd)
    BY <2>1 DEF AddsAreNew
  <2>3. p = o.id /\ AddIsDue(o) => a = o
    BY <1>3, <1>6, <2>1
  <2>. QED  BY <1>1, <1>2, <1>4, <1>6, <2>2, <2>3
<1>9. RemovalsAreKnown'
  <2>1. /\ o.op = "RemoveLink" => o.id \in marked /\ edge[o.id] # "unborn"
        /\ o.op = "RemoveProcessor" => node[o.id] # "unborn"
    BY <1>1, <1>3 DEF RemovalsAreKnown
  <2>. QED  BY <1>1, <1>4, <2>1 DEF RemovalsAreKnown
<1>10. UnbornHasNoThread' /\ ReadyHasInstance' /\ PlanFollowsPhase'
  BY DEF UnbornHasNoThread, ReadyHasInstance, PlanFollowsPhase
<1>11. BarrierHolds'
  <2>1. AddIsDue(o) => thread[o.id] = "none"
    BY <1>1, <1>3, <1>6 DEF AddsAreNew
  <2>. QED  BY <1>4, <2>1 DEF BarrierHolds, BarrierPhases
<1>12. WiringsStay'
  <2>1. SUFFICES ASSUME NEW l \in Range(linksToAdd')
                 PROVE  /\ EdgeIn(l)
                        /\ l \notin Range(linksToRemove') /\ Op("RemoveLink", l) \notin Range(batch')
    BY DEF WiringsStay, Wirings, EdgeIn
  <2>2. CASE l \in Range(linksToAdd)
    <3>1. /\ EdgeIn(l) /\ l \notin Range(linksToRemove)
          /\ Op("RemoveLink", l) \notin Range(batch)
      BY <2>2 DEF WiringsStay, Wirings
    <3>. QED  BY <1>1, <1>3, <1>4, <3>1
  <2>3. CASE l = o.id /\ WiringIsDue(o)
    <3>1. l \in Links /\ l \notin marked /\ EdgeIn(l) /\ o.op # "RemoveLink"
      BY <1>3, <1>6, <2>3
    <3>. QED  BY <1>1, <1>4, <3>1 DEF RemovalsAreKnown
  <2>. QED  BY <1>4, <2>1, <2>2, <2>3
<1>. QED  BY <1>8, <1>9, <1>10, <1>11, <1>12

LEMMA PlanBeginReconcile ==
    ASSUME IInv, PlanInv, BeginReconcile
    PROVE  PlanInv'
<1>1. /\ phase = "categorize" /\ phase' = "reconcile" /\ batch = <<>>
      /\ Range(work') = Range(linksToAdd) /\ Range(linksToAdd') = {} /\ Range(batch) = {}
      /\ UNCHANGED <<graphVars, nodeVars, threadVars, txn, toAdd, toRemove, linksToRemove, batch>>
  BY ElementsOfEmpty DEF BeginReconcile
<1>. USE DEF PlanInv, graphVars, nodeVars, threadVars
<1>2. AddsAreNew' /\ RemovalsAreKnown' /\ UnbornHasNoThread' /\ ReadyHasInstance'
  BY <1>1 DEF AddsAreNew, RemovalsAreKnown, UnbornHasNoThread, ReadyHasInstance
<1>3. PlanFollowsPhase' /\ BarrierHolds'
  BY <1>1 DEF PlanFollowsPhase, BarrierHolds, BarrierPhases
<1>4. WiringsStay'
  BY <1>1 DEF WiringsStay, Wirings, EdgeIn
<1>. QED  BY <1>2, <1>3, <1>4

LEMMA PlanReconcile ==
    ASSUME IInv, PlanInv, DropLinkAddsIntoRemovedProcessors
    PROVE  PlanInv'
<1> DEFINE x == Head(work)
<1>1. /\ phase = "reconcile" /\ phase' = "reconcile"
      /\ linksToAdd' = Append1(linksToAdd, KeepsEndpoints(x), x)
      /\ UNCHANGED <<graphVars, nodeVars, threadVars, txn, toAdd, toRemove, linksToRemove, batch>>
  BY DEF DropLinkAddsIntoRemovedProcessors
<1>2. x \in Links /\ Range(work) = {x} \cup Range(work') /\ linksToAdd \in Seq(Links)
  <2>1. work \in Seq(Links) /\ work # <<>> /\ work' = Tail(work) /\ linksToAdd \in Seq(Links)
    BY DEF DropLinkAddsIntoRemovedProcessors, IInv, WorkFitsPhase, LinkPhases, TypeOK
  <2>. QED  BY <2>1, HeadAndTail
<1>. HIDE DEF x
<1>3. Range(linksToAdd') \subseteq Range(linksToAdd) \cup {y \in {x} : KeepsEndpoints(x)}
  BY SMTT(30), <1>1, <1>2, ElementsOfAppend1
<1>4. KeepsEndpoints(x) => Source[x] \notin Range(toRemove) /\ Target[x] \notin Range(toRemove)
  BY ElementsOfEmpty DEF KeepsEndpoints
<1>. USE DEF PlanInv, graphVars, nodeVars, threadVars
<1>5. AddsAreNew' /\ RemovalsAreKnown' /\ UnbornHasNoThread' /\ ReadyHasInstance'
  BY <1>1 DEF AddsAreNew, RemovalsAreKnown, UnbornHasNoThread, ReadyHasInstance
<1>6. PlanFollowsPhase' /\ BarrierHolds'
  BY <1>1 DEF PlanFollowsPhase, BarrierHolds, BarrierPhases
<1>7. WiringsStay'
  <2>1. SUFFICES ASSUME NEW l \in Wirings'
                 PROVE  /\ EdgeIn(l)
                        /\ l \notin Range(linksToRemove) /\ Op("RemoveLink", l) \notin Range(batch)
                        /\ l \in Range(linksToAdd') =>
                             Source[l] \notin Range(toRemove) /\ Target[l] \notin Range(toRemove)
    BY <1>1 DEF WiringsStay, EdgeIn
  <2>2. l \in Wirings
    BY <1>1, <1>2, <1>3 DEF Wirings
  <2>3. /\ EdgeIn(l)
        /\ l \notin Range(linksToRemove) /\ Op("RemoveLink", l) \notin Range(batch)
        /\ l \in Range(linksToAdd) =>
             Source[l] \notin Range(toRemove) /\ Target[l] \notin Range(toRemove)
    BY <1>1, <2>2 DEF WiringsStay
  <2>. QED  BY <1>3, <1>4, <2>3
<1>. QED  BY <1>5, <1>6, <1>7

\* A phase that has visited all its list hands over to the next.
LEMMA PlanAdvance ==
    ASSUME IInv, PlanInv, AdvancePhase
    PROVE  PlanInv'
<1>1. /\ Range(work) = {}
      /\ UNCHANGED <<graphVars, nodeVars, threadVars, txn, planVars, batch>>
  BY ElementsOfEmpty DEF AdvancePhase
<1>2. \/ phase = "reconcile" /\ phase' = "unlink"
      \/ phase = "unlink" /\ phase' = "signal"
      \/ phase = "signal" /\ phase' = "prepare"
      \/ phase = "prepare" /\ phase' = "spawn"
      \/ phase = "spawn" /\ phase' = "awaitReady"
      \/ phase = "awaitReady" /\ phase' = "wire"
      \/ phase = "wire" /\ phase' = "continue"
      \/ phase = "continue" /\ phase' = "config"
  BY SMTT(30) DEF AdvancePhase, Following
<1>3. /\ phase' = "unlink" => work' = linksToRemove
      /\ phase' = "signal" => work' = toRemove
      /\ phase' \in {"prepare", "spawn", "awaitReady", "continue"} => work' = toAdd
      /\ phase' = "wire" => work' = linksToAdd
  BY DEF AdvancePhase, WorkOf
<1>. USE DEF PlanInv, graphVars, nodeVars, threadVars, planVars
<1>4. AddsAreNew' /\ RemovalsAreKnown' /\ UnbornHasNoThread' /\ ReadyHasInstance'
  BY <1>1 DEF AddsAreNew, RemovalsAreKnown, UnbornHasNoThread, ReadyHasInstance
<1>5. PlanFollowsPhase'
  BY <1>1, <1>2, <1>3 DEF PlanFollowsPhase
<1>6. BarrierHolds'
  <2>1. SUFFICES ASSUME NEW p \in Range(toAdd)
                 PROVE  /\ phase' \in {"prepare"} \cup RemovalPhases => thread[p] = "none"
                        /\ phase' \in BarrierPhases => cont[p] = "none"
                        /\ phase' \in BarrierPhases => thread[p] \in {"none", "started", "ready"}
                        /\ phase' \in {"wire", "continue", "config"} =>
                             thread[p] \notin {"none", "started"}
                        /\ phase' = "config" => cont[p] = "sent"
    BY <1>1, <1>2, <1>3 DEF BarrierHolds
  <2>. QED  BY <1>1, <1>2 DEF BarrierHolds, BarrierPhases, RemovalPhases
<1>7. WiringsStay'
  <2>1. SUFFICES ASSUME NEW l \in Range(linksToAdd)
                 PROVE  /\ EdgeIn(l)
                        /\ l \notin Range(linksToRemove) /\ Op("RemoveLink", l) \notin Range(batch)
                        /\ Source[l] \notin Range(toRemove) /\ Target[l] \notin Range(toRemove)
                        /\ phase' \in {"continue", "config"} => edge[l] = "Wired"
    BY <1>1, <1>2, <1>3 DEF WiringsStay, Wirings, EdgeIn
  <2>. QED  BY <1>1, <1>2 DEF WiringsStay, Wirings
<1>. QED  BY <1>4, <1>5, <1>6, <1>7

\* While the plan stands, what is logged keeps its sense as long as nothing in
\* the graph becomes unborn again and no thread starts outside the plan.
LEMMA PendingKept ==
    ASSUME IInv, PlanInv, UNCHANGED <<marked, txn, batch, planVars>>,
           \A p \in Processors : node[p] # "unborn" => node'[p] # "unborn",
           \A l \in Links : edge[l] # "unborn" => edge'[l] # "unborn",
           \A p \in Processors :
               thread'[p] # thread[p] => thread[p] # "none" \/ p \in Range(toAdd)
    PROVE  AddsAreNew' /\ RemovalsAreKnown'
<1>1. AddsAreNew'
  <2>1. AddedOnce(txn') /\ AddedOnce(batch')
    BY DEF PlanInv, AddsAreNew
  <2>2. ASSUME NEW p \in Processors, NEW a, a = Op("AddProcessor", p)
        PROVE  /\ a \in Range(txn') => a \notin Range(batch')
               /\ a \in Range(txn') \cup Range(batch') =>
                    node'[p] # "unborn" /\ thread'[p] = "none" /\ p \notin Range(toAdd')
    BY <2>2 DEF PlanInv, AddsAreNew, planVars
  <2>. QED  BY <2>1, <2>2 DEF AddsAreNew
<1>2. RemovalsAreKnown'
  BY PlanTypes DEF PlanInv, RemovalsAreKnown, planVars
<1>. QED  BY <1>1, <1>2

\* The head of a list being walked, and what is left of it.
LEMMA VisitHead ==
    ASSUME IInv, work # <<>>
    PROVE  /\ phase \in LinkPhases => Head(work) \in Links
           /\ phase \in ProcessorPhases => Head(work) \in Processors
           /\ phase \in LinkPhases \cup ProcessorPhases =>
                Range(work) = {Head(work)} \cup Range(Tail(work))
<1>1. CASE phase \in LinkPhases
  BY <1>1, HeadAndTail DEF IInv, WorkFitsPhase, LinkPhases, ProcessorPhases
<1>2. CASE phase \in ProcessorPhases
  BY <1>2, HeadAndTail DEF IInv, WorkFitsPhase, LinkPhases, ProcessorPhases
<1>. QED  BY <1>1, <1>2

\* The removal phases touch only links and processors the plan removes, none of
\* which a wiring of the plan needs.
LEMMA PlanUnlink ==
    ASSUME IInv, PlanInv, UnwireLink \/ DropEdge
    PROVE  PlanInv'
<1> DEFINE x == Head(work)
<1>1. /\ phase \in {"unlink", "dropEdge"} /\ phase' \in {"unlink", "dropEdge"}
      /\ work # <<>> /\ work' \in {work, Tail(work)}
      /\ UNCHANGED <<node, marked, nodeVars, threadVars, txn, planVars, batch>>
  BY DEF UnwireLink, DropEdge, Visited, IInv, WorkFitsPhase
<1>2. x \in Links /\ Range(work) = {x} \cup Range(Tail(work))
  BY <1>1, VisitHead DEF LinkPhases
<1>3. x \in Range(linksToRemove) /\ Range(work') \subseteq Range(work)
  BY <1>1, <1>2 DEF PlanInv, PlanFollowsPhase
<1>4. \A l \in Links : /\ l # x => edge'[l] = edge[l]
                       /\ edge[l] # "unborn" => edge'[l] # "unborn"
  BY <1>2 DEF UnwireLink, DropEdge, IInv, TypeOK
<1>. HIDE DEF x
<1>5. AddsAreNew' /\ RemovalsAreKnown'
  BY <1>1, <1>4, PendingKept DEF threadVars
<1>. USE DEF PlanInv, nodeVars, threadVars, planVars
<1>6. UnbornHasNoThread' /\ ReadyHasInstance'
  BY <1>1 DEF UnbornHasNoThread, ReadyHasInstance
<1>7. PlanFollowsPhase' /\ BarrierHolds'
  BY <1>1, <1>3 DEF PlanFollowsPhase, BarrierHolds, BarrierPhases, RemovalPhases
<1>8. WiringsStay'
  <2>1. SUFFICES ASSUME NEW l \in Range(linksToAdd)
                 PROVE  /\ EdgeIn(l)'
                        /\ l \notin Range(linksToRemove) /\ Op("RemoveLink", l) \notin Range(batch)
                        /\ Source[l] \notin Range(toRemove) /\ Target[l] \notin Range(toRemove)
    BY <1>1 DEF WiringsStay, Wirings
  <2>2. /\ EdgeIn(l) /\ l \in Links
        /\ l \notin Range(linksToRemove) /\ Op("RemoveLink", l) \notin Range(batch)
        /\ Source[l] \notin Range(toRemove) /\ Target[l] \notin Range(toRemove)
    BY <1>1, PlanTypes DEF WiringsStay, Wirings
  <2>. QED  BY <1>3, <1>4, <2>2 DEF EdgeIn
<1>. QED  BY <1>5, <1>6, <1>7, <1>8

LEMMA PlanRemoval ==
    ASSUME IInv, PlanInv, SignalShutdown \/ JoinAndForget
    PROVE  PlanInv'
<1> DEFINE x == Head(work)
<1>1. /\ phase \in {"signal", "join"} /\ phase' \in {"signal", "join"}
      /\ work # <<>> /\ work' \in {work, Tail(work)}
      /\ UNCHANGED <<marked, instance, threadVars, txn, planVars, batch>>
  BY DEF SignalShutdown, removalFrame, graphVars, JoinAndForget, Forget, Visited, IInv,
     WorkFitsPhase
<1>2. x \in Processors /\ Range(work) = {x} \cup Range(Tail(work))
  BY <1>1, VisitHead DEF ProcessorPhases
<1>3. x \in Range(toRemove) /\ Range(work') \subseteq Range(work)
  BY <1>1, <1>2 DEF PlanInv, PlanFollowsPhase
<1>4. \A l \in Links : /\ x \notin {Source[l], Target[l]} => edge'[l] = edge[l]
                       /\ edge[l] # "unborn" => edge'[l] # "unborn"
  <2>1. CASE SignalShutdown
    BY <2>1 DEF SignalShutdown, removalFrame, graphVars
  <2>2. CASE JoinAndForget
    <3>1. edge' = [l \in Links |-> IF EdgeIn(l) /\ x \in {Source[l], Target[l]}
                                   THEN "removed" ELSE edge[l]]
      BY <2>2 DEF JoinAndForget, Forget
    <3>. QED  BY <3>1
  <2>. QED  BY <2>1, <2>2
<1>5. \A p \in Processors : /\ node[p] # "unborn" => node'[p] # "unborn"
                            /\ node'[p] = "unborn" => node[p] = "unborn"
  BY <1>2
     DEF SignalShutdown, removalFrame, graphVars, JoinAndForget, Forget, IInv, TypeOK
<1>. HIDE DEF x
<1>6. AddsAreNew' /\ RemovalsAreKnown'
  BY <1>1, <1>4, <1>5, PendingKept DEF threadVars
<1>. USE DEF PlanInv, threadVars, planVars
<1>7. UnbornHasNoThread' /\ ReadyHasInstance'
  BY <1>1, <1>5 DEF UnbornHasNoThread, ReadyHasInstance
<1>8. PlanFollowsPhase' /\ BarrierHolds'
  BY <1>1, <1>3 DEF PlanFollowsPhase, BarrierHolds, BarrierPhases, RemovalPhases
<1>9. WiringsStay'
  <2>1. SUFFICES ASSUME NEW l \in Range(linksToAdd)
                 PROVE  /\ EdgeIn(l)'
                        /\ l \notin Range(linksToRemove) /\ Op("RemoveLink", l) \notin Range(batch)
                        /\ Source[l] \notin Range(toRemove) /\ Target[l] \notin Range(toRemove)
    BY <1>1 DEF WiringsStay, Wirings
  <2>2. /\ EdgeIn(l) /\ l \in Links
        /\ l \notin Range(linksToRemove) /\ Op("RemoveLink", l) \notin Range(batch)
        /\ Source[l] \notin Range(toRemove) /\ Target[l] \notin Range(toRemove)
    BY <1>1, PlanTypes DEF WiringsStay, Wirings
  <2>. QED  BY <1>3, <1>4, <2>2 DEF EdgeIn
<1>. QED  BY <1>6, <1>7, <1>8, <1>9

LEMMA PlanPrepare ==
    ASSUME IInv, PlanInv, PrepareProcessor
    PROVE  PlanInv'
<1> DEFINE x == Head(work)
<1>1. /\ phase = "prepare" /\ phase' = "prepare" /\ work # <<>> /\ work' = Tail(work)
      /\ cont' = [cont EXCEPT ![x] = "none"] /\ cont \in [Processors -> {"none", "sent", "dropped"}]
      /\ UNCHANGED <<graphVars, instance, thread, txn, planVars, batch>>
  BY DEF PrepareProcessor, Visited, IInv, TypeOK
<1>2. x \in Processors /\ Range(work) = {x} \cup Range(work')
  BY <1>1, VisitHead DEF ProcessorPhases
<1>3. AddsAreNew' /\ RemovalsAreKnown'
  BY <1>1, PendingKept DEF graphVars
<1>. USE DEF PlanInv, graphVars, planVars
<1>4. UnbornHasNoThread' /\ ReadyHasInstance' /\ PlanFollowsPhase'
  BY <1>1 DEF UnbornHasNoThread, ReadyHasInstance, PlanFollowsPhase
<1>5. WiringsStay'
  BY <1>1 DEF WiringsStay, Wirings, EdgeIn
<1>. HIDE DEF x
<1>6. BarrierHolds'
  BY <1>1, <1>2, PlanTypes DEF BarrierHolds, BarrierPhases, RemovalPhases
<1>. QED  BY <1>3, <1>4, <1>5, <1>6

LEMMA PlanSpawn ==
    ASSUME IInv, PlanInv, SpawnThread
    PROVE  PlanInv'
<1> DEFINE x == Head(work)
<1>1. /\ phase = "spawn" /\ phase' \in {"spawn", "attachHandle"} /\ work # <<>>
      /\ UNCHANGED <<graphVars, nodeVars, cont, txn, planVars, batch>>
      /\ thread' = thread \/ (NodeIn(x) /\ thread' = [thread EXCEPT ![x] = "started"])
  BY DEF SpawnThread
<1>2. x \in Processors /\ x \in Range(toAdd)
  BY <1>1, VisitHead DEF ProcessorPhases, IInv, WorkFitsPhase, SpawnPhases
<1>. HIDE DEF x
<1>3. \A p \in Processors :
        thread'[p] = thread[p] \/ (p = x /\ NodeIn(x) /\ thread'[p] = "started")
  BY <1>1, <1>2 DEF IInv, TypeOK
<1>4. AddsAreNew' /\ RemovalsAreKnown'
  BY <1>1, <1>2, <1>3, PendingKept DEF graphVars
<1>. USE DEF PlanInv, graphVars, nodeVars, planVars
<1>5. UnbornHasNoThread' /\ ReadyHasInstance' /\ PlanFollowsPhase'
  BY <1>1, <1>3 DEF UnbornHasNoThread, ReadyHasInstance, PlanFollowsPhase, NodeIn
<1>6. WiringsStay'
  BY <1>1 DEF WiringsStay, Wirings, EdgeIn
<1>7. BarrierHolds'
  BY <1>1, <1>3, PlanTypes DEF BarrierHolds, BarrierPhases, RemovalPhases
<1>. QED  BY <1>4, <1>5, <1>6, <1>7

LEMMA PlanAttach ==
    ASSUME IInv, PlanInv, AttachHandle
    PROVE  PlanInv'
<1>1. CASE Abort
  BY <1>1, PlanReturn
<1>2. CASE ~Abort
  <2>1. /\ phase = "attachHandle" /\ phase' = "spawn"
        /\ UNCHANGED <<graphVars, instance, threadVars, txn, planVars, batch>>
    BY <1>2 DEF AttachHandle
  <2>2. AddsAreNew' /\ RemovalsAreKnown'
    BY <2>1, PendingKept DEF graphVars, threadVars
  <2>. USE DEF PlanInv, graphVars, threadVars, planVars
  <2>3. UnbornHasNoThread' /\ ReadyHasInstance' /\ PlanFollowsPhase'
    BY <2>1 DEF UnbornHasNoThread, ReadyHasInstance, PlanFollowsPhase
  <2>4. WiringsStay'
    BY <2>1 DEF WiringsStay, Wirings, EdgeIn
  <2>5. BarrierHolds'
    BY <2>1 DEF BarrierHolds, BarrierPhases, RemovalPhases
  <2>. QED  BY <2>2, <2>3, <2>4, <2>5
<1>. QED  BY <1>1, <1>2

\* Each visit of the last phases establishes for the head of the list what the
\* phase has already established for the rest.
LEMMA PlanAwait ==
    ASSUME IInv, PlanInv, AwaitReady \/ ApplyConfig
    PROVE  PlanInv'
<1> DEFINE x == Head(work)
<1>1. /\ phase \in {"awaitReady", "config"} /\ phase' = phase /\ work # <<>> /\ work' = Tail(work)
      /\ phase = "awaitReady" => thread[x] \notin {"none", "started"}
      /\ UNCHANGED <<graphVars, nodeVars, threadVars, txn, planVars, batch>>
  BY DEF AwaitReady, ApplyConfig, Visited
<1>2. x \in Processors /\ Range(work) = {x} \cup Range(work')
  BY <1>1, VisitHead DEF ProcessorPhases
<1>. HIDE DEF x
<1>3. AddsAreNew' /\ RemovalsAreKnown'
  BY <1>1, PendingKept DEF graphVars, threadVars
<1>. USE DEF PlanInv, graphVars, nodeVars, threadVars, planVars
<1>4. UnbornHasNoThread' /\ ReadyHasInstance' /\ PlanFollowsPhase'
  BY <1>1, <1>2 DEF UnbornHasNoThread, ReadyHasInstance, PlanFollowsPhase
<1>5. WiringsStay'
  BY <1>1 DEF WiringsStay, Wirings, EdgeIn
<1>6. BarrierHolds'
  BY <1>1, <1>2 DEF BarrierHolds, BarrierPhases, RemovalPhases
<1>. QED  BY <1>3, <1>4, <1>5, <1>6

LEMMA PlanWire ==
    ASSUME IInv, PlanInv, WireLink
    PROVE  PlanInv'
<1> DEFINE x == Head(work)
<1>1. /\ phase = "wire" /\ phase' = "wire" /\ work # <<>> /\ work' = Tail(work)
      /\ edge' = [edge EXCEPT ![x] = "Wired"]
      /\ UNCHANGED <<node, marked, nodeVars, threadVars, txn, planVars, batch>>
  BY DEF WireLink, WireHead, Visited
<1>2. x \in Links /\ Range(work) = {x} \cup Range(work')
  BY <1>1, VisitHead DEF LinkPhases
<1>. HIDE DEF x
<1>3. \A l \in Links : edge'[l] = IF l = x THEN "Wired" ELSE edge[l]
  BY <1>1 DEF IInv, TypeOK
<1>4. AddsAreNew' /\ RemovalsAreKnown'
  BY SMTT(30), <1>1, <1>3, PendingKept DEF threadVars
<1>. USE DEF PlanInv, nodeVars, threadVars, planVars
<1>5. UnbornHasNoThread' /\ ReadyHasInstance' /\ PlanFollowsPhase'
  BY <1>1, <1>2 DEF UnbornHasNoThread, ReadyHasInstance, PlanFollowsPhase
<1>6. BarrierHolds'
  BY <1>1 DEF BarrierHolds, BarrierPhases, RemovalPhases
<1>7. WiringsStay'
  BY <1>1, <1>2, <1>3, PlanTypes DEF WiringsStay, Wirings, EdgeIn
<1>. QED  BY <1>4, <1>5, <1>6, <1>7

LEMMA PlanContinue ==
    ASSUME IInv, PlanInv, SignalContinue
    PROVE  PlanInv'
<1> DEFINE x == Head(work)
<1>1. /\ phase = "continue" /\ phase' = "continue" /\ work # <<>> /\ work' = Tail(work)
      /\ cont' = [cont EXCEPT ![x] = "sent"]
      /\ UNCHANGED <<graphVars, nodeVars, thread, txn, planVars, batch>>
  BY DEF SignalContinue, Visited
<1>2. x \in Processors /\ Range(work) = {x} \cup Range(work')
  BY <1>1, VisitHead DEF ProcessorPhases
<1>. HIDE DEF x
<1>3. \A p \in Processors : cont'[p] = IF p = x THEN "sent" ELSE cont[p]
  BY <1>1 DEF IInv, TypeOK
<1>4. AddsAreNew' /\ RemovalsAreKnown'
  BY <1>1, PendingKept DEF graphVars
<1>. USE DEF PlanInv, graphVars, nodeVars, planVars
<1>5. UnbornHasNoThread' /\ ReadyHasInstance' /\ PlanFollowsPhase'
  BY <1>1, <1>2 DEF UnbornHasNoThread, ReadyHasInstance, PlanFollowsPhase
<1>6. WiringsStay'
  BY <1>1 DEF WiringsStay, Wirings, EdgeIn
<1>7. BarrierHolds'
  BY <1>1, <1>2, <1>3, PlanTypes DEF BarrierHolds, BarrierPhases, RemovalPhases
<1>. QED  BY <1>4, <1>5, <1>6, <1>7

\* A thread passes its barrier only when CONTINUE was sent or its sender
\* dropped, and sends READY with its instance attached.
LEMMA PlanThread ==
    ASSUME IInv, PlanInv, NEW p \in Processors, ThreadStep(p) \/ ThreadFailure(p)
    PROVE  PlanInv'
<1>1. /\ UNCHANGED <<node, edge, toAdd, phase, work>>
      /\ thread[p] \in Live /\ thread'[p] # "started"
      /\ \A q \in Processors :
           q # p => thread'[q] = thread[q] /\ instance'[q] = instance[q]
      /\ instance[p] => instance'[p]
  BY ThreadFrame
<1>2. UNCHANGED <<marked, cont, txn, planVars, batch>>
  BY DEF ThreadStep, ThreadFailure, ThreadAttachesInstance, ThreadContinues, RunSetup,
         SetupSucceeds, SetupFails, StartFails, LoopReportsFailure, LoopSeesShutdown,
         ThreadExits, threadFrame, graphVars, planVars, compileVars
<1>3. NodeIn(p)
  BY <1>1 DEF IInv, LiveThreadHasNode
<1>4. /\ thread'[p] # "none"
      /\ thread[p] = "started" => thread'[p] = "ready" /\ instance'[p]
      /\ thread[p] = "ready" => cont[p] # "none"
  BY <1>3 DEF ThreadStep, ThreadFailure, ThreadAttachesInstance, ThreadContinues, RunSetup,
         SetupSucceeds, SetupFails, StartFails, LoopReportsFailure, LoopSeesShutdown,
         ThreadExits, Step, IInv, TypeOK
<1>5. AddsAreNew' /\ RemovalsAreKnown'
  BY <1>1, <1>2, PendingKept DEF Live
<1>. USE DEF PlanInv, planVars
<1>6. UnbornHasNoThread'
  BY <1>1, <1>3 DEF UnbornHasNoThread, NodeIn
<1>7. ReadyHasInstance'
  BY <1>1, <1>4 DEF ReadyHasInstance, Live
<1>8. PlanFollowsPhase'
  BY <1>1, <1>2 DEF PlanFollowsPhase, PlanIsEmpty
<1>9. WiringsStay'
  BY <1>1, <1>2 DEF WiringsStay, Wirings, EdgeIn
<1>10. BarrierHolds'
  <2>1. ASSUME NEW q \in Range(toAdd), q # p
        PROVE  thread'[q] = thread[q] /\ cont'[q] = cont[q]
    BY <1>1, <1>2, <2>1, PlanTypes
  <2>2. p \in Range(toAdd) => phase \notin {"categorize", "reconcile", "prepare"} \cup RemovalPhases
    BY <1>1 DEF BarrierHolds, Live
  <2>3. p \in Range(toAdd) /\ phase \in BarrierPhases => thread'[p] = "ready"
    BY <1>1, <1>4 DEF BarrierHolds, BarrierPhases, Live
  <2>. QED  BY <1>1, <1>2, <1>4, <2>1, <2>2, <2>3 DEF BarrierHolds
<1>. QED  BY <1>5, <1>6, <1>7, <1>8, <1>9, <1>10

LEMMA PlanStep == IInv /\ PlanInv /\ [Next]_vars => PlanInv'
<1>. SUFFICES ASSUME IInv, PlanInv, [Next]_vars PROVE PlanInv'
  OBVIOUS
<1>1. CASE Edit
  BY <1>1, PlanEdit
<1>2. ASSUME NEW c \in Callers, RequestCommit(c) \/ TakeBatch(c)
      PROVE  PlanInv'
  BY <1>2, PlanCaller
<1>3. CASE CompileStep
  BY <1>3, PlanCategorize, PlanBeginReconcile, PlanReconcile, PlanAdvance, PlanReturn,
     PlanUnlink,
     PlanRemoval, PlanPrepare, PlanSpawn, PlanAttach, PlanAwait, PlanWire, PlanContinue
     DEF CompileStep, PrepareFindsNoNode, SpawnFails, WireFails, ConfigFails
<1>4. ASSUME NEW p \in Processors, ThreadStep(p) \/ ThreadFailure(p)
      PROVE  PlanInv'
  BY <1>4, PlanThread
<1>5. CASE UNCHANGED vars
  BY <1>5
     DEF vars, PlanInv, AddsAreNew, UnbornHasNoThread, RemovalsAreKnown, PlanFollowsPhase,
         PlanIsEmpty, ReadyHasInstance, BarrierHolds, WiringsStay, Wirings, EdgeIn, graphVars,
         nodeVars, threadVars, planVars, compileVars
<1>. QED  BY <1>1, <1>2, <1>3, <1>4, <1>5 DEF Next

LEMMA PlanInvariance == Safety => []PlanInv
  BY PlanInit, PlanStep, Invariance, PTL DEF Safety

\* The READY/CONTINUE barrier of spawn_processor_op: from SPAWN to WIRE no
\* processor of the batch is past its barrier, so none runs setup() before the
\* batch's links are wired.
THEOREM BarrierHoldsSetupBack == Safety => []SetupWaitsForWiring
<1>1. PlanInv => SetupWaitsForWiring
  BY DEF PlanInv, BarrierHolds, BarrierPhases, SetupWaitsForWiring
<1>. QED  BY <1>1, PlanInvariance, PTL

\* WIRE finds every link it is given: an edge queued for wiring is dropped by no
\* edit, by no removal of its own batch and by no endpoint that leaves.
THEOREM WireFindsEveryLink == Safety => []WiringFindsItsLinks
<1>1. PlanInv => WiringFindsItsLinks
  BY DEF PlanInv, PlanFollowsPhase, WiringsStay, Wirings, WiringFindsItsLinks
<1>. QED  BY <1>1, PlanInvariance, PTL

\* compile() reaches its config updates only with every kept link Wired and
\* every added processor instantiated and released by CONTINUE.
THEOREM CompiledIsWired == Safety => []CompiledMeansWiredAndReleased
<1>1. IInv /\ PlanInv => CompiledMeansWiredAndReleased
  BY PlanTypes
     DEF PlanInv, BarrierHolds, ReadyHasInstance, WiringsStay, Wirings,
         CompiledMeansWiredAndReleased
<1>. QED  BY <1>1, Invariance, PlanInvariance, PTL

-----------------------------------------------------------------------------
(***************************************************************************)
(* What becomes of an operation: DoneInv, and how each step moves one.     *)
(***************************************************************************)

\* Nothing of the graph becomes unborn again, and what was removed stays so.
GraphGrowsOld ==
    /\ \A p \in Processors : /\ node[p] # "unborn" => node'[p] # "unborn"
                             /\ node[p] = "removed" => node'[p] = "removed"
    /\ \A l \in Links : /\ edge[l] # "unborn" => edge'[l] # "unborn"
                        /\ edge[l] = "removed" => edge'[l] = "removed"

\* The five ways a step can treat log, batch and plan.
Logs == LogGrows /\ UNCHANGED <<batch, planVars, phase, work, committer>>

Takes ==
    /\ phase = "idle" /\ phase' = "categorize" /\ batch' = txn /\ txn' = <<>>
    /\ committer' \in Callers
    /\ UNCHANGED <<graphVars, planVars, work>>

Sorts == Categorize

Walks ==
    /\ Wirings' \subseteq Wirings
    /\ phase = "idle" <=> phase' = "idle"
    /\ UNCHANGED <<txn, batch, toAdd, toRemove, linksToRemove, committer>>

Ends ==
    /\ phase \in LatePhases \/ (phase = "reconcile" /\ PlanIsEmpty)
    /\ Return
    /\ UNCHANGED graphVars

LEMMA CompileMoves ==
    ASSUME IInv, PlanInv, CompileStep
    PROVE  Sorts \/ Walks \/ Ends
<1>1. CASE Categorize
  BY <1>1 DEF Sorts
<1>2. CASE BeginReconcile
  BY <1>2, ElementsOfEmpty DEF BeginReconcile, Walks, Wirings, callerVars
<1>3. CASE DropLinkAddsIntoRemovedProcessors
  <2>1. /\ phase = "reconcile" /\ phase' = "reconcile" /\ work' = Tail(work)
        /\ linksToAdd' = Append1(linksToAdd, KeepsEndpoints(Head(work)), Head(work))
        /\ work \in Seq(Links) /\ work # <<>> /\ linksToAdd \in Seq(Links)
        /\ UNCHANGED <<txn, batch, toAdd, toRemove, linksToRemove, committer>>
    BY <1>3 DEF DropLinkAddsIntoRemovedProcessors, callerVars, IInv, TypeOK, WorkFitsPhase,
       LinkPhases
  <2>2. Head(work) \in Links /\ Range(work) = {Head(work)} \cup Range(work')
    BY <2>1, HeadAndTail
  <2>3. Range(linksToAdd') \subseteq
          Range(linksToAdd) \cup {y \in {Head(work)} : KeepsEndpoints(Head(work))}
    BY SMTT(30), <2>1, <2>2, ElementsOfAppend1
  <2>. QED  BY <2>1, <2>2, <2>3 DEF Walks, Wirings
<1>4. CASE AdvancePhase
  <2>1. phase' \notin {"idle", "reconcile"} /\ phase # "idle"
    BY SMTT(30), <1>4 DEF AdvancePhase, Following
  <2>. QED  BY <1>4, <2>1 DEF AdvancePhase, Walks, Wirings, planVars, callerVars
<1>5. CASE ReturnOk
  BY <1>5 DEF ReturnOk, Ends, LatePhases
<1>6. CASE PrepareFindsNoNode \/ SpawnFails \/ WireFails \/ ConfigFails \/ (AttachHandle /\ Abort)
  BY <1>6
     DEF PrepareFindsNoNode, SpawnFails, WireFails, ConfigFails, AttachHandle, Abort, Ends,
         LatePhases
<1>7. CASE UnwireLink \/ DropEdge \/ SignalShutdown \/ JoinAndForget
  BY <1>7
     DEF UnwireLink, DropEdge, SignalShutdown, removalFrame, JoinAndForget, Forget, Walks, Wirings,
         planVars, callerVars
<1>8. CASE PrepareProcessor \/ SpawnThread \/ (AttachHandle /\ ~Abort)
  BY <1>8 DEF PrepareProcessor, SpawnThread, AttachHandle, Walks, Wirings, planVars, callerVars
<1>9. CASE AwaitReady \/ WireLink \/ SignalContinue \/ ApplyConfig
  BY <1>9
     DEF AwaitReady, WireLink, WireHead, SignalContinue, ApplyConfig, Walks, Wirings, planVars,
         callerVars
<1>. QED  BY <1>1, <1>2, <1>3, <1>4, <1>5, <1>6, <1>7, <1>8, <1>9 DEF CompileStep

LEMMA Moves ==
    ASSUME IInv, PlanInv, [Next]_vars
    PROVE  Logs \/ Takes \/ Sorts \/ Walks \/ Ends
<1>1. CASE Edit
  BY <1>1, EditMoves DEF Logs, callerVars
<1>2. ASSUME NEW c \in Callers, TakeBatch(c), txn # <<>>
      PROVE  Takes
  BY <1>2 DEF TakeBatch, Takes
<1>3. ASSUME UNCHANGED <<txn, planVars, phase, batch, work, committer>>
      PROVE  Walks
  BY <1>3 DEF Walks, Wirings, planVars
<1>4. ASSUME NEW c \in Callers, RequestCommit(c) \/ (TakeBatch(c) /\ txn = <<>>)
      PROVE  Walks
  BY <1>3, <1>4 DEF RequestCommit, TakeBatch, compileVars
<1>5. ASSUME NEW p \in Processors, ThreadStep(p) \/ ThreadFailure(p)
      PROVE  Walks
  <2>1. UNCHANGED threadFrame
    BY <1>5 DEF ThreadStep, ThreadFailure, ThreadAttachesInstance, ThreadContinues, RunSetup,
       SetupSucceeds, SetupFails, StartFails, LoopReportsFailure, LoopSeesShutdown, ThreadExits
  <2>. QED  BY <1>3, <2>1 DEF threadFrame, compileVars, callerVars
<1>6. CASE UNCHANGED vars
  BY <1>3, <1>6 DEF vars, compileVars, callerVars
<1>. QED  BY <1>1, <1>2, <1>4, <1>5, <1>6, CompileMoves DEF Next

LEMMA GraphOnlyAges ==
    ASSUME IInv, PlanInv, [Next]_vars
    PROVE  GraphGrowsOld
<1>. USE DEF GraphGrowsOld
<1>1. CASE Edit
  BY <1>1, EditMoves
<1>2. ASSUME UNCHANGED <<node, edge>>  PROVE GraphGrowsOld
  BY <1>2
<1>3. CASE UnwireLink \/ DropEdge
  <2>1. work # <<>> /\ phase \in {"unlink", "dropEdge"} /\ UNCHANGED node
    BY <1>3 DEF UnwireLink, DropEdge, IInv, WorkFitsPhase
  <2>2. Head(work) \in Links
    BY <2>1, VisitHead DEF LinkPhases
  <2>3. edge' = edge \/ (EdgeIn(Head(work)) /\
          \E s \in {"Disconnected", "removed"} : edge' = [edge EXCEPT ![Head(work)] = s])
    BY <1>3 DEF UnwireLink, DropEdge
  <2>. QED  BY <2>1, <2>2, <2>3 DEF EdgeIn, IInv, TypeOK
<1>4. CASE JoinAndForget
  <2> DEFINE x == Head(work)
  <2>1. node' = IF NodeIn(x) THEN [node EXCEPT ![x] = "removed"] ELSE node
    BY <1>4 DEF JoinAndForget, Forget
  <2>2. edge' = [l \in Links |-> IF EdgeIn(l) /\ x \in {Source[l], Target[l]}
                                 THEN "removed" ELSE edge[l]]
    BY <1>4 DEF JoinAndForget, Forget
  <2>3. node \in [Processors -> {"unborn", "in", "removed"}]
    BY DEF IInv, TypeOK
  <2>. HIDE DEF x
  <2>4. \A p \in Processors : /\ node[p] # "unborn" => node'[p] # "unborn"
                              /\ node[p] = "removed" => node'[p] = "removed"
    BY <2>1, <2>3
  <2>5. \A l \in Links : /\ edge[l] # "unborn" => edge'[l] # "unborn"
                         /\ edge[l] = "removed" => edge'[l] = "removed"
    BY <2>2
  <2>. QED  BY <2>4, <2>5
<1>5. CASE WireLink
  <2>1. /\ work # <<>> /\ phase = "wire" /\ UNCHANGED node
        /\ EdgeIn(Head(work)) /\ edge' = [edge EXCEPT ![Head(work)] = "Wired"]
    BY <1>5 DEF WireLink, WireHead
  <2>. QED  BY <2>1 DEF EdgeIn, IInv, TypeOK
<1>6. ASSUME NEW p \in Processors, ThreadStep(p) \/ ThreadFailure(p)
      PROVE  GraphGrowsOld
  BY <1>2, <1>6, ThreadFrame
<1>7. CASE SignalShutdown \/ PrepareProcessor \/ SpawnThread \/ AttachHandle
  BY <1>2, <1>7
     DEF SignalShutdown, removalFrame, PrepareProcessor, SpawnThread, AttachHandle, Abort, graphVars
<1>8. CASE Categorize \/ BeginReconcile \/ DropLinkAddsIntoRemovedProcessors \/ AdvancePhase
           \/ ReturnOk \/ AwaitReady \/ SignalContinue \/ ApplyConfig
  BY <1>2, <1>8
     DEF Categorize, BeginReconcile, DropLinkAddsIntoRemovedProcessors, AdvancePhase, ReturnOk,
         AwaitReady, SignalContinue, ApplyConfig, graphVars
<1>9. CASE PrepareFindsNoNode \/ SpawnFails \/ WireFails \/ ConfigFails
  BY <1>2, <1>9 DEF PrepareFindsNoNode, SpawnFails, WireFails, ConfigFails, Abort, graphVars
<1>10. ASSUME NEW c \in Callers, RequestCommit(c) \/ TakeBatch(c)
       PROVE  GraphGrowsOld
  BY <1>2, <1>10 DEF RequestCommit, TakeBatch, graphVars
<1>11. CASE UNCHANGED vars
  BY <1>2, <1>11 DEF vars, graphVars
<1>. HIDE DEF GraphGrowsOld
<1>. QED
  BY <1>1, <1>3, <1>4, <1>5, <1>6, <1>7, <1>8, <1>9, <1>10, <1>11 DEF Next, CompileStep

\* A plan's removals are done, phase by phase.
LEMMA DoneRemovals ==
    ASSUME IInv, PlanInv, RemovalsDone, [Next]_vars
    PROVE  RemovalsDone'
<1>0. /\ Range(toRemove) \subseteq Processors /\ Range(linksToRemove) \subseteq Links
      /\ GraphGrowsOld
  BY PlanTypes, GraphOnlyAges
<1>1. ASSUME UNCHANGED <<phase, work, toRemove, linksToRemove>>
      PROVE  RemovalsDone'
  BY <1>0, <1>1 DEF RemovalsDone, GraphGrowsOld
<1>2. ASSUME phase \in LatePhases, phase' \in LatePhases, UNCHANGED <<toRemove, linksToRemove>>
      PROVE  RemovalsDone'
  BY <1>0, <1>2 DEF RemovalsDone, GraphGrowsOld, LatePhases
<1>3. ASSUME phase' \in {"idle", "categorize", "reconcile"}
      PROVE  RemovalsDone'
  BY <1>3 DEF RemovalsDone, LatePhases
<1>4. CASE Edit
  BY <1>1, <1>4, EditMoves DEF planVars
<1>5. ASSUME NEW c \in Callers, RequestCommit(c) \/ TakeBatch(c)
      PROVE  RemovalsDone'
  BY <1>1, <1>3, <1>5 DEF RequestCommit, TakeBatch, planVars, compileVars
<1>6. CASE Categorize \/ BeginReconcile \/ DropLinkAddsIntoRemovedProcessors \/ ReturnOk
  BY <1>3, <1>6
     DEF Categorize, BeginReconcile, DropLinkAddsIntoRemovedProcessors, ReturnOk, Return
<1>7. CASE PrepareFindsNoNode \/ SpawnFails \/ WireFails \/ ConfigFails \/ (AttachHandle /\ Abort)
  BY <1>3, <1>7 DEF PrepareFindsNoNode, SpawnFails, WireFails, ConfigFails, Abort, Return
<1>8. CASE PrepareProcessor \/ SpawnThread \/ (AttachHandle /\ ~Abort)
  BY <1>2, <1>8 DEF PrepareProcessor, SpawnThread, AttachHandle, planVars, LatePhases
<1>9. CASE AwaitReady \/ WireLink \/ SignalContinue \/ ApplyConfig
  BY <1>2, <1>9
     DEF AwaitReady, WireLink, WireHead, SignalContinue, ApplyConfig, planVars, LatePhases
<1>10. CASE AdvancePhase
  <2>1. /\ Range(work) = {} /\ UNCHANGED <<node, edge, toRemove, linksToRemove>>
    BY <1>10, ElementsOfEmpty DEF AdvancePhase, graphVars, planVars
  <2>2. \/ phase = "reconcile" /\ phase' = "unlink" /\ work' = linksToRemove
        \/ phase = "unlink" /\ phase' = "signal" /\ work' = toRemove
        \/ phase = "signal" /\ phase' = "prepare"
        \/ phase \in LatePhases /\ phase' \in LatePhases
    BY SMTT(30), <1>10 DEF AdvancePhase, Following, WorkOf, LatePhases
  <2>3. CASE phase \in LatePhases /\ phase' \in LatePhases
    BY <1>2, <2>1, <2>3
  <2>. QED  BY <2>1, <2>2, <2>3 DEF RemovalsDone, LatePhases
<1>11. CASE UnwireLink \/ SignalShutdown
  <2>1. /\ \/ phase = "unlink" /\ phase' = "dropEdge"
           \/ phase = "signal" /\ phase' = "join"
        /\ UNCHANGED <<work, toRemove, linksToRemove>>
    BY <1>11 DEF UnwireLink, SignalShutdown, removalFrame, planVars
  <2>. QED  BY <1>0, <2>1 DEF RemovalsDone, GraphGrowsOld, LatePhases
<1>12. CASE DropEdge
  <2> DEFINE x == Head(work)
  <2>1. /\ phase = "dropEdge" /\ phase' = "unlink" /\ work # <<>> /\ work' = Tail(work)
        /\ edge' = IF EdgeIn(x) THEN [edge EXCEPT ![x] = "removed"] ELSE edge
        /\ UNCHANGED <<toRemove, linksToRemove>>
    BY <1>12 DEF DropEdge, Visited, planVars, IInv, WorkFitsPhase
  <2>2. x \in Links /\ Range(work) = {x} \cup Range(work')
    BY <2>1, VisitHead DEF LinkPhases
  <2>3. edge[x] # "unborn"
    BY <2>1, <2>2 DEF PlanInv, PlanFollowsPhase, RemovalsAreKnown
  <2>. HIDE DEF x
  <2>4. edge'[x] = "removed"
    BY <2>1, <2>2, <2>3 DEF EdgeIn, IInv, TypeOK
  <2>. QED  BY <1>0, <2>1, <2>2, <2>4 DEF RemovalsDone, GraphGrowsOld, LatePhases
<1>13. CASE JoinAndForget
  <2> DEFINE x == Head(work)
  <2>1. /\ phase = "join" /\ phase' = "signal" /\ work # <<>> /\ work' = Tail(work)
        /\ node' = IF NodeIn(x) THEN [node EXCEPT ![x] = "removed"] ELSE node
        /\ UNCHANGED <<toRemove, linksToRemove>>
    BY <1>13 DEF JoinAndForget, Forget, Visited, planVars, IInv, WorkFitsPhase
  <2>2. x \in Processors /\ Range(work) = {x} \cup Range(work')
    BY <2>1, VisitHead DEF ProcessorPhases
  <2>3. node[x] # "unborn"
    BY <2>1, <2>2 DEF PlanInv, PlanFollowsPhase, RemovalsAreKnown
  <2>. HIDE DEF x
  <2>4. node'[x] = "removed"
    BY <2>1, <2>2, <2>3 DEF NodeIn, IInv, TypeOK
  <2>. QED  BY <1>0, <2>1, <2>2, <2>4 DEF RemovalsDone, GraphGrowsOld, LatePhases
<1>14. ASSUME NEW p \in Processors, ThreadStep(p) \/ ThreadFailure(p)
       PROVE  RemovalsDone'
  <2>1. UNCHANGED threadFrame
    BY <1>14 DEF ThreadStep, ThreadFailure, ThreadAttachesInstance, ThreadContinues, RunSetup,
       SetupSucceeds, SetupFails, StartFails, LoopReportsFailure, LoopSeesShutdown, ThreadExits
  <2>. QED  BY <1>1, <2>1 DEF threadFrame, planVars, compileVars
<1>15. CASE UNCHANGED vars
  BY <1>1, <1>15 DEF vars, planVars, compileVars
<1>. QED
  BY <1>4, <1>5, <1>6, <1>7, <1>8, <1>9, <1>10, <1>11, <1>12, <1>13, <1>14, <1>15
     DEF Next, CompileStep

LEMMA DoneInit == Init => DoneInv
<1>. SUFFICES ASSUME Init PROVE DoneInv
  OBVIOUS
<1>1. Range(txn) = {} /\ Range(batch) = {}
  BY ElementsOfEmpty DEF Init
<1>. QED
  BY <1>1 DEF Init, DoneInv, RemovalsDone, LinkAddsAreKnown, GateIsHeld, LatePhases

LEMMA DoneStep == IInv /\ PlanInv /\ DoneInv /\ [Next]_vars => DoneInv'
<1>. SUFFICES ASSUME IInv, PlanInv, DoneInv, [Next]_vars PROVE DoneInv'
  OBVIOUS
<1>1. RemovalsDone'
  BY DoneRemovals DEF DoneInv
<1>2. GateIsHeld'
  <2>1. CASE Logs \/ Walks
    BY <2>1 DEF DoneInv, GateIsHeld, Logs, Walks
  <2>2. CASE Takes
    BY <2>2, CallerAssumption DEF GateIsHeld, Takes
  <2>3. CASE Sorts
    BY <2>3 DEF DoneInv, GateIsHeld, Sorts, Categorize, callerVars
  <2>4. CASE Ends
    BY <2>4 DEF GateIsHeld, Ends, Return
  <2>. QED  BY <2>1, <2>2, <2>3, <2>4, Moves
<1>3. LinkAddsAreKnown'
  <2>1. SUFFICES ASSUME NEW l \in Links, NEW o, o = Op("AddLink", l),
                        o \in Range(txn') \cup Range(batch')
                 PROVE  edge'[l] # "unborn"
    BY DEF LinkAddsAreKnown
  <2>2. o \in Range(txn) \cup Range(batch) => edge'[l] # "unborn"
    BY <2>1, GraphOnlyAges DEF DoneInv, LinkAddsAreKnown, GraphGrowsOld
  <2>3. CASE Logs
    <3>1. MayLog(o) => edge'[l] # "unborn"
      BY <2>1 DEF MayLog, Op
    <3>. QED  BY <2>1, <2>2, <2>3, <3>1 DEF Logs, LogGrows
  <2>4. CASE Takes
    BY <2>1, <2>2, <2>4, ElementsOfEmpty DEF Takes
  <2>5. CASE Sorts
    BY <2>1, <2>2, <2>5, SortsOne DEF Sorts, Categorize
  <2>6. CASE Walks
    BY <2>1, <2>2, <2>6 DEF Walks
  <2>7. CASE Ends
    BY <2>1, <2>2, <2>7, ElementsOfEmpty DEF Ends, Return
  <2>. QED  BY <2>3, <2>4, <2>5, <2>6, <2>7, Moves
<1>. QED  BY <1>1, <1>2, <1>3 DEF DoneInv

LEMMA DoneInvariance == Safety => []DoneInv
  BY DoneInit, DoneStep, Invariance, PlanInvariance, PTL DEF Safety

LEMMA OperationIds ==
    ASSUME NEW o \in Adds \cup Removals
    PROVE  /\ o \in PendingOperation /\ o = Op(o.op, o.id)
           /\ o.op \in {"AddProcessor", "RemoveProcessor"} => o.id \in Processors /\ o.id \notin Links
           /\ o.op \in {"AddLink", "RemoveLink"} => o.id \in Links /\ o.id \notin Processors
  BY GraphAssumption DEF Adds, Removals, PendingOperation, Op

\* An addition that was made is never logged again, and one no commit has before
\* it stays that way.
LEMMA AddsKeep ==
    ASSUME IInv, PlanInv, DoneInv, [Next]_vars, NEW o \in Adds, Known(o)
    PROVE  /\ Known(o)'
           /\ o \notin Range(txn) => o \notin Range(txn')
           /\ Nowhere(o) => Nowhere(o)'
<1>1. /\ o.op \in {"AddProcessor", "AddLink"} /\ o = Op(o.op, o.id)
      /\ o.op = "AddProcessor" => o.id \in Processors /\ o.id \notin Links
      /\ o.op = "AddLink" => o.id \in Links /\ o.id \notin Processors
  BY OperationIds DEF Adds
<1>2. Known(o)'
  BY <1>1, GraphOnlyAges DEF Known, GraphGrowsOld
<1>3. ASSUME o \notin Range(txn)  PROVE o \notin Range(txn')
  <2>1. CASE Logs
    BY <1>1, <1>3, <2>1 DEF Logs, LogGrows, MayLog, Known
  <2>2. CASE Takes
    BY <2>2, ElementsOfEmpty DEF Takes
  <2>3. CASE Sorts \/ Walks \/ Ends
    BY <1>3, <2>3 DEF Sorts, Categorize, Walks, Ends, Return
  <2>. QED  BY <2>1, <2>2, <2>3, Moves
<1>4. ASSUME Nowhere(o)
      PROVE  o \notin Range(batch') /\ o.id \notin Range(toAdd') \cup Wirings'
  <2>1. CASE Logs
    BY <1>4, <2>1 DEF Logs, Nowhere, Wirings, planVars
  <2>2. CASE Takes
    BY <1>4, <2>2 DEF Takes, Nowhere, Wirings, planVars
  <2>3. CASE Sorts
    <3> DEFINE h == Head(batch)
    <3>1. /\ phase' = "categorize"
          /\ Range(batch) = {h} \cup Range(batch') /\ h = Op(h.op, h.id)
          /\ Range(toAdd') = Range(toAdd) \cup {y \in {h.id} : AddIsDue(h)}
          /\ Range(linksToAdd') = Range(linksToAdd) \cup {y \in {h.id} : WiringIsDue(h)}
      BY <2>3, SortsOne DEF Sorts, Categorize
    <3>2. /\ AddIsDue(h) => h.op = "AddProcessor" /\ h.id \in Processors
          /\ WiringIsDue(h) => h.op = "AddLink" /\ h.id \in Links
      BY <2>3, SortsOne DEF Sorts, AddIsDue, WiringIsDue
    <3>. HIDE DEF h
    <3>3. o # h
      BY <1>4, <3>1 DEF Nowhere
    <3>4. ~(o.id = h.id /\ (AddIsDue(h) \/ WiringIsDue(h)))
      BY <1>1, <3>1, <3>2, <3>3
    <3>. QED  BY <1>4, <3>1, <3>4 DEF Nowhere, Wirings
  <2>4. CASE Walks
    BY <1>4, <2>4 DEF Walks, Nowhere
  <2>5. CASE Ends
    BY <2>5, ElementsOfEmpty DEF Ends, Return, Wirings
  <2>. QED  BY <2>1, <2>2, <2>3, <2>4, <2>5, Moves
<1>5. Nowhere(o) => Nowhere(o)'
  BY <1>3, <1>4 DEF Nowhere
<1>. QED  BY <1>2, <1>3, <1>5

\* A removal a commit has in hand is carried out, or stays in hand; a logged one
\* stays logged until a commit takes it in hand.
LEMMA RemovalsKeep ==
    ASSUME IInv, PlanInv, DoneInv, [Next]_vars, NEW o \in Removals
    PROVE  /\ Gone(o) => Gone(o)'
           /\ InHand(o) => InHand(o)'
           /\ o \in Range(txn) => o \in Range(txn') \/ InHand(o)'
<1>1. /\ o.op \in {"RemoveProcessor", "RemoveLink"} /\ o = Op(o.op, o.id)
      /\ o.op = "RemoveProcessor" => o.id \in Processors /\ o.id \notin Links
      /\ o.op = "RemoveLink" => o.id \in Links /\ o.id \notin Processors
  BY OperationIds DEF Removals
<1>2. ASSUME Gone(o)  PROVE Gone(o)'
  BY <1>1, <1>2, GraphOnlyAges DEF Gone, GraphGrowsOld
<1>3. CASE Logs
  BY <1>2, <1>3 DEF Logs, LogGrows, InHand, planVars
<1>4. CASE Takes
  <2>1. Range(batch) = {} /\ Range(toRemove) = {} /\ Range(linksToRemove) = {}
    BY <1>4, ElementsOfEmpty DEF Takes, PlanInv, PlanFollowsPhase, PlanIsEmpty
  <2>2. Range(batch') = Range(txn)
    BY <1>4 DEF Takes
  <2>. QED  BY <1>2, <2>1, <2>2 DEF InHand
<1>5. CASE Sorts
  <2> DEFINE h == Head(batch)
  <2>1. /\ Range(batch) = {h} \cup Range(batch')
        /\ Range(toRemove') = Range(toRemove) \cup {y \in {h.id} : h.op = "RemoveProcessor"}
        /\ Range(linksToRemove') = Range(linksToRemove) \cup {y \in {h.id} : h.op = "RemoveLink"}
        /\ UNCHANGED txn
    BY <1>5, SortsOne DEF Sorts, Categorize
  <2>. HIDE DEF h
  <2>. QED  BY <1>1, <1>2, <2>1 DEF InHand
<1>6. CASE Walks
  BY <1>2, <1>6 DEF Walks, InHand
<1>7. CASE Ends
  <2>1. Range(batch) = {} /\ UNCHANGED <<txn, node, edge>>
    BY <1>7, ElementsOfEmpty
       DEF Ends, Return, LatePhases, graphVars, PlanInv, PlanFollowsPhase
  <2>2. o.id \in Range(toRemove) \cup Range(linksToRemove) => Gone(o)
    <3>1. CASE phase \in LatePhases
      BY <1>1, <3>1, PlanTypes DEF DoneInv, RemovalsDone, Gone
    <3>2. CASE PlanIsEmpty
      BY <3>2, ElementsOfEmpty DEF PlanIsEmpty
    <3>. QED  BY <1>7, <3>1, <3>2 DEF Ends
  <2>. QED  BY <1>2, <2>1, <2>2 DEF InHand
<1>. QED  BY <1>2, <1>3, <1>4, <1>5, <1>6, <1>7, Moves

\* When no commit is under way and the log is empty every operation is seen to;
\* so are, at the end of a commit, the ones it did not find in the log.
LEMMA IdleSettles ==
    ASSUME IInv, PlanInv, phase = "idle"
    PROVE  /\ \A o \in Removals : InHand(o) => Gone(o)
           /\ \A o \in Adds : o \notin Range(txn) => Nowhere(o)
<1>1. /\ Range(batch) = {} /\ Range(toRemove) = {} /\ Range(linksToRemove) = {}
      /\ Range(toAdd) = {} /\ Wirings = {}
  BY ElementsOfEmpty DEF PlanInv, PlanFollowsPhase, PlanIsEmpty, Wirings
<1>. QED  BY <1>1 DEF InHand, Nowhere

\* compile() forgets a removal only when it is done: it ends with an empty plan
\* or from PREPARE on, and the removals come before PREPARE.
THEOREM RemovalsAreCarriedOut == Safety => RemovalsSurviveAborts
<1> DEFINE CarriedOut ==
             /\ \A p \in Range(toRemove) \ Range(toRemove') : node[p] = "removed"
             /\ \A l \in Range(linksToRemove) \ Range(linksToRemove') : edge[l] = "removed"
<1>1. IInv /\ PlanInv /\ DoneInv /\ [Next]_vars => [CarriedOut]_vars
  <2>. SUFFICES ASSUME IInv, PlanInv, DoneInv, [Next]_vars PROVE CarriedOut
    OBVIOUS
  <2>1. CASE Logs \/ Takes \/ Walks
    BY <2>1 DEF Logs, Takes, Walks, planVars
  <2>2. CASE Sorts
    BY <2>2, SortsOne DEF Sorts
  <2>3. CASE Ends
    <3>1. CASE phase \in LatePhases
      BY <3>1 DEF DoneInv, RemovalsDone
    <3>2. CASE PlanIsEmpty
      BY <3>2, ElementsOfEmpty DEF PlanIsEmpty
    <3>. QED  BY <2>3, <3>1, <3>2 DEF Ends
  <2>. QED  BY <2>1, <2>2, <2>3, Moves
<1>. QED
  BY <1>1, Invariance, PlanInvariance, DoneInvariance, PTL DEF Safety, RemovalsSurviveAborts

=============================================================================
