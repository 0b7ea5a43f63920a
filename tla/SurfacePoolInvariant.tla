------------------------ MODULE SurfacePoolInvariant ------------------------
(***************************************************************************)
(* The inductive invariant of SurfacePool, and the proof that every step   *)
(* keeps it.  A slot's frame stays put while a thread's share of its Arc   *)
(* or a connection's lease stands for every holder; so the invariant says, *)
(* of each kind of holder, which share or lease that is.                   *)
(***************************************************************************)
EXTENDS SurfacePool, TLAPS

\* A leaf that names no prover is tried with Zenon, then with the SMT solver.
USE ZenonT(30), SMTT(30)

-----------------------------------------------------------------------------
(* The invariant.                                                          *)

\* Where acquire() is, and what it has made sure of by then.
PoolInv ==
    /\ n = 0 => next = 0
    /\ ~created => n = 0
    /\ pc = "idle" <=> caller = Nobody
    /\ pc # "idle" => n > 0 /\ holds[caller] = NoFrame
    /\ pc \in {"scan", "grow"} => \A s \in Slots : gen[s] < MaxGen
    /\ pc = "retire" => picked \in 1..n /\ gen[picked] > 0
    /\ left <= n
    /\ current = gen
    /\ \A s \in Slots : s > n => gen[s] = 0

\* A thread with a buffer that the reuse test sees has a share of the Arc of a
\* slot whose cache entry stands, and the slot is not in the middle of a
\* hand-off.
ThreadInv ==
    \A t \in Threads :
        /\ holds[t] = NoFrame => t \notin shared /\ t \notin exposed
        /\ holds[t] # NoFrame /\ t \notin exposed =>
              /\ t \in shared
              /\ holds[t] \in cache
              /\ holds[t][2] = gen[holds[t][1]]
              /\ ~(pc = "retire" /\ picked = holds[t][1])

\* A connection is its helper's from the moment it is minted to its end, and
\* has leases and a request in between only.
LineInv ==
    /\ \A c \in Holders :
        /\ c <= minted <=> owner[c] # Nobody
        /\ c <= minted <=> line[c] # "none"
        /\ line[c] \in {"none", "closed"} =>
              op[c] = "idle" /\ \A s \in Slots : leases[s][c] = 0
        /\ op[c] # "idle" => asked[c] \in Frames /\ claims[c][asked[c]] < MaxLeases
        /\ op[c] = "looked_up" => leases[asked[c][1]][c] < MaxLeases
        /\ line[c] = "none" => \A f \in Frames : claims[c][f] = 0
    /\ \A h \in Helpers : conn[h] # 0 =>
        h \in alive /\ owner[conn[h]] = h /\ line[conn[h]] = "up"

\* What connection c owes its helper on frame f: its claims, and the answer
\* that is on its way.
Owed(c, f) == claims[c][f] + (IF op[c] = "leased" /\ asked[c] = f THEN 1 ELSE 0)

\* A helper that never dropped a connection has the one it started with, and
\* a lease there for each claim and each answer on its way, on the slot's
\* current frame.
HelperInv ==
    \A c \in Holders : owner[c] # Nobody /\ owner[c] \notin failed =>
        /\ owner[c] \in alive => conn[owner[c]] = c
        /\ owner[c] \notin alive => \A f \in Frames : claims[c][f] = 0
        /\ \A f \in Frames : Owed(c, f) > 0 => f[2] = gen[f[1]]
        /\ \A f \in Frames : Owed(c, f) <= leases[f[1]][c]

IInv == TypeOK /\ PoolInv /\ CacheServesLiveFrames /\ ThreadInv /\ LineInv /\ HelperInv

-----------------------------------------------------------------------------
(* The two sides of the system.                                            *)

\* The steps of the runtime's threads.
RuntimeStep ==
    \/ AcquireStep
    \/ CachePlainBuffer
    \/ \E t \in Threads :
          \/ AcquireStart(t)
          \/ DropBuffer(t)
          \/ \E f \in Frames : ResolveFromCache(t, f) \/ ResolveByLookup(t, f)

\* The steps of the helpers and of the service's threads.
ServiceStep ==
    \/ \E h \in Helpers :
          \/ ReceiveFrame(h)
          \/ ExchangeFails(h)
          \/ HelperDies(h)
          \/ \E f \in Frames :
                \/ CheckOut(h, f)
                \/ \E c \in Holders : ReleaseFrame(h, c, f)
    \/ \E c \in Holders : RecordLease(c) \/ ConnectionEnds(c)

serviceSide == <<leases, serviceVars, helperVars>>
runtimeSide == <<poolVars, threadVars, current>>

\* Every step is a step of one side.
LEMMA Sides == Next <=> RuntimeStep \/ ServiceStep
  BY DEF Next, RuntimeStep, ServiceStep

\* A step of the runtime leaves leases, connections and helpers alone.
LEMMA RuntimeFrame == RuntimeStep => UNCHANGED serviceSide
  BY DEF RuntimeStep, AcquireStep, ScanSlot, RetireInCache, ScanEnds, Grow, AcquireFails,
         CachePlainBuffer, AcquireStart, DropBuffer, ResolveFromCache, ResolveByLookup,
         serviceSide, serviceVars, helperVars, leaseVars

\* A step of the service leaves the pool, the cache and the threads alone.
LEMMA ServiceFrame == ServiceStep => UNCHANGED runtimeSide
  BY DEF ServiceStep, ReceiveFrame, ExchangeFails, HelperDies, CheckOut, ReleaseFrame,
         RecordLease, ConnectionEnds, runtimeSide, poolVars, threadVars, leaseVars

\* What the counts stand for: the cache has a size, and the reuse test finds no
\* slot free while a thread has a share of it and the cache an entry.  It follows
\* from the types (CountsHold).
CountsMean ==
    /\ Cardinality(cache) \in Nat
    /\ \A s \in Slots, t \in shared, f \in cache :
          MayHandOff(s) => ~(holds[t][1] = s /\ f[1] = s)

-----------------------------------------------------------------------------
(* Types.                                                                  *)

\* The initial state satisfies the invariant.
LEMMA InitIInv == Init => IInv
  <1>. SUFFICES ASSUME Init PROVE IInv
    OBVIOUS
  <1>. USE PoolAssumption, BoundAssumption DEF Init
  <1>1. TypeOK
    <2>0. created \in BOOLEAN
      OBVIOUS
    <2>1. /\ gen \in [Slots -> 0..MaxGen]
          /\ holds \in [Threads -> Frames \cup {NoFrame}]
          /\ current \in [Slots -> 0..MaxGen]
      BY SMTT(30)
    <2>3. leases \in [Slots -> [Holders -> 0..MaxLeases]]
      BY SMTT(30)
    <2>2. /\ owner \in [Holders -> Helpers \cup {Nobody}]
          /\ line \in [Holders -> {"none", "up", "gone", "closed"}]
          /\ op \in [Holders -> {"idle", "looked_up", "leased"}]
          /\ asked \in [Holders -> Frames \cup {NoFrame}]
          /\ conn \in [Helpers -> 0..MaxHolders]
          /\ claims \in [Holders -> [Frames -> 0..MaxLeases]]
      BY SMTT(30)
    <2>. QED  BY SMTT(30), <2>0, <2>1, <2>2, <2>3 DEF TypeOK
  <1>2. PoolInv
    BY SMTT(30) DEF PoolInv, Slots
  <1>3. CacheServesLiveFrames
    BY DEF CacheServesLiveFrames
  <1>4. ThreadInv
    BY DEF ThreadInv
  <1>5. LineInv
    BY SMTT(30) DEF LineInv, Holders, Slots, Frames
  <1>6. HelperInv
    BY DEF HelperInv
  <1>. QED  BY <1>1, <1>2, <1>3, <1>4, <1>5, <1>6 DEF IInv

\* The steps of acquire() and of the threads keep every variable in its type.
LEMMA TypeRuntime ==
    ASSUME IInv, CountsMean, RuntimeStep
    PROVE  TypeOK'
  <1>. USE PoolAssumption, BoundAssumption
  <1>0. UNCHANGED serviceSide
    BY RuntimeFrame
  <1>. SUFFICES /\ created' \in BOOLEAN
                /\ n' \in 0..PoolMax
                /\ next' \in Nat /\ (n' > 0 => next' < n')
                /\ gen' \in [Slots -> 0..MaxGen]
                /\ pc' \in {"idle", "scan", "retire", "grow"}
                /\ caller' \in Threads \cup {Nobody}
                /\ left' \in 0..PoolMax
                /\ picked' \in 0..PoolMax
                /\ cache' \subseteq Frames
                /\ plain' \in 0..CacheMax
                /\ holds' \in [Threads -> Frames \cup {NoFrame}]
                /\ shared' \subseteq Threads
                /\ exposed' \subseteq Threads
                /\ current' \in [Slots -> 0..MaxGen]
    BY <1>0 DEF TypeOK, IInv, serviceSide, serviceVars, helperVars
  <1>. USE DEF TypeOK, IInv, PoolInv
  <1>1. CASE ScanSlot
    <2>1. n \in Nat /\ n > 0 /\ next \in Nat /\ next < n /\ next + 1 \in Slots
      BY SMTT(30), <1>1 DEF ScanSlot, Slots
    <2>2. (next + 1) % n \in 0..(n - 1)
      BY SMTT(30), <2>1
    <2>3. gen' \in [Slots -> 0..MaxGen] /\ current' \in [Slots -> 0..MaxGen]
      <3>1. gen[next + 1] + 1 \in 0..MaxGen
        BY SMTT(30), <1>1, <2>1 DEF ScanSlot
      <3>2. /\ gen' = gen \/ gen' = [gen EXCEPT ![next + 1] = gen[next + 1] + 1]
            /\ current' = current \/ current' = [current EXCEPT ![next + 1] = gen[next + 1] + 1]
        BY <1>1 DEF ScanSlot
      <3>3. gen \in [Slots -> 0..MaxGen] /\ current \in [Slots -> 0..MaxGen]
        OBVIOUS
      <3> HIDE DEF TypeOK, IInv, PoolInv
      <3>. QED  BY <2>1, <3>1, <3>2, <3>3
    <2>. QED  BY SMTT(30), <1>1, <2>1, <2>2, <2>3 DEF ScanSlot, threadVars, Slots
  <1>2. CASE RetireInCache
    <2>1. picked \in Slots /\ gen[picked] \in Gens /\ caller \in Threads
      BY SMTT(30), <1>2 DEF RetireInCache, Slots, Gens
    <2>2. <<picked, gen[picked]>> \in Frames
      BY <2>1 DEF Frames
    <2>3. holds' \in [Threads -> Frames \cup {NoFrame}]
      BY <1>2, <2>1, <2>2 DEF RetireInCache, Return
    <2>4. cache' \subseteq Frames /\ shared' \subseteq Threads /\ exposed' \subseteq Threads
      BY <1>2, <2>1, <2>2 DEF RetireInCache, Return
    <2>. QED  BY SMTT(30), <1>2, <2>3, <2>4 DEF RetireInCache, Return, leaseVars
  <1>3. CASE ScanEnds
    BY <1>3 DEF ScanEnds, threadVars, leaseVars
  <1>4. CASE Grow
    <2>1. n + 1 \in Slots /\ gen[n + 1] + 1 \in Gens /\ caller \in Threads
      BY SMTT(30), <1>4 DEF Grow, Slots, Gens
    <2>2. <<n + 1, gen[n + 1] + 1>> \in Frames
      BY <2>1 DEF Frames
    <2>3. gen' \in [Slots -> 0..MaxGen] /\ current' \in [Slots -> 0..MaxGen]
      BY SMTT(30), <1>4, <2>1 DEF Grow, Gens
    <2>4. n' \in 0..PoolMax /\ n' > n
      BY SMTT(30), <1>4 DEF Grow
    <2>5. holds' \in [Threads -> Frames \cup {NoFrame}]
      BY <1>4, <2>1, <2>2 DEF Grow, Return
    <2>6. cache' \subseteq Frames /\ shared' \subseteq Threads /\ exposed' \subseteq Threads
      BY <1>4, <2>1, <2>2 DEF Grow, Return
    <2>. QED  BY SMTT(30), <1>4, <2>3, <2>4, <2>5, <2>6 DEF Grow, Return
  <1>5. CASE AcquireFails
    BY SMTT(30), <1>5 DEF AcquireFails, threadVars, leaseVars
  <1>6. CASE CachePlainBuffer
    <2>1. Cardinality(cache) \in Nat
      BY DEF CountsMean
    <2>2. plain' \in 0..CacheMax
      BY SMTT(30), <1>6, <2>1 DEF CachePlainBuffer
    <2>. QED  BY <1>6, <2>2 DEF CachePlainBuffer, poolVars, leaseVars
  <1>7. ASSUME NEW t \in Threads, AcquireStart(t)
        PROVE  TypeOK'
    <2>1. n' \in 0..PoolMax /\ (next < n' \/ n' = 0)
      BY SMTT(30), <1>7 DEF AcquireStart
    <2>. QED  BY <1>0, <1>7, <2>1
              DEF AcquireStart, threadVars, leaseVars, serviceSide, serviceVars, helperVars
  <1>8. ASSUME NEW t \in Threads, DropBuffer(t)
        PROVE  TypeOK'
    BY <1>0, <1>8 DEF DropBuffer, poolVars, leaseVars, serviceSide, serviceVars, helperVars
  <1>9. ASSUME NEW t \in Threads, NEW f \in Frames, ResolveFromCache(t, f)
        PROVE  TypeOK'
    BY <1>0, <1>9 DEF ResolveFromCache, poolVars, leaseVars, serviceSide, serviceVars,
                      helperVars
  <1>10. ASSUME NEW t \in Threads, NEW f \in Frames, ResolveByLookup(t, f)
         PROVE  TypeOK'
    BY <1>0, <1>10 DEF ResolveByLookup, poolVars, leaseVars, serviceSide, serviceVars,
                       helperVars
  <1>. QED  BY <1>1, <1>2, <1>3, <1>4, <1>5, <1>6, <1>7, <1>8, <1>9, <1>10
            DEF RuntimeStep, AcquireStep
\* What BeginExchange does to its connection, old or new.
LEMMA Exchange ==
    ASSUME IInv, NEW h \in Helpers, BeginExchange(h)
    PROVE  /\ LineOf(h) \in Holders
           /\ h \in alive
           /\ conn' = [conn EXCEPT ![h] = LineOf(h)]
           /\ line' = [line EXCEPT ![LineOf(h)] = "up"]
           /\ owner' = [owner EXCEPT ![LineOf(h)] = h]
           /\ \/ /\ conn[h] # 0 /\ LineOf(h) = conn[h] /\ minted' = minted
                 /\ owner[LineOf(h)] = h /\ line[LineOf(h)] = "up" /\ op[LineOf(h)] = "idle"
              \/ /\ conn[h] = 0 /\ LineOf(h) = minted + 1 /\ minted' = minted + 1
                 /\ owner[LineOf(h)] = Nobody /\ line[LineOf(h)] = "none"
                 /\ op[LineOf(h)] = "idle"
  <1>. USE PoolAssumption, BoundAssumption
  <1>1. LineOf(h) \in Holders /\ minted \in 0..MaxHolders /\ conn[h] \in 0..MaxHolders
    BY SMTT(30) DEF BeginExchange, Ready, LineOf, Holders, IInv, TypeOK
  <1>2. CASE conn[h] # 0
    BY <1>1, <1>2 DEF BeginExchange, Ready, LineOf, IInv, LineInv
  <1>3. CASE conn[h] = 0
    <2>1. LineOf(h) = minted + 1 /\ ~(LineOf(h) <= minted)
      BY SMTT(30), <1>1, <1>3 DEF LineOf
    <2>2. owner[LineOf(h)] = Nobody /\ line[LineOf(h)] = "none" /\ op[LineOf(h)] = "idle"
      BY <1>1, <2>1 DEF IInv, LineInv
    <2>. QED  BY <1>1, <1>3, <2>1, <2>2 DEF BeginExchange, Ready
  <1>. QED  BY <1>2, <1>3

\* The connection and its owner have their types after BeginExchange.
LEMMA ExchangeTypes ==
    ASSUME IInv, NEW h \in Helpers, BeginExchange(h)
    PROVE  /\ minted' \in 0..MaxHolders
           /\ owner' \in [Holders -> Helpers \cup {Nobody}]
           /\ line' \in [Holders -> {"none", "up", "gone", "closed"}]
           /\ conn' \in [Helpers -> 0..MaxHolders]
  <1>1. /\ LineOf(h) \in Holders
        /\ conn' = [conn EXCEPT ![h] = LineOf(h)]
        /\ line' = [line EXCEPT ![LineOf(h)] = "up"]
        /\ owner' = [owner EXCEPT ![LineOf(h)] = h]
        /\ minted' = minted \/ minted' = LineOf(h)
    BY Exchange
  <1>2. LineOf(h) \in 0..MaxHolders
    BY SMTT(30), <1>1, BoundAssumption DEF Holders
  <1>. QED  BY <1>1, <1>2 DEF IInv, TypeOK

\* What changing one entry does to the lease table.
LEMMA LeaseTable ==
    ASSUME leases \in [Slots -> [Holders -> 0..MaxLeases]],
           NEW s \in Slots, NEW c \in Holders, NEW v \in 0..MaxLeases,
           leases' = [leases EXCEPT ![s][c] = v]
    PROVE  /\ leases' \in [Slots -> [Holders -> 0..MaxLeases]]
           /\ \A x \in Slots : \A y \in Holders :
                 leases'[x][y] = IF x = s /\ y = c THEN v ELSE leases[x][y]
  <1>1. leases[s] \in [Holders -> 0..MaxLeases]
    OBVIOUS
  <1>2. [leases[s] EXCEPT ![c] = v] \in [Holders -> 0..MaxLeases]
    BY <1>1
  <1>3. leases' = [leases EXCEPT ![s] = [leases[s] EXCEPT ![c] = v]]
    OBVIOUS
  <1>4. leases' \in [Slots -> [Holders -> 0..MaxLeases]]
    BY <1>2, <1>3
  <1>5. ASSUME NEW x \in Slots, NEW y \in Holders
        PROVE  leases'[x][y] = IF x = s /\ y = c THEN v ELSE leases[x][y]
    BY <1>1, <1>3
  <1>. QED  BY <1>4, <1>5

\* What changing one entry does to the helpers' claims.
LEMMA ClaimTable ==
    ASSUME claims \in [Holders -> [Frames -> 0..MaxLeases]],
           NEW c \in Holders, NEW f \in Frames, NEW v \in 0..MaxLeases,
           claims' = [claims EXCEPT ![c][f] = v]
    PROVE  /\ claims' \in [Holders -> [Frames -> 0..MaxLeases]]
           /\ \A x \in Holders : \A y \in Frames :
                 claims'[x][y] = IF x = c /\ y = f THEN v ELSE claims[x][y]
  <1>1. claims[c] \in [Frames -> 0..MaxLeases]
    OBVIOUS
  <1>2. [claims[c] EXCEPT ![f] = v] \in [Frames -> 0..MaxLeases]
    BY <1>1
  <1>3. claims' = [claims EXCEPT ![c] = [claims[c] EXCEPT ![f] = v]]
    OBVIOUS
  <1>4. claims' \in [Holders -> [Frames -> 0..MaxLeases]]
    BY <1>2, <1>3
  <1>5. ASSUME NEW x \in Holders, NEW y \in Frames
        PROVE  claims'[x][y] = IF x = c /\ y = f THEN v ELSE claims[x][y]
    BY <1>1, <1>3
  <1>. QED  BY <1>4, <1>5

\* The steps of the helpers and of the service keep every variable in its type.
LEMMA TypeService ==
    ASSUME IInv, ServiceStep
    PROVE  TypeOK'
  <1>. USE PoolAssumption, BoundAssumption
  <1>. DEFINE ServiceTypeOK ==
         /\ leases \in [Slots -> [Holders -> 0..MaxLeases]]
         /\ minted \in 0..MaxHolders
         /\ owner \in [Holders -> Helpers \cup {Nobody}]
         /\ line \in [Holders -> {"none", "up", "gone", "closed"}]
         /\ op \in [Holders -> {"idle", "looked_up", "leased"}]
         /\ asked \in [Holders -> Frames \cup {NoFrame}]
         /\ alive \subseteq Helpers
         /\ conn \in [Helpers -> 0..MaxHolders]
         /\ claims \in [Holders -> [Frames -> 0..MaxLeases]]
         /\ failed \subseteq Helpers
  <1>0. UNCHANGED runtimeSide
    BY ServiceFrame
  <1>t. ServiceTypeOK /\ ServiceTypeOK' => TypeOK'
    BY <1>0 DEF TypeOK, IInv, runtimeSide, poolVars, threadVars
  <1>s. ServiceTypeOK
    BY DEF IInv, TypeOK
  <1>. SUFFICES ServiceTypeOK'
    BY <1>t, <1>s
  <1>1. ASSUME NEW h \in Helpers, NEW f \in Frames, CheckOut(h, f)
        PROVE  ServiceTypeOK'
    <2>1. op' \in [Holders -> {"idle", "looked_up", "leased"}]
      BY <1>s, <1>1 DEF CheckOut
    <2>2. asked' \in [Holders -> Frames \cup {NoFrame}]
      BY <1>s, <1>1 DEF CheckOut
    <2>. QED  BY <1>s, <1>1, <2>1, <2>2, ExchangeTypes DEF CheckOut, leaseVars
  <1>2. ASSUME NEW c \in Holders, RecordLease(c)
        PROVE  ServiceTypeOK'
    <2>1. /\ asked[c] \in Frames /\ asked[c][1] \in Slots
          /\ leases[asked[c][1]][c] + 1 \in 0..MaxLeases
      BY SMTT(30), <1>s, <1>2 DEF RecordLease, IInv, LineInv, Frames
    <2>2. leases' \in [Slots -> [Holders -> 0..MaxLeases]]
      <3>1. leases' = leases
            \/ leases' = [leases EXCEPT ![asked[c][1]][c] = leases[asked[c][1]][c] + 1]
        BY <1>2 DEF RecordLease
      <3>. QED  BY <1>s, <2>1, <3>1, LeaseTable
    <2>. QED  BY <1>s, <1>2, <2>1, <2>2 DEF RecordLease, helperVars
  <1>3. ASSUME NEW h \in Helpers, ReceiveFrame(h)
        PROVE  ServiceTypeOK'
    <2>1. conn[h] \in Holders
      BY SMTT(30), <1>s, <1>3 DEF ReceiveFrame, Holders
    <2>2. asked[conn[h]] \in Frames /\ claims[conn[h]][asked[conn[h]]] + 1 \in 0..MaxLeases
      BY SMTT(30), <1>s, <1>3, <2>1 DEF ReceiveFrame, IInv, LineInv
    <2>3. claims' \in [Holders -> [Frames -> 0..MaxLeases]]
      <3>1. claims' = claims \/ claims' = [claims EXCEPT ![conn[h]][asked[conn[h]]]
                                             = claims[conn[h]][asked[conn[h]]] + 1]
        BY <1>3 DEF ReceiveFrame
      <3>. QED  BY <1>s, <2>1, <2>2, <3>1, ClaimTable
    <2>. QED  BY <1>s, <1>3, <2>1, <2>3 DEF ReceiveFrame, leaseVars
  <1>4. ASSUME NEW h \in Helpers, NEW f \in Frames, NEW c \in Holders, ReleaseFrame(h, c, f)
        PROVE  ServiceTypeOK'
    <2>1. f[1] \in Slots /\ LineOf(h) \in Holders
      BY <1>4, Exchange DEF ReleaseFrame, Frames
    <2>2. claims[c][f] - 1 \in 0..MaxLeases
      BY SMTT(30), <1>s, <1>4 DEF ReleaseFrame
    <2>3. claims' \in [Holders -> [Frames -> 0..MaxLeases]]
      BY <1>s, <1>4, <2>2, ClaimTable DEF ReleaseFrame
    <2>4. leases' \in [Slots -> [Holders -> 0..MaxLeases]]
      <3> DEFINE k == leases[f[1]][LineOf(h)]
                 j == IF k > 0 THEN k - 1 ELSE 0
      <3>1. k \in 0..MaxLeases /\ j \in 0..MaxLeases
        BY SMTT(30), <1>s, <2>1
      <3>2. leases' = [leases EXCEPT ![f[1]][LineOf(h)] = j]
        BY <1>4 DEF ReleaseFrame
      <3> HIDE DEF j
      <3>. QED  BY <1>s, <2>1, <3>1, <3>2, LeaseTable
    <2>. QED  BY <1>s, <1>4, <2>3, <2>4, ExchangeTypes DEF ReleaseFrame
  <1>5. ASSUME NEW h \in Helpers, ExchangeFails(h)
        PROVE  ServiceTypeOK'
    <2>1. line' \in [Holders -> {"none", "up", "gone", "closed"}]
      BY <1>s, <1>5 DEF ExchangeFails
    <2>2. conn' \in [Helpers -> 0..MaxHolders]
      BY SMTT(30), <1>s, <1>5 DEF ExchangeFails
    <2>. QED  BY <1>s, <1>5, <2>1, <2>2 DEF ExchangeFails, leaseVars
  <1>6. ASSUME NEW h \in Helpers, HelperDies(h)
        PROVE  ServiceTypeOK'
    <2>1. claims' \in [Holders -> [Frames -> 0..MaxLeases]]
      BY SMTT(30), <1>s, <1>6 DEF HelperDies
    <2>. QED  BY SMTT(30), <1>s, <1>6, <2>1 DEF HelperDies, leaseVars
  <1>7. ASSUME NEW c \in Holders, ConnectionEnds(c)
        PROVE  ServiceTypeOK'
    <2>1. leases' \in [Slots -> [Holders -> 0..MaxLeases]]
      BY SMTT(30), <1>s, <1>7 DEF ConnectionEnds
    <2>. QED  BY <1>s, <1>7, <2>1 DEF ConnectionEnds, helperVars
  <1>. QED  BY <1>1, <1>2, <1>3, <1>4, <1>5, <1>6, <1>7 DEF ServiceStep
-----------------------------------------------------------------------------
(* The pool, the cache and the threads.                                    *)

\* What a scan step did: nothing to the frames, or a hand-off of the slot.
LEMMA ScanFacts ==
    ASSUME IInv, ScanSlot
    PROVE  /\ next + 1 \in Slots /\ next + 1 \in 1..n /\ next \in Nat
           /\ left' = left - 1 /\ next' \in 0..(n - 1)
           /\ pc = "scan" /\ UNCHANGED <<created, n, caller, threadVars>>
           /\ \/ UNCHANGED <<gen, current, pc, picked>>
              \/ /\ MayHandOff(next + 1)
                 /\ gen' = [gen EXCEPT ![next + 1] = gen[next + 1] + 1]
                 /\ current' = gen'
                 /\ picked' = next + 1 /\ pc' = "retire"
  <1>. USE PoolAssumption DEF IInv, TypeOK, PoolInv
  <1>1. n \in Nat /\ n > 0 /\ next \in Nat /\ next < n /\ next + 1 \in Slots
    BY SMTT(30) DEF ScanSlot, Slots
  <1>2. (next + 1) % n \in 0..(n - 1)
    BY SMTT(30), <1>1
  <1>3. current = gen
    OBVIOUS
  <1>4. \/ UNCHANGED <<gen, current, pc, picked>>
        \/ /\ MayHandOff(next + 1)
           /\ gen' = [gen EXCEPT ![next + 1] = gen[next + 1] + 1]
           /\ current' = gen'
           /\ picked' = next + 1 /\ pc' = "retire"
    BY <1>3 DEF ScanSlot
  <1>. QED  BY SMTT(30), <1>1, <1>2, <1>4 DEF ScanSlot

\* What an expansion did: slot n + 1 published its first frame.
LEMMA GrowFacts ==
    ASSUME IInv, Grow
    PROVE  /\ n + 1 \in Slots /\ gen[n + 1] = 0 /\ caller \in Threads
           /\ gen' = [gen EXCEPT ![n + 1] = 1] /\ current' = gen'
           /\ n' \in Nat /\ n' >= n + 1
           /\ cache' = cache \cup {<<n + 1, 1>>}
           /\ holds' = [holds EXCEPT ![caller] = <<n + 1, 1>>]
           /\ shared' = shared \cup {caller} /\ exposed' = exposed \ {caller}
           /\ pc = "grow" /\ pc' = "idle" /\ caller' = Nobody /\ left' = 0
           /\ UNCHANGED <<created, next>>
  <1>. USE PoolAssumption DEF IInv, TypeOK, PoolInv
  <1>1. n \in Nat /\ n + 1 \in Slots
    BY SMTT(30) DEF Grow, Slots
  <1>2. gen[n + 1] = 0 /\ current = gen /\ caller \in Threads
    BY SMTT(30), <1>1 DEF Grow
  <1>. QED  BY SMTT(30), <1>1, <1>2 DEF Grow, Return

\* Every step keeps PoolInv.
LEMMA PoolStep ==
    ASSUME IInv, Next
    PROVE  PoolInv'
  <1>. USE PoolAssumption, BoundAssumption
  <1>1. CASE ServiceStep
    <2>1. UNCHANGED runtimeSide
      BY <1>1, ServiceFrame
    <2>. QED  BY <2>1 DEF IInv, PoolInv, runtimeSide, poolVars, threadVars
  <1>2. CASE ScanSlot
    <2>1. /\ next + 1 \in Slots /\ next + 1 \in 1..n /\ next \in Nat
          /\ left' = left - 1 /\ next' \in 0..(n - 1)
          /\ pc = "scan" /\ UNCHANGED <<created, n, caller, threadVars>>
      BY <1>2, ScanFacts
    <2>2. CASE UNCHANGED <<gen, current, pc, picked>>
      BY SMTT(30), <2>1, <2>2 DEF IInv, TypeOK, PoolInv, threadVars
    <2>3. CASE /\ gen' = [gen EXCEPT ![next + 1] = gen[next + 1] + 1]
               /\ current' = gen' /\ picked' = next + 1 /\ pc' = "retire"
      <3>1. gen'[next + 1] > 0
        BY SMTT(30), <2>1, <2>3 DEF IInv, TypeOK
      <3>2. \A s \in Slots : s > n => gen'[s] = 0
        BY SMTT(30), <2>1, <2>3 DEF IInv, TypeOK, PoolInv
      <3>. QED  BY SMTT(30), <2>1, <2>3, <3>1, <3>2 DEF IInv, TypeOK, PoolInv, threadVars
    <2>. QED  BY <1>2, <2>2, <2>3, ScanFacts
  <1>3. CASE RetireInCache
    BY SMTT(30), <1>3 DEF RetireInCache, Return, IInv, TypeOK, PoolInv, leaseVars
  <1>4. CASE ScanEnds
    BY <1>4 DEF ScanEnds, IInv, TypeOK, PoolInv, leaseVars, threadVars
  <1>5. CASE Grow
    <2>1. /\ n + 1 \in Slots /\ gen[n + 1] = 0
          /\ gen' = [gen EXCEPT ![n + 1] = 1] /\ current' = gen'
          /\ n' \in Nat /\ n' >= n + 1
          /\ pc' = "idle" /\ caller' = Nobody /\ left' = 0
          /\ UNCHANGED <<created, next>> /\ pc = "grow"
      BY <1>5, GrowFacts
    <2>2. \A s \in Slots : s > n' => gen'[s] = 0
      BY SMTT(30), <2>1 DEF IInv, TypeOK, PoolInv, Slots
    <2>. QED  BY SMTT(30), <2>1, <2>2 DEF IInv, TypeOK, PoolInv
  <1>6. CASE AcquireFails
    BY SMTT(30), <1>6 DEF AcquireFails, IInv, TypeOK, PoolInv, leaseVars, threadVars
  <1>7. CASE CachePlainBuffer
    BY <1>7 DEF CachePlainBuffer, IInv, TypeOK, PoolInv, leaseVars, poolVars
  <1>8. ASSUME NEW t \in Threads, AcquireStart(t)
        PROVE  PoolInv'
    <2>1. n' \in Nat /\ n' >= n /\ (created => n' = n) /\ n \in Nat
      BY SMTT(30), <1>8 DEF AcquireStart, IInv, TypeOK, PoolInv
    <2>2. UNCHANGED <<next, gen, picked, holds, current>> /\ created' /\ pc = "idle"
      BY <1>8 DEF AcquireStart, leaseVars, threadVars
    <2>3. \A s \in Slots : s > n' => gen'[s] = 0
      BY SMTT(30), <2>1, <2>2 DEF IInv, PoolInv, Slots
    <2>4. CASE n' = 0
      <3>1. n = 0 /\ UNCHANGED <<pc, caller, left>>
        BY SMTT(30), <1>8, <2>1, <2>4 DEF AcquireStart
      <3>. QED  BY <2>2, <2>3, <2>4, <3>1 DEF IInv, PoolInv
    <2>5. CASE n' # 0
      <3>1. pc' = "scan" /\ caller' = t /\ left' = n' /\ holds[t] = NoFrame /\ t # Nobody
        BY <1>8, <2>5 DEF AcquireStart, Free
      <3>2. \A s \in Slots : gen'[s] < MaxGen
        BY <1>8, <2>2 DEF AcquireStart
      <3>. QED  BY SMTT(30), <2>1, <2>2, <2>3, <2>5, <3>1, <3>2 DEF IInv, PoolInv
    <2>. QED  BY <2>4, <2>5
  <1>9. ASSUME NEW t \in Threads, DropBuffer(t)
        PROVE  PoolInv'
    BY <1>9 DEF DropBuffer, IInv, TypeOK, PoolInv, leaseVars, poolVars
  <1>10. ASSUME NEW t \in Threads, NEW f \in Frames,
                ResolveFromCache(t, f) \/ ResolveByLookup(t, f)
         PROVE  PoolInv'
    BY <1>10 DEF ResolveFromCache, ResolveByLookup, Free, IInv, TypeOK, PoolInv, leaseVars,
                 poolVars
  <1>. QED  BY <1>1, <1>2, <1>3, <1>4, <1>5, <1>6, <1>7, <1>8, <1>9, <1>10, Sides
            DEF RuntimeStep, AcquireStep

-----------------------------------------------------------------------------
(* The cache and the threads.                                              *)

\* Every step keeps the cache to live frames.
LEMMA CacheStep ==
    ASSUME IInv, Next
    PROVE  CacheServesLiveFrames'
  <1>. USE PoolAssumption, BoundAssumption
  <1>0. \A f \in cache : f \in Frames /\ f = <<f[1], f[2]>> /\ f[1] \in Slots /\ f[2] \in Nat \ {0}
    BY SMTT(30) DEF IInv, TypeOK, Frames, Gens
  <1>1. CASE UNCHANGED <<cache, gen>> /\ (pc # "retire" \/ UNCHANGED <<pc, picked>>)
    BY <1>1 DEF IInv, CacheServesLiveFrames
  <1>2. CASE ScanSlot
    <2>1. CASE UNCHANGED <<gen, current, pc, picked>>
      BY <1>1, <1>2, <2>1, ScanFacts DEF threadVars
    <2>2. CASE /\ gen' = [gen EXCEPT ![next + 1] = gen[next + 1] + 1]
               /\ picked' = next + 1 /\ pc' = "retire"
      <3>1. next + 1 \in Slots /\ cache' = cache /\ pc = "scan"
        BY <1>2, ScanFacts DEF threadVars
      <3>2. SUFFICES ASSUME NEW f \in cache
                     PROVE  \/ f[2] = gen'[f[1]]
                            \/ picked' = f[1] /\ f[2] + 1 = gen'[f[1]]
        BY <2>2, <3>1 DEF CacheServesLiveFrames
      <3>3. f[2] = gen[f[1]]
        BY <3>1 DEF IInv, CacheServesLiveFrames
      <3>. QED  BY <1>0, <2>2, <3>1, <3>3 DEF IInv, TypeOK
    <2>. QED  BY <1>2, <2>1, <2>2, ScanFacts
  <1>3. CASE RetireInCache
    <2>1. /\ cache' = (cache \ {<<picked, gen[picked] - 1>>}) \cup {<<picked, gen[picked]>>}
          /\ gen' = gen /\ pc = "retire"
      BY <1>3 DEF RetireInCache
    <2>2. ASSUME NEW f \in cache' PROVE f[2] = gen[f[1]]
      <3>1. CASE f = <<picked, gen[picked]>>
        BY <3>1
      <3>2. CASE f \in cache /\ f # <<picked, gen[picked] - 1>>
        <4>1. f[2] = gen[f[1]] \/ (picked = f[1] /\ f[2] + 1 = gen[f[1]])
          BY <3>2 DEF IInv, CacheServesLiveFrames
        <4>2. f[2] \in Nat /\ f = <<f[1], f[2]>>
          BY <1>0, <3>2
        <4>3. f[2] + 1 = gen[f[1]] => f[2] = gen[f[1]] - 1
          BY SMTT(30), <4>2
        <4>. QED  BY <3>2, <4>1, <4>2, <4>3
      <3>. QED  BY <2>1, <3>1, <3>2
    <2>. QED  BY <2>1, <2>2 DEF CacheServesLiveFrames
  <1>4. CASE Grow
    <2>1. /\ n + 1 \in Slots /\ gen[n + 1] = 0 /\ gen' = [gen EXCEPT ![n + 1] = 1]
          /\ cache' = cache \cup {<<n + 1, 1>>} /\ pc = "grow"
      BY <1>4, GrowFacts
    <2>2. ASSUME NEW f \in cache' PROVE f[2] = gen'[f[1]]
      <3>1. CASE f = <<n + 1, 1>>
        BY <2>1, <3>1 DEF IInv, TypeOK
      <3>2. CASE f \in cache
        <4>1. f[2] = gen[f[1]]
          BY <2>1, <3>2 DEF IInv, CacheServesLiveFrames
        <4>2. f[1] # n + 1 /\ f[1] \in Slots
          BY <1>0, <2>1, <3>2, <4>1
        <4>. QED  BY <2>1, <4>1, <4>2 DEF IInv, TypeOK
      <3>. QED  BY <2>1, <3>1, <3>2
    <2>. QED  BY <2>2 DEF CacheServesLiveFrames
  <1>5. CASE CachePlainBuffer
    <2>1. cache' = {} \/ cache' = cache
      BY <1>5 DEF CachePlainBuffer
    <2>2. UNCHANGED <<gen, pc, picked>>
      BY <1>5 DEF CachePlainBuffer, poolVars
    <2>. QED  BY <2>1, <2>2 DEF IInv, CacheServesLiveFrames
  <1>6. ScanEnds \/ AcquireFails =>
            UNCHANGED <<cache, gen>> /\ (pc # "retire" \/ UNCHANGED <<pc, picked>>)
    BY DEF ScanEnds, AcquireFails, threadVars
  <1>7. ASSUME NEW t \in Threads,
               \/ AcquireStart(t)
               \/ DropBuffer(t)
               \/ \E f \in Frames : ResolveFromCache(t, f) \/ ResolveByLookup(t, f)
        PROVE  UNCHANGED <<cache, gen>> /\ (pc # "retire" \/ UNCHANGED <<pc, picked>>)
    BY <1>7 DEF AcquireStart, DropBuffer, ResolveFromCache, ResolveByLookup, threadVars,
                poolVars
  <1>8. ServiceStep => UNCHANGED <<cache, gen, pc, picked>>
    BY ServiceFrame DEF runtimeSide, poolVars, threadVars
  <1>. QED  BY <1>1, <1>2, <1>3, <1>4, <1>5, <1>6, <1>7, <1>8, Sides
            DEF RuntimeStep, AcquireStep
\* ThreadInv, of one thread.
ThreadOK(t) ==
    /\ holds[t] = NoFrame => t \notin shared /\ t \notin exposed
    /\ holds[t] # NoFrame /\ t \notin exposed =>
          /\ t \in shared
          /\ holds[t] \in cache
          /\ holds[t][2] = gen[holds[t][1]]
          /\ ~(pc = "retire" /\ picked = holds[t][1])

\* Every step keeps ThreadInv.
LEMMA ThreadStep ==
    ASSUME IInv, CountsMean, Next
    PROVE  ThreadInv'
  <1>. USE PoolAssumption, BoundAssumption
  <1>. SUFFICES ASSUME NEW u \in Threads PROVE ThreadOK(u)'
    BY DEF ThreadInv, ThreadOK
  <1>0. ThreadOK(u)
    BY DEF IInv, ThreadInv, ThreadOK
  <1>a. \A f \in Frames : f # NoFrame /\ f[1] \in Slots /\ f[2] \in Nat \ {0} /\ f = <<f[1], f[2]>>
    BY SMTT(30) DEF Frames, NoFrame, Slots, Gens
  <1>b. holds \in [Threads -> Frames \cup {NoFrame}] /\ gen \in [Slots -> 0..MaxGen]
    BY DEF IInv, TypeOK
  <1>1. CASE UNCHANGED <<cache, holds, shared, exposed, gen>>
             /\ (pc' # "retire" \/ UNCHANGED <<pc, picked>>)
    BY <1>0, <1>1 DEF ThreadOK
  <1>2. CASE ScanSlot
    <2>0. UNCHANGED <<cache, holds, shared, exposed>> /\ next + 1 \in Slots
      BY <1>2, ScanFacts DEF threadVars
    <2>1. CASE UNCHANGED <<gen, current, pc, picked>>
      BY <1>1, <2>0, <2>1
    <2>2. CASE /\ MayHandOff(next + 1)
               /\ gen' = [gen EXCEPT ![next + 1] = gen[next + 1] + 1]
               /\ picked' = next + 1 /\ pc' = "retire"
      <3>1. CASE holds[u] = NoFrame \/ u \in exposed
        BY <1>0, <2>0, <3>1 DEF ThreadOK
      <3>2. CASE holds[u] # NoFrame /\ u \notin exposed
        <4>1. u \in shared /\ holds[u] \in cache /\ holds[u][2] = gen[holds[u][1]]
          BY <1>0, <3>2 DEF ThreadOK
        <4>2. holds[u] \in Frames /\ holds[u][1] \in Slots
          BY <1>a, <1>b, <3>2
        <4>3. TypeOK
          BY DEF IInv
        <4>4. holds[u][1] # next + 1
          BY <2>0, <2>2, <4>1, <4>3 DEF CountsMean
        <4>. QED  BY <1>b, <2>0, <2>2, <3>2, <4>1, <4>2, <4>4 DEF ThreadOK
      <3>. QED  BY <3>1, <3>2
    <2>. QED  BY <1>2, <2>1, <2>2, ScanFacts
  <1>3. CASE RetireInCache
    <2>1. /\ cache' = (cache \ {<<picked, gen[picked] - 1>>}) \cup {<<picked, gen[picked]>>}
          /\ gen' = gen /\ pc = "retire" /\ pc' = "idle"
          /\ holds' = [holds EXCEPT ![caller] = <<picked, gen[picked]>>]
          /\ shared' = shared \cup {caller} /\ exposed' = exposed \ {caller}
      BY <1>3 DEF RetireInCache, Return
    <2>2. caller \in Threads /\ picked # 0
      BY SMTT(30), <2>1 DEF IInv, TypeOK, PoolInv
    <2>3. CASE u = caller
      <3>1. holds'[u] = <<picked, gen[picked]>>
        BY <1>b, <2>1, <2>2, <2>3
      <3>2. holds'[u] # NoFrame
        BY SMTT(30), <2>2, <3>1 DEF NoFrame
      <3>. QED  BY SMTT(30), <2>1, <2>3, <3>1, <3>2 DEF ThreadOK
    <2>4. CASE u # caller
      <3>1. holds'[u] = holds[u] /\ (u \in shared' <=> u \in shared)
            /\ (u \in exposed' <=> u \in exposed)
        BY <1>b, <2>1, <2>2, <2>4
      <3>2. holds[u] # NoFrame /\ u \notin exposed => holds[u] # <<picked, gen[picked] - 1>>
        BY SMTT(30), <1>0, <2>1 DEF ThreadOK
      <3>. QED  BY SMTT(30), <1>0, <2>1, <3>1, <3>2 DEF ThreadOK
    <2>. QED  BY <2>3, <2>4
  <1>4. CASE Grow
    <2>1. /\ n + 1 \in Slots /\ gen[n + 1] = 0 /\ gen' = [gen EXCEPT ![n + 1] = 1]
          /\ cache' = cache \cup {<<n + 1, 1>>} /\ pc' = "idle" /\ caller \in Threads
          /\ holds' = [holds EXCEPT ![caller] = <<n + 1, 1>>]
          /\ shared' = shared \cup {caller} /\ exposed' = exposed \ {caller}
      BY <1>4, GrowFacts
    <2>2. CASE u = caller
      <3>1. holds'[u] = <<n + 1, 1>>
        BY <1>b, <2>1, <2>2
      <3>2. holds'[u] # NoFrame /\ gen'[n + 1] = 1
        BY SMTT(30), <1>b, <2>1, <3>1 DEF NoFrame
      <3>. QED  BY SMTT(30), <2>1, <2>2, <3>1, <3>2 DEF ThreadOK
    <2>3. CASE u # caller
      <3>1. holds'[u] = holds[u] /\ (u \in shared' <=> u \in shared)
            /\ (u \in exposed' <=> u \in exposed)
        BY <1>b, <2>1, <2>3
      <3>2. holds[u] # NoFrame /\ u \notin exposed => gen'[holds[u][1]] = gen[holds[u][1]]
        BY <1>0, <1>a, <1>b, <2>1 DEF ThreadOK
      <3>. QED  BY SMTT(30), <1>0, <2>1, <3>1, <3>2 DEF ThreadOK
    <2>. QED  BY <2>2, <2>3
  <1>5. CASE CachePlainBuffer
    <2>1. UNCHANGED <<gen, pc, picked, holds, shared>>
          /\ (UNCHANGED <<cache, exposed>> \/ exposed' = exposed \cup shared)
      BY <1>5 DEF CachePlainBuffer, poolVars
    <2>. QED  BY <1>0, <2>1 DEF ThreadOK
  <1>6. ScanEnds \/ AcquireFails => UNCHANGED <<cache, holds, shared, exposed, gen>> /\ pc' # "retire"
    BY DEF ScanEnds, AcquireFails, threadVars
  <1>7. ASSUME NEW t \in Threads, AcquireStart(t)
        PROVE  UNCHANGED <<cache, holds, shared, exposed, gen>> /\ pc' # "retire"
    BY <1>7 DEF AcquireStart, threadVars
  <1>8. ASSUME NEW t \in Threads, DropBuffer(t)
        PROVE  ThreadOK(u)'
    <2>1. /\ UNCHANGED <<gen, pc, picked, cache>> /\ holds' = [holds EXCEPT ![t] = NoFrame]
          /\ shared' = shared \ {t} /\ exposed' = exposed \ {t}
      BY <1>8 DEF DropBuffer, poolVars
    <2>. QED  BY <1>0, <1>b, <2>1 DEF ThreadOK
  <1>9. ASSUME NEW t \in Threads, NEW f \in Frames, ResolveFromCache(t, f)
        PROVE  ThreadOK(u)'
    <2>1. /\ UNCHANGED <<gen, pc, picked, cache>> /\ holds' = [holds EXCEPT ![t] = f]
          /\ shared' = shared \cup {t} /\ f \in cache
          /\ exposed' = IF pc = "retire" /\ picked = f[1] THEN exposed \cup {t}
                                                          ELSE exposed \ {t}
      BY <1>9 DEF ResolveFromCache, poolVars
    <2>2. f[2] = gen[f[1]] \/ (pc = "retire" /\ picked = f[1])
      BY <2>1 DEF IInv, CacheServesLiveFrames
    <2>3. CASE u = t
      <3>1. holds'[u] = f /\ f # NoFrame
        BY <1>a, <1>b, <2>1, <2>3
      <3>. QED  BY SMTT(30), <2>1, <2>2, <2>3, <3>1 DEF ThreadOK
    <2>4. CASE u # t
      BY <1>0, <1>b, <2>1, <2>4 DEF ThreadOK
    <2>. QED  BY <2>3, <2>4
  <1>10. ASSUME NEW t \in Threads, NEW f \in Frames, ResolveByLookup(t, f)
         PROVE  ThreadOK(u)'
    <2>1. /\ UNCHANGED <<gen, pc, picked, cache, shared>> /\ holds' = [holds EXCEPT ![t] = f]
          /\ exposed' = exposed \cup {t}
      BY <1>10 DEF ResolveByLookup, poolVars
    <2>. QED  BY <1>0, <1>a, <1>b, <2>1 DEF ThreadOK
  <1>11. ServiceStep => UNCHANGED <<cache, holds, shared, exposed, gen, pc, picked>>
    BY ServiceFrame DEF runtimeSide, poolVars, threadVars
  <1>. QED  BY <1>1, <1>2, <1>3, <1>4, <1>5, <1>6, <1>7, <1>8, <1>9, <1>10, <1>11, Sides
            DEF RuntimeStep, AcquireStep
-----------------------------------------------------------------------------
(* The connections.                                                        *)

\* LineInv, of one connection.
LineOK(c) ==
    /\ c <= minted <=> owner[c] # Nobody
    /\ c <= minted <=> line[c] # "none"
    /\ line[c] \in {"none", "closed"} =>
          op[c] = "idle" /\ \A s \in Slots : leases[s][c] = 0
    /\ op[c] # "idle" => asked[c] \in Frames /\ claims[c][asked[c]] < MaxLeases
    /\ op[c] = "looked_up" => leases[asked[c][1]][c] < MaxLeases
    /\ line[c] = "none" => \A f \in Frames : claims[c][f] = 0

\* LineInv, of one helper.
ConnOK(h) == conn[h] # 0 => h \in alive /\ owner[conn[h]] = h /\ line[conn[h]] = "up"

\* BeginExchange keeps a connection's bounds, and every helper's connection up.
LEMMA ExchangeKeeps ==
    ASSUME IInv, NEW h \in Helpers, BeginExchange(h), UNCHANGED alive
    PROVE  /\ \A c \in Holders : c <= minted' <=> owner'[c] # Nobody
           /\ \A c \in Holders : c <= minted' <=> line'[c] # "none"
           /\ \A c \in Holders : line'[c] = line[c] \/ (c = LineOf(h) /\ line'[c] = "up")
           /\ \A k \in Helpers : ConnOK(k)'
           /\ \A c \in Holders : owner'[c] = owner[c] \/ (c = LineOf(h) /\ owner[c] = Nobody)
  <1>. USE PoolAssumption, BoundAssumption
  <1>1. /\ LineOf(h) \in Holders /\ h \in alive
        /\ conn' = [conn EXCEPT ![h] = LineOf(h)]
        /\ line' = [line EXCEPT ![LineOf(h)] = "up"]
        /\ owner' = [owner EXCEPT ![LineOf(h)] = h]
    BY Exchange
  <1>2. \/ /\ conn[h] # 0 /\ LineOf(h) = conn[h] /\ minted' = minted
           /\ owner[LineOf(h)] = h /\ line[LineOf(h)] = "up"
        \/ /\ conn[h] = 0 /\ LineOf(h) = minted + 1 /\ minted' = minted + 1
           /\ owner[LineOf(h)] = Nobody /\ line[LineOf(h)] = "none"
    BY Exchange
  <1>3. /\ \A c \in Holders : c <= minted <=> owner[c] # Nobody
        /\ \A c \in Holders : c <= minted <=> line[c] # "none"
        /\ \A k \in Helpers : ConnOK(k)
    BY DEF IInv, LineInv, ConnOK
  <1>4. /\ owner \in [Holders -> Helpers \cup {Nobody}] /\ minted \in Nat
        /\ conn \in [Helpers -> 0..MaxHolders] /\ Holders \subseteq Nat
        /\ line \in [Holders -> {"none", "up", "gone", "closed"}]
    BY SMTT(30) DEF IInv, TypeOK, Holders
  <1>5. \A c \in Holders : /\ c <= minted' <=> owner'[c] # Nobody
                           /\ c <= minted' <=> line'[c] # "none"
    BY SMTT(30), <1>1, <1>2, <1>3, <1>4
  <1>6. /\ \A c \in Holders : line'[c] = line[c] \/ (c = LineOf(h) /\ line'[c] = "up")
        /\ \A c \in Holders : owner'[c] = owner[c] \/ (c = LineOf(h) /\ owner[c] = Nobody)
    BY <1>1, <1>2, <1>4
  <1>7. ASSUME NEW k \in Helpers PROVE ConnOK(k)'
    <2>1. CASE k = h
      <3>1. conn'[k] = LineOf(h) /\ owner'[LineOf(h)] = h /\ line'[LineOf(h)] = "up"
        BY <1>1, <1>4, <2>1
      <3>. QED  BY <1>1, <2>1, <3>1 DEF ConnOK
    <2>2. CASE k # h
      <3>1. conn'[k] = conn[k]
        BY <1>1, <1>4, <2>2
      <3>2. conn[k] # 0 => conn[k] # LineOf(h) /\ conn[k] \in Holders
        BY SMTT(30), <1>2, <1>3, <1>4, <2>2 DEF ConnOK, Holders
      <3>3. conn[k] # 0 => owner'[conn[k]] = owner[conn[k]] /\ line'[conn[k]] = line[conn[k]]
        BY <1>1, <1>4, <3>2
      <3>. QED  BY <1>3, <3>1, <3>3 DEF ConnOK
    <2>. QED  BY <2>1, <2>2
  <1>. QED  BY <1>5, <1>6, <1>7

\* Every step keeps LineInv.
LEMMA LineStep ==
    ASSUME IInv, Next
    PROVE  LineInv'
  <1>. USE PoolAssumption, BoundAssumption
  <1>. SUFFICES (\A c \in Holders : LineOK(c)') /\ (\A h \in Helpers : ConnOK(h)')
    BY DEF LineInv, LineOK, ConnOK
  <1>0. (\A c \in Holders : LineOK(c)) /\ (\A h \in Helpers : ConnOK(h))
    BY DEF IInv, LineInv, LineOK, ConnOK
  <1>t. /\ leases \in [Slots -> [Holders -> 0..MaxLeases]] /\ minted \in 0..MaxHolders
        /\ owner \in [Holders -> Helpers \cup {Nobody}]
        /\ line \in [Holders -> {"none", "up", "gone", "closed"}]
        /\ op \in [Holders -> {"idle", "looked_up", "leased"}]
        /\ asked \in [Holders -> Frames \cup {NoFrame}]
        /\ conn \in [Helpers -> 0..MaxHolders]
        /\ claims \in [Holders -> [Frames -> 0..MaxLeases]]
        /\ \A f \in Frames : f[1] \in Slots
    BY DEF IInv, TypeOK, Frames
  <1>1. CASE RuntimeStep
    <2>1. UNCHANGED serviceSide
      BY <1>1, RuntimeFrame
    <2>. QED  BY <1>0, <2>1 DEF serviceSide, serviceVars, helperVars, LineOK, ConnOK
  <1>2. ASSUME NEW h \in Helpers, NEW f \in Frames, CheckOut(h, f)
        PROVE  (\A c \in Holders : LineOK(c)') /\ (\A k \in Helpers : ConnOK(k)')
    <2>1. BeginExchange(h) /\ UNCHANGED <<alive, leases, claims>>
      BY <1>2 DEF CheckOut, leaseVars
    <2>2. /\ \A c \in Holders : c <= minted' <=> owner'[c] # Nobody
          /\ \A c \in Holders : c <= minted' <=> line'[c] # "none"
          /\ \A c \in Holders : line'[c] = line[c] \/ (c = LineOf(h) /\ line'[c] = "up")
          /\ \A k \in Helpers : ConnOK(k)'
          /\ LineOf(h) \in Holders /\ line' = [line EXCEPT ![LineOf(h)] = "up"]
      BY <2>1, ExchangeKeeps, Exchange
    <2>3. /\ leases[f[1]][LineOf(h)] < MaxLeases /\ claims[LineOf(h)][f] < MaxLeases
          /\ \/ /\ op' = [op EXCEPT ![LineOf(h)] = "looked_up"]
                /\ asked' = [asked EXCEPT ![LineOf(h)] = f]
             \/ UNCHANGED <<op, asked>>
      BY <1>2 DEF CheckOut
    <2>4. ASSUME NEW c \in Holders PROVE LineOK(c)'
      <3>1. CASE c = LineOf(h)
        <4>1. line'[c] = "up"
          BY <1>t, <2>2, <3>1
        <4>2. op'[c] # "idle" => asked'[c] = f \/ (op'[c] = op[c] /\ asked'[c] = asked[c])
          BY <1>t, <2>2, <2>3, <3>1
        <4>. QED  BY <1>0, <2>1, <2>2, <2>3, <3>1, <4>1, <4>2 DEF LineOK
      <3>2. CASE c # LineOf(h)
        <4>1. line'[c] = line[c] /\ op'[c] = op[c] /\ asked'[c] = asked[c]
          BY <1>t, <2>2, <2>3, <3>2
        <4>. QED  BY <1>0, <2>1, <2>2, <4>1 DEF LineOK
      <3>. QED  BY <3>1, <3>2
    <2>. QED  BY <2>2, <2>4
  <1>3. ASSUME NEW c \in Holders, RecordLease(c)
        PROVE  (\A d \in Holders : LineOK(d)') /\ (\A k \in Helpers : ConnOK(k)')
    <2>1. UNCHANGED <<minted, owner, line, alive, conn, claims>>
      BY <1>3 DEF RecordLease, helperVars
    <2>2. /\ asked[c] \in Frames /\ asked[c][1] \in Slots
          /\ leases[asked[c][1]][c] + 1 \in 0..MaxLeases /\ op[c] = "looked_up"
      BY SMTT(30), <1>0, <1>t, <1>3 DEF RecordLease, LineOK
    <2>3. \/ /\ leases' = [leases EXCEPT ![asked[c][1]][c] = leases[asked[c][1]][c] + 1]
             /\ op' = [op EXCEPT ![c] = "leased"]
             /\ UNCHANGED asked
          \/ /\ op' = [op EXCEPT ![c] = "idle"]
             /\ asked' = [asked EXCEPT ![c] = NoFrame]
             /\ UNCHANGED leases
      BY <1>3 DEF RecordLease
    <2>4. \A s \in Slots : \A d \in Holders : d # c => leases'[s][d] = leases[s][d]
      <3>1. CASE UNCHANGED leases
        BY <3>1
      <3>2. CASE leases' = [leases EXCEPT ![asked[c][1]][c] = leases[asked[c][1]][c] + 1]
        <4>1. \A s \in Slots : \A d \in Holders :
                 leases'[s][d] = IF s = asked[c][1] /\ d = c THEN leases[asked[c][1]][c] + 1
                                                            ELSE leases[s][d]
          BY SMTT(30), <1>t, <2>2, <3>2, LeaseTable
        <4>. QED  BY <4>1
      <3>. QED  BY <2>3, <3>1, <3>2
    <2>5. ASSUME NEW d \in Holders PROVE LineOK(d)'
      <3>1. CASE d = c
        <4>1. op'[d] # "looked_up" /\ (op'[d] # "idle" => asked'[d] = asked[d])
          BY <1>t, <2>3, <3>1
        <4>2. line[d] \notin {"none", "closed"}
          BY <1>0, <2>2, <3>1 DEF LineOK
        <4>. QED  BY <1>0, <2>1, <2>2, <3>1, <4>1, <4>2 DEF LineOK
      <3>2. CASE d # c
        <4>1. op'[d] = op[d] /\ asked'[d] = asked[d]
          BY <1>t, <2>3, <3>2
        <4>2. \A s \in Slots : leases'[s][d] = leases[s][d]
          BY <2>4, <3>2
        <4>. QED  BY <1>0, <1>t, <2>1, <4>1, <4>2 DEF LineOK
      <3>. QED  BY <3>1, <3>2
    <2>. QED  BY <1>0, <2>1, <2>5 DEF ConnOK
  <1>4. ASSUME NEW h \in Helpers, ReceiveFrame(h)
        PROVE  (\A d \in Holders : LineOK(d)') /\ (\A k \in Helpers : ConnOK(k)')
    <2> DEFINE c == conn[h]
    <2>1. UNCHANGED <<minted, owner, line, alive, conn, leases>>
      BY <1>4 DEF ReceiveFrame, leaseVars
    <2>2. /\ c \in Holders /\ op[c] = "leased"
          /\ op' = [op EXCEPT ![c] = "idle"] /\ asked' = [asked EXCEPT ![c] = NoFrame]
      BY SMTT(30), <1>t, <1>4 DEF ReceiveFrame, Holders
    <2>3. claims' = claims
          \/ claims' = [claims EXCEPT ![c][asked[c]] = claims[c][asked[c]] + 1]
      BY <1>4 DEF ReceiveFrame
    <2>4. ASSUME NEW d \in Holders PROVE LineOK(d)'
      <3>1. CASE d = c
        <4>1. op'[d] = "idle" /\ line[d] # "none"
          BY <1>0, <1>t, <2>2, <3>1 DEF LineOK
        <4>. QED  BY <1>0, <2>1, <3>1, <4>1 DEF LineOK
      <3>2. CASE d # c
        <4>1. op'[d] = op[d] /\ asked'[d] = asked[d] /\ claims'[d] = claims[d]
          BY <1>t, <2>2, <2>3, <3>2
        <4>. QED  BY <1>0, <2>1, <4>1 DEF LineOK
      <3>. QED  BY <3>1, <3>2
    <2>. QED  BY <1>0, <2>1, <2>4 DEF ConnOK
  <1>5. ASSUME NEW h \in Helpers, NEW f \in Frames, NEW c \in Holders, ReleaseFrame(h, c, f)
        PROVE  (\A d \in Holders : LineOK(d)') /\ (\A k \in Helpers : ConnOK(k)')
    <2>1. BeginExchange(h) /\ UNCHANGED <<alive, op, asked>> /\ f[1] \in Slots
      BY <1>t, <1>5 DEF ReleaseFrame
    <2>2. /\ \A d \in Holders : d <= minted' <=> owner'[d] # Nobody
          /\ \A d \in Holders : d <= minted' <=> line'[d] # "none"
          /\ \A d \in Holders : line'[d] = line[d] \/ (d = LineOf(h) /\ line'[d] = "up")
          /\ \A k \in Helpers : ConnOK(k)'
          /\ LineOf(h) \in Holders
      BY <2>1, ExchangeKeeps, Exchange
    <2>3. \A d \in Holders : \A g \in Frames :
             claims'[d][g] \in 0..MaxLeases /\ claims'[d][g] <= claims[d][g]
      <3>1. claims[c][f] - 1 \in 0..MaxLeases /\ claims' = [claims EXCEPT ![c][f] = claims[c][f] - 1]
        BY SMTT(30), <1>t, <1>5 DEF ReleaseFrame
      <3>2. \A d \in Holders : \A g \in Frames :
               claims'[d][g] = IF d = c /\ g = f THEN claims[c][f] - 1 ELSE claims[d][g]
        BY SMTT(30), <1>t, <3>1, ClaimTable
      <3>3. \A d \in Holders : \A g \in Frames : claims[d][g] \in 0..MaxLeases
        BY SMTT(30), <1>t
      <3>. QED  BY SMTT(30), <3>1, <3>2, <3>3
    <2>4. \A s \in Slots : \A d \in Holders :
             leases'[s][d] \in 0..MaxLeases /\ leases'[s][d] <= leases[s][d]
      <3> DEFINE k == leases[f[1]][LineOf(h)]
                 j == IF k > 0 THEN k - 1 ELSE 0
      <3>1. k \in 0..MaxLeases /\ j \in 0..MaxLeases /\ j <= k
        BY SMTT(30), <1>t, <2>1, <2>2
      <3>2. leases' = [leases EXCEPT ![f[1]][LineOf(h)] = j]
        BY <1>5 DEF ReleaseFrame
      <3>3. \A s \in Slots : \A d \in Holders : leases[s][d] \in 0..MaxLeases
        BY SMTT(30), <1>t
      <3> HIDE DEF j
      <3>4. \A s \in Slots : \A d \in Holders :
               leases'[s][d] = IF s = f[1] /\ d = LineOf(h) THEN j ELSE leases[s][d]
        BY SMTT(30), <1>t, <2>1, <2>2, <3>1, <3>2, LeaseTable
      <3>. QED  BY SMTT(30), <3>1, <3>3, <3>4
    <2>5. ASSUME NEW d \in Holders PROVE LineOK(d)'
      <3>1. /\ \A g \in Frames : claims[d][g] \in 0..MaxLeases
            /\ \A s \in Slots : leases[s][d] \in 0..MaxLeases
        BY SMTT(30), <1>t
      <3>2. line'[d] \in {"none", "closed"} => line[d] = line'[d]
        BY <2>2
      <3>. QED  BY SMTT(30), <1>0, <1>t, <2>1, <2>2, <2>3, <2>4, <3>1, <3>2 DEF LineOK
    <2>. QED  BY <2>2, <2>5
  <1>6. ASSUME NEW h \in Helpers, ExchangeFails(h)
        PROVE  (\A d \in Holders : LineOK(d)') /\ (\A k \in Helpers : ConnOK(k)')
    <2>1. /\ UNCHANGED <<minted, owner, alive, leases, op, asked, claims>> /\ conn[h] \in Holders
          /\ line' = [line EXCEPT ![conn[h]] = "gone"] /\ conn' = [conn EXCEPT ![h] = 0]
      BY SMTT(30), <1>t, <1>6 DEF ExchangeFails, leaseVars, Holders
    <2>2. line[conn[h]] = "up" /\ owner[conn[h]] = h
      BY <1>0, <1>6 DEF ExchangeFails, ConnOK
    <2>3. ASSUME NEW d \in Holders PROVE LineOK(d)'
      <3>1. line'[d] = line[d] \/ (line[d] = "up" /\ line'[d] = "gone")
        BY <1>t, <2>1, <2>2
      <3>. QED  BY <1>0, <2>1, <3>1 DEF LineOK
    <2>4. ASSUME NEW k \in Helpers PROVE ConnOK(k)'
      <3>1. conn'[k] # 0 => k # h /\ conn'[k] = conn[k] /\ conn[k] \in Holders
        BY SMTT(30), <1>t, <2>1 DEF Holders
      <3>2. conn'[k] # 0 => conn[k] # conn[h]
        BY <1>0, <2>2, <3>1 DEF ConnOK
      <3>3. conn'[k] # 0 => line'[conn[k]] = line[conn[k]]
        BY <1>t, <2>1, <3>1, <3>2
      <3>. QED  BY <1>0, <2>1, <3>1, <3>3 DEF ConnOK
    <2>. QED  BY <2>3, <2>4
  <1>7. ASSUME NEW h \in Helpers, HelperDies(h)
        PROVE  (\A d \in Holders : LineOK(d)') /\ (\A k \in Helpers : ConnOK(k)')
    <2>1. /\ UNCHANGED <<minted, owner, leases, op, asked>> /\ alive' = alive \ {h}
          /\ line' = [c \in Holders |-> IF c = conn[h] THEN "gone" ELSE line[c]]
          /\ claims' = [c \in Holders |-> IF owner[c] = h THEN [f \in Frames |-> 0]
                                                          ELSE claims[c]]
          /\ conn' = [conn EXCEPT ![h] = 0]
      BY <1>7 DEF HelperDies, leaseVars
    <2>2. ASSUME NEW d \in Holders PROVE LineOK(d)'
      <3>1. line'[d] = line[d] \/ (line[d] = "up" /\ line'[d] = "gone")
        <4>1. d # 0
          BY SMTT(30) DEF Holders
        <4>2. d = conn[h] => line[d] = "up"
          BY <1>0, <4>1 DEF ConnOK
        <4>. QED  BY <2>1, <4>2
      <3>2. \A f \in Frames : claims'[d][f] \in 0..MaxLeases /\ claims[d][f] \in 0..MaxLeases
                              /\ claims'[d][f] <= claims[d][f]
        <4>1. SUFFICES ASSUME NEW f \in Frames
                       PROVE  /\ claims'[d][f] \in 0..MaxLeases /\ claims[d][f] \in 0..MaxLeases
                              /\ claims'[d][f] <= claims[d][f]
          OBVIOUS
        <4>2. claims[d][f] \in 0..MaxLeases
          BY SMTT(30), <1>t
        <4>3. claims'[d][f] = 0 \/ claims'[d][f] = claims[d][f]
          BY <1>t, <2>1
        <4>. QED  BY SMTT(30), <4>2, <4>3
      <3>. QED  BY SMTT(30), <1>0, <2>1, <3>1, <3>2 DEF LineOK
    <2>3. ASSUME NEW k \in Helpers PROVE ConnOK(k)'
      <3>1. conn'[k] # 0 => k # h /\ conn'[k] = conn[k] /\ conn[k] \in Holders
        BY SMTT(30), <1>t, <2>1 DEF Holders
      <3>2. conn'[k] # 0 => conn[k] # conn[h]
        BY <1>0, <3>1 DEF ConnOK
      <3>3. conn'[k] # 0 => line'[conn[k]] = line[conn[k]]
        BY <1>t, <2>1, <3>1, <3>2
      <3>. QED  BY <1>0, <2>1, <3>1, <3>3 DEF ConnOK
    <2>. QED  BY <2>2, <2>3
  <1>8. ASSUME NEW c \in Holders, ConnectionEnds(c)
        PROVE  (\A d \in Holders : LineOK(d)') /\ (\A k \in Helpers : ConnOK(k)')
    <2>1. /\ UNCHANGED <<minted, owner, alive, conn, claims>> /\ line[c] = "gone"
          /\ leases' = [s \in Slots |-> [leases[s] EXCEPT ![c] = 0]]
          /\ line' = [line EXCEPT ![c] = "closed"]
          /\ op' = [op EXCEPT ![c] = "idle"] /\ asked' = [asked EXCEPT ![c] = NoFrame]
      BY <1>8 DEF ConnectionEnds, helperVars
    <2>2. ASSUME NEW d \in Holders PROVE LineOK(d)'
      <3>1. CASE d = c
        <4>1. line'[d] = "closed" /\ op'[d] = "idle" /\ \A s \in Slots : leases'[s][d] = 0
          BY <1>t, <2>1, <3>1
        <4>. QED  BY <1>0, <2>1, <3>1, <4>1 DEF LineOK
      <3>2. CASE d # c
        <4>1. /\ line'[d] = line[d] /\ op'[d] = op[d] /\ asked'[d] = asked[d]
              /\ \A s \in Slots : leases'[s][d] = leases[s][d]
          BY <1>t, <2>1, <3>2
        <4>. QED  BY <1>0, <1>t, <2>1, <4>1 DEF LineOK
      <3>. QED  BY <3>1, <3>2
    <2>3. ASSUME NEW k \in Helpers PROVE ConnOK(k)'
      <3>1. conn[k] # 0 => conn[k] # c /\ conn[k] \in Holders
        BY SMTT(30), <1>0, <1>t, <2>1 DEF ConnOK, Holders
      <3>. QED  BY <1>0, <1>t, <2>1, <3>1 DEF ConnOK
    <2>. QED  BY <2>2, <2>3
  <1>. QED  BY <1>0, <1>1, <1>2, <1>3, <1>4, <1>5, <1>6, <1>7, <1>8, Sides DEF ServiceStep
=============================================================================
