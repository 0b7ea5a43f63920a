------------------------- MODULE SurfacePoolProofs -------------------------
(***************************************************************************)
(* What the pool, the lease table and the connections promise, proved for  *)
(* any number of threads, helpers, slots, connections and frames: a frame  *)
(* that is held stays current, a lease ends with its connection, and the   *)
(* whole implements FrameContract.                                         *)
(***************************************************************************)
EXTENDS SurfacePoolInvariant, FiniteSetTheorems

\* A leaf that names no prover is tried with Zenon, then with the SMT solver.
USE ZenonT(30), SMTT(30)

-----------------------------------------------------------------------------
(* What the counts stand for.                                              *)

\* The frames, the cache and the sharers of a slot are finite sets.
LEMMA FiniteSides ==
    ASSUME TypeOK
    PROVE  /\ IsFiniteSet(cache) /\ Cardinality(cache) \in Nat
           /\ \A s : IsFiniteSet({f \in cache : f[1] = s})
           /\ \A s : IsFiniteSet(Sharers(s))
  <1>1. IsFiniteSet(Slots) /\ IsFiniteSet(Gens)
    <2>1. 1 \in Int /\ PoolMax \in Int /\ MaxGen \in Int
      BY SMTT(30), PoolAssumption, BoundAssumption
    <2>. QED  BY <2>1, FS_Interval DEF Slots, Gens
  <1>2. IsFiniteSet(Frames)
    BY <1>1, FS_Product DEF Frames
  <1>3. IsFiniteSet(cache)
    BY <1>2, FS_Subset DEF TypeOK
  <1>4. ASSUME NEW s PROVE IsFiniteSet({f \in cache : f[1] = s})
    <2>1. {f \in cache : f[1] = s} \subseteq cache
      OBVIOUS
    <2>. QED  BY <1>3, <2>1, FS_Subset
  <1>5. ASSUME NEW s PROVE IsFiniteSet(Sharers(s))
    <2>1. Sharers(s) \subseteq Threads
      BY DEF Sharers, TypeOK
    <2>. QED  BY <2>1, FS_Subset, PoolAssumption
  <1>. QED  BY <1>3, <1>4, <1>5, FS_CardinalityType

\* The reuse test: a slot that may be handed off has no lease, and no thread
\* with a share of it while the cache has an entry of it.
LEMMA ReuseTest ==
    ASSUME TypeOK, NEW s \in Slots, MayHandOff(s), NEW t \in shared, NEW f \in cache,
           holds[t][1] = s, f[1] = s
    PROVE  FALSE
  <1> DEFINE A == {g \in cache : g[1] = s}
             B == Sharers(s)
  <1>1. IsFiniteSet(A) /\ IsFiniteSet(B)
    BY FiniteSides
  <1>2. f \in A /\ t \in B
    BY DEF Sharers
  <1>3. Cardinality(A) \in Nat /\ Cardinality(A) # 0
    BY <1>1, <1>2, FS_CardinalityType, FS_EmptySet
  <1>4. Cardinality(B) \in Nat /\ Cardinality(B) # 0
    BY <1>1, <1>2, FS_CardinalityType, FS_EmptySet
  <1>5. 1 + Cardinality(A) + Cardinality(B) <= 2
    BY DEF MayHandOff, StrongCount
  <1> HIDE DEF A, B
  <1>. QED  BY SMTT(30), <1>3, <1>4, <1>5

LEMMA CountsHold == TypeOK => CountsMean
  <1>. SUFFICES ASSUME TypeOK PROVE CountsMean
    OBVIOUS
  <1>1. Cardinality(cache) \in Nat
    BY FiniteSides
  <1>2. \A s \in Slots, t \in shared, f \in cache :
          MayHandOff(s) => ~(holds[t][1] = s /\ f[1] = s)
    BY ReuseTest
  <1>. QED  BY <1>1, <1>2 DEF CountsMean

-----------------------------------------------------------------------------
(* The helpers.                                                            *)

\* A connection of a helper that never dropped one.
Good(c) == owner[c] # Nobody /\ owner[c] \notin failed

\* HelperInv, of one connection.
HelperOK(c) ==
    /\ owner[c] \in alive => conn[owner[c]] = c
    /\ owner[c] \notin alive => \A f \in Frames : claims[c][f] = 0
    /\ \A f \in Frames : Owed(c, f) > 0 => f[2] = gen[f[1]]
    /\ \A f \in Frames : Owed(c, f) <= leases[f[1]][c]

\* A slot with a good connection's claim is never handed off: its lease is in
\* the table, so the reuse test refuses it; and an expansion's slot is new.
LEMMA OwedSlotIsKept ==
    ASSUME IInv, NEW c \in Holders, Good(c), NEW f \in Frames, Owed(c, f) > 0
    PROVE  /\ ~MayHandOff(f[1])
           /\ gen[f[1]] # 0
  <1>1. f[1] \in Slots /\ f[2] \in Nat \ {0} /\ leases[f[1]][c] \in Nat /\ claims[c][f] \in Nat
    BY SMTT(30), BoundAssumption DEF IInv, TypeOK, Frames, Gens
  <1>2. Owed(c, f) \in Nat
    BY SMTT(30), <1>1 DEF Owed
  <1>3. f[2] = gen[f[1]] /\ Owed(c, f) <= leases[f[1]][c]
    BY DEF IInv, HelperInv, Good
  <1>4. IsCheckedOut(f[1])
    BY SMTT(30), <1>1, <1>2, <1>3 DEF IsCheckedOut
  <1>. QED  BY <1>1, <1>3, <1>4 DEF MayHandOff

\* The steps of the runtime keep HelperInv.
LEMMA HelperRuntime ==
    ASSUME IInv, RuntimeStep, NEW c \in Holders, Good(c)'
    PROVE  HelperOK(c)'
  <1>1. UNCHANGED serviceSide
    BY RuntimeFrame
  <1>2. /\ UNCHANGED <<leases, owner, alive, conn, claims, failed>>
        /\ \A f : Owed(c, f)' = Owed(c, f)
    BY <1>1 DEF serviceSide, serviceVars, helperVars, Owed
  <1>3. Good(c)
    BY <1>2 DEF Good
  <1>4. HelperOK(c)
    BY <1>3 DEF IInv, HelperInv, HelperOK, Good
  <1>5. \A f \in Frames : Owed(c, f) > 0 => gen'[f[1]] = gen[f[1]]
    <2>. SUFFICES ASSUME NEW f \in Frames, Owed(c, f) > 0
                  PROVE  gen'[f[1]] = gen[f[1]]
      OBVIOUS
    <2>1. ~MayHandOff(f[1]) /\ gen[f[1]] # 0
      BY <1>3, OwedSlotIsKept
    <2>2. gen \in [Slots -> 0..MaxGen] /\ f[1] \in Slots
      BY DEF IInv, TypeOK, Frames
    <2>3. CASE ScanSlot
      <3>1. gen' = gen \/ (MayHandOff(next + 1)
                           /\ gen' = [gen EXCEPT ![next + 1] = gen[next + 1] + 1])
        BY <2>3, ScanFacts
      <3>. QED  BY <2>1, <2>2, <3>1
    <2>4. CASE Grow
      <3>1. gen[n + 1] = 0 /\ gen' = [gen EXCEPT ![n + 1] = 1]
        BY <2>4, GrowFacts
      <3>. QED  BY <2>1, <2>2, <3>1
    <2>5. CASE ~ScanSlot /\ ~Grow
      BY <2>5 DEF RuntimeStep, AcquireStep, RetireInCache, ScanEnds, AcquireFails,
                  CachePlainBuffer, AcquireStart, DropBuffer, ResolveFromCache,
                  ResolveByLookup, poolVars
    <2>. QED  BY <2>3, <2>4, <2>5
  <1>. QED  BY <1>2, <1>4, <1>5 DEF HelperOK

\* BeginExchange leaves the good connections of the other helpers alone, and a
\* helper's own good connection is the one it uses.
LEMMA ExchangeGood ==
    ASSUME IInv, NEW h \in Helpers, BeginExchange(h), UNCHANGED failed,
           NEW d \in Holders, Good(d)'
    PROVE  \/ d = LineOf(h) /\ owner'[d] = h /\ conn'[h] = d /\ h \in alive
           \/ /\ d # LineOf(h) /\ Good(d) /\ owner'[d] = owner[d] /\ owner[d] # h
              /\ conn'[owner[d]] = conn[owner[d]]
  <1>1. /\ LineOf(h) \in Holders /\ h \in alive
        /\ conn' = [conn EXCEPT ![h] = LineOf(h)]
        /\ owner' = [owner EXCEPT ![LineOf(h)] = h]
        /\ conn[h] # 0 => LineOf(h) = conn[h]
    BY Exchange
  <1>2. owner \in [Holders -> Helpers \cup {Nobody}] /\ conn \in [Helpers -> 0..MaxHolders]
    BY DEF IInv, TypeOK
  <1>3. CASE d = LineOf(h)
    BY <1>1, <1>2, <1>3
  <1>4. CASE d # LineOf(h)
    <2>1. owner'[d] = owner[d] /\ Good(d)
      BY <1>1, <1>2, <1>4 DEF Good
    <2>2. owner[d] \in alive => conn[owner[d]] = d
      BY <2>1 DEF IInv, HelperInv, Good
    <2>3. d # 0
      BY SMTT(30) DEF Holders
    <2>4. owner[d] # h
      BY <1>1, <1>4, <2>2, <2>3
    <2>. QED  BY <1>1, <1>2, <1>4, <2>1, <2>4 DEF Good
  <1>. QED  BY <1>3, <1>4
\* HelperInv gives every good connection its due.
LEMMA HelperHas ==
    ASSUME IInv, NEW d \in Holders, Good(d)
    PROVE  HelperOK(d)
  BY DEF IInv, HelperInv, HelperOK, Good

\* A good connection whose claims, request, leases and helper are as before.
LEMMA HelperFrame ==
    ASSUME IInv, UNCHANGED gen, NEW d \in Holders, Good(d),
           owner'[d] = owner[d], op'[d] = op[d], asked'[d] = asked[d],
           claims'[d] = claims[d], owner[d] \in alive' <=> owner[d] \in alive,
           owner[d] \in alive => conn'[owner[d]] = conn[owner[d]],
           \A s \in Slots : leases'[s][d] = leases[s][d]
    PROVE  HelperOK(d)'
  <1>1. HelperOK(d)
    BY DEF IInv, HelperInv, HelperOK, Good
  <1>2. \A f : Owed(d, f)' = Owed(d, f)
    BY DEF Owed
  <1>3. \A f \in Frames : f[1] \in Slots
    BY DEF Frames
  <1>. QED  BY <1>1, <1>2, <1>3 DEF HelperOK

\* The steps of the helpers and of the service keep HelperInv.
LEMMA HelperService ==
    ASSUME IInv, ServiceStep, NEW d \in Holders, Good(d)'
    PROVE  HelperOK(d)'
  <1>. USE PoolAssumption, BoundAssumption
  <1>0. UNCHANGED <<gen, current>> /\ current = gen
    <2>1. UNCHANGED runtimeSide
      BY ServiceFrame
    <2>. QED  BY <2>1 DEF runtimeSide, poolVars, IInv, PoolInv
  <1>i. Good(d) => HelperOK(d)
    BY HelperHas
  <1>t. /\ leases \in [Slots -> [Holders -> 0..MaxLeases]]
        /\ owner \in [Holders -> Helpers \cup {Nobody}]
        /\ op \in [Holders -> {"idle", "looked_up", "leased"}]
        /\ asked \in [Holders -> Frames \cup {NoFrame}]
        /\ conn \in [Helpers -> 0..MaxHolders]
        /\ claims \in [Holders -> [Frames -> 0..MaxLeases]]
        /\ \A f \in Frames : f[1] \in Slots /\ f = <<f[1], f[2]>>
    <2>1. \A f \in Frames : f[1] \in Slots /\ f = <<f[1], f[2]>>
      BY SMTT(30) DEF Frames
    <2>. QED  BY <2>1 DEF IInv, TypeOK
  <1>n. \A f \in Frames : claims[d][f] \in Nat /\ leases[f[1]][d] \in Nat /\ Owed(d, f) \in Nat
                          /\ claims[d][f] <= Owed(d, f)
    <2>. SUFFICES ASSUME NEW f \in Frames
                  PROVE  /\ claims[d][f] \in Nat /\ leases[f[1]][d] \in Nat
                         /\ Owed(d, f) \in Nat /\ claims[d][f] <= Owed(d, f)
      OBVIOUS
    <2>1. claims[d][f] \in Nat /\ leases[f[1]][d] \in Nat
      BY SMTT(30), <1>t
    <2>. QED  BY SMTT(30), <2>1 DEF Owed
  <1>1. ASSUME NEW h \in Helpers, NEW f \in Frames, CheckOut(h, f)
        PROVE  HelperOK(d)'
    <2>1. BeginExchange(h) /\ UNCHANGED <<alive, leases, claims, failed>>
      BY <1>1 DEF CheckOut, leaseVars
    <2>2. \/ /\ op' = [op EXCEPT ![LineOf(h)] = "looked_up"]
             /\ asked' = [asked EXCEPT ![LineOf(h)] = f]
          \/ UNCHANGED <<op, asked>>
      BY <1>1 DEF CheckOut
    <2>3. LineOf(h) \in Holders /\ op[LineOf(h)] = "idle"
          /\ (owner[LineOf(h)] = h \/ line[LineOf(h)] = "none")
      BY <2>1, Exchange
    <2>4. CASE d = LineOf(h) /\ owner'[d] = h /\ conn'[h] = d /\ h \in alive
      <3>1. op'[d] # "leased" /\ op[d] # "leased"
        BY <1>t, <2>2, <2>3, <2>4
      <3>2. \A g \in Frames : Owed(d, g)' = claims[d][g] /\ Owed(d, g) = claims[d][g]
        BY SMTT(30), <1>n, <2>1, <3>1 DEF Owed
      <3>3. CASE owner[d] = h
        <4>1. Good(d)
          BY <2>1, <2>4, <3>3 DEF Good
        <4>. QED  BY SMTT(30), <1>0, <1>i, <2>1, <2>4, <3>2, <4>1 DEF HelperOK
      <3>4. CASE line[d] = "none"
        <4>1. \A g \in Frames : claims[d][g] = 0
          BY <3>4 DEF IInv, LineInv
        <4>. QED  BY SMTT(30), <1>n, <2>1, <2>4, <3>2, <4>1 DEF HelperOK
      <3>. QED  BY <2>3, <2>4, <3>3, <3>4
    <2>5. CASE /\ d # LineOf(h) /\ Good(d) /\ owner'[d] = owner[d]
               /\ conn'[owner[d]] = conn[owner[d]]
      <3>1. op'[d] = op[d] /\ asked'[d] = asked[d]
        BY <1>t, <2>2, <2>3, <2>5
      <3>. QED  BY <1>0, <2>1, <2>5, <3>1, HelperFrame
    <2>. QED  BY <2>1, <2>4, <2>5, ExchangeGood
  <1>2. ASSUME NEW c \in Holders, RecordLease(c)
        PROVE  HelperOK(d)'
    <2>1. UNCHANGED <<owner, alive, conn, claims, failed>> /\ op[c] = "looked_up"
      BY <1>2 DEF RecordLease, helperVars
    <2>2. Good(d) /\ HelperOK(d)
      BY <1>i, <2>1 DEF Good
    <2>3. asked[c] \in Frames /\ leases[asked[c][1]][c] + 1 \in 0..MaxLeases
      <3>1. asked[c] \in Frames /\ leases[asked[c][1]][c] < MaxLeases
        BY <2>1 DEF IInv, LineInv
      <3>2. leases[asked[c][1]][c] \in 0..MaxLeases
        BY SMTT(30), <1>t, <3>1
      <3>. QED  BY SMTT(30), <3>1, <3>2
    <2>4. CASE IsLive(asked[c])
      <3>1. /\ leases' = [leases EXCEPT ![asked[c][1]][c] = leases[asked[c][1]][c] + 1]
            /\ op' = [op EXCEPT ![c] = "leased"] /\ UNCHANGED asked
        BY <1>2, <2>4 DEF RecordLease
      <3>2. \A s \in Slots : \A b \in Holders :
               leases'[s][b] = IF s = asked[c][1] /\ b = c THEN leases[asked[c][1]][c] + 1
                                                           ELSE leases[s][b]
        BY SMTT(30), <1>t, <2>3, <3>1, LeaseTable
      <3>3. CASE d = c
        <4>. SUFFICES ASSUME NEW g \in Frames
                      PROVE  /\ Owed(d, g)' > 0 => g[2] = gen[g[1]]
                             /\ Owed(d, g)' <= leases'[g[1]][d]
          BY <1>0, <2>1, <2>2 DEF HelperOK
        <4>1. op'[d] = "leased" /\ op[d] = "looked_up"
          BY <1>t, <2>1, <3>1, <3>3
        <4>2. CASE g = asked[c]
          <5>1. Owed(d, g)' = Owed(d, g) + 1
            BY SMTT(30), <1>n, <2>1, <3>1, <3>3, <4>1, <4>2 DEF Owed
          <5>2. leases'[g[1]][d] = leases[g[1]][d] + 1
            BY <1>t, <3>2, <3>3, <4>2
          <5>3. Owed(d, g) <= leases[g[1]][d]
            BY <2>2 DEF HelperOK
          <5>4. g[2] = gen[g[1]]
            BY <1>0, <2>4, <4>2 DEF IsLive
          <5>. QED  BY SMTT(30), <1>n, <5>1, <5>2, <5>3, <5>4
        <4>3. CASE g # asked[c]
          <5>1. Owed(d, g)' = Owed(d, g)
            BY <2>1, <3>1, <3>3, <4>1, <4>3 DEF Owed
          <5>2. leases'[g[1]][d] \in Nat /\ leases'[g[1]][d] >= leases[g[1]][d]
            BY SMTT(30), <1>n, <1>t, <3>2, <3>3
          <5>3. Owed(d, g) <= leases[g[1]][d] /\ (Owed(d, g) > 0 => g[2] = gen[g[1]])
            BY <2>2 DEF HelperOK
          <5>. QED  BY SMTT(30), <1>n, <5>1, <5>2, <5>3
        <4>. QED  BY <4>2, <4>3
      <3>4. CASE d # c
        <4>1. op'[d] = op[d] /\ asked'[d] = asked[d] /\ \A s \in Slots : leases'[s][d] = leases[s][d]
          BY <1>t, <3>1, <3>2, <3>4
        <4>. QED  BY <1>0, <2>1, <2>2, <4>1, HelperFrame
      <3>. QED  BY <3>3, <3>4
    <2>5. CASE ~IsLive(asked[c])
      <3>1. UNCHANGED leases /\ op' = [op EXCEPT ![c] = "idle"]
            /\ asked' = [asked EXCEPT ![c] = NoFrame]
        BY <1>2, <2>5 DEF RecordLease
      <3>2. \A g \in Frames : Owed(d, g)' = Owed(d, g)
        BY <1>t, <2>1, <3>1 DEF Owed
      <3>. QED  BY <1>0, <2>1, <2>2, <3>1, <3>2 DEF HelperOK
    <2>. QED  BY <2>4, <2>5
  <1>3. ASSUME NEW h \in Helpers, ReceiveFrame(h)
        PROVE  HelperOK(d)'
    <2> DEFINE c == conn[h]
    <2>1. UNCHANGED <<owner, alive, conn, leases, failed>> /\ h \in alive
      BY <1>3 DEF ReceiveFrame, leaseVars
    <2>2. /\ c \in Holders /\ op[c] = "leased"
          /\ op' = [op EXCEPT ![c] = "idle"] /\ asked' = [asked EXCEPT ![c] = NoFrame]
      BY SMTT(30), <1>t, <1>3 DEF ReceiveFrame, Holders
    <2>3. asked[c] \in Frames /\ claims[c][asked[c]] + 1 \in 0..MaxLeases /\ owner[c] = h
      <3>1. asked[c] \in Frames /\ claims[c][asked[c]] < MaxLeases
        BY <2>2 DEF IInv, LineInv
      <3>2. claims[c][asked[c]] \in 0..MaxLeases
        BY SMTT(30), <1>t, <2>2, <3>1
      <3>3. c # 0
        BY SMTT(30), <2>2 DEF Holders
      <3>. QED  BY SMTT(30), <3>1, <3>2, <3>3 DEF IInv, LineInv
    <2>4. claims' = claims
          \/ claims' = [claims EXCEPT ![c][asked[c]] = claims[c][asked[c]] + 1]
      BY <1>3 DEF ReceiveFrame
    <2>5. Good(d) /\ HelperOK(d)
      BY <1>i, <2>1 DEF Good
    <2> HIDE DEF c
    <2>6. CASE d = c
      <3>1. \A g \in Frames : claims'[d][g] = claims[d][g]
                              \/ (g = asked[d] /\ claims'[d][g] = claims[d][g] + 1)
        <4>1. CASE claims' = claims
          BY <4>1
        <4>2. CASE claims' = [claims EXCEPT ![c][asked[c]] = claims[c][asked[c]] + 1]
          <5>1. \A x \in Holders : \A y \in Frames :
                   claims'[x][y] = IF x = c /\ y = asked[c] THEN claims[c][asked[c]] + 1
                                                            ELSE claims[x][y]
            BY SMTT(30), <1>t, <2>2, <2>3, <4>2, ClaimTable
          <5>. QED  BY <2>6, <5>1
        <4>. QED  BY <2>4, <4>1, <4>2
      <3>2. op'[d] = "idle" /\ op[d] = "leased"
        BY <1>t, <2>2, <2>6
      <3>3. \A g \in Frames : Owed(d, g)' \in Nat /\ Owed(d, g)' <= Owed(d, g)
        BY SMTT(30), <1>n, <3>1, <3>2 DEF Owed
      <3>4. \A g \in Frames : Owed(d, g)' <= leases[g[1]][d] /\ (Owed(d, g)' > 0 => g[2] = gen[g[1]])
        BY SMTT(30), <1>n, <2>5, <3>3 DEF HelperOK
      <3>. QED  BY <1>0, <2>1, <2>3, <2>5, <2>6, <3>4 DEF HelperOK
    <2>7. CASE d # c
      <3>1. op'[d] = op[d] /\ asked'[d] = asked[d] /\ claims'[d] = claims[d]
        BY <1>t, <2>2, <2>4, <2>7
      <3>. QED  BY <1>0, <2>1, <2>5, <3>1, HelperFrame
    <2>. QED  BY <2>6, <2>7
  <1>4. ASSUME NEW h \in Helpers, NEW f \in Frames, NEW c \in Holders, ReleaseFrame(h, c, f)
        PROVE  HelperOK(d)'
    <2>1. BeginExchange(h) /\ UNCHANGED <<alive, op, asked, failed>> /\ f[1] \in Slots
          /\ owner[c] = h /\ claims[c][f] > 0
      BY <1>t, <1>4 DEF ReleaseFrame
    <2>2. LineOf(h) \in Holders /\ h \in alive /\ (conn[h] # 0 => LineOf(h) = conn[h])
      BY <2>1, Exchange
    <2>3. \A x \in Holders : \A g \in Frames :
             claims'[x][g] = IF x = c /\ g = f THEN claims[c][f] - 1 ELSE claims[x][g]
      <3>1. claims[c][f] - 1 \in 0..MaxLeases
            /\ claims' = [claims EXCEPT ![c][f] = claims[c][f] - 1]
        BY SMTT(30), <1>t, <1>4 DEF ReleaseFrame
      <3>. QED  BY SMTT(30), <1>t, <3>1, ClaimTable
    <2> DEFINE k == leases[f[1]][LineOf(h)]
               j == IF k > 0 THEN k - 1 ELSE 0
    <2>4. \A s \in Slots : \A x \in Holders :
             leases'[s][x] = IF s = f[1] /\ x = LineOf(h) THEN j ELSE leases[s][x]
      <3>1. k \in 0..MaxLeases /\ j \in 0..MaxLeases
        BY SMTT(30), <1>t, <2>1, <2>2
      <3>2. leases' = [leases EXCEPT ![f[1]][LineOf(h)] = j]
        BY <1>4 DEF ReleaseFrame
      <3> HIDE DEF j
      <3>. QED  BY SMTT(30), <1>t, <2>1, <2>2, <3>1, <3>2, LeaseTable
    <2>5. CASE d = LineOf(h) /\ owner'[d] = h /\ conn'[h] = d /\ h \in alive
      <3>1. Good(c) /\ h # Nobody
        BY <2>1, <2>5 DEF Good
      <3>2. c = d
        <4>1. owner[c] \in alive => conn[owner[c]] = c
          BY <3>1 DEF IInv, HelperInv, Good
        <4>2. c # 0
          BY SMTT(30) DEF Holders
        <4>. QED  BY <2>1, <2>2, <2>5, <4>1, <4>2
      <3>3. HelperOK(d)
        BY <1>i, <3>1, <3>2
      <3>4. claims[d][f] \in Nat /\ claims[d][f] > 0 /\ claims[d][f] <= Owed(d, f)
            /\ Owed(d, f) <= leases[f[1]][d] /\ f[2] = gen[f[1]]
        BY SMTT(30), <1>n, <2>1, <3>2, <3>3 DEF HelperOK
      <3>5. leases'[f[1]][d] = leases[f[1]][d] - 1
        BY SMTT(30), <1>n, <2>1, <2>4, <2>5, <3>4
      <3>. SUFFICES ASSUME NEW g \in Frames
                    PROVE  /\ Owed(d, g)' > 0 => g[2] = gen[g[1]]
                           /\ Owed(d, g)' <= leases'[g[1]][d]
        BY <1>0, <2>1, <2>5 DEF HelperOK
      <3>6. CASE g = f
        <4>1. Owed(d, g)' = Owed(d, g) - 1
          BY SMTT(30), <1>n, <2>1, <2>3, <3>2, <3>6 DEF Owed
        <4>. QED  BY SMTT(30), <1>n, <3>4, <3>5, <3>6, <4>1
      <3>7. CASE g # f
        <4>1. Owed(d, g)' = Owed(d, g)
          BY <2>1, <2>3, <3>7 DEF Owed
        <4>2. Owed(d, g) <= leases[g[1]][d] /\ (Owed(d, g) > 0 => g[2] = gen[g[1]])
          BY <3>3 DEF HelperOK
        <4>3. CASE g[1] = f[1]
          <5>1. Owed(d, g) = 0
            <6>1. g = <<g[1], g[2]>> /\ f = <<f[1], f[2]>>
              BY <1>t
            <6>2. g[2] # f[2]
              BY <3>7, <4>3, <6>1
            <6>3. Owed(d, g) \in Nat
              BY <1>n
            <6>. QED  BY SMTT(30), <3>4, <4>2, <4>3, <6>2, <6>3
          <5>. QED  BY SMTT(30), <1>n, <3>4, <3>5, <4>1, <4>3, <5>1
        <4>4. CASE g[1] # f[1]
          BY <1>t, <2>4, <4>1, <4>2, <4>4
        <4>. QED  BY <4>3, <4>4
      <3>. QED  BY <3>6, <3>7
    <2>6. CASE /\ d # LineOf(h) /\ Good(d) /\ owner'[d] = owner[d] /\ owner[d] # h
               /\ conn'[owner[d]] = conn[owner[d]]
      <3>1. d # c
        BY <2>1, <2>6
      <3>2. \A s \in Slots : leases'[s][d] = leases[s][d]
        BY <2>4, <2>6
      <3>3. claims'[d] = claims[d]
        BY <1>t, <1>4, <3>1 DEF ReleaseFrame
      <3>. QED  BY <1>0, <2>1, <2>6, <3>2, <3>3, HelperFrame
    <2>. QED  BY <2>1, <2>5, <2>6, ExchangeGood
  <1>5. ASSUME NEW h \in Helpers, ExchangeFails(h)
        PROVE  HelperOK(d)'
    <2>1. /\ UNCHANGED <<owner, alive, leases, op, asked, claims>>
          /\ conn' = [conn EXCEPT ![h] = 0] /\ failed' = failed \cup {h}
      BY <1>5 DEF ExchangeFails, leaseVars
    <2>2. Good(d) /\ owner[d] # h /\ owner[d] \in Helpers
      BY <1>t, <2>1 DEF Good
    <2>3. conn'[owner[d]] = conn[owner[d]]
      BY <1>t, <2>1, <2>2
    <2>. QED  BY <1>0, <2>1, <2>2, <2>3, HelperFrame
  <1>6. ASSUME NEW h \in Helpers, HelperDies(h)
        PROVE  HelperOK(d)'
    <2>1. /\ UNCHANGED <<owner, leases, op, asked, failed>> /\ alive' = alive \ {h}
          /\ claims' = [c \in Holders |-> IF owner[c] = h THEN [f \in Frames |-> 0]
                                                          ELSE claims[c]]
          /\ conn' = [conn EXCEPT ![h] = 0]
      BY <1>6 DEF HelperDies, leaseVars
    <2>2. Good(d) /\ HelperOK(d) /\ owner[d] \in Helpers
      BY <1>i, <1>t, <2>1 DEF Good
    <2>3. CASE owner[d] = h
      <3>1. \A g \in Frames : claims'[d][g] = 0
        BY <2>1, <2>3
      <3>2. \A g \in Frames : Owed(d, g)' \in Nat /\ Owed(d, g)' <= Owed(d, g)
        BY SMTT(30), <1>n, <2>1, <3>1 DEF Owed
      <3>3. \A g \in Frames : Owed(d, g)' <= leases[g[1]][d] /\ (Owed(d, g)' > 0 => g[2] = gen[g[1]])
        BY SMTT(30), <1>n, <2>2, <3>2 DEF HelperOK
      <3>. QED  BY <1>0, <2>1, <2>3, <3>1, <3>3 DEF HelperOK
    <2>4. CASE owner[d] # h
      <3>1. claims'[d] = claims[d] /\ conn'[owner[d]] = conn[owner[d]]
        BY <1>t, <2>1, <2>2, <2>4
      <3>. QED  BY <1>0, <2>1, <2>2, <2>4, <3>1, HelperFrame
    <2>. QED  BY <2>3, <2>4
  <1>7. ASSUME NEW c \in Holders, ConnectionEnds(c)
        PROVE  HelperOK(d)'
    <2>1. /\ UNCHANGED <<owner, alive, conn, claims, failed>> /\ line[c] = "gone"
          /\ leases' = [s \in Slots |-> [leases[s] EXCEPT ![c] = 0]]
          /\ op' = [op EXCEPT ![c] = "idle"] /\ asked' = [asked EXCEPT ![c] = NoFrame]
      BY <1>7 DEF ConnectionEnds, helperVars
    <2>2. Good(d) /\ HelperOK(d) /\ owner[d] \in Helpers
      BY <1>i, <1>t, <2>1 DEF Good
    <2>3. CASE d = c
      <3>1. owner[d] \notin alive
        <4>1. d # 0
          BY SMTT(30) DEF Holders
        <4>2. conn[owner[d]] # 0 => line[conn[owner[d]]] = "up"
          BY <2>2 DEF IInv, LineInv
        <4>3. owner[d] \in alive => conn[owner[d]] = d
          BY <2>2 DEF HelperOK
        <4>. QED  BY <2>1, <2>3, <4>1, <4>2, <4>3
      <3>2. \A g \in Frames : claims[d][g] = 0
        BY <2>2, <3>1 DEF HelperOK
      <3>3. op'[d] = "idle" /\ \A s \in Slots : leases'[s][d] = 0
        BY <1>t, <2>1, <2>3
      <3>4. \A g \in Frames : Owed(d, g)' = 0
        BY SMTT(30), <2>1, <3>2, <3>3 DEF Owed
      <3>. QED  BY SMTT(30), <1>t, <2>1, <3>1, <3>2, <3>3, <3>4 DEF HelperOK
    <2>4. CASE d # c
      <3>1. /\ op'[d] = op[d] /\ asked'[d] = asked[d]
            /\ \A s \in Slots : leases'[s][d] = leases[s][d]
        BY <1>t, <2>1, <2>4
      <3>. QED  BY <1>0, <2>1, <2>2, <3>1, HelperFrame
    <2>. QED  BY <2>3, <2>4
  <1>. QED  BY <1>1, <1>2, <1>3, <1>4, <1>5, <1>6, <1>7 DEF ServiceStep

-----------------------------------------------------------------------------
(* The invariant holds.                                                    *)

\* Every step keeps the inductive invariant.
LEMMA NextIInv == IInv /\ [Next]_vars => IInv'
  <1>1. ASSUME IInv, Next PROVE IInv'
    <2>0. CountsMean
      BY <1>1, CountsHold DEF IInv
    <2>1. TypeOK'
      BY <1>1, <2>0, Sides, TypeRuntime, TypeService
    <2>2. ASSUME NEW c \in Holders, Good(c)' PROVE HelperOK(c)'
      BY <1>1, <2>2, Sides, HelperRuntime, HelperService
    <2>3. HelperInv'
      BY <2>2 DEF HelperInv, HelperOK, Good
    <2>. QED  BY <1>1, <2>0, <2>1, <2>3, PoolStep, CacheStep, ThreadStep, LineStep DEF IInv
  <1>2. ASSUME IInv, UNCHANGED vars PROVE IInv'
    <2>1. UNCHANGED <<created, n, next, gen, pc, caller, left, picked, cache, plain, holds,
                      shared, exposed, current, leases, minted, owner, line, op, asked, alive,
                      conn, claims, failed>>
      BY <1>2 DEF vars, poolVars, threadVars, leaseVars, serviceVars, helperVars
    <2>2. TypeOK' /\ PoolInv' /\ CacheServesLiveFrames'
      BY <1>2, <2>1 DEF IInv, TypeOK, PoolInv, CacheServesLiveFrames
    <2>3. ThreadInv'
      BY <1>2, <2>1 DEF IInv, ThreadInv
    <2>4. LineInv'
      BY <1>2, <2>1 DEF IInv, LineInv
    <2>5. HelperInv'
      BY <1>2, <2>1 DEF IInv, HelperInv, Owed
    <2>. QED  BY <2>2, <2>3, <2>4, <2>5 DEF IInv
  <1>. QED  BY <1>1, <1>2

\* The inductive invariant of the pool, the lease table and the connections:
\* every holder the reuse test must respect has its share or its lease.
THEOREM Invariant == Spec => []IInv
  BY InitIInv, NextIInv, PTL DEF Spec
\* Every variable keeps its type.
THEOREM Types == Spec => []TypeOK
  <1>1. IInv => TypeOK
    BY DEF IInv
  <1>. QED  BY <1>1, Invariant, PTL

\* No lease outlives its connection, whatever its handler was doing when the
\* peer went away.
THEOREM LeasesEnd == Spec => []LeaseEndsWithItsConnection
  <1>1. IInv => LeaseEndsWithItsConnection
    BY DEF IInv, LineInv, LeaseEndsWithItsConnection
  <1>. QED  BY <1>1, Invariant, PTL

\* The cache never answers for a frame that has been retired, outside the
\* hand-off that is retiring it.
THEOREM CacheIsLive == Spec => []CacheServesLiveFrames
  <1>1. IInv => CacheServesLiveFrames
    BY DEF IInv
  <1>. QED  BY <1>1, Invariant, PTL

\* What a party holds under the contract is current, and says which connection
\* or share holds it.
LEMMA HeldFacts ==
    ASSUME IInv, NEW p \in Threads \cup Helpers, NEW f \in HeldBy(p)
    PROVE  /\ f[1] \in Slots /\ f[2] = gen[f[1]] /\ gen[f[1]] # 0
           /\ ~MayHandOff(f[1])
  <1>. USE PoolAssumption, BoundAssumption
  <1>1. CASE p \in Threads
    <2>1. f = holds[p] /\ holds[p] # NoFrame /\ p \notin exposed
      BY <1>1 DEF HeldBy
    <2>2. f \in Frames /\ f[1] \in Slots /\ f[2] # 0
      BY SMTT(30), <1>1, <2>1 DEF IInv, TypeOK, Frames, Gens
    <2>3. p \in shared /\ f \in cache /\ f[2] = gen[f[1]]
      BY <1>1, <2>1 DEF IInv, ThreadInv
    <2>4. TypeOK
      BY DEF IInv
    <2>5. ~MayHandOff(f[1])
      BY <2>1, <2>2, <2>3, <2>4, ReuseTest
    <2>. QED  BY <2>2, <2>3, <2>5
  <1>2. CASE p \notin Threads
    <2>1. p \in Helpers /\ p \notin failed /\ f \in ClaimedBy(p)
      BY <1>2 DEF HeldBy
    <2>2. PICK c \in Holders : owner[c] = p /\ claims[c][f] > 0
      BY <2>1 DEF ClaimedBy
    <2>3. f \in Frames /\ Good(c)
      BY <2>1, <2>2 DEF ClaimedBy, Good
    <2>4. f[1] \in Slots /\ claims[c][f] \in Nat
      BY SMTT(30), <2>3 DEF IInv, TypeOK, Frames
    <2>5. Owed(c, f) > 0
      BY SMTT(30), <2>2, <2>4 DEF Owed
    <2>6. f[2] = gen[f[1]]
      BY <2>3, <2>5, HelperHas DEF HelperOK
    <2>. QED  BY <2>3, <2>4, <2>5, <2>6, OwedSlotIsKept
  <1>. QED  BY <1>1, <1>2

\* What a thread or a helper holds is the frame its id names, for any number
\* of slots, threads, helpers and connections.
THEOREM HeldIsCurrent == Spec => []HeldFrameIsCurrent
  <1>1. IInv => HeldFrameIsCurrent
    BY HeldFacts DEF HeldFrameIsCurrent
  <1>. QED  BY <1>1, Invariant, PTL

-----------------------------------------------------------------------------
(* The refinement.                                                         *)

\* A step that publishes nothing and adds nothing to what a party holds lets go.
LEMMA MapLetGo ==
    ASSUME UNCHANGED gen,
           \A p \in Threads \cup Helpers : HeldBy(p)' \subseteq HeldBy(p)
    PROVE  Contract!Next
  BY DEF Contract!Next, Contract!LetGo

\* A step that adds a slot's current frame to what one party holds takes it.
LEMMA MapTake ==
    ASSUME UNCHANGED gen, NEW p \in Threads \cup Helpers, NEW s \in Slots, gen[s] > 0,
           HeldBy(p)' = HeldBy(p) \cup {<<s, gen[s]>>},
           \A q \in (Threads \cup Helpers) \ {p} : HeldBy(q)' = HeldBy(q)
    PROVE  Contract!Next
  BY DEF Contract!Next, Contract!Take

\* A step that advances an unheld slot publishes, and its publisher may keep
\* the frame.
LEMMA MapPublish ==
    ASSUME NEW s \in Slots, gen' = [gen EXCEPT ![s] = gen[s] + 1],
           \A p \in Threads \cup Helpers : \A f \in HeldBy(p) : f[1] # s,
           \/ \A q \in Threads \cup Helpers : HeldBy(q)' = HeldBy(q)
           \/ \E p \in Threads \cup Helpers :
                 /\ HeldBy(p)' = HeldBy(p) \cup {<<s, gen[s] + 1>>}
                 /\ \A q \in (Threads \cup Helpers) \ {p} : HeldBy(q)' = HeldBy(q)
    PROVE  Contract!Next
  <1>1. Contract!Unheld(s)
    BY DEF Contract!Unheld
  <1>. QED  BY <1>1 DEF Contract!Next, Contract!Publish
\* A step of the runtime changes what the threads hold and nothing else.
LEMMA HelpersKeep ==
    ASSUME RuntimeStep, NEW h \in Helpers
    PROVE  HeldBy(h)' = HeldBy(h)
  <1>1. UNCHANGED <<owner, claims, failed>>
    BY RuntimeFrame DEF serviceSide, serviceVars, helperVars
  <1>2. h \notin Threads
    BY PoolAssumption
  <1>. QED  BY <1>1, <1>2 DEF HeldBy, ClaimedBy

\* A step of the service changes what the helpers hold and nothing else.
LEMMA ThreadsKeep ==
    ASSUME ServiceStep, NEW t \in Threads
    PROVE  HeldBy(t)' = HeldBy(t)
  BY ServiceFrame DEF runtimeSide, threadVars, HeldBy

\* The steps of the runtime are steps of the contract.
LEMMA RuntimeSimulates ==
    ASSUME IInv, RuntimeStep
    PROVE  Contract!Next
  <1>. USE PoolAssumption, BoundAssumption
  <1>h. \A h \in Helpers : HeldBy(h)' = HeldBy(h)
    BY HelpersKeep
  <1>t. holds \in [Threads -> Frames \cup {NoFrame}] /\ gen \in [Slots -> 0..MaxGen]
    BY DEF IInv, TypeOK
  <1>k. \A t \in Threads : holds'[t] = holds[t] /\ (t \in exposed' <=> t \in exposed)
                           => HeldBy(t)' = HeldBy(t)
    BY DEF HeldBy
  <1>g. \A t \in Threads : holds'[t] = holds[t] /\ (t \in exposed => t \in exposed')
                           => HeldBy(t)' \subseteq HeldBy(t)
    BY DEF HeldBy
  <1>f. \A f \in Frames : f # NoFrame /\ f[1] \in Slots /\ f[2] \in Nat \ {0} /\ f = <<f[1], f[2]>>
    BY SMTT(30) DEF Frames, NoFrame, Slots, Gens
  <1>1. CASE ScanSlot
    <2>1. UNCHANGED <<holds, exposed>> /\ next + 1 \in Slots
      BY <1>1, ScanFacts DEF threadVars
    <2>2. \A p \in Threads \cup Helpers : HeldBy(p)' = HeldBy(p)
      BY <1>h, <1>k, <2>1
    <2>3. CASE UNCHANGED gen
      BY <2>2, <2>3, MapLetGo
    <2>4. CASE MayHandOff(next + 1) /\ gen' = [gen EXCEPT ![next + 1] = gen[next + 1] + 1]
      <3>1. \A p \in Threads \cup Helpers : \A f \in HeldBy(p) : f[1] # next + 1
        BY <2>4, HeldFacts
      <3>. QED  BY <2>1, <2>2, <2>4, <3>1, MapPublish
    <2>. QED  BY <1>1, <2>3, <2>4, ScanFacts
  <1>2. CASE RetireInCache
    <2>0. PICK t \in Threads : t = caller
      BY <1>2 DEF RetireInCache, IInv, TypeOK, PoolInv
    <2>1. /\ gen' = gen /\ pc = "retire"
          /\ holds' = [holds EXCEPT ![t] = <<picked, gen[picked]>>]
          /\ exposed' = exposed \ {t}
      BY <1>2, <2>0 DEF RetireInCache, Return
    <2>2. picked \in Slots /\ gen[picked] > 0 /\ holds[t] = NoFrame
      BY SMTT(30), <2>0, <2>1 DEF IInv, TypeOK, PoolInv, Slots
    <2>3. holds'[t] = <<picked, gen[picked]>> /\ holds'[t] # NoFrame
      BY SMTT(30), <1>t, <2>1, <2>2 DEF NoFrame
    <2>4. HeldBy(t)' = HeldBy(t) \cup {<<picked, gen[picked]>>}
      BY <2>1, <2>2, <2>3 DEF HeldBy
    <2>5. \A q \in (Threads \cup Helpers) \ {t} : HeldBy(q)' = HeldBy(q)
      BY <1>h, <1>k, <1>t, <2>1
    <2>. QED  BY <2>1, <2>2, <2>4, <2>5, MapTake
  <1>3. CASE Grow
    <2>0. PICK t \in Threads : t = caller
      BY <1>3, GrowFacts
    <2>1. /\ n + 1 \in Slots /\ gen[n + 1] = 0 /\ gen' = [gen EXCEPT ![n + 1] = 1]
          /\ holds' = [holds EXCEPT ![t] = <<n + 1, 1>>]
          /\ exposed' = exposed \ {t} /\ pc = "grow"
      BY <1>3, <2>0, GrowFacts
    <2>2. holds[t] = NoFrame
      BY <2>0, <2>1 DEF IInv, PoolInv
    <2>3. holds'[t] = <<n + 1, 1>> /\ holds'[t] # NoFrame
      BY SMTT(30), <1>t, <2>1 DEF NoFrame
    <2>4. HeldBy(t)' = HeldBy(t) \cup {<<n + 1, gen[n + 1] + 1>>}
      BY SMTT(30), <2>1, <2>2, <2>3 DEF HeldBy
    <2>5. \A q \in (Threads \cup Helpers) \ {t} : HeldBy(q)' = HeldBy(q)
      BY <1>h, <1>k, <1>t, <2>1
    <2>6. \A p \in Threads \cup Helpers : \A f \in HeldBy(p) : f[1] # n + 1
      BY <2>1, HeldFacts
    <2>7. gen' = [gen EXCEPT ![n + 1] = gen[n + 1] + 1]
      BY SMTT(30), <2>1
    <2>. QED  BY <2>1, <2>4, <2>5, <2>6, <2>7, MapPublish
  <1>4. CASE ScanEnds \/ AcquireFails
    <2>1. UNCHANGED <<gen, holds, exposed>>
      BY <1>4 DEF ScanEnds, AcquireFails, threadVars
    <2>. QED  BY <1>h, <1>k, <2>1, MapLetGo
  <1>5. CASE CachePlainBuffer
    <2>1. UNCHANGED <<gen, holds>> /\ exposed \subseteq exposed'
      BY <1>5 DEF CachePlainBuffer, poolVars
    <2>. QED  BY <1>g, <1>h, <2>1, MapLetGo
  <1>6. ASSUME NEW t \in Threads, AcquireStart(t)
        PROVE  Contract!Next
    <2>1. UNCHANGED <<gen, holds, exposed>>
      BY <1>6 DEF AcquireStart, threadVars
    <2>. QED  BY <1>h, <1>k, <2>1, MapLetGo
  <1>7. ASSUME NEW t \in Threads, DropBuffer(t)
        PROVE  Contract!Next
    <2>1. UNCHANGED gen /\ holds' = [holds EXCEPT ![t] = NoFrame] /\ exposed' = exposed \ {t}
      BY <1>7 DEF DropBuffer, poolVars
    <2>2. HeldBy(t)' = {}
      BY <1>t, <2>1 DEF HeldBy
    <2>3. \A u \in Threads \ {t} : HeldBy(u)' = HeldBy(u)
      BY <1>k, <1>t, <2>1
    <2>. QED  BY <1>h, <2>1, <2>2, <2>3, MapLetGo
  <1>8. ASSUME NEW t \in Threads, NEW f \in Frames, ResolveFromCache(t, f)
        PROVE  Contract!Next
    <2>1. /\ UNCHANGED <<gen, pc, picked>> /\ holds' = [holds EXCEPT ![t] = f]
          /\ f \in cache /\ holds[t] = NoFrame
          /\ exposed' = IF pc = "retire" /\ picked = f[1] THEN exposed \cup {t}
                                                          ELSE exposed \ {t}
      BY <1>8 DEF ResolveFromCache, Free, poolVars
    <2>2. HeldBy(t) = {} /\ holds'[t] = f
      BY <1>t, <2>1 DEF HeldBy
    <2>3. \A u \in Threads \ {t} : HeldBy(u)' = HeldBy(u)
      BY <1>k, <1>t, <2>1
    <2>4. CASE pc = "retire" /\ picked = f[1]
      <3>1. HeldBy(t)' = {}
        BY <2>1, <2>4 DEF HeldBy
      <3>. QED  BY <1>h, <2>1, <2>2, <2>3, <3>1, MapLetGo
    <2>5. CASE ~(pc = "retire" /\ picked = f[1])
      <3>1. f[2] = gen[f[1]]
        BY <2>1, <2>5 DEF IInv, CacheServesLiveFrames
      <3>2. f # NoFrame /\ f[1] \in Slots /\ f = <<f[1], gen[f[1]]>> /\ gen[f[1]] > 0
        BY SMTT(30), <1>f, <3>1
      <3>3. HeldBy(t)' = HeldBy(t) \cup {<<f[1], gen[f[1]]>>}
        BY <2>1, <2>2, <2>5, <3>2 DEF HeldBy
      <3>4. \A q \in (Threads \cup Helpers) \ {t} : HeldBy(q)' = HeldBy(q)
        BY <1>h, <2>3
      <3>. QED  BY <2>1, <3>2, <3>3, <3>4, MapTake
    <2>. QED  BY <2>4, <2>5
  <1>9. ASSUME NEW t \in Threads, NEW f \in Frames, ResolveByLookup(t, f)
        PROVE  Contract!Next
    <2>1. UNCHANGED gen /\ holds' = [holds EXCEPT ![t] = f] /\ exposed' = exposed \cup {t}
      BY <1>9 DEF ResolveByLookup, poolVars
    <2>2. HeldBy(t)' = {}
      BY <2>1 DEF HeldBy
    <2>3. \A u \in Threads \ {t} : HeldBy(u)' = HeldBy(u)
      BY <1>k, <1>t, <2>1
    <2>. QED  BY <1>h, <2>1, <2>2, <2>3, MapLetGo
  <1>. QED  BY <1>1, <1>2, <1>3, <1>4, <1>5, <1>6, <1>7, <1>8, <1>9
            DEF RuntimeStep, AcquireStep

\* The steps of the helpers and of the service are steps of the contract.
LEMMA ServiceSimulates ==
    ASSUME IInv, ServiceStep
    PROVE  Contract!Next
  <1>. USE PoolAssumption, BoundAssumption
  <1>0. UNCHANGED gen /\ \A t \in Threads : HeldBy(t)' = HeldBy(t)
    BY ThreadsKeep, ServiceFrame DEF runtimeSide, poolVars
  <1>h. \A h \in Helpers : HeldBy(h) = IF h \in failed THEN {} ELSE ClaimedBy(h)
    BY DEF HeldBy
  <1>g. \A h \in Helpers : HeldBy(h)' = IF h \in failed' THEN {} ELSE ClaimedBy(h)'
    BY DEF HeldBy
  <1>t. /\ owner \in [Holders -> Helpers \cup {Nobody}]
        /\ claims \in [Holders -> [Frames -> 0..MaxLeases]]
        /\ \A f \in Frames : f[1] \in Slots /\ f = <<f[1], f[2]>>
    <2>1. \A f \in Frames : f[1] \in Slots /\ f = <<f[1], f[2]>>
      BY SMTT(30) DEF Frames
    <2>. QED  BY <2>1 DEF IInv, TypeOK
  <1>z. \A c \in Holders : owner[c] = Nobody => \A f \in Frames : claims[c][f] = 0
    BY DEF IInv, LineInv
  \* Claims that only shrink, on connections that keep their owners: everybody
  \* keeps or lets go.
  <1>1. ASSUME \A c \in Holders : owner'[c] = owner[c] \/ owner[c] = Nobody,
               \A c \in Holders : \A f \in Frames : claims'[c][f] > 0 => claims[c][f] > 0,
               failed \subseteq failed'
        PROVE  Contract!Next
    <2>1. ASSUME NEW h \in Helpers PROVE ClaimedBy(h)' \subseteq ClaimedBy(h)
      <3>. SUFFICES ASSUME NEW f \in Frames, NEW c \in Holders,
                           owner'[c] = h, claims'[c][f] > 0
                    PROVE  owner[c] = h /\ claims[c][f] > 0
        BY DEF ClaimedBy
      <3>. QED  BY SMTT(30), <1>1, <1>z
    <2>2. \A h \in Helpers : HeldBy(h)' \subseteq HeldBy(h)
      BY <1>1, <1>g, <1>h, <2>1
    <2>. QED  BY <1>0, <2>2, MapLetGo
  <1>2. ASSUME NEW h \in Helpers, NEW f \in Frames, CheckOut(h, f)
        PROVE  Contract!Next
    <2>1. BeginExchange(h) /\ UNCHANGED <<alive, claims, failed>>
      BY <1>2 DEF CheckOut
    <2>2. \A c \in Holders : owner'[c] = owner[c] \/ owner[c] = Nobody
      BY <2>1, ExchangeKeeps
    <2>. QED  BY <1>1, <2>1, <2>2
  <1>3. ASSUME NEW h \in Helpers, NEW f \in Frames, NEW c \in Holders, ReleaseFrame(h, c, f)
        PROVE  Contract!Next
    <2>1. BeginExchange(h) /\ UNCHANGED <<alive, failed>> /\ claims[c][f] > 0
      BY <1>3 DEF ReleaseFrame
    <2>2. \A d \in Holders : owner'[d] = owner[d] \/ owner[d] = Nobody
      BY <2>1, ExchangeKeeps
    <2>3. claims[c][f] - 1 \in 0..MaxLeases /\ claims' = [claims EXCEPT ![c][f] = claims[c][f] - 1]
      BY SMTT(30), <1>t, <1>3 DEF ReleaseFrame
    <2>4. \A d \in Holders : \A g \in Frames :
             claims'[d][g] = IF d = c /\ g = f THEN claims[c][f] - 1 ELSE claims[d][g]
      BY SMTT(30), <1>t, <2>3, ClaimTable
    <2>5. \A d \in Holders : \A g \in Frames : claims'[d][g] > 0 => claims[d][g] > 0
      BY <2>1, <2>4
    <2>. QED  BY <1>1, <2>1, <2>2, <2>5
  <1>4. ASSUME NEW h \in Helpers, ReceiveFrame(h)
        PROVE  Contract!Next
    <2> DEFINE c == conn[h]
               a == asked[c]
    <2>1. UNCHANGED <<owner, failed>> /\ c \in Holders /\ op[c] = "leased"
      BY SMTT(30), <1>4 DEF ReceiveFrame, Holders, IInv, TypeOK
    <2>2. owner[c] = h /\ a \in Frames /\ claims[c][a] < MaxLeases
      <3>1. c # 0
        BY SMTT(30), <2>1 DEF Holders
      <3>. QED  BY <2>1, <3>1 DEF IInv, LineInv
    <2>3. claims' = claims \/ claims' = [claims EXCEPT ![c][a] = claims[c][a] + 1]
      BY <1>4 DEF ReceiveFrame
    <2> HIDE DEF c, a
    <2>4. CASE claims' = claims
      BY <1>1, <2>1, <2>4
    <2>5. CASE claims' = [claims EXCEPT ![c][a] = claims[c][a] + 1]
      <3>1. claims[c][a] \in Nat /\ claims[c][a] + 1 \in 0..MaxLeases
        BY SMTT(30), <1>t, <2>1, <2>2
      <3>2. \A x \in Holders : \A y \in Frames :
               claims'[x][y] = IF x = c /\ y = a THEN claims[c][a] + 1 ELSE claims[x][y]
        BY SMTT(30), <1>t, <2>1, <2>2, <2>5, <3>1, ClaimTable
      <3>3. ClaimedBy(h)' = ClaimedBy(h) \cup {a}
        BY SMTT(30), <2>1, <2>2, <3>1, <3>2 DEF ClaimedBy
      <3>4. \A k \in Helpers \ {h} : ClaimedBy(k)' = ClaimedBy(k)
        BY SMTT(30), <2>1, <2>2, <3>2 DEF ClaimedBy
      <3>5. CASE h \in failed
        <4>1. \A k \in Helpers : HeldBy(k)' \subseteq HeldBy(k)
          BY <1>g, <1>h, <2>1, <3>4, <3>5
        <4>. QED  BY <1>0, <4>1, MapLetGo
      <3>6. CASE h \notin failed
        <4>1. HeldBy(h)' = HeldBy(h) \cup {a} /\ a \in HeldBy(h)'
          BY <1>g, <1>h, <2>1, <3>3, <3>6
        <4>2. Good(c) /\ Owed(c, a) > 0
          <5>1. Good(c)
            BY <2>1, <2>2, <3>6 DEF Good
          <5>2. Owed(c, a) = claims[c][a] + 1
            BY <2>1 DEF Owed, a
          <5>. QED  BY SMTT(30), <3>1, <5>1, <5>2
        <4>3. a[2] = gen[a[1]] /\ gen[a[1]] # 0
          BY <2>1, <2>2, <4>2, HelperHas, OwedSlotIsKept DEF HelperOK
        <4>4. a[1] \in Slots /\ a = <<a[1], gen[a[1]]>> /\ gen[a[1]] > 0
          <5>1. a[1] \in Slots /\ a = <<a[1], a[2]>>
            BY <1>t, <2>2
          <5>2. gen[a[1]] \in Nat
            BY SMTT(30), <5>1 DEF IInv, TypeOK
          <5>. QED  BY SMTT(30), <4>3, <5>1, <5>2
        <4>5. \A q \in (Threads \cup Helpers) \ {h} : HeldBy(q)' = HeldBy(q)
          BY <1>0, <1>g, <1>h, <2>1, <3>4
        <4>6. HeldBy(h)' = HeldBy(h) \cup {<<a[1], gen[a[1]]>>}
          BY <4>1, <4>4
        <4>. QED  BY <1>0, <4>4, <4>5, <4>6, MapTake
      <3>. QED  BY <3>5, <3>6
    <2>. QED  BY <2>3, <2>4, <2>5
  <1>5. ASSUME NEW h \in Helpers, ExchangeFails(h)
        PROVE  Contract!Next
    BY <1>1, <1>5 DEF ExchangeFails
  <1>6. ASSUME NEW h \in Helpers, HelperDies(h)
        PROVE  Contract!Next
    <2>1. UNCHANGED <<owner, failed>>
          /\ claims' = [c \in Holders |-> IF owner[c] = h THEN [f \in Frames |-> 0]
                                                          ELSE claims[c]]
      BY <1>6 DEF HelperDies
    <2>2. \A c \in Holders : \A f \in Frames : claims'[c][f] > 0 => claims[c][f] > 0
      BY SMTT(30), <2>1
    <2>. QED  BY <1>1, <2>1, <2>2
  <1>7. ASSUME NEW c \in Holders, RecordLease(c) \/ ConnectionEnds(c)
        PROVE  Contract!Next
    BY <1>1, <1>7 DEF RecordLease, ConnectionEnds, helperVars
  <1>. QED  BY <1>2, <1>3, <1>4, <1>5, <1>6, <1>7 DEF ServiceStep

\* The pool, the lease table and the connections implement the contract of a
\* published surface id: a slot publishes its next frame only when nobody
\* holds this one, and a party only ever takes the frame published last.
THEOREM Refinement == Spec => ContractHolds
  <1>1. Init => Contract!Init
    <2>. SUFFICES ASSUME Init PROVE Contract!Init
      OBVIOUS
    <2>1. \A p \in Threads \cup Helpers : HeldBy(p) = {}
      BY SMTT(30) DEF Init, HeldBy, ClaimedBy
    <2>. QED  BY <2>1 DEF Init, Contract!Init
  <1>2. IInv /\ [Next]_vars
          => [Contract!Next]_<<gen, [p \in Threads \cup Helpers |-> HeldBy(p)]>>
    <2>1. ASSUME IInv, Next PROVE Contract!Next
      BY <2>1, Sides, RuntimeSimulates, ServiceSimulates
    <2>2. ASSUME UNCHANGED vars
          PROVE  UNCHANGED <<gen, [p \in Threads \cup Helpers |-> HeldBy(p)]>>
      BY <2>2 DEF vars, poolVars, threadVars, serviceVars, helperVars, HeldBy, ClaimedBy
    <2>. QED  BY <2>1, <2>2
  <1>. QED  BY <1>1, <1>2, Invariant, PTL DEF Spec, ContractHolds, Contract!Spec
=============================================================================
