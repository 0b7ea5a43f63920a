---------------------------- MODULE SurfacePool ----------------------------
(***************************************************************************)
(* The ring pool of pixel buffers behind published frames, the threads of  *)
(* the runtime that hold its buffers, the lease table that stands for the  *)
(* holders in other processes, and the surface-share connections through   *)
(* which helper processes take and give back their leases.                 *)
(*                                                                         *)
(* One call of acquire() runs at a time: it holds the pool's mutex, and    *)
(* the surface store's.  It holds the lease table's mutex too, from the    *)
(* start of its scan until it has retired the outgoing frame or found no   *)
(* slot.  Resolving a published id in this process takes only the cache's  *)
(* mutex, so it runs between any two steps of acquire().  A connection is  *)
(* served by a thread of its own; a helper has one exchange at a time in   *)
(* flight and dies at any moment.                                          *)
(*                                                                         *)
(* A slot is its index in the ring plus one.  A frame <<s, g>> is the id   *)
(* slot#generation that the g-th acquisition of slot s published.          *)
(***************************************************************************)
EXTENDS Naturals, FiniteSets

CONSTANTS
    Threads,        \* threads of the runtime that acquire or resolve frames
    Helpers,        \* helper processes
    Nobody,         \* stands for no thread and for no helper
    PreAllocate,    \* POOL_PRE_ALLOCATE_COUNT
    ExpandBy,       \* slots one expansion adds
    PoolMax,        \* POOL_MAX_BUFFER_COUNT
    CacheMax,       \* MAX_BUFFER_CACHE_SIZE
    MaxGen,         \* bound: frames published from one slot
    MaxHolders,     \* bound: connections accepted
    MaxLeases       \* bound: leases one connection has on one slot

ASSUME PoolAssumption ==
    /\ IsFiniteSet(Threads)
    /\ Nobody \notin Threads \cup Helpers
    /\ Threads \cap Helpers = {}
    /\ PreAllocate \in Nat /\ ExpandBy \in Nat /\ PoolMax \in Nat
    /\ PreAllocate <= PoolMax
    /\ CacheMax \in Nat

ASSUME BoundAssumption ==
    /\ MaxGen \in Nat \ {0}
    /\ MaxHolders \in Nat
    /\ MaxLeases \in Nat

VARIABLES
    \* the pool
    created,        \* the pool of this size and format exists
    n,              \* slots in the ring
    next,           \* next_index
    gen,            \* frames a slot has published
    pc,             \* where the running acquire() is
    caller,         \* the thread running it
    left,           \* slots its scan has not looked at
    picked,         \* the slot it is handing off
    \* the threads of the runtime
    cache,          \* buffer_cache: the published frames it resolves
    plain,          \* buffer_cache: entries under ids without a generation
    holds,          \* the frame a thread holds a buffer of
    shared,         \* the threads whose buffer is a share of the slot's Arc
    \* the lease table
    current,        \* the generation a slot last published, 0: none
    leases,         \* a slot's outstanding check-outs, per holder
    \* the surface-share service and the helpers
    minted,         \* holder ids minted
    owner,          \* the helper at the other end of a connection
    line,           \* a connection: none, up, gone (peer closed), closed
    op,             \* the request a connection is serving
    asked,          \* the frame id the request names
    alive,          \* helper processes that have not died
    conn,           \* the connection a helper uses, 0: none
    claims,         \* claims a helper holds, by the connection of its check-out
    \* history
    exposed,        \* threads whose buffer the reuse test does not see
    failed          \* helpers that dropped a connection in mid-exchange

poolVars == <<created, n, next, gen, pc, caller, left, picked>>
threadVars == <<cache, plain, holds, shared, exposed>>
leaseVars == <<current, leases>>
serviceVars == <<minted, owner, line, op, asked>>
helperVars == <<alive, conn, claims, failed>>
vars == <<poolVars, threadVars, leaseVars, serviceVars, helperVars>>

Slots == 1..PoolMax
Gens == 1..MaxGen
Frames == Slots \X Gens
Holders == 1..MaxHolders
NoFrame == <<0, 0>>

TypeOK ==
    /\ created \in BOOLEAN
    /\ n \in 0..PoolMax
    /\ next \in Nat /\ (n > 0 => next < n)
    /\ gen \in [Slots -> 0..MaxGen]
    /\ pc \in {"idle", "scan", "retire", "grow"}
    /\ caller \in Threads \cup {Nobody}
    /\ left \in 0..PoolMax
    /\ picked \in 0..PoolMax
    /\ cache \subseteq Frames
    /\ plain \in 0..CacheMax
    /\ holds \in [Threads -> Frames \cup {NoFrame}]
    /\ shared \subseteq Threads
    /\ current \in [Slots -> 0..MaxGen]
    /\ leases \in [Slots -> [Holders -> 0..MaxLeases]]
    /\ minted \in 0..MaxHolders
    /\ owner \in [Holders -> Helpers \cup {Nobody}]
    /\ line \in [Holders -> {"none", "up", "gone", "closed"}]
    /\ op \in [Holders -> {"idle", "looked_up", "leased"}]
    /\ asked \in [Holders -> Frames \cup {NoFrame}]
    /\ alive \subseteq Helpers
    /\ conn \in [Helpers -> 0..MaxHolders]
    /\ claims \in [Holders -> [Frames -> 0..MaxLeases]]
    /\ exposed \subseteq Threads
    /\ failed \subseteq Helpers

Init ==
    /\ created = FALSE /\ n = 0 /\ next = 0
    /\ gen = [s \in Slots |-> 0]
    /\ pc = "idle" /\ caller = Nobody /\ left = 0 /\ picked = 0
    /\ cache = {} /\ plain = 0
    /\ holds = [t \in Threads |-> NoFrame]
    /\ shared = {} /\ exposed = {}
    /\ current = [s \in Slots |-> 0]
    /\ leases = [s \in Slots |-> [c \in Holders |-> 0]]
    /\ minted = 0
    /\ owner = [c \in Holders |-> Nobody]
    /\ line = [c \in Holders |-> "none"]
    /\ op = [c \in Holders |-> "idle"]
    /\ asked = [c \in Holders |-> NoFrame]
    /\ alive = Helpers
    /\ conn = [h \in Helpers |-> 0]
    /\ claims = [c \in Holders |-> [f \in Frames |-> 0]]
    /\ failed = {}

-----------------------------------------------------------------------------
(* acquire().                                                              *)

\* A thread that neither holds a buffer nor is inside acquire().
Free(t) == holds[t] = NoFrame /\ caller # t

\* The lease table's mutex is not held by a hand-off.
TableFree == pc \notin {"scan", "retire"}

\* SurfaceCheckOutLeaseHandOff::is_checked_out_by_any_holder.
IsCheckedOut(s) == \E c \in Holders : leases[s][c] > 0

\* lease_key_of_a_live_frame: the id names the frame its slot last published.
IsLive(f) == current[f[1]] = f[2]

\* The threads with a share of the slot's Arc.
Sharers(s) == {t \in shared : holds[t][1] = s}

\* PixelBuffer::strong_count: the ring's share, the cache's and the threads'.
StrongCount(s) ==
    1 + Cardinality({f \in cache : f[1] = s}) + Cardinality(Sharers(s))

\* Mutant: the reuse test forgets the holders in other processes.
MutHandOffIgnoresLeases(s) == StrongCount(s) <= 2

\* permits and hand_off_if_unheld_in_process: may the slot be handed off.
MayHandOff(s) == ~IsCheckedOut(s) /\ StrongCount(s) <= 2

\* Enter acquire().  The first call creates the pool, with as many slots as
\* could be allocated; a pool that got none refuses every call.
AcquireStart(t) ==
    /\ pc = "idle" /\ Free(t)
    /\ \A s \in Slots : gen[s] < MaxGen
    /\ created' = TRUE
    /\ n' \in IF created THEN {n} ELSE 0..PreAllocate
    /\ IF n' = 0
       THEN UNCHANGED <<pc, caller, left>>
       ELSE pc' = "scan" /\ caller' = t /\ left' = n'
    /\ UNCHANGED <<next, gen, picked, threadVars, leaseVars, serviceVars, helperVars>>

\* Mutant: next_index is advanced without wrapping.
MutScanDoesNotWrap ==
    /\ pc = "scan" /\ left > 0
    /\ left' = left - 1
    /\ next' = next + 1
    /\ LET s == next + 1
       IN  \/ /\ ~MayHandOff(s)
              /\ UNCHANGED <<gen, current, pc, picked>>
           \/ /\ MayHandOff(s)
              /\ gen' = [gen EXCEPT ![s] = @ + 1]
              /\ current' = [current EXCEPT ![s] = gen[s] + 1]
              /\ picked' = s
              /\ pc' = "retire"
    /\ UNCHANGED <<created, n, caller, threadVars, leases, serviceVars, helperVars>>

\* Mutant: the hand-off mints twice, and a frame id is skipped.
MutScanMintsTwice ==
    /\ pc = "scan" /\ left > 0
    /\ left' = left - 1
    /\ next' = (next + 1) % n
    /\ LET s == next + 1
       IN  \/ /\ ~MayHandOff(s)
              /\ UNCHANGED <<gen, current, pc, picked>>
           \/ /\ MayHandOff(s)
              /\ gen' = [gen EXCEPT ![s] = @ + 2]
              /\ current' = [current EXCEPT ![s] = gen[s] + 2]
              /\ picked' = s
              /\ pc' = "retire"
    /\ UNCHANGED <<created, n, caller, threadVars, leases, serviceVars, helperVars>>

\* Look at one slot: skip it, or hand it off, which mints its next frame and
\* retires the outgoing one in the lease table.
ScanSlot ==
    /\ pc = "scan" /\ left > 0
    /\ left' = left - 1
    /\ next' = (next + 1) % n
    /\ LET s == next + 1
       IN  \/ /\ ~MayHandOff(s)
              /\ UNCHANGED <<gen, current, pc, picked>>
           \/ /\ MayHandOff(s)
              /\ gen' = [gen EXCEPT ![s] = @ + 1]
              /\ current' = [current EXCEPT ![s] = gen[s] + 1]
              /\ picked' = s
              /\ pc' = "retire"
    /\ UNCHANGED <<created, n, caller, threadVars, leases, serviceVars, helperVars>>

\* acquire() returns the frame to its caller.
Return(s, g) ==
    /\ holds' = [holds EXCEPT ![caller] = <<s, g>>]
    /\ shared' = shared \cup {caller}
    /\ exposed' = exposed \ {caller}
    /\ pc' = "idle" /\ caller' = Nobody /\ left' = 0 /\ picked' = 0

\* Mutant: the outgoing frame stays in the cache.
MutRetireKeepsOutgoing ==
    /\ pc = "retire"
    /\ LET g == gen[picked]
       IN  /\ cache' = cache \cup {<<picked, g>>}
           /\ Return(picked, g)
    /\ UNCHANGED <<created, n, next, gen, plain, leaseVars, serviceVars, helperVars>>

\* retire_previous_frame_in_cache, and the return.
RetireInCache ==
    /\ pc = "retire"
    /\ LET g == gen[picked]
       IN  /\ cache' = (cache \ {<<picked, g - 1>>}) \cup {<<picked, g>>}
           /\ Return(picked, g)
    /\ UNCHANGED <<created, n, next, gen, plain, leaseVars, serviceVars, helperVars>>

\* Nothing was reusable: let the lease table go.
ScanEnds ==
    /\ pc = "scan" /\ left = 0
    /\ pc' = "grow"
    /\ UNCHANGED <<created, n, next, gen, caller, left, picked, threadVars,
                   leaseVars, serviceVars, helperVars>>

\* Expand the ring and hand off the first slot added.
Grow ==
    /\ pc = "grow"
    /\ n < PoolMax
    /\ n' \in (n + 1)..(n + ExpandBy) /\ n' <= PoolMax
    /\ gen' = [gen EXCEPT ![n + 1] = @ + 1]
    /\ TableFree
    /\ current' = [current EXCEPT ![n + 1] = gen[n + 1] + 1]
    /\ cache' = cache \cup {<<n + 1, gen[n + 1] + 1>>}
    /\ Return(n + 1, gen[n + 1] + 1)
    /\ UNCHANGED <<created, next, plain, leases, serviceVars, helperVars>>

\* Mutant: a producer that finds no slot scans again until a consumer lets go.
MutAcquireWaits ==
    /\ pc = "grow"
    /\ pc' = "scan" /\ left' = n
    /\ UNCHANGED <<created, n, next, gen, caller, picked, threadVars, leaseVars,
                   serviceVars, helperVars>>

\* The ring is at its limit, or no slot could be allocated: the producer
\* drops its frame.
AcquireFails ==
    /\ pc = "grow"
    /\ pc' = "idle" /\ caller' = Nobody /\ left' = 0 /\ picked' = 0
    /\ UNCHANGED <<created, n, next, gen, threadVars, leaseVars, serviceVars,
                   helperVars>>

-----------------------------------------------------------------------------
(* The threads of the runtime.                                             *)

\* get_pixel_buffer: the cache answers.
ResolveFromCache(t, f) ==
    /\ Free(t) /\ f \in cache
    /\ holds' = [holds EXCEPT ![t] = f]
    /\ shared' = shared \cup {t}
    /\ exposed' = IF pc = "retire" /\ picked = f[1] THEN exposed \cup {t}
                                                    ELSE exposed \ {t}
    /\ UNCHANGED <<poolVars, cache, plain, leaseVars, serviceVars, helperVars>>

\* get_pixel_buffer: the cache does not know the frame, so the service's
\* planes are imported anew, under the surface store's mutex.
ResolveByLookup(t, f) ==
    /\ Free(t) /\ f \notin cache
    /\ pc = "idle"
    /\ IsLive(f)
    /\ holds' = [holds EXCEPT ![t] = f]
    /\ exposed' = exposed \cup {t}
    /\ UNCHANGED <<poolVars, cache, plain, shared, leaseVars, serviceVars, helperVars>>

\* get_pixel_buffer of an id without a generation, and cache_buffer: the
\* entry that exceeds the limit clears the whole cache.
CachePlainBuffer ==
    /\ pc = "idle"
    /\ LET full == Cardinality(cache) + plain + 1 > CacheMax
       IN  \/ /\ ~full
              /\ plain' = plain + 1
              /\ UNCHANGED <<cache, exposed>>
           \/ /\ full
              /\ plain' = 0 /\ cache' = {}
              /\ exposed' = exposed \cup shared
    /\ UNCHANGED <<poolVars, holds, shared, leaseVars, serviceVars, helperVars>>

\* The last use of a thread's buffer drops it.
DropBuffer(t) ==
    /\ holds[t] # NoFrame
    /\ holds' = [holds EXCEPT ![t] = NoFrame]
    /\ shared' = shared \ {t}
    /\ exposed' = exposed \ {t}
    /\ UNCHANGED <<poolVars, cache, plain, leaseVars, serviceVars, helperVars>>
-----------------------------------------------------------------------------
(* The helpers, and the service's thread of each connection.  A request    *)
(* and the part of its handler that is one critical section of the lease   *)
(* table are one step; so is a request the service refuses.                *)

\* The connection helper h's next exchange uses: its own, or a new one.
LineOf(h) == IF conn[h] = 0 THEN minted + 1 ELSE conn[h]

\* A helper has one exchange in flight at most.
Ready(h) ==
    /\ h \in alive
    /\ conn[h] = 0 => minted < MaxHolders
    /\ conn[h] # 0 => op[conn[h]] = "idle"

\* surface_share_request: connect if there is no connection; the service
\* mints a holder id for a new one.
BeginExchange(h) ==
    /\ Ready(h)
    /\ conn' = [conn EXCEPT ![h] = LineOf(h)]
    /\ line' = [line EXCEPT ![LineOf(h)] = "up"]
    /\ owner' = [owner EXCEPT ![LineOf(h)] = h]
    /\ minted' = IF conn[h] = 0 THEN minted + 1 ELSE minted

\* A frame id the helper was sent some time ago.
Published(f) == f[2] <= gen[f[1]]

\* handle_check_out, first half: handle_lookup passes a live frame; it
\* refuses a retired one, and any when the slot is not registered or its
\* planes cannot be duplicated.
CheckOut(h, f) ==
    /\ BeginExchange(h) /\ TableFree
    /\ Published(f)
    /\ leases[f[1]][LineOf(h)] < MaxLeases /\ claims[LineOf(h)][f] < MaxLeases
    /\ \/ /\ IsLive(f)
          /\ op' = [op EXCEPT ![LineOf(h)] = "looked_up"]
          /\ asked' = [asked EXCEPT ![LineOf(h)] = f]
       \/ UNCHANGED <<op, asked>>
    /\ UNCHANGED <<poolVars, threadVars, leaseVars, alive, claims, failed>>

\* handle_check_out, second half: record_check_out_lease.
RecordLease(c) ==
    /\ op[c] = "looked_up" /\ TableFree
    /\ LET f == asked[c]
       IN  \/ /\ IsLive(f)
              /\ leases' = [leases EXCEPT ![f[1]][c] = @ + 1]
              /\ op' = [op EXCEPT ![c] = "leased"]
              /\ UNCHANGED asked
           \/ /\ ~IsLive(f)
              /\ op' = [op EXCEPT ![c] = "idle"]
              /\ asked' = [asked EXCEPT ![c] = NoFrame]
              /\ UNCHANGED leases
    /\ UNCHANGED <<poolVars, threadVars, current, minted, owner, line, helperVars>>

\* The helper receives the planes: it holds the frame, or it keeps nothing
\* of it when the import fails.
ReceiveFrame(h) ==
    /\ h \in alive /\ conn[h] # 0 /\ op[conn[h]] = "leased"
    /\ LET c == conn[h]
       IN  /\ op' = [op EXCEPT ![c] = "idle"]
           /\ asked' = [asked EXCEPT ![c] = NoFrame]
           /\ \/ claims' = [claims EXCEPT ![c][asked[c]] = @ + 1]
              \/ UNCHANGED claims
    /\ UNCHANGED <<poolVars, threadVars, leaseVars, minted, owner, line, alive, conn,
                   failed>>

\* The last view of a frame checked out over connection c is gone: its debt
\* is paid over the connection the helper has now, and
\* release_one_check_out_lease drops a lease of that connection, if any.
ReleaseFrame(h, c, f) ==
    /\ BeginExchange(h) /\ TableFree
    /\ owner[c] = h /\ claims[c][f] > 0
    /\ claims' = [claims EXCEPT ![c][f] = @ - 1]
    /\ leases' = [leases EXCEPT ![f[1]][LineOf(h)] = IF @ > 0 THEN @ - 1 ELSE 0]
    /\ UNCHANGED <<poolVars, threadVars, current, op, asked, alive, failed>>

\* An exchange fails in mid-stream: the stream is dropped, not put back.
ExchangeFails(h) ==
    /\ h \in alive /\ conn[h] # 0
    /\ line' = [line EXCEPT ![conn[h]] = "gone"]
    /\ conn' = [conn EXCEPT ![h] = 0]
    /\ failed' = failed \cup {h}
    /\ UNCHANGED <<poolVars, threadVars, leaseVars, minted, owner, op, asked, alive,
                   claims>>

\* The helper process dies: its views and its socket go with it.
HelperDies(h) ==
    /\ h \in alive
    /\ alive' = alive \ {h}
    /\ claims' = [c \in Holders |-> IF owner[c] = h THEN [f \in Frames |-> 0]
                                                   ELSE claims[c]]
    /\ line' = [c \in Holders |-> IF c = conn[h] THEN "gone" ELSE line[c]]
    /\ conn' = [conn EXCEPT ![h] = 0]
    /\ UNCHANGED <<poolVars, threadVars, leaseVars, minted, owner, op, asked, failed>>

\* Mutant: the leases are given back while the connection's handler runs.
MutEndsDuringCheckOut(c) ==
    /\ line[c] = "gone" /\ TableFree
    /\ leases' = [s \in Slots |-> [leases[s] EXCEPT ![c] = 0]]
    /\ line' = [line EXCEPT ![c] = "closed"]
    /\ UNCHANGED <<poolVars, threadVars, current, minted, owner, op, asked, helperVars>>

\* Mutant: a reply that cannot be sent does not end the connection.
MutEndsOnlyWhenReading(c) ==
    /\ line[c] = "gone" /\ op[c] = "idle" /\ TableFree
    /\ leases' = [s \in Slots |-> [leases[s] EXCEPT ![c] = 0]]
    /\ line' = [line EXCEPT ![c] = "closed"]
    /\ UNCHANGED <<poolVars, threadVars, current, minted, owner, op, asked, helperVars>>

\* The peer's end is closed: the service's thread sees it when it reads the
\* next request or sends a reply, and gives back every lease of the
\* connection.
ConnectionEnds(c) ==
    /\ line[c] = "gone" /\ op[c] # "looked_up" /\ TableFree
    /\ leases' = [s \in Slots |-> [leases[s] EXCEPT ![c] = 0]]
    /\ line' = [line EXCEPT ![c] = "closed"]
    /\ op' = [op EXCEPT ![c] = "idle"]
    /\ asked' = [asked EXCEPT ![c] = NoFrame]
    /\ UNCHANGED <<poolVars, threadVars, current, minted, owner, helperVars>>

-----------------------------------------------------------------------------
AcquireStep == ScanSlot \/ RetireInCache \/ ScanEnds \/ Grow \/ AcquireFails

Next ==
    \/ AcquireStep
    \/ CachePlainBuffer
    \/ \E t \in Threads :
          \/ AcquireStart(t)
          \/ DropBuffer(t)
          \/ \E f \in Frames : ResolveFromCache(t, f) \/ ResolveByLookup(t, f)
    \/ \E h \in Helpers :
          \/ ReceiveFrame(h)
          \/ ExchangeFails(h)
          \/ HelperDies(h)
          \/ \E f \in Frames :
                \/ CheckOut(h, f)
                \/ \E c \in Holders : ReleaseFrame(h, c, f)
    \/ \E c \in Holders : RecordLease(c) \/ ConnectionEnds(c)

Spec == Init /\ [][Next]_vars

\* The threads of the runtime run.  A service thread blocked on the lease
\* table's mutex gets it in the end, although acquire() keeps taking it.
Fairness ==
    /\ WF_vars(AcquireStep)
    /\ \A c \in Holders : SF_vars(RecordLease(c)) /\ SF_vars(ConnectionEnds(c))

LiveSpec == Spec /\ Fairness

-----------------------------------------------------------------------------
(* Properties.                                                             *)

\* The frames a helper holds.
ClaimedBy(h) == {f \in Frames : \E c \in Holders : owner[c] = h /\ claims[c][f] > 0}

\* The frames a party holds under the contract.  Three ways out of it exist
\* for a thread: it resolved an id inside the hand-off that retires it, its
\* slot's entry was cleared from the cache, or it imported the planes anew;
\* one for a helper: it dropped a connection over which it held frames.
HeldBy(p) ==
    IF p \in Threads
    THEN IF holds[p] = NoFrame \/ p \in exposed THEN {} ELSE {holds[p]}
    ELSE IF p \in failed THEN {} ELSE ClaimedBy(p)

Contract ==
    INSTANCE FrameContract WITH
        Parties <- Threads \cup Helpers,
        frame   <- gen,
        held    <- [p \in Threads \cup Helpers |-> HeldBy(p)]

\* The pool, the cache, the lease table and the connections together keep the
\* promise of surface-id-lifetime-contract.md: acquire() never publishes the
\* next frame of a slot while a thread or a helper process holds this one.
ContractHolds == Contract!Spec

\* What a party holds is still the frame its id names: no interleaving of
\* check-outs, releases, deaths and acquisitions rewrites it.
HeldFrameIsCurrent ==
    \A p \in Threads \cup Helpers : \A f \in HeldBy(p) : f[2] = gen[f[1]]

\* No lease outlives its connection: once release_every_check_out_lease_held_by
\* has run, nothing records another lease for that holder id.
LeaseEndsWithItsConnection ==
    \A c \in Holders : line[c] \in {"none", "closed"} =>
        \A s \in Slots : leases[s][c] = 0

\* The cache answers only for frames that are live, except inside the
\* hand-off that is retiring the answer; and it has one entry per slot.
CacheServesLiveFrames ==
    \A f \in cache :
        \/ f[2] = gen[f[1]]
        \/ pc = "retire" /\ picked = f[1] /\ f[2] + 1 = gen[f[1]]

\* The connection of a helper that died, or that dropped it, pins nothing in
\* the end, whatever its service thread was doing at that moment.
DeadConnectionPinsNothing ==
    \A c \in Holders :
        line[c] = "gone" ~> line[c] = "closed" /\ \A s \in Slots : leases[s][c] = 0

\* acquire() returns, with a frame or without: it never waits on a consumer.
AcquireReturns == pc # "idle" ~> pc = "idle"

\* What the documents say of a thread of the runtime: "a slot is never
\* recycled or rewritten under a holder".
NoOlderFrameIsHeld ==
    \A t, u \in Threads :
        holds[t] # NoFrame /\ holds[t][1] = holds[u][1] => holds[t] = holds[u]

\* What the lease table says of a helper that holds one frame twice:
\* "releasing either must leave the other standing".
ClaimOnOpenConnectionStands ==
    \A c \in Holders : \A f \in Frames :
        line[c] = "up" /\ claims[c][f] > 0 => f[2] = gen[f[1]]
=============================================================================
