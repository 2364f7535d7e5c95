----------------------------- MODULE CacheEpochs ------------------------------
(***************************************************************************)
(* The read-through cache of one service (packages/cache/src/index.ts): a  *)
(* store that all processes of the service share, and in every process the *)
(* loads in flight and the invalidation epochs that keep a load that began *)
(* before a write from putting the old value back after it. The rows of    *)
(* the database are versions; the keys are those of one resource.          *)
(***************************************************************************)
EXTENDS Integers, FiniteSets

CONSTANTS Procs,      \* processes of the service: api, worker
          Keys,       \* cache keys of one resource
          Requested,  \* ttlSeconds callers ask for
          Infinite,   \* stands for NaN and Infinity among them
          MinTtl, MaxTtl,
          MaxTracked, \* MAX_TRACKED_EPOCHS
          MaxLoads,   \* bound: loads of one key at a time in a process
          MaxWrites,  \* bound: commits per key
          MaxFaults   \* bound: crashes and failed DELs in a behaviour

ASSUME CacheAssumption ==
  /\ Infinite \in Nat /\ Requested \subseteq Int
  /\ MinTtl \in Nat \ {0} /\ MaxTtl \in MinTtl..(Infinite - 1)
  /\ MaxTracked \in Nat \ {0}
  /\ MaxLoads \in Nat /\ MaxWrites \in Nat /\ MaxFaults \in Nat

VARIABLES
  db,        \* per key: the version committed
  store,     \* per key: NoEntry or [v, ttl, excuse]
  \* each process
  asked,     \* keys some reader found no entry for
  loads,     \* per key: loads running, [epoch, v, joinable, excuse]
  resEpoch,  \* _resourceEpoch
  keyEpoch,  \* _keyEpochs, 0 where it has no entry
  epochSeq,  \* _epochSeq
  pending,   \* per key: commits whose invalidation is still to run
  faults

procVars == <<asked, loads, resEpoch, keyEpoch, epochSeq, pending>>
vars     == <<db, store, procVars, faults>>

-----------------------------------------------------------------------------
NotRead == -1
NoEntry == [v |-> -1, ttl |-> 0, excuse |-> "none"]

\* History, read by no action: why a load or an entry may be older than the last
\* invalidation. "missed": a process died before it ran, or its DEL failed.
\* "elsewhere": it ran in another process than the load.
Excuses == {"none", "missed", "elsewhere"}

Init ==
  /\ db       = [k \in Keys |-> 0]
  /\ store    = [k \in Keys |-> NoEntry]
  /\ asked    = [p \in Procs |-> {}]
  /\ loads    = [p \in Procs |-> [k \in Keys |-> {}]]
  /\ resEpoch = [p \in Procs |-> 0]
  /\ keyEpoch = [p \in Procs |-> [k \in Keys |-> 0]]
  /\ epochSeq = [p \in Procs |-> 0]
  /\ pending  = [p \in Procs |-> [k \in Keys |-> 0]]
  /\ faults   = 0

Fault == /\ faults < MaxFaults
         /\ faults' = faults + 1

\* Fault: a lifetime without an upper bound is taken as it is.
NoUpperBound(ttl) == IF ttl < MinTtl THEN MinTtl ELSE ttl

\* The lifetime an entry gets: whatever is asked for, it is bounded.
ClampTtl(ttl) ==
  IF ttl = Infinite \/ ttl > MaxTtl THEN MaxTtl
  ELSE IF ttl < MinTtl THEN MinTtl ELSE ttl

CurrentEpoch(p, k) == <<resEpoch[p], keyEpoch[p][k]>>

\* k is in _inflight of process p.
InFlight(p, k) == \E l \in loads[p][k] : l.joinable

-----------------------------------------------------------------------------
\* getOrLoad: store.get finds nothing.
Get(p, k) ==
  /\ store[k] = NoEntry /\ k \notin asked[p]
  /\ asked' = [asked EXCEPT ![p] = @ \cup {k}]
  /\ UNCHANGED <<db, store, loads, resEpoch, keyEpoch, epochSeq, pending, faults>>

\* The answer arrives: join the load in flight, or start one under today's epoch.
Begin(p, k) ==
  /\ k \in asked[p]
  /\ InFlight(p, k) \/ Cardinality(loads[p][k]) < MaxLoads
  /\ asked' = [asked EXCEPT ![p] = @ \ {k}]
  /\ loads' = IF InFlight(p, k) THEN loads
              ELSE [loads EXCEPT ![p][k] = @ \cup
                     {[epoch |-> CurrentEpoch(p, k), v |-> NotRead,
                       joinable |-> TRUE, excuse |-> "none"]}]
  /\ UNCHANGED <<db, store, resEpoch, keyEpoch, epochSeq, pending, faults>>

\* The loader reads the source.
Load(p, k, l) ==
  /\ l \in loads[p][k] /\ l.v = NotRead
  /\ loads' = [loads EXCEPT ![p][k] = (@ \ {l}) \cup {[l EXCEPT !.v = db[k]]}]
  /\ UNCHANGED <<db, store, asked, resEpoch, keyEpoch, epochSeq, pending, faults>>

\* The load settles: its value is stored unless the epoch has moved (or it exceeds
\* the size cap, or the store's connection is down).
Settle(p, k, l, ttl) ==
  /\ l \in loads[p][k] /\ l.v # NotRead
  /\ loads' = [loads EXCEPT ![p][k] = @ \ {l}]
  /\ \/ /\ l.epoch = CurrentEpoch(p, k)
        /\ store' = [store EXCEPT ![k] =
                       [v |-> l.v, ttl |-> ClampTtl(ttl), excuse |-> l.excuse]]
     \/ UNCHANGED store
  /\ UNCHANGED <<db, asked, resEpoch, keyEpoch, epochSeq, pending, faults>>

-----------------------------------------------------------------------------
\* A process commits a write to the row behind k; the invalidation comes after.
Commit(p, k) ==
  /\ db[k] < MaxWrites
  /\ db'      = [db EXCEPT ![k] = @ + 1]
  /\ pending' = [pending EXCEPT ![p][k] = @ + 1]
  /\ UNCHANGED <<store, asked, loads, resEpoch, keyEpoch, epochSeq, faults>>

Tracked(p) == { k \in Keys : keyEpoch[p][k] # 0 }

\* Fault: the map only ever grows.
NeverCleared(p, k) ==
  /\ epochSeq' = [epochSeq EXCEPT ![p] = @ + 1]
  /\ keyEpoch' = [keyEpoch EXCEPT ![p][k] = epochSeq[p] + 1]
  /\ UNCHANGED resEpoch

\* Fault: the full map is cleared without a word to the outstanding loads.
ClearOnly(p, k) ==
  /\ epochSeq' = [epochSeq EXCEPT ![p] = @ + 1]
  /\ keyEpoch' = [keyEpoch EXCEPT ![p] =
       [j \in Keys |-> IF j = k THEN epochSeq[p] + 1
                       ELSE IF Cardinality(Tracked(p)) >= MaxTracked THEN 0 ELSE @[j]]]
  /\ UNCHANGED resEpoch

\* A value never used before; a full map is cleared, and every outstanding load disowned.
BumpKey(p, k) ==
  LET full == Cardinality(Tracked(p)) >= MaxTracked IN
  /\ epochSeq' = [epochSeq EXCEPT ![p] = @ + 1]
  /\ keyEpoch' = [keyEpoch EXCEPT ![p] =
       [j \in Keys |-> IF j = k THEN epochSeq[p] + 1 ELSE IF full THEN 0 ELSE @[j]]]
  /\ resEpoch' = [resEpoch EXCEPT ![p] = IF full THEN @ + 1 ELSE @]

\* Fault: readers go on joining the load that the invalidation disowned.
StillJoined(p, q, l) ==
  IF p = q \/ l.v = NotRead THEN l ELSE [l EXCEPT !.excuse = "elsewhere"]

\* What an invalidation by process p makes of a load of process q: its own leaves
\* _inflight, others do not know.
Left(p, q, l) ==
  IF p = q THEN [l EXCEPT !.joinable = FALSE]
  ELSE IF l.v = NotRead THEN l ELSE [l EXCEPT !.excuse = "elsewhere"]

Leave(p, K) ==
  loads' = [q \in Procs |-> [k \in Keys |->
              IF k \in K THEN { Left(p, q, l) : l \in loads[q][k] } ELSE loads[q][k]]]

\* The DEL of the keys K. It may fail, the one of a SCAN half way, and then some keys
\* are gone and the others stay.
Del(K) ==
  \E gone \in SUBSET K :
    /\ \/ gone = K /\ UNCHANGED faults
       \/ Fault
    /\ store' = [k \in Keys |->
         IF k \in gone THEN NoEntry
         ELSE IF k \in K /\ store[k] # NoEntry THEN [store[k] EXCEPT !.excuse = "missed"]
         ELSE store[k]]

\* invalidate(): the epoch moves only when a load is in flight.
Invalidate(p, k) ==
  /\ pending[p][k] > 0
  /\ pending' = [pending EXCEPT ![p][k] = @ - 1]
  /\ IF InFlight(p, k) THEN BumpKey(p, k) ELSE UNCHANGED <<resEpoch, keyEpoch, epochSeq>>
  /\ Leave(p, {k})
  /\ Del({k})
  /\ UNCHANGED <<db, asked>>

\* invalidateResource() for a write to k: every load in flight is disowned.
InvalidateResource(p, k) ==
  /\ pending[p][k] > 0
  /\ pending'  = [pending EXCEPT ![p][k] = @ - 1]
  /\ resEpoch' = [resEpoch EXCEPT ![p] = IF \E j \in Keys : InFlight(p, j) THEN @ + 1 ELSE @]
  /\ Leave(p, Keys)
  /\ Del(Keys)
  /\ UNCHANGED <<db, asked, keyEpoch, epochSeq>>

-----------------------------------------------------------------------------
\* A process dies, with the invalidations it still owed.
Crash(p) ==
  LET Owed == { k \in Keys : pending[p][k] > 0 } IN
  /\ Fault
  /\ asked'    = [asked EXCEPT ![p] = {}]
  /\ loads'    = [q \in Procs |-> [k \in Keys |->
                    IF q = p THEN {}
                    ELSE { IF k \in Owed /\ l.v # NotRead
                             THEN [l EXCEPT !.excuse = "missed"] ELSE l : l \in loads[q][k] }]]
  /\ store'    = [k \in Keys |-> IF k \in Owed /\ store[k] # NoEntry
                    THEN [store[k] EXCEPT !.excuse = "missed"] ELSE store[k]]
  /\ resEpoch' = [resEpoch EXCEPT ![p] = 0]
  /\ keyEpoch' = [keyEpoch EXCEPT ![p] = [k \in Keys |-> 0]]
  /\ epochSeq' = [epochSeq EXCEPT ![p] = 0]
  /\ pending'  = [pending EXCEPT ![p] = [k \in Keys |-> 0]]
  /\ UNCHANGED db

\* Time passes in the store; an entry with no time left is gone.
Tick ==
  /\ \E k \in Keys : store[k] # NoEntry
  /\ store' = [k \in Keys |-> IF store[k].ttl = 1 THEN NoEntry
                              ELSE IF store[k].ttl \in 2..MaxTtl
                                THEN [store[k] EXCEPT !.ttl = @ - 1] ELSE store[k]]
  /\ UNCHANGED <<db, procVars, faults>>

-----------------------------------------------------------------------------
Next ==
  \/ Tick
  \/ \E p \in Procs :
       \/ Crash(p)
       \/ \E k \in Keys :
            \/ Get(p, k)
            \/ Begin(p, k)
            \/ Commit(p, k)
            \/ Invalidate(p, k)
            \/ InvalidateResource(p, k)
            \/ \E l \in loads[p][k] :
                 Load(p, k, l) \/ \E ttl \in Requested : Settle(p, k, l, ttl)

Spec == Init /\ [][Next]_vars

\* Time passes, an invalidation that is owed is run, a load settles.
Fairness ==
  /\ WF_vars(Tick)
  /\ \A p \in Procs, k \in Keys :
       /\ WF_vars(Invalidate(p, k) \/ InvalidateResource(p, k))
       /\ WF_vars(\E l \in loads[p][k] :
                    Load(p, k, l) \/ \E ttl \in Requested : Settle(p, k, l, ttl))

FairSpec == Spec /\ Fairness

-----------------------------------------------------------------------------
\* The shape of the state; the map of epochs never outgrows its bound.
TypeOK ==
  /\ db \in [Keys -> 0..MaxWrites]
  /\ store \in [Keys -> {NoEntry} \cup
       [v : 0..MaxWrites, ttl : 1..MaxTtl, excuse : Excuses]]
  /\ asked \in [Procs -> SUBSET Keys]
  /\ loads \in [Procs -> [Keys -> SUBSET
       [epoch : Nat \X Nat, v : -1..MaxWrites, joinable : BOOLEAN, excuse : Excuses]]]
  /\ resEpoch \in [Procs -> Nat]
  /\ keyEpoch \in [Procs -> [Keys -> Nat]]
  /\ epochSeq \in [Procs -> Nat]
  /\ pending \in [Procs -> [Keys -> Nat]]
  /\ faults \in 0..MaxFaults
  /\ \A p \in Procs : Cardinality(Tracked(p)) <= MaxTracked

Owed(k)  == \E p \in Procs : pending[p][k] > 0
Stale(k) == store[k] # NoEntry /\ store[k].v < db[k]

\* The store holds an old version only while its invalidation is owed, or when it was
\* missed, or when the load that wrote it ran in another process than the
\* invalidation: no load of the invalidating process itself ever brings the old value
\* back, not even after the map of epochs was cleared (CLOS3-S6-11).
StaleExplained == \A k \in Keys : Stale(k) /\ ~Owed(k) => store[k].excuse # "none"

\* A load that new readers join does not carry a value older than an invalidation of
\* its own process (the delete from _inflight in markInvalidated).
JoinedIsFresh ==
  \A p \in Procs, k \in Keys : \A l \in loads[p][k] :
    l.joinable /\ l.v \in 0..(db[k] - 1) /\ ~Owed(k) => l.excuse # "none"

\* An old version does not stay in the store for ever, whatever lifetime was asked for
\* and whatever invalidation was missed (04-T5: a missed invalidation heals itself).
Heals == \A k \in Keys : []<>~Stale(k)
===============================================================================
