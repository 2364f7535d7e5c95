--------------------------- MODULE CacheEpochsProofs ---------------------------
(***************************************************************************)
(* Theorems of CacheEpochs, for any processes, keys, lifetimes and bounds. *)
(***************************************************************************)
EXTENDS CacheEpochs, FiniteSetTheorems, TLAPS

\* The types of a load and of an entry.
LoadType  == [epoch : Nat \X Nat, v : -1..MaxWrites, joinable : BOOLEAN, excuse : Excuses]
EntryType == [v : 0..MaxWrites, ttl : 1..MaxTtl, excuse : Excuses]

\* Epochs are ordered: by resource first, then by key.
Before(e, f) == e[1] < f[1] \/ (e[1] = f[1] /\ e[2] < f[2])

\* A load began in the present epoch or in an earlier one, and in an earlier one if an
\* invalidation took it out of _inflight: what is disowned is never stored.
Knows(l, epoch) ==
  /\ Before(l.epoch, epoch) \/ l.epoch = epoch
  /\ ~l.joinable => Before(l.epoch, epoch)

Epochs ==
  \A p \in Procs, k \in Keys : \A l \in loads[p][k] : Knows(l, CurrentEpoch(p, k))

\* The map of epochs holds values the counter has handed out, for finitely many keys.
Map ==
  \A p \in Procs :
    /\ IsFiniteSet(Tracked(p))
    /\ \A k \in Keys : keyEpoch[p][k] <= epochSeq[p]

IInv == Map /\ Epochs /\ JoinedIsFresh /\ StaleExplained

\* The conjuncts of TypeOK but the one about Cardinality.
Shape ==
  /\ db \in [Keys -> 0..MaxWrites]
  /\ store \in [Keys -> {NoEntry} \cup EntryType]
  /\ asked \in [Procs -> SUBSET Keys]
  /\ loads \in [Procs -> [Keys -> SUBSET LoadType]]
  /\ resEpoch \in [Procs -> Nat]
  /\ keyEpoch \in [Procs -> [Keys -> Nat]]
  /\ epochSeq \in [Procs -> Nat]
  /\ pending \in [Procs -> [Keys -> Nat]]
  /\ faults \in 0..MaxFaults

Bounded == \A p \in Procs : Cardinality(Tracked(p)) <= MaxTracked

Inv == Shape /\ Bounded /\ IInv

-----------------------------------------------------------------------------
\* TypeOK is its shape and the bound on the map.
LEMMA Typed == TypeOK <=> Shape /\ Bounded
BY DEF TypeOK, Shape, Bounded, LoadType, EntryType

\* Whatever lifetime is asked for, the one an entry gets is within the bounds.
LEMMA Clamped ==
  ASSUME NEW ttl \in Int
  PROVE  ClampTtl(ttl) \in MinTtl..MaxTtl /\ ClampTtl(ttl) \in 1..MaxTtl
BY CacheAssumption DEF ClampTtl

\* The epochs of a process are pairs of naturals.
LEMMA EpochType ==
  ASSUME Shape, NEW p \in Procs, NEW k \in Keys
  PROVE  CurrentEpoch(p, k) \in Nat \X Nat
BY DEF Shape, CurrentEpoch

-----------------------------------------------------------------------------
\* A step that leaves the epochs alone keeps the map.
LEMMA MapKept ==
  ASSUME Bounded, Map, UNCHANGED <<keyEpoch, epochSeq>>
  PROVE  Bounded' /\ Map'
<1>1. \A p \in Procs : Tracked(p)' = Tracked(p)
  BY DEF Tracked
<1> QED
  BY <1>1 DEF Bounded, Map

\* A step that changes the loads of one key in one process.
LEMMA LoadsOfOne ==
  ASSUME loads \in [Procs -> [Keys -> SUBSET LoadType]],
         NEW p \in Procs, NEW k \in Keys, NEW L \in SUBSET LoadType,
         loads' = [loads EXCEPT ![p][k] = L]
  PROVE  /\ loads' \in [Procs -> [Keys -> SUBSET LoadType]]
         /\ \A q \in Procs, j \in Keys :
              loads'[q][j] = IF q = p /\ j = k THEN L ELSE loads[q][j]
OBVIOUS

\* Asking the store changes nothing the invariant speaks of.
LEMMA GetInv ==
  ASSUME Inv, NEW p \in Procs, NEW k \in Keys, Get(p, k)
  PROVE  Inv'
<1>1. UNCHANGED <<db, store, loads, resEpoch, keyEpoch, epochSeq, pending, faults>>
  BY DEF Get
<1>2. Shape'
  BY <1>1 DEF Inv, Shape, Get
<1>3. Bounded' /\ Map'
  BY <1>1, MapKept DEF Inv, IInv
<1>4. Epochs' /\ JoinedIsFresh' /\ StaleExplained'
  BY <1>1 DEF Inv, IInv, Epochs, CurrentEpoch, Knows, JoinedIsFresh, StaleExplained, Stale, Owed
<1> QED
  BY <1>2, <1>3, <1>4 DEF Inv, IInv

\* A load begins under the present epoch, and has read nothing yet.
LEMMA BeginInv ==
  ASSUME Inv, NEW p \in Procs, NEW k \in Keys, Begin(p, k)
  PROVE  Inv'
<1> DEFINE new == [epoch |-> CurrentEpoch(p, k), v |-> NotRead, joinable |-> TRUE, excuse |-> "none"]
<1>1. /\ UNCHANGED <<db, store, resEpoch, keyEpoch, epochSeq, pending, faults>>
      /\ asked' = [asked EXCEPT ![p] = @ \ {k}]
      /\ loads' = loads \/ loads' = [loads EXCEPT ![p][k] = @ \cup {new}]
  BY DEF Begin
<1>2. new \in LoadType
  BY EpochType, CacheAssumption DEF LoadType, Excuses, NotRead, Inv
<1>3. /\ new.epoch = CurrentEpoch(p, k) /\ new.v = -1 /\ new.joinable = TRUE
  BY DEF NotRead
<1> HIDE DEF new
<1>4. /\ loads' \in [Procs -> [Keys -> SUBSET LoadType]]
      /\ \A q \in Procs, j \in Keys : \A l \in loads'[q][j] :
           l \in loads[q][j] \/ (q = p /\ j = k /\ l = new)
  <2>1. CASE loads' = loads
    BY <2>1 DEF Inv, Shape
  <2>2. CASE loads' = [loads EXCEPT ![p][k] = @ \cup {new}]
    <3> DEFINE L == loads[p][k] \cup {new}
    <3>1. L \in SUBSET LoadType /\ loads' = [loads EXCEPT ![p][k] = L]
      BY <1>2, <2>2 DEF Inv, Shape
    <3>2. \A m \in L : m \in loads[p][k] \/ m = new
      OBVIOUS
    <3> HIDE DEF L
    <3> QED
      BY <3>1, <3>2, LoadsOfOne DEF Inv, Shape
  <2> QED
    BY <1>1, <2>1, <2>2
<1>5. Shape'
  BY <1>1, <1>4 DEF Inv, Shape
<1>6. Bounded' /\ Map'
  BY <1>1, MapKept DEF Inv, IInv
<1>7. Epochs'
  BY <1>1, <1>3, <1>4 DEF Inv, IInv, Epochs, CurrentEpoch, Knows
<1>8. JoinedIsFresh'
  BY <1>1, <1>3, <1>4 DEF Inv, IInv, JoinedIsFresh, Owed
<1>9. StaleExplained'
  BY <1>1 DEF Inv, IInv, StaleExplained, Stale, Owed
<1> QED
  BY <1>5, <1>6, <1>7, <1>8, <1>9 DEF Inv, IInv

\* The loader reads the version that is committed.
LEMMA LoadInv ==
  ASSUME Inv, NEW p \in Procs, NEW k \in Keys, NEW l \in loads[p][k], Load(p, k, l)
  PROVE  Inv'
<1> DEFINE read == [l EXCEPT !.v = db[k]]
<1>1. /\ UNCHANGED <<db, store, asked, resEpoch, keyEpoch, epochSeq, pending, faults>>
      /\ loads' = [loads EXCEPT ![p][k] = (@ \ {l}) \cup {read}]
  BY DEF Load
<1>2. l \in LoadType /\ db[k] \in 0..MaxWrites
  BY DEF Inv, Shape
<1>3. /\ read \in LoadType
      /\ read.epoch = l.epoch /\ read.v = db[k]
      /\ read.joinable = l.joinable /\ read.excuse = l.excuse
  BY <1>2 DEF LoadType
<1> HIDE DEF read
<1>4. /\ loads' \in [Procs -> [Keys -> SUBSET LoadType]]
      /\ \A q \in Procs, j \in Keys : \A m \in loads'[q][j] :
           m \in loads[q][j] \/ (q = p /\ j = k /\ m = read)
  <2> DEFINE L == (loads[p][k] \ {l}) \cup {read}
  <2>1. L \in SUBSET LoadType /\ loads' = [loads EXCEPT ![p][k] = L]
    BY <1>1, <1>3 DEF Inv, Shape
  <2>2. \A m \in L : m \in loads[p][k] \/ m = read
    OBVIOUS
  <2> HIDE DEF L
  <2> QED
    BY <2>1, <2>2, LoadsOfOne DEF Inv, Shape
<1>5. Shape'
  BY <1>1, <1>4 DEF Inv, Shape
<1>6. Bounded' /\ Map'
  BY <1>1, MapKept DEF Inv, IInv
<1>7. Epochs'
  BY <1>1, <1>3, <1>4 DEF Inv, IInv, Epochs, CurrentEpoch, Knows
<1>8. JoinedIsFresh'
  BY <1>1, <1>2, <1>3, <1>4 DEF Inv, IInv, JoinedIsFresh, Owed
<1>9. StaleExplained'
  BY <1>1 DEF Inv, IInv, StaleExplained, Stale, Owed
<1> QED
  BY <1>5, <1>6, <1>7, <1>8, <1>9 DEF Inv, IInv

\* A load is stored only in its own epoch, and so only while it can still be joined: what
\* was true of it as a load is true of the entry.
LEMMA SettleInv ==
  ASSUME Inv, NEW p \in Procs, NEW k \in Keys, NEW l \in loads[p][k], NEW ttl \in Requested,
         Settle(p, k, l, ttl)
  PROVE  Inv'
<1> DEFINE entry == [v |-> l.v, ttl |-> ClampTtl(ttl), excuse |-> l.excuse]
<1>1. /\ UNCHANGED <<db, asked, resEpoch, keyEpoch, epochSeq, pending, faults>>
      /\ loads' = [loads EXCEPT ![p][k] = @ \ {l}]
      /\ l.v # NotRead
      /\ \/ l.epoch = CurrentEpoch(p, k) /\ store' = [store EXCEPT ![k] = entry]
         \/ UNCHANGED store
  BY DEF Settle
<1>2. l \in LoadType /\ ttl \in Int
  BY CacheAssumption DEF Inv, Shape
<1>3. entry \in EntryType /\ entry.v = l.v /\ entry.excuse = l.excuse
  BY <1>1, <1>2, Clamped, CacheAssumption DEF LoadType, EntryType, NotRead
<1> HIDE DEF entry
<1>4. /\ loads' \in [Procs -> [Keys -> SUBSET LoadType]]
      /\ \A q \in Procs, j \in Keys : \A m \in loads'[q][j] : m \in loads[q][j]
  <2> DEFINE L == loads[p][k] \ {l}
  <2>1. L \in SUBSET LoadType /\ loads' = [loads EXCEPT ![p][k] = L]
    BY <1>1 DEF Inv, Shape
  <2>2. \A m \in L : m \in loads[p][k]
    OBVIOUS
  <2> HIDE DEF L
  <2> QED
    BY <2>1, <2>2, LoadsOfOne DEF Inv, Shape
<1>5. Shape'
  <2>1. store' \in [Keys -> {NoEntry} \cup EntryType]
    BY <1>1, <1>3 DEF Inv, Shape
  <2> QED
    BY <1>1, <1>4, <2>1 DEF Inv, Shape
<1>6. Bounded' /\ Map'
  BY <1>1, MapKept DEF Inv, IInv
<1>7. Epochs'
  BY <1>1, <1>4 DEF Inv, IInv, Epochs, CurrentEpoch, Knows
<1>8. JoinedIsFresh'
  BY <1>1, <1>4 DEF Inv, IInv, JoinedIsFresh, Owed
<1>9. ASSUME l.epoch = CurrentEpoch(p, k)
      PROVE  l.joinable
  <2>1. CurrentEpoch(p, k) \in Nat \X Nat
    BY EpochType DEF Inv
  <2>2. ~Before(l.epoch, CurrentEpoch(p, k))
    BY <1>9, <2>1 DEF Before
  <2> QED
    BY <2>2 DEF Inv, IInv, Epochs, Knows
<1>10. ASSUME l.epoch = CurrentEpoch(p, k), l.v < db[k], ~Owed(k)
       PROVE  l.excuse # "none"
  <2>1. l.v \in 0..(db[k] - 1)
    BY <1>1, <1>2, <1>10 DEF LoadType, NotRead, Inv, Shape
  <2> QED
    BY <1>9, <1>10, <2>1 DEF Inv, IInv, JoinedIsFresh
<1>11. StaleExplained'
  <2>1. CASE UNCHANGED store
    BY <1>1, <2>1 DEF Inv, IInv, StaleExplained, Stale, Owed
  <2>2. CASE l.epoch = CurrentEpoch(p, k) /\ store' = [store EXCEPT ![k] = entry]
    <3>1. \A j \in Keys : store'[j] = IF j = k THEN entry ELSE store[j]
      BY <2>2 DEF Inv, Shape
    <3> QED
      BY <1>1, <1>3, <1>10, <2>2, <3>1 DEF Inv, IInv, StaleExplained, Stale, Owed
  <2> QED
    BY <1>1, <2>1, <2>2
<1> QED
  BY <1>5, <1>6, <1>7, <1>8, <1>11 DEF Inv, IInv

-----------------------------------------------------------------------------
\* m is what an invalidation leaves of load l, of its own process or another, of a key it
\* passes over or not.
Remains(m, l, own, passed) ==
  /\ m.epoch = l.epoch /\ m.v = l.v
  /\ ~passed => m = l
  /\ passed /\ own => m.joinable = FALSE
  /\ passed /\ ~own => m.joinable = l.joinable
  /\ passed /\ ~own /\ m.v # NotRead => m.excuse # "none"

\* What is left of the loads when an invalidation by p passes over the keys K.
LEMMA LeaveLoads ==
  ASSUME loads \in [Procs -> [Keys -> SUBSET LoadType]],
         NEW p \in Procs, NEW K \in SUBSET Keys, Leave(p, K)
  PROVE  /\ loads' \in [Procs -> [Keys -> SUBSET LoadType]]
         /\ \A q \in Procs, j \in Keys : \A m \in loads'[q][j] : \E l \in loads[q][j] :
              Remains(m, l, q = p, j \in K)
<1>1. ASSUME NEW q \in Procs, NEW j \in Keys, NEW l \in loads[q][j]
      PROVE  Left(p, q, l) \in LoadType /\ Remains(Left(p, q, l), l, q = p, TRUE)
  <2>1. l \in LoadType
    OBVIOUS
  <2>2. CASE p = q
    <3>1. Left(p, q, l) = [l EXCEPT !.joinable = FALSE]
      BY <2>2 DEF Left
    <3> QED
      BY <2>1, <2>2, <3>1 DEF LoadType, Remains
  <2>3. CASE p # q /\ l.v = NotRead
    <3>1. Left(p, q, l) = l
      BY <2>3 DEF Left
    <3> QED
      BY <2>1, <2>3, <3>1 DEF Remains
  <2>4. CASE p # q /\ l.v # NotRead
    <3>1. Left(p, q, l) = [l EXCEPT !.excuse = "elsewhere"]
      BY <2>4 DEF Left
    <3> QED
      BY <2>1, <2>4, <3>1 DEF LoadType, Excuses, Remains
  <2> QED
    BY <2>2, <2>3, <2>4
<1>2. \A q \in Procs, j \in Keys :
        loads'[q][j] = IF j \in K THEN { Left(p, q, l) : l \in loads[q][j] } ELSE loads[q][j]
  BY DEF Leave
<1>3. loads' \in [Procs -> [Keys -> SUBSET LoadType]]
  <2>1. \A q \in Procs, j \in Keys : { Left(p, q, l) : l \in loads[q][j] } \subseteq LoadType
    BY <1>1
  <2> QED
    BY <2>1 DEF Leave
<1>4. ASSUME NEW q \in Procs, NEW j \in Keys, NEW m \in loads'[q][j]
      PROVE  \E l \in loads[q][j] : Remains(m, l, q = p, j \in K)
  <2>1. CASE j \in K
    <3> loads'[q][j] = { Left(p, q, l) : l \in loads[q][j] }
      BY <1>2, <2>1
    <3>1. PICK l \in loads[q][j] : m = Left(p, q, l)
      OBVIOUS
    <3>2. Remains(m, l, q = p, TRUE)
      BY <1>1, <3>1, Zenon
    <3> QED
      BY <2>1, <3>2, Zenon DEF Remains
  <2>2. CASE j \notin K
    BY <1>2, <2>2 DEF Remains
  <2> QED
    BY <2>1, <2>2
<1> QED
  BY <1>3, <1>4

\* No reader joins an old load after the invalidation of its key, here or elsewhere.
LEMMA LeaveFresh ==
  ASSUME Shape, JoinedIsFresh, NEW p \in Procs, NEW K \in SUBSET Keys, Leave(p, K),
         UNCHANGED db, \A j \in Keys \ K : UNCHANGED Owed(j)
  PROVE  JoinedIsFresh'
<1> SUFFICES ASSUME NEW q \in Procs, NEW j \in Keys, NEW m \in loads'[q][j],
                    m.joinable, m.v \in 0..(db[j] - 1), ~Owed(j)'
             PROVE  m.excuse # "none"
  BY DEF JoinedIsFresh
<1>1. PICK l \in loads[q][j] : Remains(m, l, q = p, j \in K)
  <2>1. loads \in [Procs -> [Keys -> SUBSET LoadType]]
    BY DEF Shape
  <2> QED
    BY <2>1, LeaveLoads, Zenon
<1>2. m.v # NotRead
  BY SMT DEF NotRead
<1>3. CASE j \in K
  BY <1>1, <1>2, <1>3 DEF Remains
<1>4. CASE j \notin K
  BY <1>1, <1>4 DEF JoinedIsFresh, Remains
<1> QED
  BY <1>3, <1>4

\* A DEL leaves each of its keys without an entry, or with one that is marked as missed.
LEMMA DelExplained ==
  ASSUME Shape, StaleExplained, NEW K \in SUBSET Keys, Del(K),
         UNCHANGED db, \A j \in Keys \ K : UNCHANGED Owed(j)
  PROVE  /\ store' \in [Keys -> {NoEntry} \cup EntryType] /\ faults' \in 0..MaxFaults
         /\ StaleExplained'
<1>1. faults' \in 0..MaxFaults
  BY CacheAssumption DEF Del, Fault, Shape
<1>2. \A j \in Keys : store[j] # NoEntry =>
        /\ [store[j] EXCEPT !.excuse = "missed"] \in EntryType
        /\ [store[j] EXCEPT !.excuse = "missed"].excuse = "missed"
  <2>1. \A e \in EntryType : /\ [e EXCEPT !.excuse = "missed"] \in EntryType
                             /\ [e EXCEPT !.excuse = "missed"].excuse = "missed"
    BY DEF EntryType, Excuses
  <2> QED
    BY <2>1 DEF Shape
<1>3. PICK gone \in SUBSET K :
        store' = [j \in Keys |->
          IF j \in gone THEN NoEntry
          ELSE IF j \in K /\ store[j] # NoEntry THEN [store[j] EXCEPT !.excuse = "missed"]
          ELSE store[j]]
  BY DEF Del
<1>4. store' \in [Keys -> {NoEntry} \cup EntryType]
  BY <1>2, <1>3 DEF Shape
<1>5. \A j \in Keys : j \in K /\ store'[j] # NoEntry => store'[j].excuse # "none"
  BY <1>2, <1>3
<1>6. \A j \in Keys \ K : store'[j] = store[j]
  BY <1>3
<1> QED
  BY <1>1, <1>4, <1>5, <1>6 DEF StaleExplained, Stale

-----------------------------------------------------------------------------
\* Epochs move forward: what was before the present one stays before it.
Advance ==
  \A p \in Procs, k \in Keys : \A e \in Nat \X Nat :
    /\ Before(e, CurrentEpoch(p, k)) => Before(e, CurrentEpoch(p, k)')
    /\ e = CurrentEpoch(p, k) => e = CurrentEpoch(p, k)' \/ Before(e, CurrentEpoch(p, k)')

\* A bump keeps the map within its bound, and moves the epoch of its own key.
LEMMA BumpMap ==
  ASSUME Shape, Bounded, Map, NEW p \in Procs, NEW k \in Keys, BumpKey(p, k)
  PROVE  Bounded' /\ Map'
<1> DEFINE full == Cardinality(Tracked(p)) >= MaxTracked
<1>1. /\ epochSeq' = [epochSeq EXCEPT ![p] = @ + 1]
      /\ keyEpoch' = [keyEpoch EXCEPT ![p] =
           [j \in Keys |-> IF j = k THEN epochSeq[p] + 1 ELSE IF full THEN 0 ELSE @[j]]]
  BY DEF BumpKey
<1>2. IsFiniteSet(Tracked(p)) /\ Cardinality(Tracked(p)) \in Nat
  BY FS_CardinalityType DEF Map
<1> HIDE DEF full
<1>3. /\ epochSeq[p] \in Nat /\ epochSeq'[p] = epochSeq[p] + 1
      /\ \A j \in Keys : keyEpoch[p][j] \in Nat
      /\ \A j \in Keys : keyEpoch'[p][j] =
           IF j = k THEN epochSeq[p] + 1 ELSE IF full THEN 0 ELSE keyEpoch[p][j]
      /\ \A q \in Procs : q # p => keyEpoch'[q] = keyEpoch[q] /\ epochSeq'[q] = epochSeq[q]
  BY <1>1 DEF Shape
<1>4. IsFiniteSet(Tracked(p)') /\ Cardinality(Tracked(p)') <= MaxTracked
  <2>1. CASE full
    <3>1. Tracked(p)' = {k}
      BY <1>3, <2>1 DEF Tracked
    <3>2. IsFiniteSet({k}) /\ Cardinality({k}) = 1
      BY FS_Singleton, Zenon
    <3> QED
      BY <3>1, <3>2, CacheAssumption
  <2>2. CASE ~full
    <3>1. Tracked(p)' \subseteq Tracked(p) \cup {k}
      BY <1>3, <2>2 DEF Tracked
    <3>2. /\ IsFiniteSet(Tracked(p) \cup {k})
          /\ Cardinality(Tracked(p) \cup {k}) <= Cardinality(Tracked(p)) + 1
      <4>1. /\ IsFiniteSet(Tracked(p) \cup {k})
            /\ Cardinality(Tracked(p) \cup {k}) =
                 IF k \in Tracked(p) THEN Cardinality(Tracked(p)) ELSE Cardinality(Tracked(p)) + 1
        BY <1>2, FS_AddElement, Zenon
      <4> QED
        BY <1>2, <4>1
    <3>3. /\ IsFiniteSet(Tracked(p)')
          /\ Cardinality(Tracked(p)') <= Cardinality(Tracked(p) \cup {k})
      BY <3>1, <3>2, FS_Subset
    <3>4. Cardinality(Tracked(p)') \in Nat /\ Cardinality(Tracked(p) \cup {k}) \in Nat
      BY <3>2, <3>3, FS_CardinalityType
    <3> QED
      BY <1>2, <2>2, <3>2, <3>3, <3>4, CacheAssumption DEF full
  <2> QED
    BY <2>1, <2>2
<1>5. \A q \in Procs : q # p => Tracked(q)' = Tracked(q)
  BY <1>3 DEF Tracked
<1>6. Bounded'
  BY <1>4, <1>5 DEF Bounded
<1>7. ASSUME NEW q \in Procs, NEW j \in Keys
      PROVE  keyEpoch'[q][j] <= epochSeq'[q]
  <2>1. CASE q = p
    BY <1>3, <2>1 DEF Map
  <2>2. CASE q # p
    BY <1>3, <2>2 DEF Map
  <2> QED
    BY <2>1, <2>2
<1> QED
  BY <1>4, <1>5, <1>6, <1>7 DEF Map

\* A bump moves epochs forward, and that of its own key past every load of the process.
LEMMA BumpAdvances ==
  ASSUME Shape, Map, NEW p \in Procs, NEW k \in Keys, BumpKey(p, k)
  PROVE  /\ resEpoch' \in [Procs -> Nat] /\ keyEpoch' \in [Procs -> [Keys -> Nat]]
         /\ epochSeq' \in [Procs -> Nat]
         /\ Advance
         /\ Before(CurrentEpoch(p, k), CurrentEpoch(p, k)')
<1> DEFINE full == Cardinality(Tracked(p)) >= MaxTracked
<1>1. /\ epochSeq' = [epochSeq EXCEPT ![p] = @ + 1]
      /\ keyEpoch' = [keyEpoch EXCEPT ![p] =
           [j \in Keys |-> IF j = k THEN epochSeq[p] + 1 ELSE IF full THEN 0 ELSE @[j]]]
      /\ resEpoch' = [resEpoch EXCEPT ![p] = IF full THEN @ + 1 ELSE @]
  BY DEF BumpKey
<1> HIDE DEF full
<1>2. /\ resEpoch' \in [Procs -> Nat] /\ keyEpoch' \in [Procs -> [Keys -> Nat]]
      /\ epochSeq' \in [Procs -> Nat]
  <2>1. [j \in Keys |-> IF j = k THEN epochSeq[p] + 1 ELSE IF full THEN 0 ELSE keyEpoch[p][j]]
          \in [Keys -> Nat]
    BY DEF Shape
  <2> QED
    BY <1>1, <2>1 DEF Shape
<1>3. /\ \A j \in Keys : keyEpoch'[p][j] =
           IF j = k THEN epochSeq[p] + 1 ELSE IF full THEN 0 ELSE keyEpoch[p][j]
      /\ resEpoch'[p] = IF full THEN resEpoch[p] + 1 ELSE resEpoch[p]
      /\ \A q \in Procs : q # p => keyEpoch'[q] = keyEpoch[q] /\ resEpoch'[q] = resEpoch[q]
  BY <1>1 DEF Shape
<1>4. \A j \in Keys : /\ epochSeq[p] \in Nat /\ keyEpoch[p][j] \in Nat
                       /\ keyEpoch[p][j] < epochSeq[p] + 1
  BY DEF Shape, Map
<1>5. \A q \in Procs, j \in Keys :
        /\ CurrentEpoch(q, j)[1] = resEpoch[q] /\ CurrentEpoch(q, j)[2] = keyEpoch[q][j]
        /\ CurrentEpoch(q, j)'[1] = resEpoch'[q] /\ CurrentEpoch(q, j)'[2] = keyEpoch'[q][j]
  BY DEF CurrentEpoch
<1>6. Before(CurrentEpoch(p, k), CurrentEpoch(p, k)')
  BY <1>3, <1>4, <1>5 DEF Before, Shape
<1>7. ASSUME NEW j \in Keys, NEW e \in Nat \X Nat
      PROVE  /\ Before(e, CurrentEpoch(p, j)) => Before(e, CurrentEpoch(p, j)')
             /\ e = CurrentEpoch(p, j) => e = CurrentEpoch(p, j)' \/ Before(e, CurrentEpoch(p, j)')
  <2>1. resEpoch[p] \in Nat /\ e[1] \in Nat /\ e[2] \in Nat
    BY DEF Shape
  <2>2. CASE full
    BY <1>3, <1>5, <2>1, <2>2 DEF Before
  <2>3. CASE ~full /\ j = k
    BY <1>3, <1>4, <1>5, <2>1, <2>3 DEF Before
  <2>4. CASE ~full /\ j # k
    BY <1>3, <2>4 DEF CurrentEpoch
  <2> QED
    BY <2>2, <2>3, <2>4
<1>8. \A q \in Procs, j \in Keys : q # p => CurrentEpoch(q, j)' = CurrentEpoch(q, j)
  BY <1>3 DEF CurrentEpoch
<1>9. Advance
  BY <1>7, <1>8 DEF Advance
<1> QED
  BY <1>2, <1>6, <1>9

\* Loads stay within their epochs when an invalidation lets them go, if the epochs of those it
\* takes out of _inflight are past.
LEMMA LeaveEpochs ==
  ASSUME Shape, Epochs, Advance, NEW p \in Procs, NEW K \in SUBSET Keys, Leave(p, K),
         \A j \in K : \A l \in loads[p][j] : Before(l.epoch, CurrentEpoch(p, j)')
  PROVE  Epochs'
<1> SUFFICES ASSUME NEW q \in Procs, NEW j \in Keys, NEW m \in loads'[q][j]
             PROVE  Knows(m, CurrentEpoch(q, j)')
  BY DEF Epochs, Knows
<1>1. PICK l \in loads[q][j] : Remains(m, l, q = p, j \in K)
  <2>1. loads \in [Procs -> [Keys -> SUBSET LoadType]]
    BY DEF Shape
  <2> QED
    BY <2>1, LeaveLoads, Zenon
<1>2. l.epoch \in Nat \X Nat
  BY DEF Shape, LoadType
<1>3. Knows(l, CurrentEpoch(q, j))
  BY DEF Epochs
<1>4. CASE q = p /\ j \in K
  BY <1>1, <1>4 DEF Remains, Knows
<1>5. CASE ~(q = p /\ j \in K)
  <2>1. m.epoch = l.epoch /\ m.joinable = l.joinable
    BY <1>1, <1>5, Zenon DEF Remains
  <2>2. /\ Before(l.epoch, CurrentEpoch(q, j)) => Before(l.epoch, CurrentEpoch(q, j)')
        /\ l.epoch = CurrentEpoch(q, j) =>
             l.epoch = CurrentEpoch(q, j)' \/ Before(l.epoch, CurrentEpoch(q, j)')
    BY <1>2, Zenon DEF Advance
  <2> QED
    BY <1>3, <2>1, <2>2, Zenon DEF Knows
<1> QED
  BY <1>4, <1>5

-----------------------------------------------------------------------------
\* A commit owes an invalidation of its key.
LEMMA CommitInv ==
  ASSUME Inv, NEW p \in Procs, NEW k \in Keys, Commit(p, k)
  PROVE  Inv'
<1>1. /\ UNCHANGED <<store, asked, loads, resEpoch, keyEpoch, epochSeq, faults>>
      /\ db[k] < MaxWrites
      /\ db' = [db EXCEPT ![k] = @ + 1]
      /\ pending' = [pending EXCEPT ![p][k] = @ + 1]
  BY DEF Commit
<1>2. /\ db' \in [Keys -> 0..MaxWrites] /\ pending' \in [Procs -> [Keys -> Nat]]
      /\ \A j \in Keys : j # k => db'[j] = db[j]
      /\ pending'[p][k] > 0
      /\ \A q \in Procs, j \in Keys : j # k => pending'[q][j] = pending[q][j]
  BY <1>1, CacheAssumption DEF Inv, Shape
<1>3. Shape'
  BY <1>1, <1>2 DEF Inv, Shape
<1>4. Bounded' /\ Map'
  BY <1>1, MapKept DEF Inv, IInv
<1>5. Epochs'
  BY <1>1 DEF Inv, IInv, Epochs, CurrentEpoch, Knows
<1>6. Owed(k)' /\ \A j \in Keys : j # k => Owed(j)' = Owed(j)
  BY <1>2 DEF Owed
<1>7. JoinedIsFresh'
  BY <1>1, <1>2, <1>6 DEF Inv, IInv, JoinedIsFresh
<1>8. StaleExplained'
  BY <1>1, <1>2, <1>6 DEF Inv, IInv, StaleExplained, Stale
<1> QED
  BY <1>3, <1>4, <1>5, <1>7, <1>8 DEF Inv, IInv

\* Nothing is owed less for another key.
LEMMA Paid ==
  ASSUME Shape, NEW p \in Procs, NEW k \in Keys, pending[p][k] > 0,
         pending' = [pending EXCEPT ![p][k] = @ - 1]
  PROVE  /\ pending' \in [Procs -> [Keys -> Nat]]
         /\ \A j \in Keys \ {k} : UNCHANGED Owed(j)
<1>1. /\ pending' \in [Procs -> [Keys -> Nat]]
      /\ \A q \in Procs, j \in Keys : j # k => pending'[q][j] = pending[q][j]
  BY DEF Shape
<1> QED
  BY <1>1 DEF Owed

\* An invalidation of one key: its epoch is bumped before its loads are let go.
LEMMA InvalidateInv ==
  ASSUME Inv, NEW p \in Procs, NEW k \in Keys, Invalidate(p, k)
  PROVE  Inv'
<1>1. /\ UNCHANGED <<db, asked>> /\ Leave(p, {k}) /\ Del({k})
      /\ pending[p][k] > 0 /\ pending' = [pending EXCEPT ![p][k] = @ - 1]
      /\ IF InFlight(p, k) THEN BumpKey(p, k) ELSE UNCHANGED <<resEpoch, keyEpoch, epochSeq>>
  BY DEF Invalidate
<1> USE DEF Inv, IInv
<1>2. /\ pending' \in [Procs -> [Keys -> Nat]] /\ \A j \in Keys \ {k} : UNCHANGED Owed(j)
  BY <1>1, Paid
<1>3. loads' \in [Procs -> [Keys -> SUBSET LoadType]]
  BY <1>1, LeaveLoads DEF Shape
<1>4. JoinedIsFresh'
  BY <1>1, <1>2, LeaveFresh
<1>5. /\ store' \in [Keys -> {NoEntry} \cup EntryType] /\ faults' \in 0..MaxFaults
      /\ StaleExplained'
  BY <1>1, <1>2, DelExplained
<1>6. /\ Bounded' /\ Map' /\ Advance
      /\ resEpoch' \in [Procs -> Nat] /\ keyEpoch' \in [Procs -> [Keys -> Nat]]
      /\ epochSeq' \in [Procs -> Nat]
      /\ \A l \in loads[p][k] : Before(l.epoch, CurrentEpoch(p, k)')
  <2>1. \A l \in loads[p][k] : /\ l.epoch \in Nat \X Nat /\ Knows(l, CurrentEpoch(p, k))
    BY DEF Shape, LoadType, Epochs
  <2>2. CASE InFlight(p, k)
    <3>1. BumpKey(p, k)
      BY <1>1, <2>2
    <3>2. Before(CurrentEpoch(p, k), CurrentEpoch(p, k)') /\ Advance
      BY <3>1, BumpAdvances
    <3>3. \A l \in loads[p][k] : Before(l.epoch, CurrentEpoch(p, k)')
      BY <2>1, <3>2, Zenon DEF Advance, Knows
    <3> QED
      BY <3>1, <3>2, <3>3, BumpMap, BumpAdvances
  <2>3. CASE ~InFlight(p, k)
    <3>1. UNCHANGED <<resEpoch, keyEpoch, epochSeq>>
      BY <1>1, <2>3
    <3>2. \A q \in Procs, j \in Keys : CurrentEpoch(q, j)' = CurrentEpoch(q, j)
      BY <3>1 DEF CurrentEpoch
    <3>3. \A l \in loads[p][k] : Before(l.epoch, CurrentEpoch(p, k)')
      BY <2>1, <2>3, <3>2 DEF InFlight, Knows
    <3>4. Advance
      BY <3>2 DEF Advance
    <3> QED
      BY <3>1, <3>3, <3>4, MapKept DEF Shape
  <2> QED
    BY <2>2, <2>3
<1>7. Epochs'
  BY <1>1, <1>6, LeaveEpochs
<1>8. Shape'
  BY <1>1, <1>2, <1>3, <1>5, <1>6 DEF Shape
<1> QED
  BY <1>4, <1>5, <1>6, <1>7, <1>8

\* An invalidation of the resource: if any load is in flight, all are disowned.
LEMMA InvalidateResourceInv ==
  ASSUME Inv, NEW p \in Procs, NEW k \in Keys, InvalidateResource(p, k)
  PROVE  Inv'
<1>1. /\ UNCHANGED <<db, asked, keyEpoch, epochSeq>> /\ Leave(p, Keys) /\ Del(Keys)
      /\ pending[p][k] > 0 /\ pending' = [pending EXCEPT ![p][k] = @ - 1]
      /\ resEpoch' = [resEpoch EXCEPT ![p] = IF \E j \in Keys : InFlight(p, j) THEN @ + 1 ELSE @]
  BY DEF InvalidateResource
<1> USE DEF Inv, IInv
<1>2. pending' \in [Procs -> [Keys -> Nat]] /\ \A j \in Keys \ Keys : UNCHANGED Owed(j)
  BY <1>1, Paid
<1>3. loads' \in [Procs -> [Keys -> SUBSET LoadType]]
  BY <1>1, LeaveLoads DEF Shape
<1>4. JoinedIsFresh'
  BY <1>1, <1>2, LeaveFresh
<1>5. /\ store' \in [Keys -> {NoEntry} \cup EntryType] /\ faults' \in 0..MaxFaults
      /\ StaleExplained'
  BY <1>1, <1>2, DelExplained
<1>6. Bounded' /\ Map'
  BY <1>1, MapKept
<1>7. /\ resEpoch' \in [Procs -> Nat]
      /\ \A q \in Procs : resEpoch[q] \in Nat /\ resEpoch'[q] =
           IF q = p /\ \E j \in Keys : InFlight(p, j) THEN resEpoch[q] + 1 ELSE resEpoch[q]
  BY <1>1 DEF Shape
<1>8. Advance
  <2> SUFFICES ASSUME NEW q \in Procs, NEW j \in Keys, NEW e \in Nat \X Nat
               PROVE  /\ Before(e, CurrentEpoch(q, j)) => Before(e, CurrentEpoch(q, j)')
                      /\ e = CurrentEpoch(q, j) =>
                           e = CurrentEpoch(q, j)' \/ Before(e, CurrentEpoch(q, j)')
    BY DEF Advance
  <2>1. e[1] \in Nat /\ e[2] \in Nat
    OBVIOUS
  <2>2. CASE resEpoch'[q] = resEpoch[q]
    BY <1>1, <2>2 DEF CurrentEpoch
  <2>3. CASE resEpoch'[q] = resEpoch[q] + 1
    BY <1>7, <2>1, <2>3 DEF CurrentEpoch, Before
  <2> QED
    BY <1>7, <2>2, <2>3
<1>9. ASSUME NEW j \in Keys, NEW l \in loads[p][j]
      PROVE  Before(l.epoch, CurrentEpoch(p, j)')
  <2>1. /\ l.epoch \in Nat \X Nat /\ Knows(l, CurrentEpoch(p, j))
    BY DEF Shape, LoadType, Epochs
  <2>2. CASE \E i \in Keys : InFlight(p, i)
    <3>1. resEpoch'[p] = resEpoch[p] + 1 /\ l.epoch[1] \in Nat
      BY <1>7, <2>1, <2>2
    <3> QED
      BY <1>7, <2>1, <3>1 DEF Knows, Before, CurrentEpoch
  <2>3. CASE ~(\E i \in Keys : InFlight(p, i))
    <3>1. CurrentEpoch(p, j)' = CurrentEpoch(p, j)
      BY <1>1, <1>7, <2>3 DEF CurrentEpoch
    <3> QED
      BY <2>1, <2>3, <3>1 DEF InFlight, Knows
  <2> QED
    BY <2>2, <2>3
<1>10. Epochs'
  BY <1>1, <1>8, <1>9, LeaveEpochs
<1>11. Shape'
  BY <1>1, <1>2, <1>3, <1>5, <1>7 DEF Shape
<1> QED
  BY <1>4, <1>5, <1>6, <1>10, <1>11

\* A crash forgets the loads and the epochs of its process together, and what it still owed
\* is marked as missed wherever it is read.
LEMMA CrashInv ==
  ASSUME Inv, NEW p \in Procs, Crash(p)
  PROVE  Inv'
<1> DEFINE O == { k \in Keys : pending[p][k] > 0 }
           Marked(k, l) == IF k \in O /\ l.v # NotRead THEN [l EXCEPT !.excuse = "missed"] ELSE l
<1>1. /\ Fault /\ UNCHANGED db
      /\ asked' = [asked EXCEPT ![p] = {}]
      /\ loads' = [q \in Procs |-> [k \in Keys |->
                     IF q = p THEN {} ELSE { Marked(k, l) : l \in loads[q][k] }]]
      /\ store' = [k \in Keys |-> IF k \in O /\ store[k] # NoEntry
                     THEN [store[k] EXCEPT !.excuse = "missed"] ELSE store[k]]
      /\ resEpoch' = [resEpoch EXCEPT ![p] = 0]
      /\ keyEpoch' = [keyEpoch EXCEPT ![p] = [k \in Keys |-> 0]]
      /\ epochSeq' = [epochSeq EXCEPT ![p] = 0]
      /\ pending' = [pending EXCEPT ![p] = [k \in Keys |-> 0]]
  BY DEF Crash
<1>2. ASSUME NEW k \in Keys, NEW l \in LoadType
      PROVE  /\ Marked(k, l) \in LoadType
             /\ Marked(k, l).epoch = l.epoch /\ Marked(k, l).v = l.v
             /\ Marked(k, l).joinable = l.joinable
             /\ k \in O /\ l.v # NotRead => Marked(k, l).excuse # "none"
             /\ k \notin O => Marked(k, l) = l
  <2>1. CASE k \in O /\ l.v # NotRead
    BY <2>1 DEF LoadType, Excuses
  <2>2. CASE ~(k \in O /\ l.v # NotRead)
    BY <2>2
  <2> QED
    BY <2>1, <2>2
<1>3. \A k \in Keys \ O : Owed(k) => Owed(k)'
  BY <1>1 DEF Owed, Inv, Shape
<1> HIDE DEF Marked, O
<1>4. \A q \in Procs, k \in Keys :
        /\ q = p => loads'[q][k] = {}
        /\ q # p => loads'[q][k] = { Marked(k, l) : l \in loads[q][k] }
  BY <1>1
<1>5. ASSUME NEW q \in Procs, NEW k \in Keys, NEW m \in loads'[q][k]
      PROVE  q # p /\ \E l \in loads[q][k] : m = Marked(k, l)
  <2>1. q # p
    BY <1>4
  <2> loads'[q][k] = { Marked(k, l) : l \in loads[q][k] }
    BY <1>4, <2>1
  <2> QED
    BY <2>1
<1>6. \A q \in Procs, k \in Keys : loads[q][k] \subseteq LoadType
  BY DEF Inv, Shape
<1>7. Shape'
  <2>1. loads' \in [Procs -> [Keys -> SUBSET LoadType]]
    <3>1. \A q \in Procs, k \in Keys : { Marked(k, l) : l \in loads[q][k] } \subseteq LoadType
      BY <1>2, <1>6
    <3> QED
      BY <1>1, <3>1
  <2>2. store' \in [Keys -> {NoEntry} \cup EntryType]
    <3>1. \A e \in EntryType : [e EXCEPT !.excuse = "missed"] \in EntryType
      BY DEF EntryType, Excuses
    <3> QED
      BY <1>1, <3>1 DEF Inv, Shape
  <2>3. faults' \in 0..MaxFaults
    BY <1>1, CacheAssumption DEF Fault, Inv, Shape
  <2> QED
    BY <1>1, <2>1, <2>2, <2>3 DEF Inv, Shape
<1>8. Bounded' /\ Map'
  <2>1. Tracked(p)' = {}
    BY <1>1 DEF Tracked, Inv, Shape
  <2>2. \A q \in Procs : q # p =>
          /\ Tracked(q)' = Tracked(q)
          /\ keyEpoch'[q] = keyEpoch[q] /\ epochSeq'[q] = epochSeq[q]
    BY <1>1 DEF Tracked, Inv, Shape
  <2>3. IsFiniteSet({}) /\ Cardinality({}) = 0
    BY FS_EmptySet, Zenon
  <2>4. \A k \in Keys : keyEpoch'[p][k] <= epochSeq'[p]
    BY <1>1 DEF Inv, Shape
  <2>5. Bounded'
    BY <2>1, <2>2, <2>3, CacheAssumption DEF Bounded, Inv
  <2> QED
    BY <2>1, <2>2, <2>3, <2>4, <2>5 DEF Map, Inv, IInv
<1>9. Epochs'
  <2> SUFFICES ASSUME NEW q \in Procs, NEW k \in Keys, NEW m \in loads'[q][k]
               PROVE  Knows(m, CurrentEpoch(q, k)')
    BY DEF Epochs, Knows
  <2>1. q # p
    BY <1>5
  <2>2. PICK l \in loads[q][k] : m = Marked(k, l)
    BY <1>5
  <2>3. m.epoch = l.epoch /\ m.joinable = l.joinable
    BY <1>2, <1>6, <2>2
  <2>4. CurrentEpoch(q, k)' = CurrentEpoch(q, k)
    BY <1>1, <2>1 DEF CurrentEpoch, Inv, Shape
  <2>5. Knows(l, CurrentEpoch(q, k))
    BY DEF Inv, IInv, Epochs
  <2> QED
    BY <2>3, <2>4, <2>5, Zenon DEF Knows
<1>10. JoinedIsFresh'
  <2> SUFFICES ASSUME NEW q \in Procs, NEW k \in Keys, NEW m \in loads'[q][k],
                      m.joinable, m.v \in 0..(db[k] - 1), ~Owed(k)'
               PROVE  m.excuse # "none"
    BY <1>1 DEF JoinedIsFresh
  <2>1. PICK l \in loads[q][k] : m = Marked(k, l)
    BY <1>5
  <2>2. m.v = l.v /\ m.joinable = l.joinable /\ l \in LoadType
    BY <1>2, <1>6, <2>1
  <2>3. m.v # NotRead
    BY SMT DEF NotRead
  <2>4. CASE k \in O
    BY <1>2, <2>1, <2>2, <2>3, <2>4
  <2>5. CASE k \notin O
    <3>1. m = l /\ ~Owed(k)
      BY <1>2, <1>3, <2>1, <2>2, <2>5
    <3> QED
      BY <3>1 DEF Inv, IInv, JoinedIsFresh
  <2> QED
    BY <2>4, <2>5
<1>11. StaleExplained'
  <2> SUFFICES ASSUME NEW k \in Keys, Stale(k)', ~Owed(k)'
               PROVE  store'[k].excuse # "none"
    BY DEF StaleExplained
  <2>1. CASE k \in O /\ store[k] # NoEntry
    <3>1. store[k] \in EntryType /\ store'[k] = [store[k] EXCEPT !.excuse = "missed"]
      BY <1>1, <2>1 DEF Inv, Shape
    <3> QED
      BY <3>1 DEF EntryType
  <2>2. CASE ~(k \in O /\ store[k] # NoEntry)
    <3>1. store'[k] = store[k] /\ Stale(k)
      BY <1>1, <2>2 DEF Stale
    <3>2. ~Owed(k)
      BY <1>3, <2>2, <3>1 DEF Stale
    <3> QED
      BY <3>1, <3>2 DEF Inv, IInv, StaleExplained
  <2> QED
    BY <2>1, <2>2
<1> QED
  BY <1>7, <1>8, <1>9, <1>10, <1>11 DEF Inv, IInv

\* Time shortens lifetimes and changes no version.
LEMMA TickInv ==
  ASSUME Inv, Tick
  PROVE  Inv'
<1>1. /\ UNCHANGED <<db, asked, loads, resEpoch, keyEpoch, epochSeq, pending, faults>>
      /\ store' = [k \in Keys |-> IF store[k].ttl = 1 THEN NoEntry
                                  ELSE IF store[k].ttl \in 2..MaxTtl
                                    THEN [store[k] EXCEPT !.ttl = @ - 1] ELSE store[k]]
  BY DEF Tick, procVars
<1>2. ASSUME NEW k \in Keys
      PROVE  /\ store'[k] \in {NoEntry} \cup EntryType
             /\ \/ store'[k] = NoEntry
                \/ /\ store[k] # NoEntry
                   /\ store'[k].v = store[k].v /\ store'[k].excuse = store[k].excuse
  <2>1. CASE store[k] = NoEntry
    <3>1. store[k].ttl = 0
      BY <2>1 DEF NoEntry
    <3> QED
      BY <1>1, <2>1, <3>1
  <2>2. CASE store[k] # NoEntry
    <3>1. store[k] \in EntryType
      BY <2>2 DEF Inv, Shape
    <3> QED
      BY <1>1, <2>2, <3>1, CacheAssumption DEF EntryType
  <2> QED
    BY <2>1, <2>2
<1>3. Shape'
  <2>1. store' \in [Keys -> {NoEntry} \cup EntryType]
    BY <1>1, <1>2
  <2> QED
    BY <1>1, <2>1 DEF Inv, Shape
<1>4. Bounded' /\ Map'
  BY <1>1, MapKept DEF Inv, IInv
<1>5. Epochs' /\ JoinedIsFresh'
  BY <1>1 DEF Inv, IInv, Epochs, CurrentEpoch, Knows, JoinedIsFresh, Owed
<1>6. StaleExplained'
  BY <1>1, <1>2 DEF Inv, IInv, StaleExplained, Stale, Owed
<1> QED
  BY <1>3, <1>4, <1>5, <1>6 DEF Inv, IInv

-----------------------------------------------------------------------------
\* Initially nothing is stored, loading or tracked.
LEMMA InitInv == Init => Inv
<1> SUFFICES ASSUME Init PROVE Inv
  OBVIOUS
<1>1. Shape
  BY CacheAssumption DEF Init, Shape
<1>2. \A p \in Procs : Tracked(p) = {}
  BY DEF Init, Tracked
<1>3. IsFiniteSet({}) /\ Cardinality({}) = 0
  BY FS_EmptySet, Zenon
<1>4. Bounded
  BY <1>2, <1>3, CacheAssumption DEF Bounded
<1>5. \A p \in Procs, k \in Keys : keyEpoch[p][k] <= epochSeq[p]
  BY DEF Init
<1>6. Map
  BY <1>2, <1>3, <1>5 DEF Map
<1>7. Epochs /\ JoinedIsFresh /\ StaleExplained
  BY DEF Init, Epochs, JoinedIsFresh, StaleExplained, Stale
<1> QED
  BY <1>1, <1>4, <1>6, <1>7 DEF Inv, IInv

\* The inductive invariant: a load that was disowned belongs to a past epoch, so what is
\* stored is a load that could still be joined; and those are old only with an excuse or
\* with an invalidation on its way.
THEOREM Invariant == Spec => []Inv
<1>1. Inv /\ [Next]_vars => Inv'
  <2> SUFFICES ASSUME Inv, [Next]_vars PROVE Inv'
    OBVIOUS
  <2>1. CASE UNCHANGED vars
    <3>1. UNCHANGED <<db, store, asked, loads, resEpoch, keyEpoch, epochSeq, pending, faults>>
      BY <2>1 DEF vars, procVars
    <3>2. Bounded' /\ Map'
      BY <3>1, MapKept DEF Inv, IInv
    <3> QED
      BY <3>1, <3>2 DEF Inv, IInv, Shape, Epochs, CurrentEpoch, Knows, JoinedIsFresh,
        StaleExplained, Stale, Owed
  <2>2. CASE Tick
    BY <2>2, TickInv
  <2>3. ASSUME NEW p \in Procs, Crash(p)
        PROVE  Inv'
    BY <2>3, CrashInv
  <2>4. ASSUME NEW p \in Procs, NEW k \in Keys,
               \/ Get(p, k) \/ Begin(p, k) \/ Commit(p, k)
               \/ Invalidate(p, k) \/ InvalidateResource(p, k)
        PROVE  Inv'
    BY <2>4, GetInv, BeginInv, CommitInv, InvalidateInv, InvalidateResourceInv
  <2>5. ASSUME NEW p \in Procs, NEW k \in Keys, NEW l \in loads[p][k],
               Load(p, k, l) \/ \E ttl \in Requested : Settle(p, k, l, ttl)
        PROVE  Inv'
    BY <2>5, LoadInv, SettleInv
  <2> QED
    BY <2>1, <2>2, <2>3, <2>4, <2>5 DEF Next
<1> QED
  BY InitInv, <1>1, PTL DEF Spec

\* The state keeps its shape, and the map of epochs never outgrows MAX_TRACKED_EPOCHS.
THEOREM TypeCorrect == Spec => []TypeOK
<1>1. Inv => TypeOK
  BY Typed DEF Inv
<1> QED
  BY <1>1, Invariant, PTL

\* No load brings an old version back after an invalidation of its own process, whether of
\* its key, of the resource, or one that found the map of epochs full.
THEOREM StaleIsExplained == Spec => []StaleExplained
<1>1. Inv => StaleExplained
  BY DEF Inv, IInv
<1> QED
  BY <1>1, Invariant, PTL

\* No reader joins a load that an invalidation of its own process has overtaken.
THEOREM JoinersAreFresh == Spec => []JoinedIsFresh
<1>1. Inv => JoinedIsFresh
  BY DEF Inv, IInv
<1> QED
  BY <1>1, Invariant, PTL

\* A load that an invalidation took out of _inflight is never stored: neither the bump of
\* its key's epoch nor the clearing of the full map ever gives it a valid epoch again.
THEOREM DisownedIsNeverStored ==
  Spec => [][\A p \in Procs, k \in Keys : \A l \in loads[p][k] : \A ttl \in Requested :
               Settle(p, k, l, ttl) /\ ~l.joinable => UNCHANGED store]_vars
<1>1. ASSUME Inv, NEW p \in Procs, NEW k \in Keys, NEW l \in loads[p][k], NEW ttl \in Requested,
             Settle(p, k, l, ttl), ~l.joinable
      PROVE  UNCHANGED store
  <2>1. Before(l.epoch, CurrentEpoch(p, k)) /\ CurrentEpoch(p, k) \in Nat \X Nat
    BY <1>1, EpochType DEF Inv, IInv, Epochs, Knows
  <2>2. l.epoch # CurrentEpoch(p, k)
    BY <2>1 DEF Before
  <2> QED
    BY <1>1, <2>2 DEF Settle
<1>2. Inv => \A p \in Procs, k \in Keys : \A l \in loads[p][k] : \A ttl \in Requested :
               Settle(p, k, l, ttl) /\ ~l.joinable => UNCHANGED store
  BY <1>1
<1> QED
  BY <1>2, Invariant, PTL
===============================================================================
