----------------------------- MODULE CallerProofs -----------------------------
(***************************************************************************)
(* Theorems about the two components that stand on the calling side of a   *)
(* service that may fail, and where calls overlap: CircuitBreaker, for any *)
(* number of calls, any threshold and any recovery window; and, below, the *)
(* app's push cycle, MobileSync, for any writes, callers and number of     *)
(* retries. The two share no state.                                        *)
(***************************************************************************)
EXTENDS CircuitBreaker, MobileSync, TLAPS

-----------------------------------------------------------------------------
\* The circuit breaker.

\* What the epoch is worth: a call remembers none to come; once the state has changed
\* under it, or the breaker is not closed, it remembers one gone by, unless it is the
\* probe; and the probe flag is up exactly while a probe is in flight.
Rounds ==
  /\ \A c \in running : began[c] <= epoch
  /\ \A c \in running \ probes : c \in stale \/ state # "closed" => began[c] < epoch
  /\ probes \cap stale = {}
  /\ probing <=> probes # {}

IInv == TypeOK /\ OneProbe /\ Rounds

-----------------------------------------------------------------------------
\* A new breaker is closed, with nothing in flight.
LEMMA InitHolds == Init => IInv
<1> SUFFICES ASSUME Init
             PROVE  IInv
  OBVIOUS
<1>1. TypeOK
  <2>1. probing \in BOOLEAN
    BY Zenon DEF Init
  <2>2. /\ failures \in 0..(Threshold - 1) /\ wait \in 0..Recovery
        /\ epoch \in Nat /\ faults \in 0..MaxFaults
    BY BreakerAssumption DEF Init
  <2>3. /\ state \in {"closed", "open", "half-open"}
        /\ running \in SUBSET Calls /\ probes \in SUBSET running
        /\ stale \in SUBSET running /\ began \in [Calls -> Nat]
    BY DEF Init
  <2> QED BY <2>1, <2>2, <2>3 DEF TypeOK
<1>2. OneProbe
  BY DEF Init, OneProbe
<1>3. Rounds
  BY Zenon DEF Init, Rounds
<1> QED BY <1>1, <1>2, <1>3 DEF IInv

\* Reading the state moves no call and, while a probe is in flight, nothing at all.
LEMMA LookKeeps ==
  ASSUME IInv, Look
  PROVE  IInv'
<1>1. /\ state = "open" /\ state' = "half-open" /\ epoch' = epoch + 1
      /\ stale' = running
      /\ UNCHANGED <<failures, wait, probing, running, probes, began, faults>>
  BY DEF Look, Observe, Current, Outdate, IInv, TypeOK
<1>2. probes = {}
  BY <1>1 DEF IInv, OneProbe
<1>3. TypeOK'
  BY <1>1 DEF IInv, TypeOK
<1>4. OneProbe'
  BY <1>1, <1>2 DEF OneProbe
<1>5. Rounds'
  BY <1>1, <1>2 DEF Rounds, IInv, TypeOK
<1> QED BY <1>3, <1>4, <1>5 DEF IInv

\* A call is admitted to a closed breaker, or as the probe when there is none.
LEMMA AdmitKeeps ==
  ASSUME IInv, NEW c \in Calls, Admit(c)
  PROVE  IInv'
<1> USE DEF IInv
<1>0. /\ c \notin running /\ running' = running \cup {c}
      /\ began' = [began EXCEPT ![c] = epoch']
      /\ UNCHANGED <<failures, wait, faults>>
  BY DEF Admit
<1>1. CASE Current = "closed"
  <2>1. /\ state = "closed" /\ state' = state /\ epoch' = epoch
        /\ probes' = probes /\ probing' = probing /\ stale' = stale
    BY <1>0, <1>1 DEF Admit, Observe, Current, Outdate, TypeOK
  <2>2. TypeOK'
    BY <1>0, <2>1 DEF TypeOK
  <2>3. OneProbe'
    BY <2>1 DEF OneProbe
  <2>4. probes = {}
    BY <2>1 DEF OneProbe
  <2>5. Rounds'
    BY <1>0, <2>1, <2>4 DEF Rounds, TypeOK
  <2> QED BY <2>2, <2>3, <2>5
<1>2. CASE Current = "half-open"
  <2>1. /\ probing = FALSE /\ state' = "half-open"
        /\ probes' = probes \cup {c} /\ probing' = TRUE
    BY <1>0, <1>2 DEF Admit, Observe, TypeOK
  <2>2. probes = {}
    BY <2>1 DEF Rounds
  <2>3. CASE state = "half-open"
    <3>1. epoch' = epoch /\ stale' = stale
      BY <1>0, <1>2, <2>1, <2>3 DEF Admit, Observe, Outdate, TypeOK
    <3>2. TypeOK'
      BY <1>0, <2>1, <3>1 DEF TypeOK
    <3>3. OneProbe' /\ Rounds'
      BY <1>0, <2>1, <2>2, <2>3, <3>1 DEF OneProbe, Rounds, TypeOK
    <3> QED BY <3>2, <3>3
  <2>4. CASE state # "half-open"
    <3>1. epoch' = epoch + 1 /\ stale' = running
      BY <1>0, <1>2, <2>1, <2>4 DEF Admit, Observe, Outdate, TypeOK
    <3>2. TypeOK'
      BY <1>0, <2>1, <3>1 DEF TypeOK
    <3>3. OneProbe' /\ Rounds'
      BY <1>0, <2>1, <2>2, <3>1 DEF OneProbe, Rounds, TypeOK
    <3> QED BY <3>2, <3>3
  <2> QED BY <2>3, <2>4
<1> QED BY <1>1, <1>2 DEF Admit

\* The outcome of a call of the past leaves the breaker as it is.
LEMMA StaleKeeps ==
  ASSUME IInv, NEW c \in running, Return(c),
         UNCHANGED <<state, epoch, failures, wait>>, faults' \in 0..MaxFaults
  PROVE  IInv'
<1>1. /\ running' = running \ {c} /\ probes' = probes \ {c}
      /\ probing' = (probing /\ c \notin probes)
      /\ stale' = stale \ {c} /\ began' = began
  BY DEF Return, Outdate, IInv, TypeOK
<1>2. TypeOK'
  BY <1>1 DEF IInv, TypeOK
<1>3. OneProbe'
  BY <1>1 DEF IInv, OneProbe
<1>4. Rounds'
  BY <1>1 DEF IInv, OneProbe, Rounds, TypeOK
<1> QED BY <1>2, <1>3, <1>4 DEF IInv

\* An outcome that changes the state ends a round: every other call belongs to it.
LEMMA TurnKeeps ==
  ASSUME IInv, NEW c \in running, Counts(c), Return(c),
         state' # state, state' \in {"closed", "open"}, epoch' = epoch + 1,
         failures' = 0, wait' \in 0..Recovery, faults' \in 0..MaxFaults
  PROVE  IInv'
<1>1. /\ running' = running \ {c} /\ probes' = probes \ {c}
      /\ probing' = (probing /\ c \notin probes)
      /\ stale' = running \ {c} /\ began' = began
  BY DEF Return, Outdate, IInv, TypeOK
<1>2. probes' = {}
  <2>1. ASSUME c \notin probes
        PROVE  state = "closed"
    BY <2>1 DEF Counts, IInv, Rounds, TypeOK
  <2> QED BY <1>1, <2>1 DEF IInv, OneProbe
<1>3. TypeOK'
  BY <1>1, BreakerAssumption DEF IInv, TypeOK
<1>4. OneProbe'
  BY <1>2 DEF OneProbe
<1>5. probing' = FALSE
  BY <1>1, <1>2 DEF IInv, Rounds, OneProbe, TypeOK
<1>6. Rounds'
  BY <1>1, <1>2, <1>5 DEF IInv, Rounds, TypeOK
<1> QED BY <1>3, <1>4, <1>6 DEF IInv

\* An outcome that counts in a closed breaker and does not open it.
LEMMA SameRoundKeeps ==
  ASSUME IInv, NEW c \in running, Return(c), state = "closed",
         UNCHANGED <<state, epoch>>, failures' \in 0..(Threshold - 1),
         wait' \in 0..Recovery, faults' \in 0..MaxFaults
  PROVE  IInv'
<1>1. /\ running' = running \ {c} /\ probes' = probes \ {c}
      /\ probing' = (probing /\ c \notin probes)
      /\ stale' = stale \ {c} /\ began' = began
  BY DEF Return, Outdate, IInv, TypeOK
<1>2. TypeOK'
  BY <1>1 DEF IInv, TypeOK
<1>3. OneProbe' /\ Rounds'
  BY <1>1 DEF IInv, OneProbe, Rounds, TypeOK
<1> QED BY <1>2, <1>3 DEF IInv

\* A fault spent stays within the bound, and an outcome comes from a running call.
LEMMA FaultTyped ==
  ASSUME IInv, Fault \/ UNCHANGED faults
  PROVE  faults' \in 0..MaxFaults
  BY BreakerAssumption DEF Fault, IInv, TypeOK

LEMMA SettleKeeps ==
  ASSUME IInv, NEW c \in Calls, Settle(c)
  PROVE  IInv'
<1>0. /\ c \in running /\ Return(c) /\ faults' \in 0..MaxFaults
  BY FaultTyped DEF Settle, Succeed, Fail, Abort
<1>1. CASE UNCHANGED <<state, epoch, failures, wait>>
  BY <1>0, <1>1, StaleKeeps
<1>2. CASE Succeed(c) /\ Counts(c)
  <2>1. /\ state' = "closed" /\ epoch' = IF state = "closed" THEN epoch ELSE epoch + 1
        /\ failures' = 0 /\ wait' = 0
    BY <1>2 DEF Succeed
  <2>2. 0 \in 0..(Threshold - 1) /\ 0 \in 0..Recovery
    BY BreakerAssumption
  <2>3. CASE state = "closed"
    BY <1>0, <2>1, <2>2, <2>3, SameRoundKeeps
  <2>4. CASE state # "closed"
    BY <1>0, <1>2, <2>1, <2>2, <2>4, TurnKeeps
  <2> QED BY <2>3, <2>4
<1>3. CASE Fail(c) /\ Counts(c) /\ Tripping
  <2>1. /\ state' = "open" /\ epoch' = epoch + 1 /\ failures' = 0 /\ wait' = Recovery
    BY <1>3 DEF Fail
  <2>2. state # "open"
    BY <1>0, <1>3 DEF Counts, IInv, OneProbe, Rounds, TypeOK
  <2>3. Recovery \in 0..Recovery
    BY BreakerAssumption
  <2> QED BY <1>0, <1>3, <2>1, <2>2, <2>3, TurnKeeps
<1>4. CASE Fail(c) /\ Counts(c) /\ ~Tripping
  <2>1. failures' = failures + 1 /\ UNCHANGED <<state, epoch, wait>>
    BY <1>4 DEF Fail
  <2>2. state = "closed"
    BY <1>0, <1>4 DEF Tripping, Counts, IInv, OneProbe, Rounds, TypeOK
  <2>3. failures' \in 0..(Threshold - 1) /\ wait' \in 0..Recovery
    BY <1>4, <2>1, BreakerAssumption DEF Tripping, IInv, TypeOK
  <2> QED BY <1>0, <2>1, <2>2, <2>3, SameRoundKeeps
<1> QED BY <1>1, <1>2, <1>3, <1>4 DEF Settle, Succeed, Fail, Abort

LEMMA StepKeeps ==
  ASSUME IInv, [Next]_vars
  PROVE  IInv'
<1>1. CASE Tick
  BY <1>1, BreakerAssumption DEF Tick, IInv, TypeOK, OneProbe, Rounds
<1>2. CASE UNCHANGED vars
  BY <1>2 DEF vars, breakerVars, IInv, TypeOK, OneProbe, Rounds
<1> QED BY <1>1, <1>2, LookKeeps, AdmitKeeps, SettleKeeps DEF Next

-----------------------------------------------------------------------------
\* The inductive invariant: one probe, and an epoch that tells the rounds apart.
THEOREM Invariant == Spec => []IInv
<1> QED BY InitHolds, StepKeeps, PTL DEF Spec

\* The state keeps its shape; the counter of consecutive failures stays below the
\* threshold.
THEOREM TypeCorrect == Spec => []TypeOK
<1>1. IInv => TypeOK
  BY DEF IInv
<1> QED BY <1>1, Invariant, PTL

\* At most one probe is in flight, and the breaker stays half-open meanwhile.
THEOREM ProbeIsAlone == Spec => []OneProbe
<1>1. IInv => OneProbe
  BY DEF IInv
<1> QED BY <1>1, Invariant, PTL

\* A call whose breaker has changed state since it was admitted changes nothing when
\* it ends.
THEOREM PastIsIgnored == Spec => StaleIsIgnored
<1>1. ASSUME IInv, [Next]_vars
      PROVE  [\A c \in stale : c \notin running' => UNCHANGED <<state, failures, wait, epoch>>]_vars
  <2> SUFFICES ASSUME NEW c \in stale, c \notin running'
               PROVE  UNCHANGED <<state, failures, wait, epoch>>
    OBVIOUS
  <2>1. c \in running /\ ~Counts(c)
    BY <1>1 DEF IInv, TypeOK, Rounds, Counts
  <2>2. ASSUME NEW d \in Calls, Settle(d)
        PROVE  d = c
    BY <2>1, <2>2 DEF Settle, Succeed, Fail, Abort, Return
  <2>3. ASSUME Settle(c)
        PROVE  UNCHANGED <<state, failures, wait, epoch>>
    BY <2>1, <2>3 DEF Settle, Succeed, Fail, Abort
  <2>4. CASE Tick \/ Look \/ UNCHANGED vars
    BY <2>1, <2>4 DEF Tick, Look, vars
  <2>5. ASSUME NEW d \in Calls, Admit(d)
        PROVE  FALSE
    BY <2>1, <2>5 DEF Admit
  <2> QED BY <1>1, <2>2, <2>3, <2>4, <2>5 DEF Next
<1> QED BY <1>1, Invariant, PTL DEF Spec, StaleIsIgnored

-----------------------------------------------------------------------------
\* The mobile outbox.

\* A caller has an entry in hand: the request is out, or its answer is being handled.
InHand == {"send"} \cup Answers

\* At most one push cycle runs; the rows of what is left of its snapshot are still
\* pending, each there once, and the row in hand is the one marked "syncing".
OneCycle ==
  /\ \A c, d \in Callers : at[c] # "idle" /\ at[d] # "idle" => c = d
  /\ \A c \in Callers :
       /\ at[c] = "idle" => todo[c] = {}
       /\ \A e \in todo[c] : status[e.id] = "pending"
       /\ \A d, e \in todo[c] : d.id = e.id => d = e
       /\ at[c] \in InHand => hand[c] \in Entries /\ status[hand[c].id] = "syncing"

\* A row that may be sent again, or is being sent, was applied no more often than answers
\* were lost; the one application to spare is that of a row answered with "ok".
NotAgain ==
  \A w \in Writes :
    /\ applied[w] <= 1 + lost[w]
    /\ status[w] \in {"none", "pending", "dead"} => applied[w] <= lost[w]
    /\ \A c \in Callers : at[c] \in InHand \ {"ok"} /\ hand[c].id = w => applied[w] <= lost[w]

\* A row shown as synced, or answered with "ok", has been applied.
SyncedIsApplied ==
  \A w \in Writes :
    /\ status[w] \in {"synced", "purged"} => applied[w] # 0
    /\ \A c \in Callers : at[c] = "ok" /\ hand[c].id = w => applied[w] # 0

\* Every retry and every lost answer counted was a mishap; that of an answer still being
\* handled is not among the retries yet.
Counted ==
  \A w \in Writes :
    /\ retries[w] <= mishaps /\ lost[w] <= mishaps
    /\ \A c \in Callers : at[c] \in {"refused", "failed"} /\ hand[c].id = w => retries[w] < mishaps

\* _pushing is up exactly while a cycle runs.
FlagIsUp == pushing <=> \E c \in Callers : at[c] # "idle"

\* The rest of MobileSync's type invariant.
RowsAndCycles ==
  /\ older \in SUBSET (Writes \X Writes)
  /\ status \in [Writes -> {"none", "pending", "syncing", "synced", "dead", "purged"}]
  /\ retries \in [Writes -> 0..MaxMishaps]
  /\ todo \in [Callers -> SUBSET Entries]
  /\ hand \in [Callers -> Entries \cup {NoEntry}]
  /\ at \in [Callers -> {"idle", "next", "send"} \cup Answers]
  /\ applied \in [Writes -> Nat]
  /\ lost \in [Writes -> 0..MaxMishaps]
  /\ stranded \in SUBSET Writes
  /\ mishaps \in 0..MaxMishaps

\* The inductive invariant of MobileSync.
MobileInv ==
  /\ RowsAndCycles /\ pushing \in BOOLEAN /\ FlagIsUp
  /\ OneCycle /\ NotAgain /\ SyncedIsApplied /\ Counted

\* A new outbox: no rows, no cycle.
LEMMA FreshApp == MobileInit => MobileInv
<1> SUFFICES ASSUME MobileInit
             PROVE  MobileInv
  OBVIOUS
<1>1. /\ older = {} /\ status = [w \in Writes |-> "none"]
      /\ retries = [w \in Writes |-> 0] /\ lost = [w \in Writes |-> 0]
      /\ applied = [w \in Writes |-> 0] /\ stranded = {} /\ mishaps = 0
      /\ todo = [c \in Callers |-> {}] /\ hand = [c \in Callers |-> NoEntry]
      /\ at = [c \in Callers |-> "idle"]
  BY Zenon DEF MobileInit
<1>2. RowsAndCycles
  BY <1>1, MobileAssumption DEF RowsAndCycles
<1>3. pushing \in BOOLEAN
  BY Zenon DEF MobileInit
<1>4. FlagIsUp
  BY Zenon DEF MobileInit, FlagIsUp
<1>5. OneCycle
  BY <1>1 DEF OneCycle, InHand, Answers
<1>6. NotAgain
  <2>1. \A w \in Writes : applied[w] = 0 /\ lost[w] = 0
    BY <1>1
  <2>2. 0 <= 1 + 0 /\ 0 <= 0
    OBVIOUS
  <2>3. \A w \in Writes : applied[w] <= 1 + lost[w] /\ applied[w] <= lost[w]
    BY Zenon, <2>1, <2>2
  <2> QED BY Zenon, <2>3 DEF NotAgain
<1>7. Counted
  <2>1. \A w \in Writes : retries[w] = 0 /\ lost[w] = 0
    BY <1>1
  <2>2. \A c \in Callers : at[c] = "idle"
    BY <1>1
  <2>3. 0 <= 0
    OBVIOUS
  <2>4. \A w \in Writes : retries[w] <= mishaps /\ lost[w] <= mishaps
    BY Zenon, <1>1, <2>1, <2>3
  <2>5. \A c \in Callers : at[c] \notin {"refused", "failed"}
    BY <2>2
  <2> QED BY Zenon, <2>4, <2>5 DEF Counted
<1>8. SyncedIsApplied
  BY <1>1 DEF SyncedIsApplied
<1> QED BY <1>2, <1>3, <1>4, <1>5, <1>6, <1>7, <1>8 DEF MobileInv

\* enqueue, retryDead and purge touch no row of the cycle: it has none in these states.
LEMMA StoreKeeps ==
  ASSUME MobileInv, NEW w \in Writes, Enqueue(w) \/ RetryDead(w) \/ Purge(w)
  PROVE  MobileInv'
<1> USE DEF Set
<1>1. UNCHANGED <<pushing, todo, hand, at>>
  BY DEF Enqueue, RetryDead, Purge, appVars
<1>2. /\ status[w] \in {"none", "dead", "synced"}
      /\ \/ status[w] \in {"none", "dead"} /\ status' = [status EXCEPT ![w] = "pending"]
         \/ status[w] = "synced" /\ status' = [status EXCEPT ![w] = "purged"]
      /\ UNCHANGED <<retries, applied, lost, stranded>>
      /\ mishaps' \in {mishaps, mishaps + 1} /\ mishaps' \in 0..MaxMishaps
  BY MobileAssumption DEF Enqueue, RetryDead, Purge, Mishap,
     MobileInv, RowsAndCycles
<1>3. older' \in SUBSET (Writes \X Writes)
  BY DEF Enqueue, RetryDead, Purge, MobileInv, RowsAndCycles
<1>4. RowsAndCycles'
  BY <1>1, <1>2, <1>3 DEF MobileInv, RowsAndCycles
<1>5. pushing' \in BOOLEAN
  BY Zenon, <1>1 DEF MobileInv
<1>6. FlagIsUp'
  BY Zenon, <1>1 DEF MobileInv, FlagIsUp
<1>7. OneCycle'
  BY <1>1, <1>2 DEF MobileInv, RowsAndCycles, OneCycle, Entries
<1>8. NotAgain'
  BY <1>1, <1>2 DEF MobileInv, RowsAndCycles, NotAgain
<1>9. Counted'
  BY <1>1, <1>2 DEF MobileInv, RowsAndCycles, Counted
<1>10. SyncedIsApplied'
  BY <1>1, <1>2 DEF MobileInv, RowsAndCycles, SyncedIsApplied
<1> QED BY <1>4, <1>5, <1>6, <1>7, <1>8, <1>9, <1>10 DEF MobileInv

\* With the flag down no cycle runs, so the new one is alone with its snapshot.
LEMMA PushKeeps ==
  ASSUME MobileInv, NEW c \in Callers, Push(c)
  PROVE  MobileInv'
<1>1. /\ at[c] = "idle" /\ todo' = [todo EXCEPT ![c] = Snapshot]
      /\ at' = [at EXCEPT ![c] = "next"]
      /\ UNCHANGED <<older, status, retries, hand, applied, lost, stranded, mishaps>>
  BY DEF Push, dbVars
<1>2. pushing' = TRUE /\ ~pushing
  BY Zenon DEF Push
<1>3. \A d \in Callers : at[d] = "idle"
  BY Zenon, <1>2 DEF MobileInv, FlagIsUp
<1>4. /\ Snapshot \in SUBSET Entries
      /\ \A e \in Snapshot : status[e.id] = "pending"
      /\ \A d, e \in Snapshot : d.id = e.id => d = e
  BY DEF Snapshot, Entries, MobileInv, RowsAndCycles
<1>5. at'[c] = "next" /\ \A d \in Callers : d # c => at'[d] = "idle" /\ todo'[d] = {}
  BY <1>1, <1>3 DEF MobileInv, RowsAndCycles, OneCycle
<1>6. todo'[c] = Snapshot
  BY <1>1 DEF MobileInv, RowsAndCycles
<1>7. RowsAndCycles'
  BY <1>1, <1>4 DEF MobileInv, RowsAndCycles
<1>8. pushing' \in BOOLEAN
  BY Zenon, <1>2
<1>9. FlagIsUp'
  <2>1. at'[c] # "idle"
    BY <1>5
  <2> QED BY Zenon, <2>1, <1>2 DEF FlagIsUp
<1>10. OneCycle'
  BY <1>1, <1>4, <1>5, <1>6 DEF OneCycle, InHand, Answers
<1>11. NotAgain'
  BY <1>1, <1>5 DEF MobileInv, NotAgain, InHand, Answers
<1>12. Counted'
  BY <1>1, <1>5 DEF MobileInv, Counted
<1>13. SyncedIsApplied'
  BY <1>1, <1>5 DEF MobileInv, SyncedIsApplied
<1> QED BY <1>7, <1>8, <1>9, <1>10, <1>11, <1>12, <1>13 DEF MobileInv

\* While c's cycle runs, nobody else has one.
LEMMA NobodyElse ==
  ASSUME MobileInv, NEW c \in Callers, at[c] # "idle"
  PROVE  \A d \in Callers : d # c => at[d] = "idle" /\ todo[d] = {}
BY DEF MobileInv, OneCycle

\* The entry taken leaves the snapshot as its row leaves "pending".
LEMMA TakeKeeps ==
  ASSUME MobileInv, NEW c \in Callers, Take(c)
  PROVE  MobileInv'
<1>1. PICK e \in todo[c] :
        /\ todo' = [todo EXCEPT ![c] = @ \ {e}]
        /\ Set(e.id, "syncing")
        /\ hand' = [hand EXCEPT ![c] = e]
        /\ at'   = [at EXCEPT ![c] = IF e.id \in NoRoute THEN "invalid" ELSE "send"]
  BY DEF Take
<1>2. /\ at[c] = "next" /\ UNCHANGED <<older, retries, applied, lost, stranded, mishaps>>
  BY DEF Take
<1>3. UNCHANGED pushing
  BY Zenon DEF Take
<1>4. e \in Entries /\ e.id \in Writes /\ status[e.id] = "pending"
  BY <1>1 DEF MobileInv, RowsAndCycles, OneCycle, Entries
<1>5. \A d \in Callers : d # c => at[d] = "idle" /\ todo[d] = {}
  BY <1>2, NobodyElse
<1>6. at'[c] \in {"invalid", "send"} /\ \A d \in Callers : d # c => at'[d] = "idle" /\ todo'[d] = {}
  BY <1>1, <1>2, <1>5 DEF MobileInv, RowsAndCycles
<1>7. todo'[c] = todo[c] \ {e}
  BY <1>1 DEF MobileInv, RowsAndCycles
<1>8. hand'[c] = e
  BY <1>1 DEF MobileInv, RowsAndCycles
<1>9. status' = [status EXCEPT ![e.id] = "syncing"]
  BY <1>1 DEF Set
<1>10. RowsAndCycles'
  <2>1. hand' \in [Callers -> Entries \cup {NoEntry}]
    BY <1>1, <1>4 DEF MobileInv, RowsAndCycles
  <2>2. at' \in [Callers -> {"idle", "next", "send"} \cup Answers]
    BY <1>1 DEF MobileInv, RowsAndCycles, Answers
  <2>3. todo' \in [Callers -> SUBSET Entries]
    BY <1>1 DEF MobileInv, RowsAndCycles
  <2>4. status' \in [Writes -> {"none", "pending", "syncing", "synced", "dead", "purged"}]
    BY <1>9 DEF MobileInv, RowsAndCycles
  <2> QED BY <1>2, <2>1, <2>2, <2>3, <2>4 DEF MobileInv, RowsAndCycles
<1>11. pushing' \in BOOLEAN
  BY Zenon, <1>3 DEF MobileInv
<1>12. FlagIsUp'
  <2>1. at[c] # "idle" /\ at'[c] # "idle"
    BY <1>2, <1>6
  <2> QED BY Zenon, <2>1, <1>3 DEF MobileInv, FlagIsUp
<1>13. OneCycle'
  <2>1. \A d \in todo[c] \ {e} : d.id \in Writes /\ d.id # e.id
    BY <1>1 DEF MobileInv, RowsAndCycles, OneCycle, Entries
  <2>2. \A d \in todo'[c] : status'[d.id] = "pending"
    BY <2>1, <1>7, <1>9 DEF MobileInv, RowsAndCycles, OneCycle
  <2>3. \A d, f \in todo'[c] : d.id = f.id => d = f
    BY <1>7 DEF MobileInv, OneCycle
  <2>4. hand'[c] \in Entries /\ status'[hand'[c].id] = "syncing"
    BY <1>4, <1>8, <1>9 DEF MobileInv, RowsAndCycles
  <2> QED BY <1>6, <2>2, <2>3, <2>4 DEF OneCycle, InHand, Answers
<1>14. NotAgain'
  <2>1. applied[e.id] <= lost[e.id]
    BY <1>4 DEF MobileInv, NotAgain
  <2>2. hand'[c].id = e.id
    BY <1>8
  <2>3. \A w \in Writes : status'[w] \in {"none", "pending", "dead"} => applied[w] <= lost[w]
    BY <1>4, <1>9, <2>1 DEF MobileInv, RowsAndCycles, NotAgain
  <2>4. \A d \in Callers : at'[d] \in InHand => d = c
    BY <1>6 DEF InHand, Answers
  <2> QED BY <1>2, <2>1, <2>2, <2>3, <2>4 DEF MobileInv, NotAgain
<1>15. Counted'
  BY <1>2, <1>6 DEF MobileInv, Counted
<1>16. SyncedIsApplied'
  <2>1. \A d \in Callers : at'[d] # "ok"
    BY <1>6
  <2> QED BY <1>2, <1>4, <1>9, <2>1 DEF MobileInv, RowsAndCycles, SyncedIsApplied
<1> QED BY <1>10, <1>11, <1>12, <1>13, <1>14, <1>15, <1>16 DEF MobileInv

\* An application without its answer comes with a lost answer to pay for it.
LEMMA SendKeeps ==
  ASSUME MobileInv, NEW c \in Callers, Send(c)
  PROVE  MobileInv'
<1> DEFINE w == hand[c].id
<1>1. PICK answer \in Answers, done \in BOOLEAN :
        /\ answer = "ok" => done
        /\ answer \in {"refused", "invalid"} => ~done
        /\ IF answer = "ok" THEN UNCHANGED mishaps ELSE Mishap
        /\ at'      = [at EXCEPT ![c] = answer]
        /\ applied' = [applied EXCEPT ![w] = IF done THEN @ + 1 ELSE @]
        /\ lost'    = [lost EXCEPT ![w] = IF done /\ answer = "failed" THEN @ + 1 ELSE @]
  BY Zenon DEF Send
<1>2. at[c] = "send" /\ UNCHANGED <<older, status, retries, todo, hand, stranded>>
  BY DEF Send, dbVars
<1>3. UNCHANGED pushing
  BY Zenon DEF Send
<1>4. hand[c] \in Entries /\ w \in Writes /\ status[w] = "syncing"
  BY <1>2 DEF MobileInv, OneCycle, InHand, Entries
<1>5. /\ \A d \in Callers : d # c => at'[d] = "idle" /\ todo'[d] = {}
      /\ at'[c] = answer /\ answer \notin {"idle", "next"} /\ answer \in InHand
  BY <1>1, <1>2, NobodyElse DEF MobileInv, RowsAndCycles, InHand, Answers
<1>6. applied[w] <= lost[w] /\ lost[w] <= mishaps /\ retries[w] <= mishaps
  BY <1>2, <1>4 DEF MobileInv, NotAgain, Counted, InHand
<1>7. /\ mishaps' \in 0..MaxMishaps
      /\ answer = "ok" => mishaps' = mishaps
      /\ answer # "ok" => mishaps' = mishaps + 1
  BY <1>1, MobileAssumption DEF Mishap, MobileInv, RowsAndCycles
<1>8. /\ answer = "ok" => applied'[w] = applied[w] + 1 /\ lost'[w] = lost[w]
      /\ answer # "ok" => applied'[w] <= lost'[w]
      /\ lost'[w] <= mishaps' /\ lost'[w] \in Nat /\ applied'[w] \in Nat
  <2>1. applied[w] \in Nat /\ lost[w] \in Nat /\ mishaps \in Nat
    BY <1>4, MobileAssumption DEF MobileInv, RowsAndCycles
  <2>2. /\ applied'[w] = IF done THEN applied[w] + 1 ELSE applied[w]
        /\ lost'[w] = IF done /\ answer = "failed" THEN lost[w] + 1 ELSE lost[w]
    BY <1>1, <1>4 DEF MobileInv, RowsAndCycles
  <2>3. answer # "ok" => answer = "failed" \/ ~done
    BY <1>1 DEF Answers
  <2>4. CASE answer = "ok"
    BY <2>1, <2>2, <2>4, <1>1, <1>6, <1>7
  <2>5. CASE answer = "failed" /\ done
    BY <2>1, <2>2, <2>5, <1>6, <1>7
  <2>6. CASE answer # "ok" /\ ~done
    BY <2>1, <2>2, <2>6, <1>6, <1>7
  <2> QED BY <2>3, <2>4, <2>5, <2>6
<1>9. \A x \in Writes : x # w => applied'[x] = applied[x] /\ lost'[x] = lost[x]
  BY <1>1, <1>4 DEF MobileInv, RowsAndCycles
<1>10. RowsAndCycles'
  <2>1. at' \in [Callers -> {"idle", "next", "send"} \cup Answers]
    BY <1>1 DEF MobileInv, RowsAndCycles
  <2>2. applied' \in [Writes -> Nat]
    BY <1>1, <1>4, <1>8, <1>9 DEF MobileInv, RowsAndCycles
  <2>3. lost' \in [Writes -> 0..MaxMishaps]
    BY <1>1, <1>4, <1>7, <1>8, <1>9, MobileAssumption DEF MobileInv, RowsAndCycles
  <2> QED BY <1>2, <1>7, <2>1, <2>2, <2>3 DEF MobileInv, RowsAndCycles
<1>11. pushing' \in BOOLEAN
  BY Zenon, <1>3 DEF MobileInv
<1>12. FlagIsUp'
  <2>1. at[c] # "idle" /\ at'[c] # "idle"
    BY <1>2, <1>5
  <2> QED BY Zenon, <2>1, <1>3 DEF MobileInv, FlagIsUp
<1>13. OneCycle'
  BY <1>2, <1>4, <1>5 DEF MobileInv, OneCycle
<1>14. NotAgain'
  <2> SUFFICES ASSUME NEW x \in Writes
               PROVE  /\ applied'[x] <= 1 + lost'[x]
                      /\ status'[x] \in {"none", "pending", "dead"} => applied'[x] <= lost'[x]
                      /\ \A d \in Callers : at'[d] \in InHand \ {"ok"} /\ hand'[d].id = x
                                              => applied'[x] <= lost'[x]
    BY DEF NotAgain
  <2>1. CASE x = w
    BY <2>1, <1>2, <1>4, <1>5, <1>6, <1>8 DEF InHand, Answers, MobileInv,
       RowsAndCycles
  <2>2. CASE x # w
    BY <2>2, <1>2, <1>5, <1>9 DEF MobileInv, NotAgain, InHand, Answers
  <2> QED BY <2>1, <2>2
<1>15. Counted'
  <2> SUFFICES ASSUME NEW x \in Writes
               PROVE  /\ retries'[x] <= mishaps' /\ lost'[x] <= mishaps'
                      /\ \A d \in Callers : at'[d] \in {"refused", "failed"} /\ hand'[d].id = x
                                              => retries'[x] < mishaps'
    BY DEF Counted
  <2>1. retries[x] \in Nat /\ lost[x] \in Nat /\ retries[x] <= mishaps /\ lost[x] <= mishaps
    BY DEF MobileInv, RowsAndCycles, Counted
  <2>2. CASE x = w
    BY <2>1, <2>2, <1>2, <1>5, <1>7, <1>8 DEF MobileInv, RowsAndCycles
  <2>3. CASE x # w
    BY <2>1, <2>3, <1>2, <1>5, <1>7, <1>9 DEF MobileInv, RowsAndCycles
  <2> QED BY <2>2, <2>3
<1>16. SyncedIsApplied'
  <2>1. applied'[w] # applied[w] \/ answer = "ok" => applied'[w] # 0
    <3>1. applied'[w] = IF done THEN applied[w] + 1 ELSE applied[w]
      BY <1>1, <1>4 DEF MobileInv, RowsAndCycles
    <3>2. applied[w] \in Nat
      BY <1>4 DEF MobileInv, RowsAndCycles
    <3> QED BY <1>1, <3>1, <3>2
  <2>2. \A d \in Callers : at'[d] = "ok" => d = c /\ answer = "ok"
    BY <1>5
  <2> QED BY <1>2, <1>4, <1>9, <2>1, <2>2 DEF MobileInv, SyncedIsApplied
<1> QED BY <1>10, <1>11, <1>12, <1>13, <1>14, <1>15, <1>16 DEF MobileInv

\* What an answer does to the row in hand, and to nothing else.
LEMMA HandledBy ==
  ASSUME MobileInv, NEW c \in Callers, Handle(c) \/ RefreshThrows(c)
  PROVE  /\ at[c] \in Answers /\ hand[c].id \in Writes
         /\ \/ /\ at[c] = "ok" /\ status' = [status EXCEPT ![hand[c].id] = "synced"]
               /\ UNCHANGED retries
            \/ /\ at[c] # "ok" /\ status' = [status EXCEPT ![hand[c].id] = "dead"]
               /\ UNCHANGED retries
            \/ /\ at[c] \in {"refused", "failed"}
               /\ status' = [status EXCEPT ![hand[c].id] = "pending"]
               /\ retries' = [retries EXCEPT ![hand[c].id] = @ + 1]
         /\ UNCHANGED <<older, applied, lost, stranded>>
         /\ mishaps' \in 0..MaxMishaps /\ mishaps <= mishaps'
         /\ hand' = [hand EXCEPT ![c] = NoEntry]
<1>1. at[c] \in Answers
  BY DEF Handle, Synced, Refused, Invalid, Failed,
     RefreshThrows, Answers
<1>2. hand[c].id \in Writes
  BY <1>1 DEF MobileInv, OneCycle, InHand, Entries
<1>3. hand' = [hand EXCEPT ![c] = NoEntry] /\ UNCHANGED <<older, applied, lost, stranded>>
  BY Zenon DEF Handle, Synced, Refused, Invalid,
     Failed, RefreshThrows, Turn, EndCycle
<1>4. mishaps' \in 0..MaxMishaps /\ mishaps <= mishaps'
  <2>1. mishaps' = mishaps \/ Mishap
    BY DEF Handle, Synced, Refused, Invalid, Failed,
       RefreshThrows, Turn
  <2> QED BY <2>1, MobileAssumption DEF Mishap, MobileInv, RowsAndCycles
<1>5. CASE Synced(c)
  BY <1>1, <1>2, <1>3, <1>4, <1>5 DEF Synced, Set
<1>6. CASE Invalid(c)
  BY <1>1, <1>2, <1>3, <1>4, <1>6 DEF Invalid, Set
<1>7. CASE Refused(c) \/ RefreshThrows(c)
  BY <1>1, <1>2, <1>3, <1>4, <1>7 DEF Refused, RefreshThrows,
     IncrementRetry, Set
<1>8. CASE Failed(c)
  BY <1>1, <1>2, <1>3, <1>4, <1>8 DEF Failed, IncrementRetry, Set
<1> QED BY <1>5, <1>6, <1>7, <1>8 DEF Handle

\* Only a row answered with "ok" has used its one application, and it is synced.
LEMMA AnswerKeeps ==
  ASSUME MobileInv, NEW c \in Callers, Handle(c) \/ RefreshThrows(c)
  PROVE  MobileInv'
<1> DEFINE w == hand[c].id
<1>1. at[c] \in Answers /\ w \in Writes /\ status[w] = "syncing" /\ at[c] # "idle"
  BY HandledBy DEF MobileInv, OneCycle, InHand, Answers
<1>2. /\ UNCHANGED <<older, applied, lost, stranded>>
      /\ mishaps' \in 0..MaxMishaps /\ mishaps <= mishaps'
      /\ hand' = [hand EXCEPT ![c] = NoEntry]
  BY HandledBy
<1>3. /\ status' \in [Writes -> {"none", "pending", "syncing", "synced", "dead", "purged"}]
      /\ \A x \in Writes : x # w => status'[x] = status[x]
      /\ status'[w] \in {"pending", "synced", "dead"}
      /\ status'[w] = "synced" <=> at[c] = "ok"
  BY <1>1, HandledBy DEF MobileInv, RowsAndCycles
<1>4. /\ \A x \in Writes : x # w => retries'[x] = retries[x]
      /\ retries'[w] \in Nat /\ retries'[w] <= mishaps
  <2>1. retries[w] \in Nat /\ retries[w] <= mishaps
    BY <1>1 DEF MobileInv, RowsAndCycles, Counted
  <2>2. CASE UNCHANGED retries
    BY <2>1, <2>2
  <2>3. CASE at[c] \in {"refused", "failed"} /\ retries' = [retries EXCEPT ![w] = @ + 1]
    <3>1. retries[w] < mishaps
      BY <1>1, <2>3 DEF MobileInv, Counted
    <3>2. retries'[w] = retries[w] + 1 /\ \A x \in Writes : x # w => retries'[x] = retries[x]
      BY <1>1, <2>3 DEF MobileInv, RowsAndCycles
    <3>3. mishaps \in Nat
      BY MobileAssumption DEF MobileInv, RowsAndCycles
    <3> QED BY <2>1, <3>1, <3>2, <3>3
  <2> QED BY <2>2, <2>3, HandledBy
<1>5. retries' \in [Writes -> 0..MaxMishaps]
  <2>1. retries' = retries \/ retries' = [retries EXCEPT ![w] = @ + 1]
    BY HandledBy
  <2>2. retries'[w] \in 0..MaxMishaps
    BY <1>4, MobileAssumption DEF MobileInv, RowsAndCycles
  <2> QED BY <2>1, <2>2, <1>1 DEF MobileInv, RowsAndCycles
<1>6. \/ /\ at' = [at EXCEPT ![c] = "next"]
         /\ UNCHANGED todo
      \/ /\ at' = [at EXCEPT ![c] = "idle"]
         /\ todo' = [todo EXCEPT ![c] = {}]
  BY DEF Handle, Synced, Refused, Invalid, Failed,
     RefreshThrows, Turn, EndCycle
<1>7. /\ \A d \in Callers : d # c => at'[d] = "idle" /\ todo'[d] = {}
      /\ at'[c] \in {"next", "idle"}
      /\ at'[c] = "idle" => todo'[c] = {}
      /\ todo'[c] \in SUBSET todo[c]
  BY <1>1, <1>6, NobodyElse DEF MobileInv, RowsAndCycles
<1>8. RowsAndCycles'
  <2>1. at' \in [Callers -> {"idle", "next", "send"} \cup Answers]
    BY <1>6 DEF MobileInv, RowsAndCycles
  <2>2. todo' \in [Callers -> SUBSET Entries]
    BY <1>6 DEF MobileInv, RowsAndCycles
  <2>3. hand' \in [Callers -> Entries \cup {NoEntry}]
    BY <1>2 DEF MobileInv, RowsAndCycles
  <2> QED BY <1>2, <1>3, <1>5, <2>1, <2>2, <2>3 DEF MobileInv, RowsAndCycles
<1>9. pushing' \in BOOLEAN /\ FlagIsUp'
  <2>1. \/ at'[c] = "next" /\ UNCHANGED pushing
        \/ at'[c] = "idle" /\ pushing' = FALSE
    <3>1. CASE Turn(c)
      BY <3>1 DEF Turn, MobileInv, RowsAndCycles
    <3>2. CASE EndCycle(c)
      <4>1. pushing' = FALSE
        BY Zenon, <3>2 DEF EndCycle
      <4>2. at'[c] = "idle"
        BY <3>2 DEF EndCycle, MobileInv, RowsAndCycles
      <4> QED BY Zenon, <4>1, <4>2
    <3>3. Turn(c) \/ EndCycle(c)
      BY Zenon DEF Handle, Synced, Refused, Invalid,
         Failed, RefreshThrows
    <3> QED BY Zenon, <3>1, <3>2, <3>3
  <2>2. "next" # "idle"
    OBVIOUS
  <2>3. CASE at'[c] = "next" /\ UNCHANGED pushing
    BY Zenon, <1>1, <2>2, <2>3 DEF MobileInv, FlagIsUp
  <2>4. CASE at'[c] = "idle" /\ pushing' = FALSE
    BY Zenon, <2>4, <1>7 DEF FlagIsUp
  <2> QED BY Zenon, <2>1, <2>3, <2>4
<1>10. OneCycle'
  <2>1. \A e \in todo[c] : e.id \in Writes /\ e.id # w /\ status[e.id] = "pending"
    BY <1>1 DEF MobileInv, RowsAndCycles, OneCycle, Entries
  <2>2. \A e \in todo'[c] : status'[e.id] = "pending"
    BY <2>1, <1>3, <1>7
  <2>3. \A d, e \in todo'[c] : d.id = e.id => d = e
    BY <1>7 DEF MobileInv, OneCycle
  <2> QED BY <1>7, <2>2, <2>3 DEF OneCycle, InHand, Answers
<1>11. NotAgain'
  <2>1. at[c] # "ok" => applied[w] <= lost[w]
    BY <1>1 DEF MobileInv, NotAgain, InHand
  <2>2. \A x \in Writes : status'[x] \in {"none", "pending", "dead"} => applied[x] <= lost[x]
    BY <1>1, <1>3, <2>1 DEF MobileInv, NotAgain
  <2>3. \A d \in Callers : at'[d] \notin InHand
    BY <1>7 DEF InHand, Answers
  <2> QED BY <1>2, <2>2, <2>3 DEF MobileInv, NotAgain
<1>12. Counted'
  <2> SUFFICES ASSUME NEW x \in Writes
               PROVE  /\ retries'[x] <= mishaps' /\ lost'[x] <= mishaps'
                      /\ \A d \in Callers : at'[d] \in {"refused", "failed"} /\ hand'[d].id = x
                                              => retries'[x] < mishaps'
    BY DEF Counted
  <2>1. \A d \in Callers : at'[d] \notin {"refused", "failed"}
    BY <1>7
  <2>2. retries[x] \in Nat /\ lost[x] \in Nat /\ retries[x] <= mishaps /\ lost[x] <= mishaps
        /\ mishaps \in Nat /\ mishaps' \in Nat
    BY <1>2, MobileAssumption DEF MobileInv, RowsAndCycles, Counted
  <2>3. retries'[x] \in Nat /\ retries'[x] <= mishaps
    BY <1>4, <2>2
  <2> QED BY <1>2, <2>1, <2>2, <2>3
<1>13. SyncedIsApplied'
  <2>1. at[c] = "ok" => applied[w] # 0
    BY <1>1 DEF MobileInv, SyncedIsApplied
  <2>2. \A d \in Callers : at'[d] # "ok"
    BY <1>7
  <2> QED BY <1>1, <1>2, <1>3, <2>1, <2>2 DEF MobileInv, SyncedIsApplied
<1> QED BY <1>8, <1>9, <1>10, <1>11, <1>12, <1>13 DEF MobileInv

\* A cycle that ends with a row in hand leaves it "syncing": no cycle takes it again.
LEMMA EndKeeps ==
  ASSUME MobileInv, AppDies \/ \E c \in Callers : Done(c) \/ NoToken(c)
  PROVE  MobileInv'
<1>1. /\ UNCHANGED <<older, status, retries, applied, lost>>
      /\ mishaps' \in 0..MaxMishaps /\ mishaps <= mishaps'
  <2>1. UNCHANGED <<older, status, retries, applied, lost>>
    BY DEF AppDies, Done, NoToken, dbVars
  <2>2. Mishap \/ UNCHANGED mishaps
    BY DEF AppDies, Done, NoToken
  <2> QED BY <2>1, <2>2, MobileAssumption DEF Mishap, MobileInv, RowsAndCycles
<1>2. stranded' \in SUBSET Writes
  <2>1. \A C \in SUBSET Callers : Strand(C) => stranded' \in SUBSET Writes
    <3> SUFFICES ASSUME NEW C \in SUBSET Callers, Strand(C)
                 PROVE  stranded' \in SUBSET Writes
      OBVIOUS
    <3>1. \A d \in C : at[d] \notin {"idle", "next"} => hand[d].id \in Writes
      BY DEF MobileInv, RowsAndCycles, OneCycle, InHand, Answers, Entries
    <3> QED BY <3>1 DEF Strand, MobileInv, RowsAndCycles
  <2>2. CASE AppDies
    BY <2>1, <2>2 DEF AppDies
  <2>3. ASSUME NEW c \in Callers, NoToken(c)
        PROVE  stranded' \in SUBSET Writes
    BY <2>1, <2>3 DEF NoToken
  <2>4. ASSUME NEW c \in Callers, Done(c)
        PROVE  stranded' \in SUBSET Writes
    BY <2>4 DEF Done, MobileInv, RowsAndCycles
  <2> QED BY <2>2, <2>3, <2>4
<1>3. /\ at' \in [Callers -> {"idle", "next", "send"} \cup Answers]
      /\ todo' \in [Callers -> SUBSET Entries]
      /\ hand' \in [Callers -> Entries \cup {NoEntry}]
      /\ \A c \in Callers : at'[c] = "idle" /\ todo'[c] = {}
  <2>1. CASE AppDies
    <3>1. /\ at' = [c \in Callers |-> "idle"] /\ todo' = [c \in Callers |-> {}]
          /\ hand' = [c \in Callers |-> NoEntry]
      BY <2>1, Zenon DEF AppDies
    <3> QED BY <3>1
  <2>2. ASSUME NEW c \in Callers, EndCycle(c), at[c] # "idle"
        PROVE  /\ at' \in [Callers -> {"idle", "next", "send"} \cup Answers]
               /\ todo' \in [Callers -> SUBSET Entries]
               /\ hand' \in [Callers -> Entries \cup {NoEntry}]
               /\ \A d \in Callers : at'[d] = "idle" /\ todo'[d] = {}
    <3>1. /\ at' = [at EXCEPT ![c] = "idle"] /\ todo' = [todo EXCEPT ![c] = {}]
          /\ hand' = [hand EXCEPT ![c] = NoEntry]
      BY <2>2, Zenon DEF EndCycle
    <3> QED BY <3>1, <2>2, NobodyElse DEF MobileInv, RowsAndCycles
  <2>3. \A c \in Callers :
          Done(c) \/ NoToken(c) => EndCycle(c) /\ at[c] # "idle"
    <3> SUFFICES ASSUME NEW c \in Callers, Done(c) \/ NoToken(c)
                 PROVE  EndCycle(c) /\ at[c] # "idle"
      OBVIOUS
    <3>1. EndCycle(c)
      BY Zenon DEF Done, NoToken
    <3>2. at[c] # "idle"
      BY DEF Done, NoToken
    <3> QED BY Zenon, <3>1, <3>2
  <2> QED BY <2>1, <2>2, <2>3, Zenon
<1>4. pushing' = FALSE
  BY Zenon DEF AppDies, Done, NoToken, EndCycle
<1>5. pushing' \in BOOLEAN /\ FlagIsUp'
  BY Zenon, <1>3, <1>4 DEF FlagIsUp
<1>6. RowsAndCycles'
  BY <1>1, <1>2, <1>3 DEF MobileInv, RowsAndCycles
<1>7. OneCycle'
  BY <1>3 DEF OneCycle, InHand, Answers
<1>8. NotAgain'
  BY <1>1, <1>3 DEF MobileInv, NotAgain, InHand, Answers
<1>9. Counted'
  <2> SUFFICES ASSUME NEW x \in Writes
               PROVE  /\ retries'[x] <= mishaps' /\ lost'[x] <= mishaps'
                      /\ \A d \in Callers : at'[d] \in {"refused", "failed"} /\ hand'[d].id = x
                                              => retries'[x] < mishaps'
    BY DEF Counted
  <2>1. retries[x] \in Nat /\ lost[x] \in Nat /\ retries[x] <= mishaps /\ lost[x] <= mishaps
        /\ mishaps \in Nat /\ mishaps' \in Nat
    BY <1>1, MobileAssumption DEF MobileInv, RowsAndCycles, Counted
  <2> QED BY <1>1, <1>3, <2>1
<1>10. SyncedIsApplied'
  BY <1>1, <1>3 DEF MobileInv, SyncedIsApplied
<1> QED BY <1>5, <1>6, <1>7, <1>8, <1>9, <1>10 DEF MobileInv

-----------------------------------------------------------------------------
\* The inductive invariant: one cycle, and no row to send that has been applied unseen.
THEOREM MobileInvariant == MobileSpec => []MobileInv
<1>1. MobileInv /\ [MobileNext]_mobileVars => MobileInv'
  <2> SUFFICES ASSUME MobileInv, [MobileNext]_mobileVars
               PROVE  MobileInv'
    OBVIOUS
  <2>1. ASSUME NEW w \in Writes, Enqueue(w) \/ RetryDead(w) \/ Purge(w)
        PROVE  MobileInv'
    BY <2>1, StoreKeeps
  <2>2. ASSUME NEW c \in Callers, Push(c)
        PROVE  MobileInv'
    BY <2>2, PushKeeps
  <2>3. ASSUME NEW c \in Callers, Take(c)
        PROVE  MobileInv'
    BY <2>3, TakeKeeps
  <2>4. ASSUME NEW c \in Callers, Send(c)
        PROVE  MobileInv'
    BY <2>4, SendKeeps
  <2>5. ASSUME NEW c \in Callers, Handle(c) \/ RefreshThrows(c)
        PROVE  MobileInv'
    BY <2>5, AnswerKeeps
  <2>6. CASE AppDies \/ \E c \in Callers : Done(c) \/ NoToken(c)
    BY <2>6, EndKeeps
  <2>7. CASE UNCHANGED mobileVars
    <3>1. UNCHANGED <<older, status, retries, todo, hand, at, applied, lost, stranded, mishaps>>
      BY <2>7 DEF mobileVars, dbVars, appVars
    <3>2. UNCHANGED pushing
      BY Zenon, <2>7 DEF mobileVars, appVars
    <3>3. RowsAndCycles' /\ OneCycle' /\ NotAgain' /\ SyncedIsApplied' /\ Counted'
      BY <3>1 DEF MobileInv, RowsAndCycles, OneCycle, NotAgain, SyncedIsApplied, Counted
    <3>4. pushing' \in BOOLEAN /\ FlagIsUp'
      BY Zenon, <3>1, <3>2 DEF MobileInv, FlagIsUp
    <3> QED BY <3>3, <3>4 DEF MobileInv
  <2> QED BY Zenon, <2>1, <2>2, <2>3, <2>4, <2>5, <2>6, <2>7 DEF MobileNext
<1> QED BY <1>1, FreshApp, PTL DEF MobileSpec

\* The outbox keeps its shape, and the flag is up exactly while one cycle runs.
THEOREM MobileTypeCorrect == MobileSpec => []MobileTypeOK
<1>1. MobileInv => MobileTypeOK
  BY Zenon DEF MobileInv, RowsAndCycles, FlagIsUp, MobileTypeOK
<1> QED BY <1>1, MobileInvariant, PTL

\* However calls of pushPending overlap and whenever the app dies, a write is applied
\* again only for an answer that was lost.
THEOREM NotSentTwice == MobileSpec => []TwiceOnlyWhenLost
<1>1. MobileInv => TwiceOnlyWhenLost
  BY DEF MobileInv, NotAgain, TwiceOnlyWhenLost
<1> QED BY <1>1, MobileInvariant, PTL

\* A row shown as synced was applied by its service.
THEOREM SyncedMeansApplied == MobileSpec => []SyncedIsApplied
<1>1. MobileInv => SyncedIsApplied
  BY DEF MobileInv
<1> QED BY <1>1, MobileInvariant, PTL
==============================================================================
