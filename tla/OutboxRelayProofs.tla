-------------------------- MODULE OutboxRelayProofs --------------------------
(***************************************************************************)
(* Theorems about OutboxRelay, for every set of rows and relays and every  *)
(* batch, wave, backoff and fault bound.                                   *)
(***************************************************************************)
EXTENDS OutboxRelay, TLAPS

\* Every action on relay p's backoff map keeps the map well typed.
LEMMA BackoffTyped ==
  ASSUME TypeOK, NEW p \in Relays, NEW S, NEW T \in SUBSET Rows,
         NEW d \in 0..BackoffMax, Backoff(p, S, T, d)
  PROVE  /\ delay'  \in [Relays -> [Rows -> 0..BackoffMax]]
         /\ wait'   \in [Relays -> [Rows -> 0..BackoffMax]]
         /\ before' \in [Relays -> SUBSET (Rows \X Rows)]
<1>0. 0 \in 0..BackoffMax
  BY RelayAssumption
<1>1. delay' \in [Relays -> [Rows -> 0..BackoffMax]]
  BY <1>0 DEF TypeOK, Backoff
<1>2. wait' \in [Relays -> [Rows -> 0..BackoffMax]]
  BY <1>0 DEF TypeOK, Backoff
<1>3. before' \in [Relays -> SUBSET (Rows \X Rows)]
  <2>1. Tracked(p) \subseteq Rows
    BY DEF Tracked
  <2>2. (Tracked(p) \ (S \cup T)) \X (T \ Tracked(p)) \subseteq Rows \X Rows
    BY <2>1
  <2>3. before[p] \subseteq Rows \X Rows
    BY DEF TypeOK
  <2>4. QED
    BY <2>2, <2>3 DEF TypeOK, Backoff
<1>4. QED
  BY <1>1, <1>2, <1>3

LEMMA NextDelayTyped ==
  ASSUME NEW d \in 0..BackoffMax
  PROVE  NextDelay(d) \in 0..BackoffMax
BY RelayAssumption DEF NextDelay, Lesser

\* TypeOK is preserved by the settling of a publish.
LEMMA SettleTyped ==
  ASSUME TypeOK, NEW p \in Relays, NEW e \in Rows, Settle(p, e)
  PROVE  TypeOK'
<1>1. ASSUME Fulfilled(p, e), copies' \in [Relays -> [Rows -> Nat]]
      PROVE  TypeOK'
  <2>1. 0 \in 0..BackoffMax
    BY RelayAssumption
  <2>2. /\ delay'  \in [Relays -> [Rows -> 0..BackoffMax]]
        /\ wait'   \in [Relays -> [Rows -> 0..BackoffMax]]
        /\ before' \in [Relays -> SUBSET (Rows \X Rows)]
    BY <1>1, <2>1, BackoffTyped DEF Fulfilled
  <2>3. QED
    BY <1>1, <2>2 DEF TypeOK, Fulfilled, dbVars
<1>2. ASSUME Rejected(p, e), copies' \in [Relays -> [Rows -> Nat]],
             redo' \in [Relays -> [Rows -> Nat]], faults' \in 0..MaxFaults
      PROVE  TypeOK'
  <2>1. delay[p][e] \in 0..BackoffMax
    BY DEF TypeOK
  <2>2. /\ delay'  \in [Relays -> [Rows -> 0..BackoffMax]]
        /\ wait'   \in [Relays -> [Rows -> 0..BackoffMax]]
        /\ before' \in [Relays -> SUBSET (Rows \X Rows)]
    BY <1>2, <2>1, NextDelayTyped, BackoffTyped DEF Rejected, RecordFailure
  <2>3. QED
    BY <1>2, <2>2 DEF TypeOK, Rejected, dbVars
<1>3. CASE PublishDelivered(p, e)
  BY <1>1, <1>3 DEF PublishDelivered, TypeOK
<1>4. CASE PublishVoid(p, e)
  BY <1>1, <1>4 DEF PublishVoid, TypeOK
<1>5. CASE PublishRefused(p, e)
  BY <1>2, <1>5 DEF PublishRefused, TypeOK
<1>6. CASE PublishFaults(p, e)
  <2>1. faults' \in 0..MaxFaults
    BY <1>6, RelayAssumption DEF PublishFaults, Fault, TypeOK
  <2>2. copies' \in [Relays -> [Rows -> Nat]] /\ redo' \in [Relays -> [Rows -> Nat]]
    <3>1. copies[p][e] + 1 \in Nat /\ redo[p][e] + 1 \in Nat
      BY DEF TypeOK
    <3>2. CASE UNCHANGED <<copies, redo>>
      BY <3>2 DEF TypeOK
    <3>3. CASE /\ copies' = [copies EXCEPT ![p][e] = @ + 1]
               /\ redo'   = [redo EXCEPT ![p][e] = @ + 1]
      BY <3>1, <3>3 DEF TypeOK
    <3>4. QED
      BY <1>6, <3>2, <3>3 DEF PublishFaults
  <2>3. QED
    BY <1>2, <1>6, <2>1, <2>2 DEF PublishFaults
<1>7. QED
  BY <1>3, <1>4, <1>5, <1>6 DEF Settle

\* What counting the rows S of one process makes of a table.
LEMMA CountedIs ==
  ASSUME NEW f \in [Relays -> [Rows -> Nat]], NEW p \in Relays, NEW S
  PROVE  /\ Counted(f, p, S) \in [Relays -> [Rows -> Nat]]
         /\ \A q \in Relays, e \in Rows :
              Counted(f, p, S)[q][e] = IF q = p /\ e \in S THEN f[q][e] + 1 ELSE f[q][e]
<1>1. [e \in Rows |-> IF e \in S THEN f[p][e] + 1 ELSE f[p][e]] \in [Rows -> Nat]
  OBVIOUS
<1>2. QED
  BY <1>1 DEF Counted

LEMMA TypeStep == TypeOK /\ [Next]_vars => TypeOK'
<1> SUFFICES ASSUME TypeOK, [Next]_vars PROVE TypeOK'
  OBVIOUS
<1>1. CASE Tick
  <2>1. wait' \in [Relays -> [Rows -> 0..BackoffMax]]
    <3>1. ASSUME NEW p \in Relays, NEW e \in Rows
          PROVE  (IF wait[p][e] = 0 THEN 0 ELSE wait[p][e] - 1) \in 0..BackoffMax
      <4>1. wait[p][e] \in 0..BackoffMax
        BY DEF TypeOK
      <4>2. QED
        BY <4>1, RelayAssumption
    <3>2. QED
      BY <1>1, <3>1 DEF Tick
  <2>2. due' \in [Relays -> BOOLEAN]
    BY <1>1 DEF Tick
  <2>3. faults' \in 0..MaxFaults
    BY <1>1, RelayAssumption DEF Tick, Fault, TypeOK
  <2>4. QED
    BY <1>1, <2>1, <2>2, <2>3 DEF Tick, TypeOK, dbVars
<1>2. ASSUME NEW e \in Rows, Enqueue(e) PROVE TypeOK'
  BY <1>2 DEF Enqueue, TypeOK, relayVars, brokerVars
<1>3. ASSUME NEW e \in Rows, Purge(e) PROVE TypeOK'
  BY <1>3 DEF Purge, TypeOK, relayVars, brokerVars
<1>4. ASSUME NEW e \in Rows, SubscriberAppears(e) PROVE TypeOK'
  BY <1>4 DEF SubscriberAppears, TypeOK, dbVars, relayVars
<1>5. ASSUME NEW e \in Rows, SubscriberVanishes(e) PROVE TypeOK'
  BY <1>5, RelayAssumption DEF SubscriberVanishes, Fault, TypeOK, dbVars, relayVars
<1>6. ASSUME NEW p \in Relays, SkipCycle(p) PROVE TypeOK'
  BY <1>6 DEF SkipCycle, TypeOK, dbVars, brokerVars
<1>7. ASSUME NEW p \in Relays, StartCycle(p) PROVE TypeOK'
  BY <1>7 DEF StartCycle, OldestOf, TypeOK, dbVars, brokerVars
<1>8. ASSUME NEW p \in Relays, LaunchWave(p) PROVE TypeOK'
  BY <1>8 DEF LaunchWave, OldestOf, TypeOK, dbVars, brokerVars
<1>9. ASSUME NEW p \in Relays, MarkPublished(p) PROVE TypeOK'
  BY <1>9 DEF MarkPublished, EndCycle, TypeOK
<1>10. ASSUME NEW p \in Relays, MarkFails(p) PROVE TypeOK'
  <2>1. redo' \in [Relays -> [Rows -> Nat]]
    <3>1. redo' = Counted(redo, p, ok[p]) /\ redo \in [Relays -> [Rows -> Nat]]
      BY <1>10 DEF MarkFails, TypeOK
    <3>2. QED
      BY <3>1, CountedIs
  <2>2. faults' \in 0..MaxFaults
    BY <1>10, RelayAssumption DEF MarkFails, Fault, TypeOK
  <2>3. QED
    BY <1>10, <2>1, <2>2 DEF MarkFails, EndCycle, TypeOK, dbVars
<1>11. ASSUME NEW p \in Relays, Crash(p) PROVE TypeOK'
  <2>1. redo' \in [Relays -> [Rows -> Nat]] /\ copies' \in [Relays -> [Rows -> Nat]]
    <3>1. PICK sent : copies' = Counted(copies, p, sent) /\ redo' = Counted(redo, p, ok[p] \cup sent)
      BY <1>11 DEF Crash
    <3>2. copies \in [Relays -> [Rows -> Nat]] /\ redo \in [Relays -> [Rows -> Nat]]
      BY DEF TypeOK
    <3>3. QED
      BY <3>1, <3>2, CountedIs
  <2>2. 0 \in 0..BackoffMax
    BY RelayAssumption
  <2>3. faults' \in 0..MaxFaults
    BY <1>11, RelayAssumption DEF Crash, Fault, TypeOK
  <2>4. /\ delay' \in [Relays -> [Rows -> 0..BackoffMax]]
        /\ wait'  \in [Relays -> [Rows -> 0..BackoffMax]]
    BY <1>11, <2>2 DEF Crash, TypeOK
  <2>5. QED
    BY <1>11, <2>1, <2>3, <2>4 DEF Crash, TypeOK, dbVars
<1>12. ASSUME NEW p \in Relays, Restart(p) PROVE TypeOK'
  BY <1>12 DEF Restart, TypeOK, dbVars, brokerVars
<1>13. CASE UNCHANGED vars
  BY <1>13 DEF TypeOK, vars, dbVars, relayVars, brokerVars
<1>14. QED
  BY <1>1, <1>2, <1>3, <1>4, <1>5, <1>6, <1>7, <1>8, <1>9, <1>10, <1>11, <1>12,
     <1>13, SettleTyped DEF Next

\* The state of the database, the relays and the broker always has its shape.
THEOREM TypeCorrect == Spec => []TypeOK
<1>1. Init => TypeOK
  BY RelayAssumption DEF Init, TypeOK
<1>2. QED
  BY <1>1, TypeStep, PTL DEF Spec

-----------------------------------------------------------------------------
(***************************************************************************)
(* The inductive invariant.  DuplicatesExplained alone is not inductive: a *)
(* row about to be sent must not have an unexplained copy already, which   *)
(* needs the batch to hold no row this relay has sent and not lost track   *)
(* of, which in turn needs an unexplained copy to show as a success of the *)
(* current cycle or as a row no later SELECT returns.                      *)
(***************************************************************************)
Quiet(p) == phase[p] # "running" => todo[p] = {} /\ wave[p] = {} /\ ok[p] = {}

SentOnce(p, e) ==
  /\ e \in todo[p] \cup wave[p] \cup ok[p] => row[e] # "absent"
  /\ ~(e \in todo[p] /\ e \in wave[p])
  /\ e \in todo[p] \cup wave[p] => copies[p][e] <= redo[p][e]
  /\ copies[p][e] <= 1 + redo[p][e]
  /\ copies[p][e] > redo[p][e] => e \in ok[p] \/ Retired(e)

Backed(p, e) ==
  e \in ok[p] => accepted[e] /\ (e \in Required => Delivered(e))

RetiredBacked(e) ==
  Retired(e) => accepted[e] /\ (e \in Required => Delivered(e))

IInv ==
  /\ \A p \in Relays : Quiet(p)
  /\ \A p \in Relays, e \in Rows : SentOnce(p, e)
  /\ \A p \in Relays, e \in Rows : Backed(p, e)
  /\ \A e \in Rows : RetiredBacked(e)

\* Adding one to one entry of a table of counters.
LEMMA Bump ==
  ASSUME NEW f \in [Relays -> [Rows -> Nat]], NEW g, NEW p \in Relays, NEW e \in Rows,
         NEW q \in Relays, NEW x \in Rows,
         g = [f EXCEPT ![p][e] = @ + 1] \/ g = f
  PROVE  /\ f[q][x] \in Nat
         /\ g[q][x] = f[q][x] \/ g[q][x] = f[q][x] + 1
<1>1. f[q] \in [Rows -> Nat] /\ f[p] \in [Rows -> Nat]
  OBVIOUS
<1>2. CASE g = f
  BY <1>1, <1>2
<1>3. CASE g = [f EXCEPT ![p][e] = @ + 1]
  <2>1. g[q] = IF q = p THEN [f[p] EXCEPT ![e] = @ + 1] ELSE f[q]
    BY <1>3
  <2>2. QED
    BY <1>1, <2>1
<1>4. QED
  BY <1>2, <1>3

\* The invariant reads nothing but these variables.
LEMMA IInvFrame ==
  ASSUME IInv, UNCHANGED <<row, phase, todo, wave, ok, accepted, copies, redo>>
  PROVE  IInv'
BY DEF IInv, Quiet, SentOnce, Backed, RetiredBacked, Retired, Delivered

LEMMA RowFrame ==
  ASSUME IInv, UNCHANGED <<phase, todo, wave, ok, accepted, copies, redo>>,
         \A e \in Rows : (row'[e] \in {"published", "purged"}) <=> Retired(e),
         \A e \in Rows : row[e] # "absent" => row'[e] # "absent"
  PROVE  IInv'
<1>1. ASSUME NEW p \in Relays PROVE Quiet(p)'
  BY DEF IInv, Quiet
<1>2. ASSUME NEW p \in Relays, NEW e \in Rows PROVE SentOnce(p, e)'
  BY DEF IInv, SentOnce, Retired
<1>3. ASSUME NEW p \in Relays, NEW e \in Rows PROVE Backed(p, e)'
  BY DEF IInv, Backed, Delivered
<1>4. ASSUME NEW e \in Rows PROVE RetiredBacked(e)'
  BY DEF IInv, RetiredBacked, Retired, Delivered
<1>5. QED
  BY <1>1, <1>2, <1>3, <1>4 DEF IInv

\* A resolved publish: the row turns from "in flight" into "succeeded".
LEMMA FulfilledStep ==
  ASSUME TypeOK, IInv, NEW p \in Relays, NEW e \in Rows, Fulfilled(p, e),
         \/ copies' = [copies EXCEPT ![p][e] = @ + 1]
         \/ UNCHANGED copies /\ e \notin Required
  PROVE  IInv'
<1>1. UNCHANGED <<row, phase, todo, redo>>
  BY DEF Fulfilled, dbVars
<1>2. phase[p] = "running"
  BY DEF Fulfilled, IInv, Quiet
<1>3. \A q \in Relays, f \in Rows :
         copies'[q][f] \in Nat /\ copies'[q][f] >= copies[q][f]
  <2>1. copies \in [Relays -> [Rows -> Nat]]
    BY DEF TypeOK
  <2>2. copies' = [copies EXCEPT ![p][e] = @ + 1] \/ copies' = copies
    OBVIOUS
  <2>3. \A q \in Relays, f \in Rows :
          copies[q][f] \in Nat /\ (copies'[q][f] = copies[q][f] \/ copies'[q][f] = copies[q][f] + 1)
    BY <2>1, <2>2, Bump
  <2>4. QED
    BY <2>3
<1>4. copies'[p][e] <= 1 + redo[p][e]
  BY DEF Fulfilled, IInv, SentOnce, TypeOK
<1>5. \A q \in Relays, f \in Rows : <<q, f>> # <<p, e>> => copies'[q][f] = copies[q][f]
  BY DEF TypeOK
<1>6. \A f \in Rows : Delivered(f) => Delivered(f)'
  BY <1>3 DEF Delivered, TypeOK
<1>7. e \in Required => Delivered(e)'
  BY DEF Delivered, TypeOK
<1>8. ASSUME NEW q \in Relays PROVE Quiet(q)'
  BY <1>1, <1>2 DEF Fulfilled, IInv, Quiet, TypeOK
<1>9. ASSUME NEW q \in Relays, NEW f \in Rows PROVE SentOnce(q, f)'
  <2>1. SentOnce(q, f)
    BY DEF IInv
  <2>2. CASE q = p /\ f = e
    BY <1>1, <1>4, <2>1, <2>2 DEF Fulfilled, SentOnce, Retired, TypeOK
  <2>3. CASE q = p /\ f # e
    BY <1>1, <1>5, <2>1, <2>3 DEF Fulfilled, SentOnce, Retired, TypeOK
  <2>4. CASE q # p
    BY <1>1, <1>5, <2>1, <2>4 DEF Fulfilled, SentOnce, Retired, TypeOK
  <2>5. QED
    BY <2>2, <2>3, <2>4
<1>10. ASSUME NEW q \in Relays, NEW f \in Rows PROVE Backed(q, f)'
  BY <1>6, <1>7 DEF Fulfilled, IInv, Backed, TypeOK
<1>11. ASSUME NEW f \in Rows PROVE RetiredBacked(f)'
  BY <1>1, <1>6 DEF Fulfilled, IInv, RetiredBacked, Retired, TypeOK
<1>12. QED
  BY <1>8, <1>9, <1>10, <1>11 DEF IInv

\* A rejected publish: if a copy landed, the loss is on record.
LEMMA RejectedStep ==
  ASSUME TypeOK, IInv, NEW p \in Relays, NEW e \in Rows, Rejected(p, e),
         \/ UNCHANGED <<copies, redo>>
         \/ /\ copies' = [copies EXCEPT ![p][e] = @ + 1]
            /\ redo'   = [redo EXCEPT ![p][e] = @ + 1]
  PROVE  IInv'
<1>1. UNCHANGED <<row, phase, todo, ok, accepted>>
  BY DEF Rejected, dbVars
<1>2. \A f \in Rows : Delivered(f) => Delivered(f)'
  <2>1. \A q \in Relays, f \in Rows :
           copies[q][f] \in Nat /\ (copies'[q][f] = copies[q][f] \/ copies'[q][f] = copies[q][f] + 1)
    <3>1. copies \in [Relays -> [Rows -> Nat]]
      BY DEF TypeOK
    <3>2. copies' = [copies EXCEPT ![p][e] = @ + 1] \/ copies' = copies
      OBVIOUS
    <3>3. QED
      BY <3>1, <3>2, Bump
  <2>2. QED
    BY <2>1 DEF Delivered
<1>3. ASSUME NEW q \in Relays PROVE Quiet(q)'
  BY <1>1 DEF Rejected, IInv, Quiet, TypeOK
<1>4. ASSUME NEW q \in Relays, NEW f \in Rows PROVE SentOnce(q, f)'
  <2>1. SentOnce(q, f)
    BY DEF IInv
  <2>2. \/ copies'[q][f] = copies[q][f] /\ redo'[q][f] = redo[q][f]
        \/ copies'[q][f] = copies[q][f] + 1 /\ redo'[q][f] = redo[q][f] + 1
    BY DEF TypeOK
  <2>3. copies[q][f] \in Nat /\ redo[q][f] \in Nat
    BY DEF TypeOK
  <2>4. wave'[q] \subseteq wave[q]
    BY DEF Rejected, TypeOK
  <2>5. QED
    BY <1>1, <2>1, <2>2, <2>3, <2>4 DEF SentOnce, Retired
<1>5. ASSUME NEW q \in Relays, NEW f \in Rows PROVE Backed(q, f)'
  BY <1>1, <1>2 DEF IInv, Backed
<1>6. ASSUME NEW f \in Rows PROVE RetiredBacked(f)'
  BY <1>1, <1>2 DEF IInv, RetiredBacked, Retired
<1>7. QED
  BY <1>3, <1>4, <1>5, <1>6 DEF IInv

LEMMA SettleStep ==
  ASSUME TypeOK, IInv, NEW p \in Relays, NEW e \in Rows, Settle(p, e)
  PROVE  IInv'
<1>1. CASE PublishDelivered(p, e)
  BY <1>1, FulfilledStep DEF PublishDelivered
<1>2. CASE PublishVoid(p, e)
  BY <1>2, FulfilledStep DEF PublishVoid
<1>3. CASE PublishRefused(p, e)
  BY <1>3, RejectedStep DEF PublishRefused
<1>4. CASE PublishFaults(p, e)
  BY <1>4, RejectedStep DEF PublishFaults
<1>5. QED
  BY <1>1, <1>2, <1>3, <1>4 DEF Settle

\* The SELECT returns unpublished rows only, and the relay is quiet: no row of
\* the new batch has a copy this relay does not know it must repeat.
LEMMA StartCycleStep ==
  ASSUME TypeOK, IInv, NEW p \in Relays, StartCycle(p)
  PROVE  IInv'
<1>1. PICK batch \in SUBSET {e \in Rows : row[e] = "unpublished"} :
         /\ todo'  = [todo EXCEPT ![p] = batch]
         /\ ok'    = [ok EXCEPT ![p] = {}]
         /\ phase' = [phase EXCEPT ![p] = IF batch = {} THEN "idle" ELSE "running"]
  BY DEF StartCycle, OldestOf
<1>2. UNCHANGED <<row, wave, accepted, copies, redo>>
  BY DEF StartCycle, dbVars, brokerVars
<1>3. wave[p] = {} /\ ok[p] = {}
  BY DEF StartCycle, IInv, Quiet
<1>4. ASSUME NEW q \in Relays PROVE Quiet(q)'
  BY <1>1, <1>2, <1>3 DEF IInv, Quiet, TypeOK
<1>5. ASSUME NEW q \in Relays, NEW e \in Rows PROVE SentOnce(q, e)'
  <2>1. SentOnce(q, e) /\ copies[q][e] \in Nat /\ redo[q][e] \in Nat
    BY DEF IInv, TypeOK
  <2>2. CASE q = p
    BY <1>1, <1>2, <1>3, <2>1, <2>2 DEF SentOnce, Retired, TypeOK
  <2>3. CASE q # p
    BY <1>1, <1>2, <2>1, <2>3 DEF SentOnce, Retired, TypeOK
  <2>4. QED
    BY <2>2, <2>3
<1>6. ASSUME NEW q \in Relays, NEW e \in Rows PROVE Backed(q, e)'
  BY <1>1, <1>2 DEF IInv, Backed, Delivered, TypeOK
<1>7. ASSUME NEW e \in Rows PROVE RetiredBacked(e)'
  BY <1>2 DEF IInv, RetiredBacked, Retired, Delivered
<1>8. QED
  BY <1>4, <1>5, <1>6, <1>7 DEF IInv

LEMMA LaunchWaveStep ==
  ASSUME TypeOK, IInv, NEW p \in Relays, LaunchWave(p)
  PROVE  IInv'
<1>1. PICK chunk \in SUBSET todo[p] :
         /\ wave' = [wave EXCEPT ![p] = chunk]
         /\ todo' = [todo EXCEPT ![p] = @ \ chunk]
  BY DEF LaunchWave, OldestOf
<1>2. UNCHANGED <<row, phase, ok, accepted, copies, redo>> /\ phase[p] = "running"
  BY DEF LaunchWave, dbVars, brokerVars
<1>3. ASSUME NEW q \in Relays PROVE Quiet(q)'
  BY <1>1, <1>2 DEF IInv, Quiet, TypeOK
<1>4. ASSUME NEW q \in Relays, NEW e \in Rows PROVE SentOnce(q, e)'
  BY <1>1, <1>2 DEF IInv, SentOnce, Retired, TypeOK
<1>5. ASSUME NEW q \in Relays, NEW e \in Rows PROVE Backed(q, e)' /\ RetiredBacked(e)'
  BY <1>2 DEF IInv, Backed, RetiredBacked, Retired, Delivered
<1>6. \A e \in Rows : RetiredBacked(e)'
  BY <1>2 DEF IInv, RetiredBacked, Retired, Delivered
<1>7. QED
  BY <1>3, <1>4, <1>5, <1>6 DEF IInv

\* The UPDATE retires the cycle's successes and nothing else.
LEMMA MarkPublishedStep ==
  ASSUME TypeOK, IInv, NEW p \in Relays, MarkPublished(p)
  PROVE  IInv'
<1>1. UNCHANGED <<todo, wave, accepted, copies, redo>>
  BY DEF MarkPublished, EndCycle
<1>2. wave[p] = {} /\ todo[p] = {}
  BY DEF MarkPublished, BatchDone
<1>3. /\ \A e \in Rows : Retired(e)' <=> Retired(e) \/ (e \in ok[p] /\ row[e] = "unpublished")
      /\ \A e \in Rows : e \in ok[p] /\ row[e] # "absent" => Retired(e)'
  BY DEF MarkPublished, Retired, TypeOK
<1>4. ASSUME NEW q \in Relays PROVE Quiet(q)'
  BY <1>1, <1>2 DEF MarkPublished, EndCycle, IInv, Quiet, TypeOK
<1>5. ASSUME NEW e \in Rows PROVE RetiredBacked(e)'
  BY <1>1, <1>3 DEF IInv, Backed, RetiredBacked, Delivered
<1>6. ASSUME NEW q \in Relays, NEW e \in Rows PROVE Backed(q, e)'
  BY <1>1 DEF MarkPublished, EndCycle, IInv, Backed, Delivered, TypeOK
<1>7. ASSUME NEW q \in Relays, NEW e \in Rows PROVE SentOnce(q, e)'
  <2>1. SentOnce(q, e)
    BY DEF IInv
  <2>2. CASE q = p
    <3>1. ok'[p] = {} /\ todo'[p] = {} /\ wave'[p] = {}
      BY <1>1, <1>2 DEF MarkPublished, EndCycle, TypeOK
    <3>2. e \in ok[p] => Retired(e)'
      BY <1>3, <2>1, <2>2 DEF SentOnce
    <3>3. QED
      BY <1>1, <1>3, <2>1, <2>2, <3>1, <3>2 DEF SentOnce
  <2>3. CASE q # p
    <3>1. ok'[q] = ok[q] /\ (row[e] # "absent" => row'[e] # "absent")
      BY <2>3 DEF MarkPublished, EndCycle, TypeOK
    <3>2. QED
      BY <1>1, <1>3, <2>1, <3>1 DEF SentOnce
  <2>4. QED
    BY <2>2, <2>3
<1>8. QED
  BY <1>4, <1>5, <1>6, <1>7 DEF IInv

\* A relay that forgets its successes, and what it sent last without an answer,
\* counts each of these rows as one to repeat.
LEMMA ForgetStep ==
  ASSUME TypeOK, IInv, NEW p \in Relays, NEW sent, sent \subseteq wave[p],
         UNCHANGED <<row, accepted>>,
         copies' = Counted(copies, p, sent),
         redo'  = Counted(redo, p, ok[p] \cup sent),
         todo'  = [todo EXCEPT ![p] = {}],
         wave'  = [wave EXCEPT ![p] = {}],
         ok'    = [ok EXCEPT ![p] = {}],
         phase' \in [Relays -> {"down", "idle", "running"}],
         \A q \in Relays \ {p} : phase'[q] = phase[q]
  PROVE  IInv'
<1>1. ASSUME NEW q \in Relays PROVE Quiet(q)'
  BY DEF IInv, Quiet, TypeOK
<1>2. \A q \in Relays, e \in Rows : copies[q][e] \in Nat /\ redo[q][e] \in Nat
  BY DEF TypeOK
<1>3. \A q \in Relays, e \in Rows :
        redo'[q][e] = IF q = p /\ e \in ok[p] \cup sent THEN redo[q][e] + 1 ELSE redo[q][e]
  BY DEF Counted, TypeOK
<1>4. \A q \in Relays, e \in Rows :
        copies'[q][e] = IF q = p /\ e \in sent THEN copies[q][e] + 1 ELSE copies[q][e]
  BY DEF Counted, TypeOK
<1>5. \A e \in Rows : Delivered(e) => Delivered(e)'
  BY <1>2, <1>4 DEF Delivered
<1>6. ASSUME NEW q \in Relays, NEW e \in Rows PROVE SentOnce(q, e)'
  <2>1. SentOnce(q, e)
    BY DEF IInv
  <2>2. CASE q = p
    <3>1. ok'[p] = {} /\ todo'[p] = {} /\ wave'[p] = {}
      BY DEF TypeOK
    <3>2. CASE e \in ok[p] \cup sent
      <4>1. redo'[p][e] = redo[p][e] + 1
        BY <1>3, <3>2
      <4>2. copies'[p][e] <= redo'[p][e]
        <5>1. e \in sent => copies[p][e] <= redo[p][e]
          BY <2>1, <2>2 DEF SentOnce
        <5>2. e \notin sent => copies'[p][e] = copies[p][e]
          BY <1>4
        <5>3. e \in sent => copies'[p][e] = copies[p][e] + 1
          BY <1>4
        <5>4. copies[p][e] <= 1 + redo[p][e]
          BY <2>1, <2>2 DEF SentOnce
        <5>5. QED
          BY <1>2, <4>1, <5>1, <5>2, <5>3, <5>4
      <4>3. copies'[p][e] \in Nat /\ redo'[p][e] \in Nat
        BY <1>2, <1>4, <4>1
      <4>4. QED
        BY <2>2, <3>1, <4>2, <4>3 DEF SentOnce
    <3>3. CASE e \notin ok[p] \cup sent
      <4>1. copies'[p][e] = copies[p][e] /\ redo'[p][e] = redo[p][e]
        BY <1>3, <1>4, <3>3
      <4>2. QED
        BY <1>2, <2>1, <2>2, <3>1, <3>3, <4>1 DEF SentOnce, Retired
    <3>4. QED
      BY <3>2, <3>3
  <2>3. CASE q # p
    <3>1. ok'[q] = ok[q] /\ todo'[q] = todo[q] /\ wave'[q] = wave[q]
      BY <2>3 DEF TypeOK
    <3>2. QED
      BY <1>3, <1>4, <2>1, <2>3, <3>1 DEF SentOnce, Retired
  <2>4. QED
    BY <2>2, <2>3
<1>7. ASSUME NEW q \in Relays, NEW e \in Rows PROVE Backed(q, e)'
  BY <1>5 DEF IInv, Backed, TypeOK
<1>8. ASSUME NEW e \in Rows PROVE RetiredBacked(e)'
  BY <1>5 DEF IInv, RetiredBacked, Retired
<1>9. QED
  BY <1>1, <1>6, <1>7, <1>8 DEF IInv

LEMMA IInvStep == TypeOK /\ IInv /\ [Next]_vars => IInv'
<1> SUFFICES ASSUME TypeOK, IInv, [Next]_vars PROVE IInv'
  OBVIOUS
<1>1. CASE Tick
  BY <1>1, IInvFrame DEF Tick, dbVars
<1>2. ASSUME NEW e \in Rows, Enqueue(e) PROVE IInv'
  <2>1. UNCHANGED <<phase, todo, wave, ok, accepted, copies, redo>>
    BY <1>2 DEF Enqueue, relayVars, brokerVars
  <2>2. \A f \in Rows : row'[f] = IF f = e THEN "unpublished" ELSE row[f]
    BY <1>2 DEF Enqueue, TypeOK
  <2>3. row[e] = "absent"
    BY <1>2 DEF Enqueue
  <2>4. QED
    BY <2>1, <2>2, <2>3, RowFrame DEF Retired
<1>3. ASSUME NEW e \in Rows, Purge(e) PROVE IInv'
  <2>1. UNCHANGED <<phase, todo, wave, ok, accepted, copies, redo>>
    BY <1>3 DEF Purge, relayVars, brokerVars
  <2>2. \A f \in Rows : row'[f] = IF f = e THEN "purged" ELSE row[f]
    BY <1>3 DEF Purge, TypeOK
  <2>3. row[e] = "published"
    BY <1>3 DEF Purge
  <2>4. QED
    BY <2>1, <2>2, <2>3, RowFrame DEF Retired
<1>4. ASSUME NEW e \in Rows, SubscriberAppears(e) \/ SubscriberVanishes(e) PROVE IInv'
  BY <1>4, IInvFrame DEF SubscriberAppears, SubscriberVanishes, dbVars, relayVars
<1>5. ASSUME NEW p \in Relays, SkipCycle(p) PROVE IInv'
  BY <1>5, IInvFrame DEF SkipCycle, dbVars, brokerVars
<1>6. ASSUME NEW p \in Relays, MarkFails(p) PROVE IInv'
  <2>1. wave[p] = {} /\ todo[p] = {}
    BY <1>6 DEF MarkFails, BatchDone
  <2>2. todo' = [todo EXCEPT ![p] = {}] /\ wave' = [wave EXCEPT ![p] = {}]
    BY <1>6, <2>1 DEF MarkFails, EndCycle, TypeOK
  <2>3. /\ phase' \in [Relays -> {"down", "idle", "running"}]
        /\ \A q \in Relays \ {p} : phase'[q] = phase[q]
    BY <1>6 DEF MarkFails, EndCycle, TypeOK
  <2>4. PICK none : none = {}
    OBVIOUS
  <2>5. /\ UNCHANGED <<row, accepted, copies>>
        /\ redo' = Counted(redo, p, ok[p])
        /\ ok' = [ok EXCEPT ![p] = {}]
    BY <1>6 DEF MarkFails, EndCycle, dbVars
  <2>6. none \subseteq wave[p] /\ ok[p] \cup none = ok[p]
    BY <2>4
  <2>7. copies' = Counted(copies, p, none)
    BY <2>4, <2>5 DEF Counted, TypeOK
  <2>8. redo' = Counted(redo, p, ok[p] \cup none)
    BY <2>5, <2>6
  <2>9. QED
    BY Zenon, <2>2, <2>3, <2>5, <2>6, <2>7, <2>8, ForgetStep
<1>7. ASSUME NEW p \in Relays, Crash(p) PROVE IInv'
  <2>1. /\ phase' \in [Relays -> {"down", "idle", "running"}]
        /\ \A q \in Relays \ {p} : phase'[q] = phase[q]
    BY <1>7 DEF Crash, TypeOK
  <2>2. PICK sent :
              /\ sent \subseteq wave[p]
              /\ copies' = Counted(copies, p, sent)
              /\ redo'   = Counted(redo, p, ok[p] \cup sent)
    BY <1>7 DEF Crash
  <2>3. /\ UNCHANGED <<row, accepted>>
        /\ todo' = [todo EXCEPT ![p] = {}] /\ wave' = [wave EXCEPT ![p] = {}]
        /\ ok' = [ok EXCEPT ![p] = {}]
    BY <1>7 DEF Crash, dbVars
  <2>4. QED
    BY Zenon, <2>1, <2>2, <2>3, ForgetStep
<1>8. ASSUME NEW p \in Relays, Restart(p) PROVE IInv'
  <2>1. UNCHANGED <<row, todo, wave, ok, accepted, copies, redo>>
    BY <1>8 DEF Restart, dbVars, brokerVars
  <2>2. \A q \in Relays : phase'[q] # "running" => phase[q] # "running"
    BY <1>8 DEF Restart, TypeOK
  <2>3. QED
    BY <2>1, <2>2 DEF IInv, Quiet, SentOnce, Backed, RetiredBacked, Retired, Delivered
<1>9. CASE UNCHANGED vars
  BY <1>9, IInvFrame DEF vars, dbVars, relayVars, brokerVars
<1>10. QED
  BY <1>1, <1>2, <1>3, <1>4, <1>5, <1>6, <1>7, <1>8, <1>9, SettleStep,
     StartCycleStep, LaunchWaveStep, MarkPublishedStep DEF Next

LEMMA Invariant == Spec => [](TypeOK /\ IInv)
<1>1. Init => IInv
  BY DEF Init, IInv, Quiet, SentOnce, Backed, RetiredBacked, Retired
<1>2. QED
  BY <1>1, IInvStep, TypeCorrect, PTL DEF Spec

\* A row marked published, or purged after it, was accepted by the bus.
THEOREM PublishedAccepted == Spec => []PublishedWasAccepted
<1>1. IInv => PublishedWasAccepted
  BY DEF IInv, RetiredBacked, PublishedWasAccepted
<1>2. QED
  BY <1>1, Invariant, PTL

\* An audit row marked published reached a queue.
THEOREM RequiredDelivered == Spec => []RequiredNeverVoid
<1>1. IInv => RequiredNeverVoid
  BY RelayAssumption DEF IInv, RetiredBacked, RequiredNeverVoid
<1>2. QED
  BY <1>1, Invariant, PTL

\* Each extra copy a relay process publishes is explained by a loss it suffered.
THEOREM DuplicatesAreExplained == Spec => []DuplicatesExplained
<1>1. IInv => DuplicatesExplained
  BY DEF IInv, SentOnce, DuplicatesExplained
<1>2. QED
  BY <1>1, Invariant, PTL
==============================================================================
