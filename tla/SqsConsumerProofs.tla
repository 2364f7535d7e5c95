-------------------------- MODULE SqsConsumerProofs --------------------------
(***************************************************************************)
(* What holds of SqsConsumer for any number of commands, copies, workers,  *)
(* handlers and hooks.                                                     *)
(*                                                                         *)
(* Three layers, each inductive relative to the one below: the shape of    *)
(* the state (Base), the exclusion that makes markProcessed a claim        *)
(* (Claims), and what a worker's place in the loop says of the work done   *)
(* so far (Ledger).                                                        *)
(***************************************************************************)
EXTENDS SqsConsumer, TLAPS

\* The shape of the broker's state, of the workers' (with what a worker holds at
\* each place of the loop) and of the database.
BrokerShape ==
  /\ place \in [Copies -> {"unsent", "queue", "gone"}]
  /\ visible \in SUBSET Copies
  /\ receives \in [Copies -> 0..MaxReceive]
  /\ grave \in [Copies -> {"none", "kept", "dropped"}]

LoopShape ==
  /\ pc \in [Workers -> {"down", "poll", "handle", "tx", "dlq", "emit", "delete"}]
  /\ cur \in [Workers -> Copies \cup {NoCopy}]
  /\ next \in [Workers -> 1..(NumHandlers + 1)]
  /\ verdict \in [Workers -> Statuses \cup {"none"}]
  /\ \A w \in Workers : pc[w] \notin {"down", "poll"} => cur[w] \in Copies
  /\ \A w \in Workers : pc[w] = "tx" => next[w] \in Handlers
  /\ \A w \in Workers : pc[w] = "emit" => verdict[w] # "none"

BatchShape ==
  /\ held \in [Workers -> [Copies -> 0..MaxReceive]]
  /\ clean \in [Workers -> BOOLEAN]
  /\ told \in [Workers -> SUBSET Hooks]

DbShape ==
  /\ processed \in SUBSET (Commands \X Handlers)
  /\ applied \in [Commands -> [Handlers -> Nat]]
  /\ result \in [Hooks -> [Commands -> Statuses \cup {"none"}]]

FaultsBound == faults \in 0..MaxFaults

Base == BrokerShape /\ LoopShape /\ BatchShape /\ DbShape /\ FaultsBound

\* An open transaction holds its key alone and finds it unprocessed; a write is
\* committed once exactly where its key is.
Claims ==
  /\ \A w \in Workers : pc[w] = "tx" => DedupeKey(Cmd(w), next[w]) \notin processed
  /\ \A v, w \in Workers :
       pc[v] = "tx" /\ pc[w] = "tx" /\ DedupeKey(Cmd(v), next[v]) = DedupeKey(Cmd(w), next[w])
         => v = w
  /\ \A c \in Commands, h \in Handlers :
       applied[c][h] = IF DedupeKey(c, h) \in processed THEN 1 ELSE 0

\* A worker that saw no error has every earlier handler's write in place; past the
\* handlers, it reports a success only of finished work and deletes a copy only
\* when the work is done or the copy went to the DLQ.
Facts(w) ==
  /\ pc[w] \in {"handle", "tx"} /\ clean[w] =>
       \A h \in Handlers : h < next[w] => applied[Cmd(w)][h] > 0
  /\ pc[w] = "dlq" => verdict[w] # "succeeded"
  /\ pc[w] \in {"emit", "delete"} =>
       IF verdict[w] = "succeeded" THEN AllApplied(Cmd(w)) ELSE grave[cur[w]] # "none"

Ledger ==
  /\ \A w \in Workers : Facts(w)
  /\ SucceededIsTrue
  /\ NothingVanishes

IInv == Base /\ Claims /\ Ledger

-----------------------------------------------------------------------------
\* The table of a hook holds a status or nothing, whatever it is told.
LEMMA RecordedTyped ==
  ASSUME NEW k, NEW old \in Statuses \cup {"none"}, NEW s \in Statuses \cup {"none"}
  PROVE  Recorded(k, old, s) \in Statuses \cup {"none"}
  BY DEF Recorded

\* What a step leaves alone keeps its shape; a fault stays within its bound.
LEMMA ShapeFrame ==
  /\ BrokerShape /\ UNCHANGED brokerVars => BrokerShape'
  /\ LoopShape /\ UNCHANGED <<pc, cur, next, verdict>> => LoopShape'
  /\ BatchShape /\ UNCHANGED <<held, clean, told>> => BatchShape'
  /\ DbShape /\ UNCHANGED dbVars => DbShape'
  /\ FaultsBound /\ UNCHANGED faults => FaultsBound'
  /\ FaultsBound /\ Fault => FaultsBound'
<1>1. BrokerShape /\ UNCHANGED brokerVars => BrokerShape'
  BY DEF BrokerShape, brokerVars
<1>2. LoopShape /\ UNCHANGED <<pc, cur, next, verdict>> => LoopShape'
  BY DEF LoopShape
<1>3. BatchShape /\ UNCHANGED <<held, clean, told>> => BatchShape'
  BY DEF BatchShape
<1>4. DbShape /\ UNCHANGED dbVars => DbShape'
  BY DEF DbShape, dbVars
<1>5. FaultsBound /\ UNCHANGED faults => FaultsBound'
  BY DEF FaultsBound
<1>6. FaultsBound /\ Fault => FaultsBound'
  BY ConsumerAssumption DEF FaultsBound, Fault
<1> QED BY <1>1, <1>2, <1>3, <1>4, <1>5, <1>6

\* Every step keeps the broker's shape.
LEMMA BrokerStep ==
  ASSUME Base, [Next]_vars
  PROVE  BrokerShape'
<1> USE ConsumerAssumption
<1>1. CASE UNCHANGED brokerVars
  BY <1>1, ShapeFrame DEF Base
<1>2. ASSUME NEW m \in Copies, Send(m)
      PROVE  BrokerShape'
  BY <1>2 DEF Base, BrokerShape, Send
<1>3. ASSUME NEW m \in Copies, VisibilityExpires(m)
      PROVE  BrokerShape'
  BY <1>3 DEF Base, BrokerShape, VisibilityExpires
<1>4. ASSUME NEW m \in Copies, BrokerRedrives(m)
      PROVE  BrokerShape'
  BY <1>4 DEF Base, BrokerShape, BrokerRedrives
<1>5. ASSUME NEW w \in Workers, Receive(w)
      PROVE  BrokerShape'
  BY <1>5 DEF Base, BrokerShape, Receive, Lesser
<1>6. ASSUME NEW w \in Workers, DeadLetter(w)
      PROVE  BrokerShape'
  BY <1>6 DEF Base, BrokerShape, DeadLetter
<1>7. ASSUME NEW w \in Workers, Delete(w)
      PROVE  BrokerShape'
  BY <1>7 DEF Base, BrokerShape, Delete
<1>8. CASE UNCHANGED vars
  BY <1>8, <1>1 DEF vars
<1>9. ASSUME NEW w \in Workers, Work(w) \/ Crash(w)
      PROVE  BrokerShape'
  BY <1>1, <1>5, <1>6, <1>7, <1>9
     DEF Work, Take, AlreadyProcessed, Claim, Commit, Throw, Refuse, AllSucceeded, LeaveForRetry,
         GiveUp, EmitOutcome, OutcomeTold, Restart, Crash
<1> QED BY <1>2, <1>3, <1>4, <1>8, <1>9 DEF Next

\* Every step keeps the place, the copy, the handler and the verdict of each worker.
LEMMA LoopStep ==
  ASSUME Base, [Next]_vars
  PROVE  LoopShape'
<1> USE ConsumerAssumption DEF Statuses, Handlers
<1>1. CASE UNCHANGED <<pc, cur, next, verdict>>
  BY <1>1, ShapeFrame DEF Base
<1>2. ASSUME NEW w \in Workers, Take(w)
      PROVE  LoopShape'
  BY <1>2 DEF Base, LoopShape, Take, Batch
<1>3. ASSUME NEW w \in Workers, AlreadyProcessed(w)
      PROVE  LoopShape'
  BY <1>3 DEF Base, LoopShape, AlreadyProcessed, Handling
<1>4. ASSUME NEW w \in Workers, Claim(w)
      PROVE  LoopShape'
  BY <1>4 DEF Base, LoopShape, Claim, Handling
<1>5. ASSUME NEW w \in Workers, Commit(w) \/ Throw(w)
      PROVE  LoopShape'
  <2>1. /\ pc[w] = "tx"
        /\ pc'   = [pc EXCEPT ![w] = "handle"]
        /\ next' = [next EXCEPT ![w] = @ + 1]
        /\ UNCHANGED <<cur, verdict>>
    BY <1>5 DEF Commit, Throw
  <2> QED BY <2>1 DEF Base, LoopShape
<1>6. ASSUME NEW w \in Workers, Refuse(w)
      PROVE  LoopShape'
  BY <1>6 DEF Base, LoopShape, Refuse
<1>7. ASSUME NEW w \in Workers, AllSucceeded(w)
      PROVE  LoopShape'
  BY <1>7 DEF Base, LoopShape, AllSucceeded, AllRan
<1>8. ASSUME NEW w \in Workers, GiveUp(w)
      PROVE  LoopShape'
  BY <1>8 DEF Base, LoopShape, GiveUp, AllRan
<1>9. ASSUME NEW w \in Workers, LeaveForRetry(w) \/ Delete(w)
      PROVE  LoopShape'
  <2>1. Done(w)
    BY <1>9 DEF LeaveForRetry, Delete
  <2> QED BY <2>1 DEF Base, LoopShape, Done
<1>10. ASSUME NEW w \in Workers, DeadLetter(w)
       PROVE  LoopShape'
  BY <1>10 DEF Base, LoopShape, DeadLetter
<1>11. ASSUME NEW w \in Workers, EmitOutcome(w) \/ OutcomeTold(w)
       PROVE  LoopShape'
  BY <1>11 DEF Base, LoopShape, EmitOutcome, OutcomeTold
<1>12. ASSUME NEW w \in Workers, Crash(w)
       PROVE  LoopShape'
  BY <1>12 DEF Base, LoopShape, Crash
<1>13. ASSUME NEW w \in Workers, Restart(w)
       PROVE  LoopShape'
  BY <1>13 DEF Base, LoopShape, Restart
<1>14. ASSUME NEW w \in Workers, Receive(w)
       PROVE  LoopShape'
  BY <1>1, <1>14 DEF Receive
<1>15. ASSUME NEW m \in Copies, Send(m) \/ VisibilityExpires(m) \/ BrokerRedrives(m)
       PROVE  LoopShape'
  BY <1>1, <1>15 DEF Send, VisibilityExpires, BrokerRedrives, workerVars
<1>16. CASE UNCHANGED vars
  BY <1>16, <1>1 DEF vars, workerVars
<1> QED
  BY <1>2, <1>3, <1>4, <1>5, <1>6, <1>7, <1>8, <1>9, <1>10, <1>11, <1>12, <1>13, <1>14, <1>15, <1>16
     DEF Next, Work

\* Every step keeps the shape of the batches.
LEMMA BatchStep ==
  ASSUME Base, [Next]_vars
  PROVE  BatchShape'
<1> USE ConsumerAssumption
<1>1. CASE UNCHANGED <<held, clean, told>>
  BY <1>1, ShapeFrame DEF Base
<1>2. ASSUME NEW w \in Workers, Receive(w)
      PROVE  BatchShape'
  <2>1. BrokerShape'
    BY BrokerStep
  <2>2. PICK S \in SUBSET Receivable :
          held' = [held EXCEPT ![w] = [m \in Copies |-> IF m \in S THEN receives'[m] ELSE 0]]
    BY <1>2 DEF Receive
  <2>3. [m \in Copies |-> IF m \in S THEN receives'[m] ELSE 0] \in [Copies -> 0..MaxReceive]
    BY <2>1 DEF BrokerShape
  <2> QED BY <1>2, <2>2, <2>3 DEF Base, BatchShape, Receive
<1>3. ASSUME NEW w \in Workers, Take(w)
      PROVE  BatchShape'
  BY <1>3 DEF Base, BatchShape, Take
<1>4. ASSUME NEW w \in Workers, Commit(w)
      PROVE  BatchShape'
  BY <1>4 DEF Base, BatchShape, Commit
<1>5. ASSUME NEW w \in Workers, Throw(w)
      PROVE  BatchShape'
  BY <1>5 DEF Base, BatchShape, Throw
<1>6. ASSUME NEW w \in Workers, LeaveForRetry(w) \/ Delete(w)
      PROVE  BatchShape'
  <2>1. Done(w)
    BY <1>6 DEF LeaveForRetry, Delete
  <2>2. BatchShape
    BY DEF Base
  <2>3. held[w] \in [Copies -> 0..MaxReceive] /\ 0 \in 0..MaxReceive
    BY <2>2 DEF BatchShape
  <2>4. [held[w] EXCEPT ![cur[w]] = 0] \in [Copies -> 0..MaxReceive]
    BY <2>3
  <2>5. held' = [held EXCEPT ![w] = [held[w] EXCEPT ![cur[w]] = 0]]
    BY <2>1, <2>2 DEF Done, BatchShape
  <2>6. clean' = [clean EXCEPT ![w] = TRUE] /\ told' = [told EXCEPT ![w] = {}]
    BY <2>1 DEF Done
  <2> QED BY <2>2, <2>4, <2>5, <2>6 DEF BatchShape
<1>7. ASSUME NEW w \in Workers, Crash(w)
      PROVE  BatchShape'
  BY <1>7 DEF Base, BatchShape, Crash
<1>8. ASSUME NEW w \in Workers, EmitOutcome(w)
      PROVE  BatchShape'
  BY <1>8 DEF Base, BatchShape, EmitOutcome
<1>9. ASSUME NEW w \in Workers, Work(w)
      PROVE  BatchShape'
  BY <1>1, <1>2, <1>3, <1>4, <1>5, <1>6, <1>8, <1>9
     DEF Work, AlreadyProcessed, Claim, Refuse, AllSucceeded, GiveUp, DeadLetter, OutcomeTold, Restart
<1>10. ASSUME NEW m \in Copies, Send(m) \/ VisibilityExpires(m) \/ BrokerRedrives(m)
       PROVE  BatchShape'
  BY <1>1, <1>10 DEF Send, VisibilityExpires, BrokerRedrives, workerVars
<1>11. CASE UNCHANGED vars
  BY <1>11, <1>1 DEF vars, workerVars
<1> QED BY <1>7, <1>9, <1>10, <1>11 DEF Next

\* Every step keeps the shape of the database.
LEMMA DbStep ==
  ASSUME Base, [Next]_vars
  PROVE  DbShape'
<1>1. CASE UNCHANGED dbVars
  BY <1>1, ShapeFrame DEF Base
<1>2. ASSUME NEW w \in Workers, Commit(w)
      PROVE  DbShape'
  <2>1. Cmd(w) \in Commands /\ next[w] \in Handlers
    BY <1>2, ConsumerAssumption DEF Base, LoopShape, Commit, Cmd
  <2>2. processed' \in SUBSET (Commands \X Handlers)
    BY <1>2, <2>1 DEF Commit, Base, DbShape, DedupeKey
  <2>3. applied' \in [Commands -> [Handlers -> Nat]]
    BY <1>2, <2>1 DEF Commit, Base, DbShape
  <2> QED BY <1>2, <2>2, <2>3 DEF Commit, Base, DbShape
<1>3. ASSUME NEW w \in Workers, EmitOutcome(w)
      PROVE  DbShape'
  <2>1. Cmd(w) \in Commands /\ verdict[w] \in Statuses
    BY <1>3, ConsumerAssumption DEF Base, LoopShape, EmitOutcome, Cmd
  <2>2. PICK k \in Hooks :
          \/ result' = [result EXCEPT ![k][Cmd(w)] = Recorded(k, @, verdict[w])]
          \/ UNCHANGED result
    BY <1>3 DEF EmitOutcome
  <2>3. /\ result \in [Hooks -> [Commands -> Statuses \cup {"none"}]]
        /\ result[k][Cmd(w)] \in Statuses \cup {"none"}
    BY <2>1 DEF Base, DbShape
  <2>4. result' \in [Hooks -> [Commands -> Statuses \cup {"none"}]]
    <3> DEFINE new == Recorded(k, result[k][Cmd(w)], verdict[w])
    <3>1. new \in Statuses \cup {"none"}
      BY <2>1, <2>3, RecordedTyped
    <3>2. result' = [result EXCEPT ![k][Cmd(w)] = new] \/ result' = result
      BY <2>2
    <3> HIDE DEF new
    <3> QED BY <2>1, <2>3, <3>1, <3>2
  <2> QED BY <1>3, <2>4 DEF EmitOutcome, Base, DbShape
<1>4. ASSUME NEW w \in Workers, Work(w) \/ Crash(w)
      PROVE  DbShape'
  BY <1>1, <1>2, <1>3, <1>4
     DEF Work, Receive, Take, AlreadyProcessed, Claim, Throw, Refuse, AllSucceeded, LeaveForRetry,
         GiveUp, DeadLetter, OutcomeTold, Delete, Restart, Crash
<1>5. ASSUME NEW m \in Copies, Send(m) \/ VisibilityExpires(m) \/ BrokerRedrives(m)
      PROVE  DbShape'
  BY <1>1, <1>5 DEF Send, VisibilityExpires, BrokerRedrives
<1>6. CASE UNCHANGED vars
  BY <1>6, <1>1 DEF vars
<1> QED BY <1>4, <1>5, <1>6 DEF Next

\* A step spends a fault only within MaxFaults.
LEMMA FaultsStep ==
  ASSUME Base, [Next]_vars
  PROVE  FaultsBound'
<1>1. CASE UNCHANGED faults
  BY <1>1, ShapeFrame DEF Base
<1>2. CASE Fault
  BY <1>2, ShapeFrame DEF Base
<1>3. ASSUME NEW w \in Workers, EmitOutcome(w)
      PROVE  FaultsBound'
  BY <1>1, <1>2, <1>3 DEF EmitOutcome
<1>4. ASSUME NEW w \in Workers, Work(w) \/ Crash(w)
      PROVE  FaultsBound'
  BY <1>1, <1>2, <1>3, <1>4
     DEF Work, Receive, Take, AlreadyProcessed, Claim, Commit, Throw, Refuse, AllSucceeded,
         LeaveForRetry, GiveUp, DeadLetter, OutcomeTold, Delete, Restart, Crash
<1>5. ASSUME NEW m \in Copies, Send(m) \/ VisibilityExpires(m) \/ BrokerRedrives(m)
      PROVE  FaultsBound'
  BY <1>1, <1>5 DEF Send, VisibilityExpires, BrokerRedrives
<1>6. CASE UNCHANGED vars
  BY <1>6, <1>1 DEF vars
<1> QED BY <1>4, <1>5, <1>6 DEF Next

\* The shape holds initially and is kept by every step.
LEMMA BaseInit == Init => Base
  BY ConsumerAssumption
     DEF Init, Base, BrokerShape, LoopShape, BatchShape, DbShape, FaultsBound, Statuses

LEMMA BaseStep ==
  ASSUME Base, [Next]_vars
  PROVE  Base'
  BY BrokerStep, LoopStep, BatchStep, DbStep, FaultsStep DEF Base

\* Type correctness: the state keeps the shape TypeOK gives it, with receive counts
\* within MaxReceive and handler indexes within the topic's handlers.
THEOREM TypeCorrect == Spec => []TypeOK
<1>1. Base => TypeOK
  BY DEF Base, BrokerShape, LoopShape, BatchShape, DbShape, FaultsBound, TypeOK
<1> QED BY <1>1, BaseInit, BaseStep, PTL DEF Spec

-----------------------------------------------------------------------------
\* The claims survive a step that opens no transaction and commits none.
LEMMA ClaimsFrame ==
  ASSUME Claims, UNCHANGED <<processed, applied>>,
         \A w \in Workers : pc'[w] = "tx" => pc[w] = "tx" /\ cur'[w] = cur[w] /\ next'[w] = next[w]
  PROVE  Claims'
  BY DEF Claims, Cmd, DedupeKey

\* markProcessed is a claim: two transactions never hold the same key, and a key is
\* processed exactly when its write has been made, once.
LEMMA ClaimsStep ==
  ASSUME Base, Claims, [Next]_vars
  PROVE  Claims'
<1>1. LoopShape /\ BatchShape
  BY DEF Base
<1>2. ASSUME NEW w \in Workers, Claim(w)
      PROVE  Claims'
  <2>1. /\ DedupeKey(Cmd(w), next[w]) \notin processed
        /\ \A v \in Workers : pc[v] = "tx" => DedupeKey(Cmd(v), next[v]) # DedupeKey(Cmd(w), next[w])
    BY <1>2 DEF Claim, Claimed
  <2>2. \A v \in Workers : pc'[v] = "tx" => v = w \/ pc[v] = "tx"
    BY <1>1, <1>2 DEF Claim, LoopShape
  <2>3. UNCHANGED <<cur, next, processed, applied>>
    BY <1>2 DEF Claim, dbVars
  <2>4. \A v \in Workers : DedupeKey(Cmd(v), next[v])' = DedupeKey(Cmd(v), next[v])
    BY <2>3 DEF DedupeKey, Cmd
  <2> QED BY <2>1, <2>2, <2>3, <2>4 DEF Claims, DedupeKey
<1>3. ASSUME NEW w \in Workers, Commit(w)
      PROVE  Claims'
  <2> DEFINE key == DedupeKey(Cmd(w), next[w])
  <2>1. /\ Cmd(w) \in Commands /\ next[w] \in Handlers /\ pc[w] = "tx"
        /\ processed' = processed \cup {key}
        /\ applied' = [applied EXCEPT ![Cmd(w)][next[w]] = @ + 1]
        /\ cur' = cur
    BY <1>1, <1>3, ConsumerAssumption DEF Commit, Cmd, LoopShape
  <2>2. \A v \in Workers : pc'[v] = "tx" => v # w /\ pc[v] = "tx" /\ next'[v] = next[v]
    BY <1>1, <1>3 DEF Commit, LoopShape
  <2>3. \A v \in Workers : pc'[v] = "tx" => DedupeKey(Cmd(v), next[v])' = DedupeKey(Cmd(v), next[v])
    BY <2>1, <2>2 DEF DedupeKey, Cmd
  <2>4. \A v \in Workers : pc'[v] = "tx" => DedupeKey(Cmd(v), next[v])' \notin processed'
    <3>1. \A v \in Workers : pc'[v] = "tx" => DedupeKey(Cmd(v), next[v]) # key
      BY <2>1, <2>2 DEF Claims
    <3> QED BY <2>1, <2>2, <2>3, <3>1 DEF Claims
  <2>5. \A u, v \in Workers :
          pc'[u] = "tx" /\ pc'[v] = "tx" /\ DedupeKey(Cmd(u), next[u])' = DedupeKey(Cmd(v), next[v])'
            => u = v
    BY <2>2, <2>3 DEF Claims
  <2>6. ASSUME NEW c \in Commands, NEW h \in Handlers
        PROVE  applied'[c][h] = IF DedupeKey(c, h)' \in processed' THEN 1 ELSE 0
    <3>1. applied \in [Commands -> [Handlers -> Nat]]
      BY DEF Base, DbShape
    <3>2. CASE c = Cmd(w) /\ h = next[w]
      <4>1. applied[c][h] = 0
        BY <2>1, <3>2 DEF Claims, DedupeKey
      <4>2. applied'[c][h] = applied[c][h] + 1
        BY <2>1, <3>1, <3>2
      <4> QED BY <2>1, <3>2, <4>1, <4>2 DEF DedupeKey
    <3>3. CASE c # Cmd(w) \/ h # next[w]
      <4>1. applied'[c][h] = applied[c][h]
        BY <2>1, <3>1, <3>3
      <4>2. DedupeKey(c, h) \in processed' <=> DedupeKey(c, h) \in processed
        BY <2>1, <3>3 DEF DedupeKey
      <4> QED BY <4>1, <4>2 DEF Claims, DedupeKey
    <3> QED BY <3>2, <3>3
  <2> QED BY <2>4, <2>5, <2>6 DEF Claims, DedupeKey
<1>4. ASSUME NEW w \in Workers, Work(w) \/ Crash(w), ~Claim(w), ~Commit(w)
      PROVE  Claims'
  <2>1. UNCHANGED <<processed, applied>>
    BY <1>4
       DEF Work, Receive, Take, AlreadyProcessed, Throw, Refuse, AllSucceeded, LeaveForRetry,
           GiveUp, DeadLetter, EmitOutcome, OutcomeTold, Delete, Restart, Crash, dbVars
  <2>2. ASSUME NEW v \in Workers, pc'[v] = "tx"
        PROVE  pc[v] = "tx" /\ cur'[v] = cur[v] /\ next'[v] = next[v]
    BY <1>1, <1>4, <2>2
       DEF LoopShape, Work, Receive, Take, AlreadyProcessed, Throw, Refuse, AllSucceeded,
           LeaveForRetry, GiveUp, DeadLetter, EmitOutcome, OutcomeTold, Delete, Restart, Crash,
           Done, Handling, AllRan
  <2> QED BY <2>1, <2>2, ClaimsFrame
<1>5. ASSUME NEW m \in Copies, Send(m) \/ VisibilityExpires(m) \/ BrokerRedrives(m)
      PROVE  Claims'
  <2>1. UNCHANGED <<processed, applied, pc, cur, next>>
    BY <1>5 DEF Send, VisibilityExpires, BrokerRedrives, workerVars, dbVars
  <2> QED BY <2>1, ClaimsFrame
<1>6. CASE UNCHANGED vars
  <2>1. UNCHANGED <<processed, applied, pc, cur, next>>
    BY <1>6 DEF vars, workerVars, dbVars
  <2> QED BY <2>1, ClaimsFrame
<1> QED BY <1>2, <1>3, <1>4, <1>5, <1>6 DEF Next

LEMMA ClaimsInit == Init => Claims
  BY DEF Init, Claims

\* However often a command is sent, received, retried or abandoned half way, no
\* handler's write is committed twice.
THEOREM AtMostOnce == Spec => []AppliedAtMostOnce
<1>1. Claims => AppliedAtMostOnce
  BY DEF Claims, AppliedAtMostOnce
<1> QED BY <1>1, BaseInit, BaseStep, ClaimsInit, ClaimsStep, PTL DEF Spec

-----------------------------------------------------------------------------
\* Writes are never undone and a copy that went to the DLQ is not forgotten.
LEMMA Grows ==
  ASSUME Base, [Next]_vars
  PROVE  /\ \A c \in Commands, h \in Handlers : applied[c][h] > 0 => applied'[c][h] > 0
         /\ \A m \in Copies : grave[m] # "none" => grave'[m] # "none"
<1>1. BrokerShape /\ LoopShape /\ DbShape
  BY DEF Base
<1>2. ASSUME NEW w \in Workers, Commit(w)
      PROVE  \A c \in Commands, h \in Handlers : applied[c][h] > 0 => applied'[c][h] > 0
  <2>1. Cmd(w) \in Commands /\ next[w] \in Handlers
    BY <1>1, <1>2, ConsumerAssumption DEF LoopShape, Commit, Cmd
  <2> QED BY <1>1, <1>2, <2>1 DEF Commit, DbShape
<1>3. ASSUME NEW w \in Workers, DeadLetter(w)
      PROVE  \A m \in Copies : grave[m] # "none" => grave'[m] # "none"
  BY <1>1, <1>3 DEF DeadLetter, BrokerShape
<1>4. ASSUME NEW m \in Copies, BrokerRedrives(m)
      PROVE  \A n \in Copies : grave[n] # "none" => grave'[n] # "none"
  BY <1>1, <1>4 DEF BrokerRedrives, BrokerShape
<1>5. (\A w \in Workers : ~Commit(w)) => UNCHANGED applied
  BY DEF Next, vars, Send, VisibilityExpires, BrokerRedrives, Work, Receive, Take, AlreadyProcessed, Claim,
         Throw, Refuse, AllSucceeded, LeaveForRetry, GiveUp, DeadLetter, EmitOutcome, OutcomeTold, Delete,
         Restart, Crash, dbVars
<1>6. (\A w \in Workers : ~DeadLetter(w)) /\ (\A m \in Copies : ~BrokerRedrives(m)) => UNCHANGED grave
  BY DEF Next, vars, Send, VisibilityExpires, Work, Receive, Take, AlreadyProcessed, Claim, Commit,
         Throw, Refuse, AllSucceeded, LeaveForRetry, GiveUp, EmitOutcome, OutcomeTold, Delete, Restart, Crash,
         brokerVars
<1> QED BY <1>2, <1>3, <1>4, <1>5, <1>6

\* A worker's step leaves the other workers where they are.
LEMMA Local ==
  ASSUME Base, NEW w \in Workers, Work(w) \/ Crash(w), NEW v \in Workers, v # w
  PROVE  UNCHANGED <<pc[v], cur[v], next[v], clean[v], verdict[v]>>
<1>1. LoopShape /\ BatchShape
  BY DEF Base
<1> QED
  BY <1>1
     DEF LoopShape, BatchShape, Work, Receive, Take, AlreadyProcessed, Claim, Commit, Throw, Refuse,
         AllSucceeded, LeaveForRetry, GiveUp, DeadLetter, EmitOutcome, OutcomeTold, Delete, Restart, Crash, Done

\* The facts of a worker that did not move survive.
LEMMA FactsFrame ==
  ASSUME Base, [Next]_vars, NEW v \in Workers, Facts(v),
         UNCHANGED <<pc[v], cur[v], next[v], clean[v], verdict[v]>>
  PROVE  Facts(v)'
<1>1. pc[v] \notin {"down", "poll"} => cur[v] \in Copies /\ Cmd(v) \in Commands
  BY ConsumerAssumption DEF Base, LoopShape, Cmd
<1>2. UNCHANGED Cmd(v)
  BY DEF Cmd
<1> QED BY <1>1, <1>2, Grows DEF Facts, AllApplied, Handlers

\* The facts of a worker survive its own step.
LEMMA FactsStep ==
  ASSUME Base, Claims, NEW w \in Workers, Work(w) \/ Crash(w), Facts(w), Base', [Next]_vars
  PROVE  Facts(w)'
<1> USE ConsumerAssumption
<1>1. LoopShape /\ BatchShape /\ DbShape /\ BrokerShape
  BY DEF Base
<1>2. ASSUME Receive(w)
      PROVE  Facts(w)'
  BY <1>1, <1>2 DEF Receive, Facts
<1>3. ASSUME Take(w)
      PROVE  Facts(w)'
  BY <1>1, <1>3 DEF Take, Facts, LoopShape, BatchShape, Batch, Handlers
<1>4. ASSUME AlreadyProcessed(w)
      PROVE  Facts(w)'
  <2>1. Cmd(w) \in Commands /\ next[w] \in Handlers
    BY <1>1, <1>4 DEF AlreadyProcessed, Handling, LoopShape, Cmd
  <2>2. applied[Cmd(w)][next[w]] > 0
    BY <1>4, <2>1 DEF AlreadyProcessed, Claims
  <2>3. /\ UNCHANGED <<pc, cur, clean, applied>> /\ Cmd(w)' = Cmd(w)
        /\ next'[w] = next[w] + 1 /\ pc[w] = "handle"
    BY <1>1, <1>4 DEF AlreadyProcessed, Handling, LoopShape, dbVars, Cmd
  <2>4. \A h \in Handlers : h < next'[w] => h < next[w] \/ h = next[w]
    BY <2>1, <2>3 DEF Handlers
  <2> QED BY <2>2, <2>3, <2>4 DEF Facts
<1>5. ASSUME Claim(w)
      PROVE  Facts(w)'
  BY <1>1, <1>5 DEF Claim, Handling, Facts, LoopShape, Cmd, dbVars
<1>6. ASSUME Commit(w)
      PROVE  Facts(w)'
  <2>1. Cmd(w) \in Commands /\ next[w] \in Handlers
    BY <1>1, <1>6 DEF Commit, LoopShape, Cmd
  <2>2. applied'[Cmd(w)][next[w]] > 0
    BY <1>1, <1>6, <2>1 DEF Commit, DbShape
  <2>3. /\ pc'[w] = "handle" /\ pc[w] = "tx" /\ Cmd(w)' = Cmd(w)
        /\ next'[w] = next[w] + 1
        /\ clean'[w] => clean[w]
    BY <1>1, <1>6 DEF Commit, LoopShape, BatchShape, Cmd
  <2>4. \A h \in Handlers : h < next'[w] => h < next[w] \/ h = next[w]
    BY <2>1, <2>3 DEF Handlers
  <2> QED BY <2>1, <2>2, <2>3, <2>4, Grows DEF Facts
<1>7. ASSUME Throw(w)
      PROVE  Facts(w)'
  BY <1>1, <1>7 DEF Throw, Facts, LoopShape, BatchShape
<1>8. ASSUME Refuse(w)
      PROVE  Facts(w)'
  BY <1>1, <1>8 DEF Refuse, Facts, LoopShape
<1>9. ASSUME AllSucceeded(w)
      PROVE  Facts(w)'
  <2>1. \A h \in Handlers : h < next[w]
    BY <1>1, <1>9 DEF AllSucceeded, AllRan, Handlers, LoopShape
  <2>2. AllApplied(Cmd(w))
    BY <1>9, <2>1 DEF AllSucceeded, AllRan, Facts, AllApplied
  <2>3. /\ pc'[w] = "emit" /\ verdict'[w] = "succeeded" /\ UNCHANGED <<applied, cur>>
    BY <1>1, <1>9 DEF AllSucceeded, LoopShape, dbVars
  <2> QED BY <2>2, <2>3 DEF Facts, AllApplied, Cmd
<1>10. ASSUME LeaveForRetry(w) \/ Delete(w)
       PROVE  Facts(w)'
  <2>1. pc'[w] = "poll"
    BY <1>1, <1>10 DEF LeaveForRetry, Delete, Done, LoopShape
  <2> QED BY <2>1 DEF Facts
<1>11. ASSUME GiveUp(w)
       PROVE  Facts(w)'
  BY <1>1, <1>11 DEF GiveUp, AllRan, Facts, LoopShape
<1>12. ASSUME DeadLetter(w)
       PROVE  Facts(w)'
  <2>1. /\ cur[w] \in Copies /\ verdict[w] # "succeeded" /\ UNCHANGED <<cur, verdict>>
        /\ pc'[w] \in {"delete", "emit"}
    BY <1>1, <1>12 DEF DeadLetter, LoopShape, Facts
  <2>2. grave'[cur[w]] # "none"
    BY <1>1, <1>12, <2>1 DEF DeadLetter, BrokerShape
  <2> QED BY <2>1, <2>2 DEF Facts
<1>13. ASSUME EmitOutcome(w) \/ OutcomeTold(w)
       PROVE  Facts(w)'
  BY <1>1, <1>13 DEF EmitOutcome, OutcomeTold, dbVars, Facts, LoopShape, brokerVars, AllApplied, Cmd
<1>14. ASSUME Crash(w) \/ Restart(w)
       PROVE  Facts(w)'
  <2>1. pc'[w] \in {"down", "poll"}
    BY <1>1, <1>14 DEF Crash, Restart, LoopShape
  <2> QED BY <2>1 DEF Facts
<1> QED
  BY <1>2, <1>3, <1>4, <1>5, <1>6, <1>7, <1>8, <1>9, <1>10, <1>11, <1>12, <1>13, <1>14 DEF Work

\* A stored success stays true, and a new one is only stored of finished work.
LEMMA SucceededStep ==
  ASSUME Base, Ledger, [Next]_vars
  PROVE  SucceededIsTrue'
<1> SUFFICES ASSUME NEW k \in Hooks, NEW c \in Commands, result'[k][c] = "succeeded"
             PROVE  AllApplied(c)'
  BY DEF SucceededIsTrue
<1>1. AllApplied(c) => AllApplied(c)'
  BY Grows DEF AllApplied, Handlers
<1>2. CASE result[k][c] = "succeeded"
  BY <1>1, <1>2 DEF Ledger, SucceededIsTrue
<1>3. CASE result[k][c] # "succeeded"
  <2>1. PICK w \in Workers : EmitOutcome(w)
    BY <1>3
       DEF Next, vars, Send, VisibilityExpires, BrokerRedrives, Work, Receive, Take, AlreadyProcessed,
           Claim, Commit, Throw, Refuse, AllSucceeded, LeaveForRetry, GiveUp, DeadLetter, OutcomeTold, Delete,
           Restart, Crash, dbVars
  <2>2. PICK j \in Hooks :
          \/ result' = [result EXCEPT ![j][Cmd(w)] = Recorded(j, @, verdict[w])]
          \/ UNCHANGED result
    BY <2>1 DEF EmitOutcome
  <2>3. result \in [Hooks -> [Commands -> Statuses \cup {"none"}]]
    BY DEF Base, DbShape
  <2>4. c = Cmd(w) /\ Recorded(k, result[k][c], verdict[w]) = "succeeded"
    BY <1>3, <2>2, <2>3
  <2>5. verdict[w] = "succeeded"
    BY <1>3, <2>4 DEF Recorded
  <2>6. AllApplied(Cmd(w))
    BY <2>1, <2>5 DEF EmitOutcome, Ledger, Facts
  <2> QED BY <1>1, <2>4, <2>6
<1> QED BY <1>2, <1>3

\* A copy leaves the queue in a delete that follows its work or its dead-lettering,
\* or by the broker's own redrive.
LEMMA VanishStep ==
  ASSUME Base, Ledger, [Next]_vars
  PROVE  NothingVanishes'
<1> SUFFICES ASSUME NEW m \in Copies, place'[m] = "gone"
             PROVE  AllApplied(CommandOf[m])' \/ grave'[m] # "none"
  BY DEF NothingVanishes
<1>1. CommandOf[m] \in Commands
  BY ConsumerAssumption
<1>2. AllApplied(CommandOf[m]) \/ grave[m] # "none" => AllApplied(CommandOf[m])' \/ grave'[m] # "none"
  BY <1>1, Grows DEF AllApplied, Handlers
<1>3. CASE place[m] = "gone"
  BY <1>2, <1>3 DEF Ledger, NothingVanishes
<1>4. ASSUME place[m] # "gone", NEW w \in Workers, Delete(w)
      PROVE  AllApplied(CommandOf[m])' \/ grave'[m] # "none"
  <2>1. cur[w] = m
    BY <1>4 DEF Delete, Base, BrokerShape
  <2> QED BY <1>2, <1>4, <2>1 DEF Delete, Ledger, Facts, Cmd
<1>5. ASSUME NEW n \in Copies, Send(n)
      PROVE  AllApplied(CommandOf[m])' \/ grave'[m] # "none"
  BY <1>3, <1>5 DEF Send, Base, BrokerShape
<1>6. ASSUME NEW n \in Copies, BrokerRedrives(n)
      PROVE  AllApplied(CommandOf[m])' \/ grave'[m] # "none"
  BY <1>3, <1>6 DEF BrokerRedrives, Base, BrokerShape
<1>7. CASE UNCHANGED place
  BY <1>3, <1>7
<1> QED
  BY <1>3, <1>4, <1>5, <1>6, <1>7
     DEF Next, vars, VisibilityExpires, Work, Receive, Take, AlreadyProcessed, Claim, Commit, Throw,
         Refuse, AllSucceeded, LeaveForRetry, GiveUp, DeadLetter, EmitOutcome, OutcomeTold, Restart, Crash,
         brokerVars

LEMMA LedgerStep ==
  ASSUME Base, Claims, Ledger, [Next]_vars
  PROVE  Ledger'
<1>1. Base'
  BY BaseStep
<1>2. ASSUME NEW v \in Workers
      PROVE  Facts(v)'
  <2>1. Facts(v)
    BY DEF Ledger
  <2>2. ASSUME NEW w \in Workers, Work(w) \/ Crash(w)
        PROVE  Facts(v)'
    <3>1. CASE v = w
      BY <1>1, <2>1, <2>2, <3>1, FactsStep
    <3>2. CASE v # w
      BY <2>1, <2>2, <3>2, Local, FactsFrame
    <3> QED BY <3>1, <3>2
  <2>3. CASE UNCHANGED workerVars
    BY <2>1, <2>3, FactsFrame DEF workerVars
  <2> QED
    BY <2>2, <2>3 DEF Next, Send, VisibilityExpires, BrokerRedrives, vars
<1> QED BY <1>2, SucceededStep, VanishStep DEF Ledger

LEMMA LedgerInit == Init => Ledger
  BY DEF Init, Ledger, Facts, SucceededIsTrue, NothingVanishes

-----------------------------------------------------------------------------
\* IInv is an inductive invariant of the consumer.
THEOREM Invariant == Spec => []IInv
  BY BaseInit, ClaimsInit, LedgerInit, BaseStep, ClaimsStep, LedgerStep, PTL DEF Spec, IInv

\* A stored "succeeded" is backed by every handler's write, whichever workers and
\* receives made them.
THEOREM SucceededTrue == Spec => []SucceededIsTrue
  BY Invariant, PTL DEF IInv, Ledger

\* No copy leaves the queue before its work is done or it was handed to the DLQ.
THEOREM NoneVanishes == Spec => []NothingVanishes
  BY Invariant, PTL DEF IInv, Ledger

-----------------------------------------------------------------------------
\* A commit is the contract's Apply: the claim guarantees it is the first.
LEMMA CommitApplies ==
  ASSUME Base, Claims, NEW w \in Workers, Commit(w)
  PROVE  Contract!Next
<1>1. Cmd(w) \in Commands /\ next[w] \in Handlers /\ pc[w] = "tx"
  BY ConsumerAssumption DEF Base, LoopShape, Commit, Cmd
<1>2. applied[Cmd(w)][next[w]] = 0
  BY <1>1 DEF Claims
<1>3. applied' = [applied EXCEPT ![Cmd(w)][next[w]] = 1]
  BY <1>1, <1>2 DEF Commit, Base, DbShape
<1>4. UNCHANGED result
  BY DEF Commit
<1>5. Contract!Apply(Cmd(w), next[w])
  BY <1>2, <1>3, <1>4 DEF Contract!Apply
<1> QED BY <1>1, <1>5 DEF Contract!Next

\* An emission is the contract's Report to the one hook it tells, if that does not fail
\* and its table still takes the outcome.
LEMMA EmissionReports ==
  ASSUME Base, Claims, Ledger, NEW w \in Workers, EmitOutcome(w)
  PROVE  [Contract!Next]_(Contract!vars)
<1> DEFINE c == Cmd(w)
           s == verdict[w]
<1>1. c \in Commands /\ s \in Statuses /\ pc[w] = "emit"
  BY ConsumerAssumption DEF Base, LoopShape, EmitOutcome, Cmd
<1>2. PICK h \in Hooks :
        \/ result' = [result EXCEPT ![h][c] = Recorded(h, @, s)]
        \/ UNCHANGED result
  BY DEF EmitOutcome
<1>3. UNCHANGED applied
  BY DEF EmitOutcome
<1>4. s = "succeeded" => \A i \in Handlers : applied[c][i] = 1
  <2>1. s = "succeeded" => AllApplied(c)
    BY <1>1 DEF Ledger, Facts
  <2> QED BY <1>1, <2>1 DEF AllApplied, Claims
<1>5. result \in [Hooks -> [Commands -> Statuses \cup {"none"}]]
  BY DEF Base, DbShape
<1>6. \/ UNCHANGED result
      \/ Contract!Open(h, c) /\ result' = [result EXCEPT ![h][c] = s]
  <2>1. CASE Contract!Open(h, c)
    <3>1. Recorded(h, result[h][c], s) = s
      BY <2>1 DEF Recorded, Contract!Open
    <3> QED BY <1>2, <1>5, <2>1, <3>1
  <2>2. CASE ~Contract!Open(h, c)
    <3>1. Recorded(h, result[h][c], s) = result[h][c]
      BY <2>2 DEF Recorded, Contract!Open
    <3> QED BY <1>1, <1>2, <1>5, <3>1
  <2> QED BY <2>1, <2>2
<1>7. CASE UNCHANGED result
  BY <1>3, <1>7 DEF Contract!vars
<1>8. CASE Contract!Open(h, c) /\ result' = [result EXCEPT ![h][c] = s]
  <2>1. {h} \in SUBSET { k \in Hooks : Contract!Open(k, c) }
    BY <1>8
  <2>2. result' = [k \in Hooks |-> IF k \in {h} THEN [result[k] EXCEPT ![c] = s] ELSE result[k]]
    BY <1>5, <1>8
  <2>3. Contract!Report(c, s)
    BY <1>3, <1>4, <2>1, <2>2 DEF Contract!Report
  <2> QED BY <1>1, <2>3 DEF Contract!Next, Statuses
<1> QED BY <1>6, <1>7, <1>8

\* Every step of the consumer is a step of the contract or changes none of it.
LEMMA ContractStep ==
  ASSUME Base, Claims, Ledger, [Next]_vars
  PROVE  [Contract!Next]_(Contract!vars)
<1>1. CASE \E w \in Workers : Commit(w)
  BY <1>1, CommitApplies
<1>2. CASE \E w \in Workers : EmitOutcome(w)
  BY <1>2, EmissionReports
<1>3. CASE ~(\E w \in Workers : Commit(w) \/ EmitOutcome(w))
  <2>1. UNCHANGED <<applied, result>>
    BY <1>3
       DEF Next, vars, Send, VisibilityExpires, BrokerRedrives, Work, Receive, Take, AlreadyProcessed,
           Claim, Throw, Refuse, AllSucceeded, LeaveForRetry, GiveUp, DeadLetter, OutcomeTold, Delete,
           Restart, Crash, dbVars
  <2> QED BY <2>1 DEF Contract!vars
<1> QED BY <1>1, <1>2, <1>3

\* The consumer implements the contract its callers rely on: writes at most once,
\* a reported success only of finished work, reports only ever improved.
THEOREM Refinement == Spec => ImplementsContract
<1>1. Init => Contract!Init
  BY DEF Init, Contract!Init
<1>2. Base /\ Claims /\ Ledger /\ [Next]_vars => [Contract!Next]_(Contract!vars)
  BY ContractStep
<1> QED BY <1>1, <1>2, Invariant, PTL DEF Spec, IInv, ImplementsContract, Contract!Spec
=============================================================================
