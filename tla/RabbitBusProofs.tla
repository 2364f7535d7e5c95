---------------------------- MODULE RabbitBusProofs ----------------------------
(***************************************************************************)
(* Theorems of RabbitBus, for any services, messages, attempts and faults. *)
(***************************************************************************)
EXTENDS RabbitBus, TLAPS

\* What a service holds reached it through its own queue, and what it is about to
\* reject it has given up on.
Held ==
  \A s \in Services, c \in Copy : Has(s, c) =>
    /\ s \in bound
    /\ c.stage = "rejected" => c.msg \in gaveUp[s]
    /\ c.stage = "resend" => c.count < MaxRetries

\* A message neither settled nor in the DLQ has a copy whose settlement would not end it:
\* one that is acked has either been handled or been republished first.
Alive ==
  \A s \in Services : \A m \in reached[s] \ (done[s] \cup (gaveUp[s] \cap dlq[s])) :
    \E c \in Copy : c.msg = m /\ c.stage # "acked" /\ Has(s, c)

\* Before it is routed a message is nowhere.
Fresh ==
  \A m \in Msgs : m \in wire \/ m \notin sent =>
    \A s \in Services :
      /\ runs[s][m] = 0
      /\ \A c \in Copy : c.msg = m => ~Has(s, c)

\* The handler runs a copy accounts for.
RunsOf(c) == IF c.stage \in {"ready", "parked"} THEN c.count - 1 ELSE c.count

\* A message that no fault met has one copy beside those that are acked, and the count
\* on it is the number of runs so far.
Single ==
  \A s \in Services : \A m \in Msgs \ disturbed[s] :
    /\ runs[s][m] <= MaxRetries
    /\ \A c \in Copy : c.msg = m /\ c.stage # "acked" /\ Has(s, c) =>
         /\ copies[s][c] = 1
         /\ c.stage # "requeued"
         /\ runs[s][m] = RunsOf(c)
         /\ \A d \in Copy : d.msg = m /\ d.stage # "acked" /\ Has(s, d) => d = c

IInv == Held /\ Alive /\ Fresh /\ Single

-----------------------------------------------------------------------------
\* A copy at another stage is a copy of the same message and attempt.
LEMMA CopyAt ==
  ASSUME NEW c \in Copy, NEW stage \in Stages
  PROVE  /\ At(c, stage) \in Copy
         /\ At(c, stage).msg = c.msg /\ At(c, stage).count = c.count
         /\ At(c, stage).stage = stage
BY DEF Copy, At

\* A republished copy is one attempt further, and parked.
LEMMA CopyNext ==
  ASSUME NEW c \in Copy, c.count < MaxRetries
  PROVE  /\ NextAttempt(c) \in Copy
         /\ NextAttempt(c).msg = c.msg /\ NextAttempt(c).count = c.count + 1
         /\ NextAttempt(c).stage = "parked"
BY RabbitAssumption DEF Copy, NextAttempt, Counts, Stages

\* What a copy is made of.
LEMMA CopyType ==
  ASSUME NEW c \in Copy
  PROVE  c.msg \in Msgs /\ c.count \in 1..MaxRetries /\ c.stage \in Stages
BY DEF Copy, Counts

\* A move takes one copy away and adds one.
LEMMA Moved ==
  ASSUME copies \in [Services -> [Copy -> Nat]],
         NEW s \in Services, NEW c \in Copy, NEW to \in Copy, c # to, Has(s, c), Move(s, c, to)
  PROVE  /\ copies' \in [Services -> [Copy -> Nat]]
         /\ \A r \in Services, d \in Copy : copies'[r][d] =
              IF r = s /\ d = c THEN copies[s][c] - 1
              ELSE IF r = s /\ d = to THEN copies[s][to] + 1 ELSE copies[r][d]
BY DEF Has, Move

\* Dropping a copy takes it away.
LEMMA Dropped ==
  ASSUME copies \in [Services -> [Copy -> Nat]],
         NEW s \in Services, NEW c \in Copy, Has(s, c), Drop(s, c)
  PROVE  /\ copies' \in [Services -> [Copy -> Nat]]
         /\ \A r \in Services, d \in Copy : copies'[r][d] =
              IF r = s /\ d = c THEN copies[s][c] - 1 ELSE copies[r][d]
BY DEF Has, Drop

\* A republication settles the copy it came from and parks the next attempt.
LEMMA Resent ==
  ASSUME copies \in [Services -> [Copy -> Nat]],
         NEW s \in Services, NEW c \in Copy, NEW a \in Copy, NEW n \in Copy,
         c # a, c # n, a # n, Has(s, c),
         copies' = [copies EXCEPT ![s][c] = @ - 1, ![s][a] = @ + 1, ![s][n] = @ + 1]
  PROVE  /\ copies' \in [Services -> [Copy -> Nat]]
         /\ \A r \in Services, d \in Copy : copies'[r][d] =
              IF r = s /\ d = c THEN copies[s][c] - 1
              ELSE IF r = s /\ d \in {a, n} THEN copies[s][d] + 1 ELSE copies[r][d]
BY DEF Has

\* Alive is kept if every copy that was not acked leaves another one, or its message settled.
LEMMA AliveKept ==
  ASSUME Alive, UNCHANGED reached,
         \A s \in Services : done[s] \subseteq done'[s],
         \A s \in Services : gaveUp[s] \subseteq gaveUp'[s],
         \A s \in Services : dlq[s] \subseteq dlq'[s],
         \A s \in Services, c \in Copy : c.stage # "acked" /\ Has(s, c) =>
           \/ c.msg \in done'[s] \cup (gaveUp'[s] \cap dlq'[s])
           \/ \E d \in Copy : d.msg = c.msg /\ d.stage # "acked" /\ copies'[s][d] > 0
  PROVE  Alive'
<1> SUFFICES ASSUME NEW s \in Services,
                    NEW m \in reached'[s] \ (done'[s] \cup (gaveUp'[s] \cap dlq'[s]))
             PROVE  \E c \in Copy : c.msg = m /\ c.stage # "acked" /\ copies'[s][c] > 0
  BY DEF Alive, Has
<1>1. PICK c \in Copy : c.msg = m /\ c.stage # "acked" /\ Has(s, c)
  BY DEF Alive
<1> QED
  BY <1>1

-----------------------------------------------------------------------------
\* The steps of the publisher and of start().
LEMMA PublishInv ==
  ASSUME TypeOK, IInv, NEW m \in Msgs, Publish(m)
  PROVE  TypeOK' /\ IInv'
<1>1. TypeOK'
  BY DEF TypeOK, Publish
<1>2. Held' /\ Alive' /\ Single'
  BY DEF IInv, Held, Alive, Single, Publish, Has
<1>3. Fresh'
  BY DEF IInv, Fresh, Publish, Has
<1> QED
  BY <1>1, <1>2, <1>3 DEF IInv

LEMMA FrameLostInv ==
  ASSUME TypeOK, IInv, NEW m \in Msgs, FrameLost(m)
  PROVE  TypeOK' /\ IInv'
<1>1. TypeOK'
  BY RabbitAssumption DEF TypeOK, FrameLost, Fault
<1>2. Held' /\ Alive' /\ Single'
  BY DEF IInv, Held, Alive, Single, FrameLost, Has
<1>3. Fresh'
  BY DEF IInv, Fresh, FrameLost, Has
<1> QED
  BY <1>1, <1>2, <1>3 DEF IInv

LEMMA StartInv ==
  ASSUME TypeOK, IInv, NEW s \in Services, Declare(s) \/ Consume(s)
  PROVE  TypeOK' /\ IInv'
<1>1. TypeOK'
  BY DEF TypeOK, Declare, Consume, brokerVars, historyVars
<1>2. Held' /\ Alive' /\ Single' /\ Fresh'
  BY DEF IInv, Held, Alive, Single, Fresh, Declare, Consume, Has, brokerVars, historyVars
<1> QED
  BY <1>1, <1>2 DEF IInv

\* Routing gives every bound service the one copy of a message that had none.
LEMMA RouteInv ==
  ASSUME TypeOK, IInv, NEW m \in Msgs, Route(m)
  PROVE  TypeOK' /\ IInv'
<1> DEFINE first == [msg |-> m, count |-> 1, stage |-> "ready"]
<1>1. first \in Copy
  BY RabbitAssumption DEF Copy, Counts, Stages
<1>2. /\ m \in wire /\ m \in sent
      /\ \A s \in Services : runs[s][m] = 0 /\ \A c \in Copy : c.msg = m => copies[s][c] = 0
  BY DEF TypeOK, IInv, Fresh, Route, Has
<1>3. /\ copies' \in [Services -> [Copy -> Nat]]
      /\ \A s \in Services, c \in Copy :
           copies'[s][c] = IF s \in bound /\ c = first THEN 1 ELSE copies[s][c]
  BY <1>1, <1>2 DEF TypeOK, Route
<1>4. TypeOK'
  BY <1>3 DEF TypeOK, Route
<1>5. Held'
  BY <1>3 DEF IInv, Held, Route, Has
<1>6. Alive'
  <2> SUFFICES ASSUME NEW s \in Services,
                      NEW x \in reached'[s] \ (done'[s] \cup (gaveUp'[s] \cap dlq'[s]))
               PROVE  \E c \in Copy : c.msg = x /\ c.stage # "acked" /\ copies'[s][c] > 0
    BY DEF Alive, Has
  <2>1. CASE x = m /\ s \in bound
    BY <1>1, <1>3, <2>1
  <2>2. CASE ~(x = m /\ s \in bound)
    <3>1. x \in reached[s] \ (done[s] \cup (gaveUp[s] \cap dlq[s]))
      BY <2>2 DEF Route, TypeOK
    <3>2. PICK c \in Copy : c.msg = x /\ c.stage # "acked" /\ Has(s, c)
      BY <3>1 DEF IInv, Alive
    <3>3. copies'[s][c] > 0
      BY <1>3, <3>2 DEF Has
    <3> QED
      BY <3>2, <3>3
  <2> QED
    BY <2>1, <2>2
<1>7. Fresh'
  BY <1>2, <1>3 DEF IInv, Fresh, Route, Has
<1>8. Single'
  <2> SUFFICES ASSUME NEW s \in Services, NEW x \in Msgs \ disturbed[s]
               PROVE  /\ runs[s][x] <= MaxRetries
                      /\ \A c \in Copy : c.msg = x /\ c.stage # "acked" /\ copies'[s][c] > 0 =>
                           /\ copies'[s][c] = 1
                           /\ c.stage # "requeued"
                           /\ runs[s][x] = RunsOf(c)
                           /\ \A d \in Copy :
                                d.msg = x /\ d.stage # "acked" /\ copies'[s][d] > 0 => d = c
    BY DEF Single, Has, Route
  <2>1. CASE x = m
    BY <1>2, <1>3, <2>1, RabbitAssumption DEF RunsOf
  <2>2. CASE x # m
    <3>1. \A c \in Copy : c.msg = x => copies'[s][c] = copies[s][c]
      BY <1>3, <2>2
    <3> QED
      BY <3>1 DEF IInv, Single, Has
  <2> QED
    BY <2>1, <2>2
<1> QED
  BY <1>4, <1>5, <1>6, <1>7, <1>8 DEF IInv

-----------------------------------------------------------------------------
\* The steps that take one copy from a stage to the next. What differs is what the
\* stage says of the message, and whether the step counts as a run.
LEMMA HopInv ==
  ASSUME TypeOK, IInv, TypeOK',
         NEW s \in Services, NEW c \in Copy, Has(s, c), NEW stage \in Stages,
         c.stage # "acked", stage # c.stage, stage # "requeued",
         Move(s, c, At(c, stage)),
         UNCHANGED <<wire, bound, dlq, listening, sent, reached, disturbed>>,
         \A r \in Services : done[r] \subseteq done'[r] /\ gaveUp[r] \subseteq gaveUp'[r],
         stage = "rejected" => c.msg \in gaveUp'[s],
         stage = "resend" => c.count < MaxRetries,
         stage = "acked" => c.msg \in done'[s],
         \A r \in Services, m \in Msgs : runs'[r][m] # runs[r][m] => r = s /\ m = c.msg,
         c.msg \notin disturbed[s] =>
           runs'[s][c.msg] = IF stage = "acked" THEN runs[s][c.msg] ELSE RunsOf(At(c, stage))
  PROVE  IInv'
<1> DEFINE to == At(c, stage)
<1>1. /\ to \in Copy /\ to.msg = c.msg /\ to.count = c.count /\ to.stage = stage /\ to # c
      /\ c.msg \in Msgs
  BY CopyAt, CopyType
<1> HIDE DEF to
<1>2. \A r \in Services, d \in Copy : copies'[r][d] =
        IF r = s /\ d = c THEN copies[s][c] - 1
        ELSE IF r = s /\ d = to THEN copies[s][to] + 1 ELSE copies[r][d]
  BY <1>1, Moved DEF TypeOK, to
<1>3. copies \in [Services -> [Copy -> Nat]] /\ copies' \in [Services -> [Copy -> Nat]]
  BY DEF TypeOK
<1>4. \A r \in Services, d \in Copy : copies'[r][d] > 0 => Has(r, d) \/ (r = s /\ d = to)
  BY <1>2, <1>3 DEF Has
<1>5. Held'
  <2> SUFFICES ASSUME NEW r \in Services, NEW d \in Copy, copies'[r][d] > 0
               PROVE  /\ r \in bound
                      /\ d.stage = "rejected" => d.msg \in gaveUp'[r]
                      /\ d.stage = "resend" => d.count < MaxRetries
    BY DEF Held, Has
  <2>1. CASE Has(r, d)
    BY <2>1 DEF IInv, Held
  <2>2. CASE r = s /\ d = to
    BY <1>1, <2>2 DEF IInv, Held
  <2> QED
    BY <1>4, <2>1, <2>2
<1>6. Alive'
  <2>1. ASSUME NEW r \in Services, NEW d \in Copy, d.stage # "acked", Has(r, d)
        PROVE  \/ d.msg \in done'[r] \cup (gaveUp'[r] \cap dlq'[r])
               \/ \E e \in Copy : e.msg = d.msg /\ e.stage # "acked" /\ copies'[r][e] > 0
    <3>1. CASE r = s /\ d = c
      <4>1. copies'[s][to] > 0
        BY <1>1, <1>2, <1>3
      <4> QED
        BY <1>1, <3>1, <4>1
    <3>2. CASE ~(r = s /\ d = c)
      <4>1. copies'[r][d] > 0
        BY <1>2, <1>3, <2>1, <3>2 DEF Has
      <4> QED
        BY <2>1, <4>1
    <3> QED
      BY <3>1, <3>2
  <2> QED
    BY <2>1, AliveKept DEF IInv
<1>7. Fresh'
  <2> SUFFICES ASSUME NEW m \in Msgs, m \in wire \/ m \notin sent, NEW r \in Services
               PROVE  runs'[r][m] = 0 /\ \A d \in Copy : d.msg = m => ~(copies'[r][d] > 0)
    BY DEF Fresh, Has
  <2>1. runs[r][m] = 0 /\ \A d \in Copy : d.msg = m => ~Has(r, d)
    BY DEF IInv, Fresh
  <2>2. ~(r = s /\ m = c.msg)
    BY <2>1
  <2> QED
    BY <1>1, <1>4, <2>1, <2>2
<1>8. Single'
  <2> SUFFICES ASSUME NEW r \in Services, NEW m \in Msgs \ disturbed[r]
               PROVE  /\ runs'[r][m] <= MaxRetries
                      /\ \A d \in Copy : d.msg = m /\ d.stage # "acked" /\ copies'[r][d] > 0 =>
                           /\ copies'[r][d] = 1
                           /\ d.stage # "requeued"
                           /\ runs'[r][m] = RunsOf(d)
                           /\ \A e \in Copy :
                                e.msg = m /\ e.stage # "acked" /\ copies'[r][e] > 0 => e = d
    BY DEF Single, Has
  <2>1. CASE ~(r = s /\ m = c.msg)
    <3>1. runs'[r][m] = runs[r][m]
      BY <2>1
    <3>2. \A d \in Copy : d.msg = m => copies'[r][d] = copies[r][d]
      BY <1>1, <1>2, <2>1
    <3> QED
      BY <3>1, <3>2 DEF IInv, Single, Has
  <2>2. CASE r = s /\ m = c.msg
    <3>1. /\ copies[s][c] = 1 /\ c.stage # "requeued" /\ runs[s][m] <= MaxRetries
          /\ \A d \in Copy : d.msg = m /\ d.stage # "acked" /\ Has(s, d) => d = c
      BY <2>2 DEF IInv, Single
    <3>2. \A d \in Copy : d.msg = m /\ d.stage # "acked" /\ copies'[s][d] > 0 => d = to
      BY <1>2, <1>3, <1>4, <3>1
    <3>3. stage # "acked" => copies'[s][to] = 1
      BY <1>1, <1>2, <1>3, <2>2, <3>1 DEF Has
    <3>4. stage # "requeued" /\ runs'[s][m] <= MaxRetries
      <4>1. RunsOf(to) <= MaxRetries
        BY <1>1, CopyType, RabbitAssumption DEF RunsOf
      <4> QED
        BY <2>2, <3>1, <4>1 DEF to
    <3>5. stage # "acked" => runs'[s][m] = RunsOf(to)
      BY <2>2 DEF to
    <3> QED
      BY <1>1, <2>2, <3>2, <3>3, <3>4, <3>5
  <2> QED
    BY <2>1, <2>2
<1> QED
  BY <1>5, <1>6, <1>7, <1>8 DEF IInv

\* What a copy in the state says of the runs of a message no fault has met.
LEMMA Counted ==
  ASSUME IInv, NEW s \in Services, NEW c \in Copy, Has(s, c), c.stage # "acked",
         c.msg \notin disturbed[s]
  PROVE  runs[s][c.msg] = RunsOf(c) /\ c.stage # "requeued"
BY CopyType DEF IInv, Single

LEMMA DeliverInv ==
  ASSUME TypeOK, IInv, NEW s \in Services, NEW c \in Copy, Deliver(s, c)
  PROVE  TypeOK' /\ IInv'
<1>1. /\ c.stage = "ready" /\ Has(s, c) /\ Move(s, c, At(c, "held"))
      /\ runs' = [runs EXCEPT ![s][c.msg] = IF @ > MaxRetries THEN @ ELSE @ + 1]
      /\ UNCHANGED <<wire, bound, dlq, listening, sent, reached, done, gaveUp, disturbed, faults>>
  BY DEF Deliver
<1>2. c.msg \in Msgs /\ c.count \in 1..MaxRetries /\ "held" \in Stages
  BY CopyType DEF Stages, InHand
<1>3. At(c, "held") \in Copy /\ At(c, "held") # c /\ At(c, "held").count = c.count
      /\ At(c, "held").stage = "held"
  BY <1>1, <1>2, CopyAt
<1>4. copies' \in [Services -> [Copy -> Nat]]
  BY <1>1, <1>3, Moved DEF TypeOK
<1>5. TypeOK'
  <2>1. runs' \in [Services -> [Msgs -> 0..(MaxRetries + 1)]]
    <3>1. runs[s][c.msg] \in 0..(MaxRetries + 1)
      BY <1>2 DEF TypeOK
    <3>2. (IF runs[s][c.msg] > MaxRetries THEN runs[s][c.msg] ELSE runs[s][c.msg] + 1)
            \in 0..(MaxRetries + 1)
      BY <3>1, RabbitAssumption
    <3> QED
      BY <1>1, <1>2, <3>2 DEF TypeOK
  <2> QED
    BY <1>1, <1>4, <2>1 DEF TypeOK
<1>6. c.msg \notin disturbed[s] => runs'[s][c.msg] = RunsOf(At(c, "held"))
  <2>1. c.msg \notin disturbed[s] => runs[s][c.msg] = c.count - 1
    BY <1>1, Counted DEF RunsOf
  <2> QED
    BY <1>1, <1>2, <1>3, <2>1, RabbitAssumption DEF RunsOf, TypeOK
<1>7. \A r \in Services, m \in Msgs : runs'[r][m] # runs[r][m] => r = s /\ m = c.msg
  BY <1>1 DEF TypeOK
<1> QED
  BY <1>1, <1>2, <1>5, <1>6, <1>7, HopInv

LEMMA OutcomeInv ==
  ASSUME TypeOK, IInv, NEW s \in Services, NEW c \in Copy, Outcome(s, c)
  PROVE  TypeOK' /\ IInv'
<1>1. c.msg \in Msgs /\ c.count \in 1..MaxRetries
      /\ {"held", "acked", "rejected", "resend"} \subseteq Stages
  BY CopyType DEF Stages, InHand
<1>2. ASSUME NEW stage \in Stages, stage # "held", c.stage = "held", Has(s, c),
             Move(s, c, At(c, stage))
      PROVE  /\ copies' \in [Services -> [Copy -> Nat]]
             /\ At(c, stage).count = c.count /\ At(c, stage).stage = stage
  BY <1>2, CopyAt, Moved DEF TypeOK
<1>3. c.stage = "held" /\ Has(s, c) /\ c.msg \notin disturbed[s] => runs[s][c.msg] = c.count
  BY Counted DEF RunsOf
<1>4. CASE Handled(s, c)
  <2>1. /\ c.stage = "held" /\ Has(s, c) /\ Move(s, c, At(c, "acked"))
        /\ done' = [done EXCEPT ![s] = @ \cup {c.msg}]
        /\ UNCHANGED <<wire, bound, dlq, listening, sent, reached, gaveUp, runs, disturbed, faults>>
    BY <1>4 DEF Handled
  <2>2. TypeOK'
    BY <1>1, <1>2, <2>1 DEF TypeOK
  <2>3. c.msg \in done'[s] /\ \A r \in Services : done[r] \subseteq done'[r]
    BY <2>1 DEF TypeOK
  <2> QED
    BY <1>1, <2>1, <2>2, <2>3, HopInv
<1>5. CASE Reject(s, c)
  <2>1. /\ c.stage = "held" /\ Has(s, c) /\ Move(s, c, At(c, "rejected"))
        /\ gaveUp' = [gaveUp EXCEPT ![s] = @ \cup {c.msg}]
        /\ UNCHANGED <<wire, bound, dlq, listening, sent, reached, done, runs, disturbed, faults>>
    BY <1>5 DEF Reject
  <2>2. TypeOK'
    BY <1>1, <1>2, <2>1 DEF TypeOK
  <2>3. c.msg \in gaveUp'[s] /\ \A r \in Services : gaveUp[r] \subseteq gaveUp'[r]
    BY <2>1 DEF TypeOK
  <2>4. c.msg \notin disturbed[s] => runs'[s][c.msg] = RunsOf(At(c, "rejected"))
    BY <1>1, <1>2, <1>3, <2>1 DEF RunsOf
  <2> QED
    BY <1>1, <2>1, <2>2, <2>3, <2>4, HopInv
<1>6. CASE Retry(s, c)
  <2>1. /\ c.stage = "held" /\ Has(s, c) /\ c.count < MaxRetries /\ Move(s, c, At(c, "resend"))
        /\ UNCHANGED <<wire, bound, dlq, listening, historyVars>>
    BY <1>6 DEF Retry
  <2>2. TypeOK'
    BY <1>1, <1>2, <2>1 DEF TypeOK, historyVars
  <2>3. c.msg \notin disturbed[s] => runs'[s][c.msg] = RunsOf(At(c, "resend"))
    BY <1>1, <1>2, <1>3, <2>1 DEF RunsOf, historyVars
  <2> QED
    BY <1>1, <2>1, <2>2, <2>3, HopInv DEF historyVars
<1> QED
  BY <1>4, <1>5, <1>6 DEF Outcome

LEMMA ExpireInv ==
  ASSUME TypeOK, IInv, NEW s \in Services, NEW c \in Copy,
         \/ Expire(s, c)
         \/ Settle(s, c) /\ c.stage = "requeued"
  PROVE  TypeOK' /\ IInv'
<1>1. /\ c.stage \in {"parked", "requeued"} /\ Has(s, c) /\ Move(s, c, At(c, "ready"))
      /\ UNCHANGED <<wire, bound, dlq, listening, historyVars>>
  BY DEF Expire, Settle
<1>2. c.msg \in Msgs /\ "ready" \in Stages
  BY CopyType DEF Stages
<1>3. At(c, "ready") \in Copy /\ At(c, "ready") # c /\ At(c, "ready").count = c.count
      /\ At(c, "ready").stage = "ready"
  BY <1>1, <1>2, CopyAt
<1>4. TypeOK'
  <2>1. copies' \in [Services -> [Copy -> Nat]]
    BY <1>1, <1>3, Moved DEF TypeOK
  <2> QED
    BY <1>1, <2>1 DEF TypeOK, historyVars
<1>5. c.msg \notin disturbed[s] => runs'[s][c.msg] = RunsOf(At(c, "ready"))
  BY <1>1, <1>3, Counted DEF RunsOf, historyVars
<1> QED
  BY <1>1, <1>2, <1>4, <1>5, HopInv DEF historyVars

\* The republished copy stands in for the one it came from, which may stay beside it if
\* the write buffer was full; then a fault is to the message's account.
LEMMA ResendInv ==
  ASSUME TypeOK, IInv, NEW s \in Services, NEW c \in Copy, Resend(s, c)
  PROVE  TypeOK' /\ IInv'
<1> DEFINE n == NextAttempt(c)
<1>1. /\ c.stage = "resend" /\ Has(s, c)
      /\ UNCHANGED <<wire, bound, dlq, listening, sent, reached, done, gaveUp, runs>>
  BY DEF Resend
<1>2. PICK next \in {"acked", "requeued"} :
        /\ copies' = [copies EXCEPT ![s][c] = @ - 1, ![s][At(c, next)] = @ + 1, ![s][n] = @ + 1]
        /\ IF next = "acked" THEN UNCHANGED <<disturbed, faults>>
           ELSE /\ Fault
                /\ disturbed' = [disturbed EXCEPT ![s] = @ \cup {c.msg}]
  BY DEF Resend
<1> DEFINE a == At(c, next)
<1>3. c.msg \in Msgs /\ c.count \in 1..MaxRetries /\ c.count < MaxRetries /\ next \in Stages
  BY <1>1, CopyType DEF IInv, Held, Stages, InHand
<1>4. /\ a \in Copy /\ a.msg = c.msg /\ a.stage = next
      /\ n \in Copy /\ n.msg = c.msg /\ n.count = c.count + 1 /\ n.stage = "parked"
      /\ c # a /\ c # n /\ a # n
  BY <1>1, <1>3, CopyAt, CopyNext
<1> HIDE DEF a, n
<1>5. /\ copies' \in [Services -> [Copy -> Nat]]
      /\ \A r \in Services, d \in Copy : copies'[r][d] =
           IF r = s /\ d = c THEN copies[s][c] - 1
           ELSE IF r = s /\ d \in {a, n} THEN copies[s][d] + 1 ELSE copies[r][d]
  BY <1>1, <1>2, <1>4, Resent DEF TypeOK, a, n
<1>6. /\ disturbed' \in [Services -> SUBSET Msgs] /\ faults' \in 0..MaxFaults
      /\ \A r \in Services : disturbed[r] \subseteq disturbed'[r]
  <2>1. CASE next = "acked"
    BY <1>2, <2>1 DEF TypeOK
  <2>2. CASE next # "acked"
    <3>1. Fault /\ disturbed' = [disturbed EXCEPT ![s] = @ \cup {c.msg}]
      BY <1>2, <2>2
    <3>2. faults' \in 0..MaxFaults
      BY <3>1, RabbitAssumption DEF Fault, TypeOK
    <3> QED
      BY <1>3, <3>1, <3>2 DEF TypeOK
  <2> QED
    BY <2>1, <2>2
<1>7. TypeOK'
  BY <1>1, <1>5, <1>6 DEF TypeOK
<1>8. copies \in [Services -> [Copy -> Nat]]
  BY DEF TypeOK
<1>9. \A r \in Services, d \in Copy : copies'[r][d] > 0 => Has(r, d) \/ (r = s /\ d \in {a, n})
  BY <1>5, <1>8 DEF Has
<1>10. Held'
  BY <1>1, <1>2, <1>4, <1>9 DEF IInv, Held, Has
<1>11. Alive'
  <2>1. ASSUME NEW r \in Services, NEW d \in Copy, d.stage # "acked", Has(r, d)
        PROVE  \E e \in Copy : e.msg = d.msg /\ e.stage # "acked" /\ copies'[r][e] > 0
    <3>1. CASE r = s /\ d = c
      <4>1. copies'[s][n] > 0
        BY <1>4, <1>5, <1>8
      <4> QED
        BY <1>4, <3>1, <4>1
    <3>2. CASE ~(r = s /\ d = c)
      <4>1. copies'[r][d] > 0
        BY <1>5, <1>8, <2>1, <3>2 DEF Has
      <4> QED
        BY <2>1, <4>1
    <3> QED
      BY <3>1, <3>2
  <2> QED
    BY <1>1, <2>1, AliveKept DEF IInv
<1>12. Fresh'
  <2> SUFFICES ASSUME NEW m \in Msgs, m \in wire \/ m \notin sent, NEW r \in Services
               PROVE  runs[r][m] = 0 /\ \A d \in Copy : d.msg = m => ~(copies'[r][d] > 0)
    BY <1>1 DEF Fresh, Has
  <2>1. runs[r][m] = 0 /\ \A d \in Copy : d.msg = m => ~Has(r, d)
    BY DEF IInv, Fresh
  <2>2. ~(r = s /\ m = c.msg)
    BY <1>1, <2>1
  <2> QED
    BY <1>4, <1>9, <2>1, <2>2
<1>13. Single'
  <2> SUFFICES ASSUME NEW r \in Services, NEW m \in Msgs \ disturbed'[r]
               PROVE  /\ runs[r][m] <= MaxRetries
                      /\ \A d \in Copy : d.msg = m /\ d.stage # "acked" /\ copies'[r][d] > 0 =>
                           /\ copies'[r][d] = 1
                           /\ d.stage # "requeued"
                           /\ runs[r][m] = RunsOf(d)
                           /\ \A e \in Copy :
                                e.msg = m /\ e.stage # "acked" /\ copies'[r][e] > 0 => e = d
    BY <1>1 DEF Single, Has
  <2>1. m \in Msgs \ disturbed[r]
    BY <1>6
  <2>2. CASE ~(r = s /\ m = c.msg)
    <3>1. \A d \in Copy : d.msg = m => copies'[r][d] = copies[r][d]
      BY <1>4, <1>5, <2>2
    <3> QED
      BY <2>1, <3>1 DEF IInv, Single, Has
  <2>3. CASE r = s /\ m = c.msg
    <3>1. next = "acked"
      BY <1>2, <1>3, <2>3 DEF TypeOK
    <3>2. /\ copies[s][c] = 1 /\ runs[s][m] <= MaxRetries /\ runs[s][m] = c.count
          /\ \A d \in Copy : d.msg = m /\ d.stage # "acked" /\ Has(s, d) => d = c
      BY <1>1, <2>1, <2>3 DEF IInv, Single, RunsOf
    <3>3. \A d \in Copy : d.msg = m /\ d.stage # "acked" /\ copies'[s][d] > 0 => d = n
      BY <1>4, <1>5, <1>8, <1>9, <3>1, <3>2
    <3>4. copies'[s][n] = 1
      BY <1>1, <1>4, <1>5, <1>8, <2>3, <3>2 DEF Has
    <3>5. RunsOf(n) = c.count
      BY <1>3, <1>4 DEF RunsOf
    <3> QED
      BY <1>4, <2>3, <3>2, <3>3, <3>4, <3>5
  <2> QED
    BY <2>2, <2>3
<1> QED
  BY <1>7, <1>10, <1>11, <1>12, <1>13 DEF IInv

\* An ack takes away a copy the message can spare; a rejected one leaves the message in the
\* DLQ, since the service's own DLQ is bound.
LEMMA SettleInv ==
  ASSUME TypeOK, IInv, NEW s \in Services, NEW c \in Copy, Settle(s, c), c.stage # "requeued"
  PROVE  TypeOK' /\ IInv'
<1>1. /\ c.stage \in {"acked", "rejected"} /\ Has(s, c) /\ Drop(s, c)
      /\ UNCHANGED <<wire, bound, listening, historyVars>>
      /\ IF c.stage = "acked" THEN UNCHANGED dlq
         ELSE dlq' = [r \in Services |-> IF r \in bound THEN dlq[r] \cup {c.msg} ELSE dlq[r]]
  BY DEF Settle
<1>2. c.msg \in Msgs
  BY CopyType
<1>3. /\ copies' \in [Services -> [Copy -> Nat]]
      /\ \A r \in Services, d \in Copy : copies'[r][d] =
           IF r = s /\ d = c THEN copies[s][c] - 1 ELSE copies[r][d]
  BY <1>1, Dropped DEF TypeOK
<1>4. copies \in [Services -> [Copy -> Nat]] /\ dlq \in [Services -> SUBSET Msgs]
  BY DEF TypeOK
<1>5. dlq' \in [Services -> SUBSET Msgs] /\ \A r \in Services : dlq[r] \subseteq dlq'[r]
  BY <1>1, <1>2, <1>4
<1>6. TypeOK'
  BY <1>1, <1>3, <1>5 DEF TypeOK, historyVars
<1>7. \A r \in Services, d \in Copy : copies'[r][d] > 0 => Has(r, d)
  BY <1>3, <1>4 DEF Has
<1>8. Held' /\ Fresh'
  BY <1>1, <1>7 DEF IInv, Held, Fresh, Has, historyVars
<1>9. Alive'
  <2>1. ASSUME NEW r \in Services, NEW d \in Copy, d.stage # "acked", Has(r, d)
        PROVE  \/ d.msg \in done'[r] \cup (gaveUp'[r] \cap dlq'[r])
               \/ \E e \in Copy : e.msg = d.msg /\ e.stage # "acked" /\ copies'[r][e] > 0
    <3>1. CASE r = s /\ d = c
      <4>1. c.stage = "rejected" /\ s \in bound /\ c.msg \in gaveUp[s]
        BY <1>1, <2>1, <3>1 DEF IInv, Held
      <4> QED
        BY <1>1, <3>1, <4>1 DEF historyVars
    <3>2. CASE ~(r = s /\ d = c)
      <4>1. copies'[r][d] > 0
        BY <1>3, <2>1, <3>2 DEF Has
      <4> QED
        BY <2>1, <4>1
    <3> QED
      BY <3>1, <3>2
  <2> QED
    BY <1>1, <1>5, <2>1, AliveKept DEF IInv, historyVars
<1>10. Single'
  <2>1. \A r \in Services, d \in Copy : copies'[r][d] > 0 =>
          copies'[r][d] = copies[r][d] \/ copies[r][d] > 1
    BY <1>3, <1>4
  <2>2. UNCHANGED <<runs, disturbed>>
    BY <1>1 DEF historyVars
  <2> SUFFICES ASSUME NEW r \in Services, NEW m \in Msgs \ disturbed[r]
               PROVE  /\ runs[r][m] <= MaxRetries
                      /\ \A d \in Copy : d.msg = m /\ d.stage # "acked" /\ copies'[r][d] > 0 =>
                           /\ copies'[r][d] = 1
                           /\ d.stage # "requeued"
                           /\ runs[r][m] = RunsOf(d)
                           /\ \A e \in Copy :
                                e.msg = m /\ e.stage # "acked" /\ copies'[r][e] > 0 => e = d
    BY <2>2 DEF Single, Has
  <2> QED
    BY <1>7, <2>1 DEF IInv, Single, Has
<1> QED
  BY <1>6, <1>8, <1>9, <1>10 DEF IInv

\* A lost connection: what was in the service's hands is ready again, at a fault's account.
LEMMA DisconnectInv ==
  ASSUME TypeOK, IInv, NEW s \in Services, Disconnect(s)
  PROVE  TypeOK' /\ IInv'
<1> DEFINE met == { c.msg : c \in { d \in Copy : d.stage \in InHand /\ Has(s, d) } }
<1>1. /\ Fault /\ s \in listening /\ listening' = listening \ {s}
      /\ copies' = [copies EXCEPT ![s] = Returned(s)]
      /\ disturbed' = [disturbed EXCEPT ![s] = @ \cup met]
      /\ UNCHANGED <<wire, bound, dlq, sent, reached, gaveUp, runs>>
  BY DEF Disconnect
<1>2. PICK M \in SUBSET { c.msg : c \in { d \in Copy : d.stage = "held" /\ Has(s, d) } } :
        done' = [done EXCEPT ![s] = @ \cup M]
  BY DEF Disconnect
<1>3. met \subseteq Msgs /\ M \subseteq Msgs
  BY CopyType
<1> HIDE DEF met
<1>4. copies \in [Services -> [Copy -> Nat]]
  BY DEF TypeOK
<1>5. ASSUME NEW d \in Copy, NEW stage \in InHand
      PROVE  At(d, stage) \in Copy /\ At(d, stage).msg = d.msg /\ At(d, stage).stage = stage
             /\ copies[s][At(d, stage)] \in Nat
  BY <1>4, CopyAt DEF Stages
<1>6. ASSUME NEW d \in Copy
      PROVE  /\ copies'[s][d] \in Nat
             /\ d.stage \in InHand => copies'[s][d] = 0
             /\ d.stage = "parked" => copies'[s][d] = copies[s][d]
             /\ d.stage = "ready" => copies'[s][d] =
                  copies[s][d] + copies[s][At(d, "held")] + copies[s][At(d, "resend")]
                  + copies[s][At(d, "acked")] + copies[s][At(d, "requeued")]
                  + copies[s][At(d, "rejected")]
  <2>1. copies'[s][d] = Returned(s)[d]
    BY <1>1, <1>4
  <2>2. d.stage \in {"ready", "parked"} \cup InHand
    BY CopyType DEF Stages
  <2>3. /\ copies[s][d] \in Nat /\ copies[s][At(d, "held")] \in Nat
        /\ copies[s][At(d, "resend")] \in Nat /\ copies[s][At(d, "acked")] \in Nat
        /\ copies[s][At(d, "requeued")] \in Nat /\ copies[s][At(d, "rejected")] \in Nat
    BY <1>4, <1>5 DEF InHand
  <2> QED
    BY <2>1, <2>2, <2>3 DEF Returned, InHand
<1>7. /\ copies' \in [Services -> [Copy -> Nat]]
      /\ \A r \in Services : r # s => copies'[r] = copies[r]
  <2>1. Returned(s) \in [Copy -> Nat]
    BY <1>1, <1>4, <1>6 DEF Returned
  <2> QED
    BY <1>1, <1>4, <2>1
<1>8. TypeOK'
  BY <1>1, <1>2, <1>3, <1>7, RabbitAssumption DEF TypeOK, Fault
<1>9. ASSUME NEW d \in Copy, copies'[s][d] > 0
      PROVE  /\ d.stage \notin InHand
             /\ Has(s, d) \/ (d.stage = "ready" /\ \E c \in Copy : c.msg = d.msg /\ Has(s, c))
  <2>1. d.stage \in {"ready", "parked"}
    BY <1>6, <1>9, CopyType DEF Stages
  <2>2. CASE d.stage = "ready" /\ copies[s][d] = 0
    <3>1. \E stage \in InHand : copies[s][At(d, stage)] > 0
      BY <1>5, <1>6, <1>9, <2>2 DEF InHand
    <3> QED
      BY <1>5, <2>1, <2>2, <3>1 DEF Has, InHand
  <2>3. CASE ~(d.stage = "ready" /\ copies[s][d] = 0)
    BY <1>4, <1>6, <1>9, <2>1, <2>3 DEF Has, InHand
  <2> QED
    BY <2>2, <2>3
<1>10. Held'
  <2> SUFFICES ASSUME NEW r \in Services, NEW d \in Copy, copies'[r][d] > 0
               PROVE  /\ r \in bound
                      /\ d.stage = "rejected" => d.msg \in gaveUp[r]
                      /\ d.stage = "resend" => d.count < MaxRetries
    BY <1>1 DEF Held, Has
  <2>1. CASE r = s
    BY <1>9, <2>1 DEF IInv, Held, InHand
  <2>2. CASE r # s
    BY <1>7, <2>2 DEF IInv, Held, Has
  <2> QED
    BY <2>1, <2>2
<1>11. Alive'
  <2>1. ASSUME NEW r \in Services, NEW d \in Copy, d.stage # "acked", Has(r, d)
        PROVE  \E e \in Copy : e.msg = d.msg /\ e.stage # "acked" /\ copies'[r][e] > 0
    <3>1. CASE r = s /\ d.stage \in InHand
      <4> DEFINE e == At(d, "ready")
      <4>1. e \in Copy /\ e.msg = d.msg /\ e.stage = "ready" /\ At(e, d.stage) = d
        BY CopyAt DEF Stages, At, Copy
      <4>2. copies'[s][e] >= copies[s][d]
        <5>1. d.stage \in {"held", "resend", "acked", "requeued", "rejected"}
          BY <3>1 DEF InHand
        <5> HIDE DEF e
        <5>2. copies[s][e] \in Nat /\ \A stage \in InHand : copies[s][At(e, stage)] \in Nat
          BY <1>4, <1>5, <4>1
        <5> QED
          BY <1>6, <4>1, <5>1, <5>2 DEF InHand
      <4> QED
        BY <1>4, <1>7, <2>1, <3>1, <4>1, <4>2 DEF Has
    <3>2. CASE r = s /\ d.stage \notin InHand
      <4>1. d.stage \in {"ready", "parked"}
        BY <3>2, CopyType DEF Stages
      <4>2. copies'[s][d] >= copies[s][d]
        BY <1>4, <1>5, <1>6, <4>1 DEF InHand
      <4> QED
        BY <1>4, <1>7, <2>1, <3>2, <4>2 DEF Has
    <3>3. CASE r # s
      BY <1>7, <2>1, <3>3 DEF Has
    <3> QED
      BY <3>1, <3>2, <3>3
  <2>2. \A r \in Services : done[r] \subseteq done'[r]
    BY <1>2 DEF TypeOK
  <2> QED
    BY <1>1, <2>1, <2>2, AliveKept DEF IInv
<1>12. Fresh'
  <2> SUFFICES ASSUME NEW m \in Msgs, m \in wire \/ m \notin sent, NEW r \in Services
               PROVE  runs[r][m] = 0 /\ \A d \in Copy : d.msg = m => ~(copies'[r][d] > 0)
    BY <1>1 DEF Fresh, Has
  <2>1. runs[r][m] = 0 /\ \A d \in Copy : d.msg = m => ~Has(r, d)
    BY DEF IInv, Fresh
  <2> QED
    BY <1>7, <1>9, <2>1 DEF Has
<1>13. Single'
  <2> SUFFICES ASSUME NEW r \in Services, NEW m \in Msgs \ disturbed'[r]
               PROVE  /\ runs[r][m] <= MaxRetries
                      /\ \A d \in Copy : d.msg = m /\ d.stage # "acked" /\ copies'[r][d] > 0 =>
                           /\ copies'[r][d] = 1
                           /\ d.stage # "requeued"
                           /\ runs[r][m] = RunsOf(d)
                           /\ \A e \in Copy :
                                e.msg = m /\ e.stage # "acked" /\ copies'[r][e] > 0 => e = d
    BY <1>1 DEF Single, Has
  <2>1. CASE r # s
    <3>1. m \notin disturbed[r] /\ copies'[r] = copies[r]
      BY <1>1, <1>7, <2>1 DEF TypeOK
    <3> QED
      BY <3>1 DEF IInv, Single, Has
  <2>2. CASE r = s
    <3>1. m \notin disturbed[s] /\ m \notin met
      BY <1>1, <1>3, <2>2 DEF TypeOK
    <3>2. \A c \in Copy : c.msg = m /\ c.stage \in InHand => copies[s][c] = 0
      BY <1>4, <3>1 DEF Has, met
    <3>3. ASSUME NEW d \in Copy, d.msg = m, copies'[s][d] > 0
          PROVE  copies'[s][d] = copies[s][d]
      <4>1. d.stage \in {"ready", "parked"}
        BY <1>9, <3>3, CopyType DEF Stages
      <4>2. \A stage \in InHand : copies[s][At(d, stage)] = 0
        BY <1>5, <3>2, <3>3
      <4> QED
        BY <1>4, <1>6, <4>1, <4>2 DEF InHand
    <3>4. \A d \in Copy : d.msg = m /\ copies'[s][d] > 0 => Has(s, d)
      BY <3>3 DEF Has
    <3> QED
      BY <2>2, <3>1, <3>3, <3>4 DEF IInv, Single
  <2> QED
    BY <2>1, <2>2
<1> QED
  BY <1>8, <1>10, <1>11, <1>12, <1>13 DEF IInv

-----------------------------------------------------------------------------
\* The inductive invariant with the shape of the state it needs: a message that is not
\* settled always has a copy to spare, and a copy's count is the number of its runs.
THEOREM Invariant == Spec => [](TypeOK /\ IInv)
<1>1. Init => TypeOK /\ IInv
  BY RabbitAssumption DEF Init, TypeOK, IInv, Held, Alive, Fresh, Single, Has
<1>2. TypeOK /\ IInv /\ [Next]_vars => TypeOK' /\ IInv'
  <2> SUFFICES ASSUME TypeOK, IInv, [Next]_vars PROVE TypeOK' /\ IInv'
    OBVIOUS
  <2>1. CASE UNCHANGED vars
    BY <2>1 DEF vars, brokerVars, historyVars, TypeOK, IInv, Held, Alive, Fresh, Single, Has
  <2>2. CASE \E m \in Msgs : Publish(m) \/ Route(m) \/ FrameLost(m)
    BY <2>2, PublishInv, RouteInv, FrameLostInv
  <2>3. CASE \E s \in Services : Declare(s) \/ Consume(s)
    BY <2>3, StartInv
  <2>4. CASE \E s \in Services : Disconnect(s)
    BY <2>4, DisconnectInv
  <2>5. ASSUME NEW s \in Services, NEW c \in Copy, Step(s, c)
        PROVE  TypeOK' /\ IInv'
    BY <2>5, DeliverInv, OutcomeInv, ResendInv, SettleInv, ExpireInv DEF Step
  <2> QED
    BY <2>1, <2>2, <2>3, <2>4, <2>5 DEF Next
<1> QED
  BY <1>1, <1>2, PTL DEF Spec

\* The state keeps its shape; what is consumed from is bound to the topic's exchanges.
THEOREM TypeCorrect == Spec => []TypeOK
BY Invariant, PTL

\* A connection cut between any two frames of a retry, an ack or a rejection loses no
\* message that reached the service.
THEOREM NoneVanishes == Spec => []NothingVanishes
<1>1. IInv => NothingVanishes
  BY DEF IInv, Alive, NothingVanishes
<1> QED
  BY <1>1, Invariant, PTL

\* The handlers run at most MaxRetries times for a message no fault met.
THEOREM RunsBounded == Spec => []AttemptsBounded
<1>1. TypeOK /\ IInv => AttemptsBounded
  BY RabbitAssumption DEF TypeOK, IInv, Single, AttemptsBounded
<1> QED
  BY <1>1, Invariant, PTL

\* What is in a service's DLQ was given up on by some service. This is what is left of the
\* comment that the DLQ is the service's own, with one fanout exchange for all of them.
DeadLettersAreSomebodys ==
  \A s \in Services : \A m \in dlq[s] : \E r \in Services : m \in gaveUp[r]

\* Only a message that some service gave up on is dead-lettered anywhere.
THEOREM DeadLettersExplained == Spec => []DeadLettersAreSomebodys
<1>1. Init => DeadLettersAreSomebodys
  BY DEF Init, DeadLettersAreSomebodys
<1>2. TypeOK /\ IInv /\ DeadLettersAreSomebodys /\ [Next]_vars => DeadLettersAreSomebodys'
  <2> SUFFICES ASSUME TypeOK, IInv, DeadLettersAreSomebodys, [Next]_vars
               PROVE  DeadLettersAreSomebodys'
    OBVIOUS
  <2>1. CASE UNCHANGED <<dlq, gaveUp>>
    BY <2>1 DEF DeadLettersAreSomebodys
  <2>2. ASSUME NEW s \in Services, NEW c \in Copy, Reject(s, c)
        PROVE  DeadLettersAreSomebodys'
    <3>1. UNCHANGED dlq /\ \A r \in Services : gaveUp[r] \subseteq gaveUp'[r]
      BY <2>2 DEF Reject, TypeOK
    <3> QED
      BY <3>1 DEF DeadLettersAreSomebodys
  <2>3. ASSUME NEW s \in Services, NEW c \in Copy, Settle(s, c)
        PROVE  DeadLettersAreSomebodys'
    <3>1. UNCHANGED gaveUp
      BY <2>3 DEF Settle, historyVars
    <3>2. CASE UNCHANGED dlq
      BY <3>1, <3>2 DEF DeadLettersAreSomebodys
    <3>3. CASE dlq' = [r \in Services |-> IF r \in bound THEN dlq[r] \cup {c.msg} ELSE dlq[r]]
               /\ c.stage = "rejected"
      <4>1. c.msg \in gaveUp[s]
        BY <2>3, <3>3 DEF IInv, Held, Settle
      <4> QED
        BY <3>1, <3>3, <4>1 DEF DeadLettersAreSomebodys
    <3> QED
      BY <2>3, <3>2, <3>3 DEF Settle
  <2>4. CASE \E m \in Msgs : Publish(m) \/ Route(m) \/ FrameLost(m)
    BY <2>1, <2>4 DEF Publish, Route, FrameLost
  <2>5. CASE \E s \in Services : Declare(s) \/ Consume(s) \/ Disconnect(s)
    BY <2>1, <2>5 DEF Declare, Consume, Disconnect, brokerVars, historyVars
  <2>6. CASE \E s \in Services, c \in Copy :
               Deliver(s, c) \/ Handled(s, c) \/ Retry(s, c) \/ Resend(s, c) \/ Expire(s, c)
    BY <2>1, <2>6 DEF Deliver, Handled, Retry, Resend, Expire, historyVars
  <2> QED
    BY <2>1, <2>2, <2>3, <2>4, <2>5, <2>6 DEF Next, Step, Outcome, vars, brokerVars, historyVars
<1> QED
  BY <1>1, <1>2, Invariant, PTL DEF Spec
===============================================================================
