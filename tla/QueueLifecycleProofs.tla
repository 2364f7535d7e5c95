------------------------- MODULE QueueLifecycleProofs -------------------------
(***************************************************************************)
(* Theorems of QueueLifecycle, for any number of workers and topics.       *)
(***************************************************************************)
EXTENDS QueueLifecycle, TLAPS

\* What holds where the step a call is at is changed for one worker and topic.
LEMMA GotoSets ==
  ASSUME TypeOK, NEW w \in Workers, NEW t \in Topics, NEW s, Goto(w, t, s)
  PROVE  /\ at'[w][t] = s
         /\ \A x \in Workers, u \in Topics : (x # w \/ u # t) => at'[x][u] = at[x][u]
BY DEF TypeOK, Goto

\* A change to a step a call can be at keeps the shape of at.
LEMMA GotoTyped ==
  ASSUME TypeOK, NEW w \in Workers, NEW t \in Topics,
         NEW s \in {"idle", "poll", "wait", "exited"} \cup Creating, Goto(w, t, s)
  PROVE  at' \in [Workers -> [Topics -> {"idle", "poll", "wait", "exited"} \cup Creating]]
BY DEF TypeOK, Goto

\* What a return of getOrCreateQueue leaves of the shape of the state.
LEMMA ReturnTyped ==
  ASSUME TypeOK, NEW w \in Workers, NEW t \in Topics, NEW s \in {"poll", "wait"},
         Return(w, t, s)
  PROVE  /\ at' \in [Workers -> [Topics -> {"idle", "poll", "wait", "exited"} \cup Creating]]
         /\ cold' \in [Workers -> SUBSET Topics]
<1>1. at' \in [Workers -> [Topics -> {"idle", "poll", "wait", "exited"} \cup Creating]]
  BY GotoTyped DEF Return
<1> QED
  BY <1>1 DEF Return, TypeOK

LEMMA ResolvedTyped ==
  ASSUME TypeOK, NEW w \in Workers, NEW t \in Topics, Resolved(w, t)
  PROVE  /\ at' \in [Workers -> [Topics -> {"idle", "poll", "wait", "exited"} \cup Creating]]
         /\ cold' \in [Workers -> SUBSET Topics]
         /\ urls' \in [Workers -> SUBSET Topics]
         /\ known' \in [Workers -> SUBSET Topics]
BY ReturnTyped DEF Resolved, TypeOK

LEMMA FailedTyped ==
  ASSUME TypeOK, NEW w \in Workers, NEW t \in Topics, Failed(w, t)
  PROVE  /\ at' \in [Workers -> [Topics -> {"idle", "poll", "wait", "exited"} \cup Creating]]
         /\ cold' \in [Workers -> SUBSET Topics]
         /\ urls' \in [Workers -> SUBSET Topics]
         /\ known' \in [Workers -> SUBSET Topics]
BY ReturnTyped DEF Failed, TypeOK

\* The state keeps its shape: in particular a policy is never taken to be on a queue
\* that does not exist.
THEOREM TypeCorrect == Spec => []TypeOK
<1>1. Init => TypeOK
  BY LifecycleAssumption DEF Init, TypeOK
<1>2. TypeOK /\ [Next]_vars => TypeOK'
  <2> SUFFICES ASSUME TypeOK, [Next]_vars PROVE TypeOK'
    OBVIOUS
  <2> USE LifecycleAssumption
  <2>1. CASE UNCHANGED vars
    BY <2>1 DEF TypeOK, vars, brokerVars, workerVars
  <2>2. CASE BrokerLosesAll
    BY <2>2 DEF TypeOK, BrokerLosesAll, Fault, workerVars
  <2>3. ASSUME NEW w \in Workers, Start(w) PROVE TypeOK'
    BY <2>3 DEF TypeOK, Start, brokerVars
  <2>4. ASSUME NEW w \in Workers, GoLive(w) PROVE TypeOK'
    BY <2>4 DEF TypeOK, GoLive, brokerVars, Creating
  <2>5. ASSUME NEW w \in Workers, Stop(w) PROVE TypeOK'
    BY <2>5 DEF TypeOK, Stop, brokerVars
  <2>6. ASSUME NEW w \in Workers, StopReturns(w) PROVE TypeOK'
    BY <2>6 DEF TypeOK, StopReturns, brokerVars
  <2>7. ASSUME NEW w \in Workers, ProcessEnds(w) PROVE TypeOK'
    <3>1. faults' \in 0..MaxFaults
      BY <2>7 DEF TypeOK, ProcessEnds, Fault
    <3>2. torn' \in SUBSET Topics
      BY <2>7 DEF TypeOK, ProcessEnds
    <3> QED
      BY <2>7, <3>1, <3>2 DEF TypeOK, ProcessEnds, brokerVars
  <2>8. ASSUME NEW w \in Workers, NEW t \in Topics, WarmUp(w, t) PROVE TypeOK'
    BY <2>8, GotoTyped DEF TypeOK, WarmUp, brokerVars, Creating
  <2>9. ASSUME NEW w \in Workers, NEW t \in Topics, Find(w, t) PROVE TypeOK'
    <3>1. CASE Resolved(w, t) /\ UNCHANGED faults
      BY <2>9, <3>1, ResolvedTyped DEF TypeOK, Find, brokerVars
    <3>2. CASE Goto(w, t, "create") /\ UNCHANGED <<cold, urls, known>>
      <4>1. at' \in [Workers -> [Topics -> {"idle", "poll", "wait", "exited"} \cup Creating]]
        BY <3>2, GotoTyped DEF Creating
      <4>2. faults' \in 0..MaxFaults
        BY <2>9 DEF TypeOK, Find, Fault
      <4> QED
        BY <2>9, <3>2, <4>1, <4>2 DEF TypeOK, Find, brokerVars
    <3> QED
      BY <2>9, <3>1, <3>2 DEF Find
  <2>10. ASSUME NEW w \in Workers, NEW t \in Topics, Create(w, t) PROVE TypeOK'
    <3>1. /\ queue' \in SUBSET Topics /\ queue \subseteq queue'
          /\ torn' \in SUBSET Topics /\ faults' \in 0..MaxFaults
      BY <2>10 DEF TypeOK, Create, Fault
    <3>2. CASE Goto(w, t, "dlq") /\ UNCHANGED <<cold, urls, known>>
      <4>1. at' \in [Workers -> [Topics -> {"idle", "poll", "wait", "exited"} \cup Creating]]
        BY <3>2, GotoTyped DEF Creating
      <4> QED
        BY <2>10, <3>1, <3>2, <4>1 DEF TypeOK, Create
    <3>3. CASE Failed(w, t)
      BY <2>10, <3>1, <3>3, FailedTyped DEF TypeOK, Create
    <3> QED
      BY <2>10, <3>2, <3>3 DEF Create
  <2>11. ASSUME NEW w \in Workers, NEW t \in Topics, Dlq(w, t) PROVE TypeOK'
    <3>1. /\ dlq' \in SUBSET Topics /\ dlqUrls' \in [Workers -> SUBSET Topics]
          /\ torn' \in SUBSET Topics /\ faults' \in 0..MaxFaults
      BY <2>11 DEF TypeOK, Dlq, GoOnWithout, Fault
    <3>2. CASE Goto(w, t, "attach") /\ UNCHANGED <<cold, urls, known>>
      <4>1. at' \in [Workers -> [Topics -> {"idle", "poll", "wait", "exited"} \cup Creating]]
        BY <3>2, GotoTyped DEF Creating
      <4> QED
        BY <2>11, <3>1, <3>2, <4>1 DEF TypeOK, Dlq
    <3>3. CASE Resolved(w, t)
      BY <2>11, <3>1, <3>3, ResolvedTyped DEF TypeOK, Dlq
    <3> QED
      BY <2>11, <3>2, <3>3 DEF Dlq, GoOnWithout
  <2>12. ASSUME NEW w \in Workers, NEW t \in Topics, Attach(w, t) PROVE TypeOK'
    <3>1. /\ policy' \in SUBSET queue
          /\ torn' \in SUBSET Topics /\ faults' \in 0..MaxFaults
      BY <2>12 DEF TypeOK, Attach, GoOnWithout, Fault
    <3>2. Resolved(w, t)
      BY <2>12 DEF Attach, GoOnWithout
    <3> QED
      BY <2>12, <3>1, <3>2, ResolvedTyped DEF TypeOK, Attach
  <2>13. ASSUME NEW w \in Workers, NEW t \in Topics, Missing(w, t) PROVE TypeOK'
    <3>1. at' \in [Workers -> [Topics -> {"idle", "poll", "wait", "exited"} \cup Creating]]
      BY <2>13, GotoTyped DEF Missing, Creating
    <3> QED
      BY <2>13, <3>1 DEF TypeOK, Missing, Forget, brokerVars
  <2>14. ASSUME NEW w \in Workers, NEW t \in Topics, WaitOver(w, t) PROVE TypeOK'
    <3>1. at' \in [Workers -> [Topics -> {"idle", "poll", "wait", "exited"} \cup Creating]]
      BY <2>14, GotoTyped DEF WaitOver, Creating
    <3> QED
      BY <2>14, <3>1 DEF TypeOK, WaitOver, brokerVars
  <2>15. ASSUME NEW w \in Workers, NEW t \in Topics, Exit(w, t) PROVE TypeOK'
    <3>1. at' \in [Workers -> [Topics -> {"idle", "poll", "wait", "exited"} \cup Creating]]
      BY <2>15, GotoTyped DEF Exit
    <3> QED
      BY <2>15, <3>1 DEF TypeOK, Exit, brokerVars
  <2>16. ASSUME NEW w \in Workers, NEW t \in Topics, ReceiveFails(w, t) PROVE TypeOK'
    <3>1. at' \in [Workers -> [Topics -> {"idle", "poll", "wait", "exited"} \cup Creating]]
      BY <2>16, GotoTyped DEF ReceiveFails
    <3> QED
      BY <2>16, <3>1 DEF TypeOK, ReceiveFails, Fault, brokerVars
  <2>17. ASSUME NEW w \in Workers, NEW t \in Topics, DeadLetter(w, t) PROVE TypeOK'
    BY <2>17 DEF TypeOK, DeadLetter
  <2> QED
    BY <2>1, <2>2, <2>3, <2>4, <2>5, <2>6, <2>7, <2>8, <2>9, <2>10, <2>11, <2>12, <2>13,
       <2>14, <2>15, <2>16, <2>17 DEF Next, Step
<1> QED
  BY <1>1, <1>2, PTL DEF Spec

-----------------------------------------------------------------------------
\* What a worker has cached for a topic at each step of a call: a url only once a call
\* is over, and no DLQ url without the queue's while a new queue may come of the call.
Cached(w, t) ==
  /\ at[w][t] \in {"create", "dlq", "attach"} => t \notin urls[w]
  /\ at[w][t] \in {"create", "dlq"} => t \notin dlqUrls[w]
  /\ at[w][t] \in {"idle", "find"} \/ (at[w][t] = "wait" /\ t \notin known[w]) =>
       (t \in dlqUrls[w] => t \in urls[w])
  /\ at[w][t] = "poll" => t \in known[w]

\* What a worker's mode says of its calls: the warm-up has in progress only what it has
\* still to create, and stop() returns when nothing is left.
Mode(w) ==
  /\ mode[w] = "down" => \A t \in Topics : at[w][t] = "idle"
  /\ mode[w] = "warming" =>
       \A t \in Topics : at[w][t] # "idle" => t \in cold[w] /\ at[w][t] \in Creating
  /\ stopped[w] => mode[w] = "live" /\ ~polling[w] /\ \A t \in Topics : at[w][t] = "exited"

\* Worker w is about to give topic t its policy, and will find the DLQ to name in it.
Attaching(w, t) == at[w][t] = "dlq" \/ (at[w][t] = "attach" /\ t \in dlq)

\* Every queue without its policy has such a worker, or a fault to its account.
Attended == \A t \in queue \ (policy \cup torn) : \E w \in Workers : Attaching(w, t)

IInv ==
  /\ \A w \in Workers : Mode(w) /\ \A t \in Topics : Cached(w, t)
  /\ Attended

\* What the other calls of the workers know is untouched by a call's own step.
LEMMA OthersKeep ==
  ASSUME TypeOK, IInv, NEW w \in Workers, NEW t \in Topics, NEW x \in Workers, NEW u \in Topics,
         x # w \/ u # t,
         at'[x][u] = at[x][u],
         u \in urls'[x] <=> u \in urls[x],
         u \in dlqUrls'[x] <=> u \in dlqUrls[x],
         u \in known'[x] <=> u \in known[x]
  PROVE  Cached(x, u)'
BY DEF IInv, Cached

\* A call returns: its own entry is cached, others' entries are as they were.
LEMMA ResolvedKnows ==
  ASSUME TypeOK, IInv, NEW w \in Workers, NEW t \in Topics, Resolved(w, t),
         at[w][t] \in {"find", "dlq", "attach"}, UNCHANGED mode
  PROVE  /\ t \in urls'[w] /\ at'[w][t] \in {"idle", "poll"}
         /\ at'[w][t] = "poll" => t \in known'[w] /\ mode[w] = "live"
         /\ \A x \in Workers, u \in Topics : (x # w \/ u # t) =>
              /\ at'[x][u] = at[x][u]
              /\ u \in urls'[x] <=> u \in urls[x]
              /\ u \in known'[x] <=> u \in known[x]
              /\ u \in cold'[x] <=> u \in cold[x]
         /\ mode[w] = "warming" => at'[w][t] = "idle"
<1>1. mode[w] \in {"warming", "live"}
  BY DEF TypeOK, IInv, Mode
<1>2. at'[w][t] = IF mode[w] = "warming" THEN "idle" ELSE "poll"
  BY GotoSets DEF Resolved, Return
<1>3. \A x \in Workers, u \in Topics : (x # w \/ u # t) => at'[x][u] = at[x][u]
  BY GotoSets DEF Resolved, Return
<1> QED
  BY <1>1, <1>2, <1>3 DEF Resolved, Return, TypeOK

\* The modes survive any step of a call that leaves the mode and the other calls alone
\* and stays within what the mode allows.
LEMMA ModesKeep ==
  ASSUME TypeOK, IInv, NEW w \in Workers, NEW t \in Topics,
         UNCHANGED <<mode, polling, stopped>>, at[w][t] \notin {"idle", "exited"},
         \A x \in Workers, u \in Topics : (x # w \/ u # t) =>
           at'[x][u] = at[x][u] /\ (u \in cold'[x] <=> u \in cold[x]),
         mode[w] = "warming" /\ at'[w][t] # "idle" => t \in cold'[w] /\ at'[w][t] \in Creating
  PROVE  \A x \in Workers : Mode(x)'
<1> TAKE x \in Workers
<1>1. CASE x # w
  BY <1>1 DEF IInv, Mode
<1>2. CASE x = w
  BY <1>2 DEF IInv, Mode, TypeOK
<1> QED
  BY <1>1, <1>2

\* The attention a queue gets survives a step that takes no worker away from it.
LEMMA AttentionKeeps ==
  ASSUME Attended, queue' \subseteq queue, policy \subseteq policy', torn \subseteq torn',
         dlq \subseteq dlq',
         \A w \in Workers, t \in Topics : at[w][t] \in {"dlq", "attach"} => at'[w][t] = at[w][t],
         TypeOK
  PROVE  Attended'
<1> SUFFICES ASSUME NEW t \in queue' \ (policy' \cup torn')
             PROVE  \E w \in Workers : Attaching(w, t)'
  BY DEF Attended
<1>1. PICK w \in Workers : Attaching(w, t)
  BY DEF Attended
<1>2. t \in Topics
  BY DEF TypeOK
<1> QED
  BY <1>1, <1>2 DEF Attaching

\* The same when one call of worker w for topic t is over, if the queue got its policy
\* or was noted as left without.
LEMMA OneLeaves ==
  ASSUME Attended, TypeOK, NEW w \in Workers, NEW t \in Topics,
         UNCHANGED <<queue, dlq>>, policy \subseteq policy', torn \subseteq torn',
         \A x \in Workers, u \in Topics : (x # w \/ u # t) => at'[x][u] = at[x][u],
         t \in policy' \cup torn' \/ t \notin queue \/ ~Attaching(w, t)
  PROVE  Attended'
<1> SUFFICES ASSUME NEW u \in queue \ (policy' \cup torn')
             PROVE  \E x \in Workers : Attaching(x, u)'
  BY DEF Attended
<1>1. PICK x \in Workers : Attaching(x, u)
  BY DEF Attended
<1>2. u \in Topics
  BY DEF TypeOK
<1>3. x # w \/ u # t
  BY <1>1
<1> QED
  BY <1>1, <1>2, <1>3 DEF Attaching

\* The inductive invariant: worker by worker what is cached and in progress, and for
\* every queue without a policy who attends to it.
THEOREM Invariant == Spec => []IInv
<1>1. Init => IInv
  BY DEF Init, IInv, Mode, Cached, Attended
<1>2. TypeOK /\ IInv /\ [Next]_vars => IInv'
  <2> SUFFICES ASSUME TypeOK, IInv, [Next]_vars PROVE IInv'
    OBVIOUS
  <2>1. CASE UNCHANGED vars
    BY <2>1 DEF IInv, Mode, Cached, Attended, Attaching, vars, brokerVars, workerVars
  <2>2. CASE BrokerLosesAll
    BY <2>2 DEF IInv, Mode, Cached, Attended, BrokerLosesAll, workerVars
  <2>3. ASSUME NEW w \in Workers, Start(w) PROVE IInv'
    BY <2>3 DEF TypeOK, IInv, Mode, Cached, Attended, Attaching, Start, brokerVars
  <2>4. ASSUME NEW w \in Workers, GoLive(w) PROVE IInv'
    <3>1. \A t \in Topics : at[w][t] = "idle" /\ at'[w][t] \in {"find", "exited"}
      BY <2>4 DEF TypeOK, IInv, Mode, GoLive
    <3>2. \A x \in Workers \ {w} : at'[x] = at[x]
      BY <2>4 DEF TypeOK, GoLive
    <3>3. \A x \in Workers : Mode(x)' /\ \A t \in Topics : Cached(x, t)'
      BY <2>4, <3>1, <3>2 DEF TypeOK, IInv, Mode, Cached, GoLive
    <3>4. Attended'
      <4>1. \A x \in Workers, t \in Topics :
              at[x][t] \in {"dlq", "attach"} => at'[x][t] = at[x][t]
        BY <3>1, <3>2
      <4> QED
        BY <2>4, <4>1, AttentionKeeps DEF IInv, GoLive, brokerVars
    <3> QED
      BY <3>3, <3>4 DEF IInv
  <2>5. ASSUME NEW w \in Workers, Stop(w) PROVE IInv'
    BY <2>5 DEF TypeOK, IInv, Mode, Cached, Attended, Attaching, Stop, brokerVars
  <2>6. ASSUME NEW w \in Workers, StopReturns(w) PROVE IInv'
    BY <2>6 DEF TypeOK, IInv, Mode, Cached, Attended, Attaching, StopReturns, Drained, brokerVars
  <2>7. ASSUME NEW w \in Workers, ProcessEnds(w) PROVE IInv'
    <3>1. \A x \in Workers : Mode(x)' /\ \A t \in Topics : Cached(x, t)'
      BY <2>7 DEF TypeOK, IInv, Mode, Cached, ProcessEnds
    <3>2. Attended'
      <4> SUFFICES ASSUME NEW t \in queue' \ (policy' \cup torn')
                   PROVE  \E x \in Workers : Attaching(x, t)'
        BY DEF Attended
      <4>1. t \in queue \ (policy \cup torn) /\ at[w][t] \notin {"dlq", "attach"}
        BY <2>7 DEF ProcessEnds, brokerVars
      <4>2. PICK x \in Workers : Attaching(x, t)
        BY <4>1 DEF IInv, Attended
      <4>3. x # w
        BY <4>1, <4>2 DEF Attaching
      <4> QED
        BY <2>7, <4>2, <4>3 DEF Attaching, ProcessEnds, TypeOK, brokerVars
    <3> QED
      BY <3>1, <3>2 DEF IInv
  <2>8. ASSUME NEW w \in Workers, NEW t \in Topics, WarmUp(w, t) PROVE IInv'
    <3>1. at'[w][t] = "find" /\ \A x \in Workers, u \in Topics : (x # w \/ u # t) => at'[x][u] = at[x][u]
      BY <2>8, GotoSets DEF WarmUp
    <3>2. at[w][t] = "idle"
      BY <2>8 DEF WarmUp
    <3>3. \A x \in Workers, u \in Topics : Cached(x, u)'
      BY <2>8, <3>1, <3>2 DEF WarmUp, IInv, Cached
    <3>4. \A x \in Workers : Mode(x)'
      BY <2>8, <3>1, <3>2 DEF WarmUp, IInv, Mode, Creating
    <3>5. Attended'
      BY <2>8, <3>1, <3>2, AttentionKeeps DEF WarmUp, IInv, brokerVars
    <3> QED
      BY <3>3, <3>4, <3>5 DEF IInv
  <2>9. ASSUME NEW w \in Workers, NEW t \in Topics, Find(w, t) PROVE IInv'
    <3>1. CASE Resolved(w, t)
      <4>1. \A x \in Workers, u \in Topics : Cached(x, u)'
        BY <2>9, <3>1, ResolvedKnows, OthersKeep DEF Find, Cached
      <4>2. \A x \in Workers : Mode(x)'
        BY <2>9, <3>1, ResolvedKnows, ModesKeep DEF Find
      <4>3. Attended'
        BY <2>9, <3>1, ResolvedKnows, AttentionKeeps DEF Find, IInv, brokerVars
      <4> QED
        BY <4>1, <4>2, <4>3 DEF IInv
    <3>2. CASE t \notin urls[w] /\ Goto(w, t, "create") /\ UNCHANGED <<cold, urls, known>>
      <4>1. at'[w][t] = "create" /\ \A x \in Workers, u \in Topics : (x # w \/ u # t) => at'[x][u] = at[x][u]
        BY <3>2, GotoSets
      <4>2. \A x \in Workers, u \in Topics : Cached(x, u)'
        BY <2>9, <3>2, <4>1 DEF Find, IInv, Cached
      <4>3. \A x \in Workers : Mode(x)'
        <5>1. mode[w] = "warming" => t \in cold[w]
          BY <2>9 DEF Find, IInv, Mode
        <5> QED
          BY <2>9, <3>2, <4>1, <5>1, ModesKeep DEF Find, Creating
      <4>4. Attended'
        BY <2>9, <4>1, AttentionKeeps DEF Find, IInv, brokerVars
      <4> QED
        BY <4>2, <4>3, <4>4 DEF IInv
    <3> QED
      BY <2>9, <3>1, <3>2 DEF Find
  <2>10. ASSUME NEW w \in Workers, NEW t \in Topics, Create(w, t) PROVE IInv'
    <3>1. CASE queue' = queue \cup {t} /\ Goto(w, t, "dlq") /\ UNCHANGED <<cold, urls, known, torn>>
      <4>1. at'[w][t] = "dlq" /\ \A x \in Workers, u \in Topics : (x # w \/ u # t) => at'[x][u] = at[x][u]
        BY <3>1, GotoSets
      <4>2. \A x \in Workers, u \in Topics : Cached(x, u)'
        BY <2>10, <3>1, <4>1 DEF Create, IInv, Cached
      <4>3. \A x \in Workers : Mode(x)'
        <5>1. mode[w] = "warming" => t \in cold[w]
          BY <2>10 DEF Create, IInv, Mode
        <5> QED
          BY <2>10, <3>1, <4>1, <5>1, ModesKeep DEF Create, Creating
      <4>4. Attended'
        <5> SUFFICES ASSUME NEW u \in queue' \ (policy' \cup torn')
                     PROVE  \E x \in Workers : Attaching(x, u)'
          BY DEF Attended
        <5>1. CASE u = t
          BY <4>1, <5>1 DEF Attaching
        <5>2. CASE u # t
          <6>1. PICK x \in Workers : Attaching(x, u)
            BY <2>10, <3>1, <5>2 DEF Create, IInv, Attended
          <6> QED
            BY <2>10, <3>1, <4>1, <5>2, <6>1 DEF Create, Attaching, TypeOK
        <5> QED
          BY <5>1, <5>2
      <4> QED
        BY <4>2, <4>3, <4>4 DEF IInv
    <3>2. CASE /\ queue' \in {queue, queue \cup {t}} /\ Failed(w, t)
               /\ torn' = IF t \in queue' THEN torn \cup {t} ELSE torn
      <4>1. /\ at'[w][t] = IF mode[w] = "warming" THEN "idle" ELSE "wait"
            /\ \A x \in Workers, u \in Topics : (x # w \/ u # t) => at'[x][u] = at[x][u]
        BY <3>2, GotoSets DEF Failed, Return
      <4>2. \A x \in Workers, u \in Topics : Cached(x, u)'
        BY <2>10, <3>2, <4>1 DEF Create, Failed, IInv, Cached
      <4>3. \A x \in Workers : Mode(x)'
        <5>1. \A x \in Workers, u \in Topics : (x # w \/ u # t) => (u \in cold'[x] <=> u \in cold[x])
          BY <3>2 DEF Failed, Return, TypeOK
        <5> QED
          BY <2>10, <4>1, <5>1, ModesKeep DEF Create
      <4>4. Attended'
        <5> SUFFICES ASSUME NEW u \in queue' \ (policy' \cup torn')
                     PROVE  \E x \in Workers : Attaching(x, u)'
          BY DEF Attended
        <5>1. u # t /\ u \in queue \ (policy \cup torn) /\ u \in Topics
          BY <2>10, <3>2 DEF Create, TypeOK
        <5>2. PICK x \in Workers : Attaching(x, u)
          BY <5>1 DEF IInv, Attended
        <5> QED
          BY <2>10, <4>1, <5>1, <5>2 DEF Create, Attaching
      <4> QED
        BY <4>2, <4>3, <4>4 DEF IInv
    <3> QED
      BY <2>10, <3>1, <3>2 DEF Create
  <2>11. ASSUME NEW w \in Workers, NEW t \in Topics, Dlq(w, t) PROVE IInv'
    <3>1. CASE /\ dlq' = (IF t \in dlqUrls[w] THEN dlq ELSE dlq \cup {t})
               /\ dlqUrls' = [dlqUrls EXCEPT ![w] = @ \cup {t}]
               /\ Goto(w, t, "attach") /\ UNCHANGED <<cold, urls, known, torn>>
      <4>1. at'[w][t] = "attach" /\ \A x \in Workers, u \in Topics : (x # w \/ u # t) => at'[x][u] = at[x][u]
        BY <3>1, GotoSets
      <4>2. \A x \in Workers, u \in Topics : Cached(x, u)'
        <5>1. Cached(w, t)'
          BY <2>11, <3>1, <4>1 DEF Dlq, IInv, Cached
        <5>2. ASSUME NEW x \in Workers, NEW u \in Topics, x # w \/ u # t PROVE Cached(x, u)'
          <6>1. u \in dlqUrls'[x] <=> u \in dlqUrls[x]
            BY <3>1, <5>2 DEF TypeOK
          <6> QED
            BY <3>1, <4>1, <5>2, <6>1, OthersKeep
        <5> QED
          BY <5>1, <5>2
      <4>3. \A x \in Workers : Mode(x)'
        <5>1. mode[w] = "warming" => t \in cold[w]
          BY <2>11 DEF Dlq, IInv, Mode
        <5> QED
          BY <2>11, <3>1, <4>1, <5>1, ModesKeep DEF Dlq, Creating
      <4>4. Attended'
        <5>1. dlq' = dlq \cup {t}
          BY <2>11, <3>1 DEF Dlq, IInv, Cached
        <5> SUFFICES ASSUME NEW u \in queue' \ (policy' \cup torn')
                     PROVE  \E x \in Workers : Attaching(x, u)'
          BY DEF Attended
        <5>2. PICK x \in Workers : Attaching(x, u)
          BY <2>11, <3>1 DEF Dlq, IInv, Attended
        <5>3. u \in Topics
          BY <2>11 DEF Dlq, TypeOK
        <5> QED
          BY <4>1, <5>1, <5>2, <5>3 DEF Attaching
      <4> QED
        BY <4>2, <4>3, <4>4 DEF IInv
    <3>2. CASE GoOnWithout(w, t) /\ UNCHANGED <<dlq, dlqUrls>>
      <4>1. Resolved(w, t) /\ torn' = torn \cup {t}
        BY <3>2 DEF GoOnWithout
      <4>2. \A x \in Workers, u \in Topics : Cached(x, u)'
        BY <2>11, <3>2, <4>1, ResolvedKnows, OthersKeep DEF Dlq, Cached
      <4>3. \A x \in Workers : Mode(x)'
        BY <2>11, <4>1, ResolvedKnows, ModesKeep DEF Dlq
      <4>4. Attended'
        BY <2>11, <3>2, <4>1, ResolvedKnows, OneLeaves DEF Dlq, IInv
      <4> QED
        BY <4>2, <4>3, <4>4 DEF IInv
    <3> QED
      BY <2>11, <3>1, <3>2 DEF Dlq
  <2>12. ASSUME NEW w \in Workers, NEW t \in Topics, Attach(w, t) PROVE IInv'
    <3>1. Resolved(w, t)
      BY <2>12 DEF Attach, GoOnWithout
    <3>2. \A x \in Workers, u \in Topics : Cached(x, u)'
      BY <2>12, <3>1, ResolvedKnows, OthersKeep DEF Attach, Cached
    <3>3. \A x \in Workers : Mode(x)'
      BY <2>12, <3>1, ResolvedKnows, ModesKeep DEF Attach
    <3>4. Attended'
      <4>1. /\ policy \subseteq policy' /\ torn \subseteq torn'
            /\ t \in policy' \cup torn' \/ t \notin queue \/ t \notin dlq
        BY <2>12 DEF Attach, GoOnWithout
      <4>2. t \in policy' \cup torn' \/ t \notin queue \/ ~Attaching(w, t)
        BY <2>12, <4>1 DEF Attach, Attaching
      <4> QED
        BY <2>12, <3>1, <4>1, <4>2, ResolvedKnows, OneLeaves DEF Attach, IInv
    <3> QED
      BY <3>2, <3>3, <3>4 DEF IInv
  <2>13. ASSUME NEW w \in Workers, NEW t \in Topics, Missing(w, t) PROVE IInv'
    <3>1. at'[w][t] = "find" /\ \A x \in Workers, u \in Topics : (x # w \/ u # t) => at'[x][u] = at[x][u]
      BY <2>13, GotoSets DEF Missing
    <3>2. \A x \in Workers, u \in Topics : Cached(x, u)'
      <4>1. Cached(w, t)'
        BY <2>13, <3>1 DEF Missing, Forget, TypeOK, Cached
      <4>2. ASSUME NEW x \in Workers, NEW u \in Topics, x # w \/ u # t PROVE Cached(x, u)'
        <5>1. (u \in urls'[x] <=> u \in urls[x]) /\ (u \in dlqUrls'[x] <=> u \in dlqUrls[x])
          BY <2>13, <4>2 DEF Missing, Forget, TypeOK
        <5> QED
          BY <2>13, <3>1, <4>2, <5>1, OthersKeep DEF Missing
      <4> QED
        BY <4>1, <4>2
    <3>3. \A x \in Workers : Mode(x)'
      <4>1. mode[w] # "warming"
        BY <2>13 DEF Missing, IInv, Mode, Creating
      <4> QED
        BY <2>13, <3>1, <4>1, ModesKeep DEF Missing
    <3>4. Attended'
      BY <2>13, <3>1, AttentionKeeps DEF Missing, IInv, brokerVars
    <3> QED
      BY <3>2, <3>3, <3>4 DEF IInv
  <2>14. ASSUME NEW w \in Workers, NEW t \in Topics,
                WaitOver(w, t) \/ Exit(w, t) \/ ReceiveFails(w, t)
         PROVE IInv'
    <3>1. /\ at[w][t] \in {"poll", "wait"} /\ mode[w] # "warming"
          /\ UNCHANGED <<brokerVars, mode, polling, stopped, cold, urls, dlqUrls, known, torn>>
      BY <2>14 DEF WaitOver, Exit, ReceiveFails, IInv, Mode, Creating
    <3>2. \A x \in Workers, u \in Topics : (x # w \/ u # t) => at'[x][u] = at[x][u]
      BY <2>14, GotoSets DEF WaitOver, Exit, ReceiveFails
    <3>3. /\ at'[w][t] \in {"poll", "wait", "find", "exited"}
          /\ at'[w][t] = "poll" => t \in known[w]
          /\ at'[w][t] = "find" => at[w][t] = "wait" /\ t \notin known[w]
          /\ at'[w][t] = "wait" => at[w][t] = "poll"
      BY <2>14, GotoSets DEF WaitOver, Exit, ReceiveFails
    <3>4. \A x \in Workers, u \in Topics : Cached(x, u)'
      <4>1. Cached(w, t)'
        BY <3>1, <3>3 DEF IInv, Cached
      <4> QED
        BY <3>1, <3>2, <4>1, OthersKeep
    <3>5. \A x \in Workers : Mode(x)'
      BY <3>1, <3>2, ModesKeep
    <3>6. Attended'
      BY <3>1, <3>2, AttentionKeeps DEF IInv, brokerVars
    <3> QED
      BY <3>4, <3>5, <3>6 DEF IInv
  <2>15. ASSUME NEW w \in Workers, NEW t \in Topics, DeadLetter(w, t) PROVE IInv'
    <3>1. \A x \in Workers, u \in Topics : Cached(x, u)'
      <4>1. ASSUME NEW x \in Workers, NEW u \in Topics, x # w \/ u # t PROVE Cached(x, u)'
        <5>1. u \in dlqUrls'[x] <=> u \in dlqUrls[x]
          BY <2>15, <4>1 DEF DeadLetter, TypeOK
        <5> QED
          BY <2>15, <4>1, <5>1, OthersKeep DEF DeadLetter
      <4>2. Cached(w, t)'
        BY <2>15 DEF DeadLetter, IInv, Cached
      <4> QED
        BY <4>1, <4>2
    <3>2. \A x \in Workers : Mode(x)'
      BY <2>15 DEF DeadLetter, IInv, Mode
    <3>3. Attended'
      BY <2>15, AttentionKeeps DEF DeadLetter, IInv
    <3> QED
      BY <3>1, <3>2, <3>3 DEF IInv
  <2> QED
    BY <2>1, <2>2, <2>3, <2>4, <2>5, <2>6, <2>7, <2>8, <2>9, <2>10, <2>11, <2>12, <2>13,
       <2>14, <2>15 DEF Next, Step
<1> QED
  BY <1>1, <1>2, TypeCorrect, PTL DEF Spec

-----------------------------------------------------------------------------
\* A queue without its redrive policy is being given one, unless a crash or a failed
\* call cut its creation short.
THEOREM RedriveIsAttached == Spec => []RedriveAttached
<1>1. IInv => RedriveAttached
  BY DEF IInv, Attended, Attaching, RedriveAttached
<1> QED
  BY <1>1, Invariant, PTL

\* After stop() has returned the process does nothing more.
THEOREM StoppedForGood == Spec => StopIsFinal
<1>1. TypeOK /\ IInv /\ [Next]_vars =>
        [\A w \in Workers :
           stopped[w] /\ stopped'[w] => UNCHANGED <<at[w], urls[w], dlqUrls[w]>>]_vars
  <2> SUFFICES ASSUME TypeOK, IInv, Next, NEW w \in Workers, stopped[w], stopped'[w]
               PROVE  UNCHANGED <<at[w], urls[w], dlqUrls[w]>>
    OBVIOUS
  <2>1. mode[w] = "live" /\ ~polling[w] /\ \A t \in Topics : at[w][t] = "exited"
    BY DEF IInv, Mode
  <2>2. CASE BrokerLosesAll
    BY <2>2 DEF BrokerLosesAll, workerVars
  <2>3. ASSUME NEW x \in Workers,
               Start(x) \/ GoLive(x) \/ Stop(x) \/ StopReturns(x) \/ ProcessEnds(x)
        PROVE  UNCHANGED <<at[w], urls[w], dlqUrls[w]>>
    BY <2>1, <2>3 DEF TypeOK, Start, GoLive, Stop, StopReturns, ProcessEnds
  <2>4. ASSUME NEW x \in Workers, NEW t \in Topics,
               Step(x, t) \/ ReceiveFails(x, t) \/ DeadLetter(x, t)
        PROVE  UNCHANGED <<at[w], urls[w], dlqUrls[w]>>
    <3>1. x # w
      BY <2>1, <2>4 DEF Step, WarmUp, Find, Create, Dlq, Attach, Missing, WaitOver, Exit,
                        ReceiveFails, DeadLetter
    <3>2. at'[w] = at[w]
      BY <2>4, <3>1 DEF Step, WarmUp, Find, Create, Dlq, Attach, Missing, WaitOver, Exit, Goto,
                        ReceiveFails, DeadLetter, Resolved, Failed, GoOnWithout, Return, TypeOK
    <3>3. urls'[w] = urls[w]
      BY <2>4, <3>1 DEF Step, WarmUp, Find, Create, Dlq, Attach, Missing, WaitOver, Exit, Forget,
                        ReceiveFails, DeadLetter, Resolved, Failed, GoOnWithout, TypeOK
    <3>4. dlqUrls'[w] = dlqUrls[w]
      BY <2>4, <3>1 DEF Step, WarmUp, Find, Create, Dlq, Attach, Missing, WaitOver, Exit, Forget,
                        ReceiveFails, DeadLetter, TypeOK
    <3> QED
      BY <3>2, <3>3, <3>4
  <2> QED
    BY <2>2, <2>3, <2>4 DEF Next
<1> QED
  BY <1>1, TypeCorrect, Invariant, PTL DEF Spec, StopIsFinal
===============================================================================
