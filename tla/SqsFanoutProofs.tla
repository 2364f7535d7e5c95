--------------------------- MODULE SqsFanoutProofs ---------------------------
(***************************************************************************)
(* Theorems of SqsFanout, for any number of services and calls.            *)
(***************************************************************************)
EXTENDS SqsFanout, TLAPS

\* Lesser stays in a range both of its arguments reach into.
LEMMA LesserInRange ==
  ASSUME NEW n \in Nat, NEW a \in Nat, NEW b \in 0..n
  PROVE  Lesser(a, b) \in 0..n /\ Lesser(b, a) \in 0..n
BY DEF Lesser

\* The state keeps its shape: in particular no step moves an expiry beyond the TTL.
THEOREM TypeCorrect == Spec => []TypeOK
<1>1. Init => TypeOK
  BY FanoutAssumption DEF Init, TypeOK
<1>2. TypeOK /\ [Next]_vars => TypeOK'
  <2> SUFFICES ASSUME TypeOK, [Next]_vars PROVE TypeOK'
    OBVIOUS
  <2> USE FanoutAssumption DEF TypeOK
  <2>1. CASE UNCHANGED vars
    BY <2>1 DEF vars, brokerVars, cacheVars, callVars
  <2>2. CASE Tick
    <3>1. left' \in 0..Ttl
      BY <2>2 DEF Tick
    <3> QED
      BY <2>2, <3>1 DEF Tick, brokerVars, callVars
  <2>3. ASSUME NEW s \in Services, ListPage(s) PROVE TypeOK'
    BY <2>3 DEF ListPage, brokerVars, callVars
  <2>4. CASE FillCache
    <3>1. stage' \in [Calls -> {"idle", "resolving", "sending", "resolved", "rejected"}]
      BY <2>4 DEF FillCache
    <3>2. asked' \in [Calls -> SUBSET Services]
      <4>1. \A m \in Calls : (IF m \in Resolving THEN found ELSE asked[m]) \in SUBSET Services
        OBVIOUS
      <4> QED
        BY <2>4, <4>1 DEF FillCache
    <3>3. pending' \in [Calls -> SUBSET Services]
      <4>1. \A m \in Calls : (IF m \in Resolving THEN found ELSE pending[m]) \in SUBSET Services
        OBVIOUS
      <4> QED
        BY <2>4, <4>1 DEF FillCache
    <3>4. cold' = FALSE /\ known' = found /\ left' = Ttl /\ refresh' = "none" /\ found' = {}
      BY <2>4 DEF FillCache
    <3>5. UNCHANGED <<queues, lost, unlisted, refused, sent, faults>>
      BY <2>4 DEF FillCache, brokerVars
    <3> QED
      <4>1. left' \in 0..Ttl
        BY <3>4
      <4>2. cold' \in BOOLEAN
        BY <3>4
      <4> QED
        BY <3>1, <3>2, <3>3, <3>4, <3>5, <4>1, <4>2
  <2>5. CASE ListFails
    BY <2>5 DEF ListFails, brokerVars, Fault
  <2>6. ASSUME NEW s \in Services, QueueAppears(s) PROVE TypeOK'
    BY <2>6 DEF QueueAppears, cacheVars, callVars
  <2>7. ASSUME NEW s \in Services, QueueIsLost(s) PROVE TypeOK'
    BY <2>7 DEF QueueIsLost, cacheVars, callVars, Fault
  <2>8. ASSUME NEW m \in Calls, Publish(m) PROVE TypeOK'
    BY <2>8 DEF Publish, brokerVars
  <2>9. ASSUME NEW m \in Calls, NEW s \in Services, SendAccepted(m, s) PROVE TypeOK'
    BY <2>9 DEF SendAccepted, brokerVars, cacheVars
  <2>10. ASSUME NEW m \in Calls, NEW s \in Services, SendRefused(m, s) PROVE TypeOK'
    BY <2>10 DEF SendRefused, brokerVars, cacheVars
  <2>11. ASSUME NEW m \in Calls, NEW s \in Services, ForgetQueue(m, s) PROVE TypeOK'
    BY <2>11 DEF ForgetQueue, brokerVars
  <2>12. ASSUME NEW m \in Calls, NEW s \in Services, SendFails(m, s) PROVE TypeOK'
    BY <2>12 DEF SendFails, brokerVars, cacheVars, Fault
  <2>13. ASSUME NEW m \in Calls, Resolve(m) PROVE TypeOK'
    BY <2>13 DEF Resolve, brokerVars, cacheVars
  <2>14. ASSUME NEW m \in Calls, RefuseVoid(m) PROVE TypeOK'
    <3>1. left' \in 0..Ttl
      BY <2>14, LesserInRange DEF RefuseVoid, Lesser
    <3> QED
      BY <2>14, <3>1 DEF RefuseVoid, brokerVars
  <2> QED
    BY <2>1, <2>2, <2>3, <2>4, <2>5, <2>6, <2>7, <2>8, <2>9, <2>10, <2>11, <2>12,
       <2>13, <2>14 DEF Next, Settle
<1> QED
  BY <1>1, <1>2, PTL DEF Spec

-----------------------------------------------------------------------------
\* Whatever a publisher has heard of exists or was lost.
Heard ==
  /\ known \subseteq queues \cup lost
  /\ found \subseteq queues \cup lost
  /\ \A m \in Calls : pending[m] \subseteq queues \cup lost

\* The account of a fan-out that no error has rejected: each url it set out for has
\* its copy, is still to answer, or lost its queue; and nothing is open once it
\* resolves.
Account(m) ==
  /\ refused[m] \subseteq lost
  /\ stage[m] \in {"sending", "resolved"} =>
       asked[m] \subseteq sent[m] \cup pending[m] \cup refused[m] \cup lost
  /\ stage[m] = "resolved" => pending[m] = {} /\ refused[m] = {}
  /\ stage[m] = "resolved" /\ m \in Required => sent[m] # {}

IInv == Heard /\ \A m \in Calls : Account(m)

\* The account is kept by every step: the urls of a listing come from queues that
\* exist, and only a queue that was lost refuses a copy.
THEOREM Invariant == Spec => []IInv
<1>1. Init => IInv
  BY DEF Init, IInv, Heard, Account
<1>2. TypeOK /\ IInv /\ [Next]_vars => IInv'
  <2> SUFFICES ASSUME TypeOK, IInv, [Next]_vars PROVE IInv'
    OBVIOUS
  <2> USE DEF TypeOK, IInv, Heard, Account
  <2>1. CASE UNCHANGED vars
    BY <2>1 DEF vars, brokerVars, cacheVars, callVars
  <2>2. CASE Tick
    BY <2>2 DEF Tick, brokerVars, callVars
  <2>3. ASSUME NEW s \in Services, ListPage(s) PROVE IInv'
    BY <2>3 DEF ListPage, brokerVars, callVars
  <2>4. CASE FillCache
    <3>1. Heard'
      BY <2>4 DEF FillCache, brokerVars
    <3>2. ASSUME NEW m \in Calls PROVE Account(m)'
      <4>1. CASE m \in Resolving
        BY <2>4, <4>1 DEF FillCache, brokerVars, Resolving
      <4>2. CASE m \notin Resolving
        BY <2>4, <4>2 DEF FillCache, brokerVars
      <4> QED
        BY <4>1, <4>2
    <3> QED
      BY <3>1, <3>2
  <2>5. CASE ListFails
    <3>1. Heard'
      BY <2>5 DEF ListFails, brokerVars
    <3>2. ASSUME NEW m \in Calls PROVE Account(m)'
      BY <2>5 DEF ListFails, brokerVars, Resolving
    <3> QED
      BY <3>1, <3>2
  <2>6. ASSUME NEW s \in Services, QueueAppears(s) PROVE IInv'
    BY <2>6 DEF QueueAppears, cacheVars, callVars
  <2>7. ASSUME NEW s \in Services, QueueIsLost(s) PROVE IInv'
    BY <2>7 DEF QueueIsLost, cacheVars, callVars
  <2>8. ASSUME NEW m \in Calls, Publish(m) PROVE IInv'
    BY <2>8 DEF Publish, brokerVars, Answered
  <2>9. ASSUME NEW m \in Calls, NEW s \in Services, SendAccepted(m, s) PROVE IInv'
    BY <2>9 DEF SendAccepted, brokerVars, cacheVars
  <2>10. ASSUME NEW m \in Calls, NEW s \in Services, SendRefused(m, s) PROVE IInv'
    BY <2>10 DEF SendRefused, brokerVars, cacheVars
  <2>11. ASSUME NEW m \in Calls, NEW s \in Services, ForgetQueue(m, s) PROVE IInv'
    BY <2>11 DEF ForgetQueue, brokerVars
  <2>12. ASSUME NEW m \in Calls, NEW s \in Services, SendFails(m, s) PROVE IInv'
    BY <2>12 DEF SendFails, brokerVars, cacheVars
  <2>13. ASSUME NEW m \in Calls, Resolve(m) PROVE IInv'
    BY <2>13 DEF Resolve, brokerVars, cacheVars, FanoutDone, Answered
  <2>14. ASSUME NEW m \in Calls, RefuseVoid(m) PROVE IInv'
    BY <2>14 DEF RefuseVoid, brokerVars
  <2> QED
    BY <2>1, <2>2, <2>3, <2>4, <2>5, <2>6, <2>7, <2>8, <2>9, <2>10, <2>11, <2>12,
       <2>13, <2>14 DEF Next, Settle
<1> QED
  BY <1>1, <1>2, TypeCorrect, PTL DEF Spec

-----------------------------------------------------------------------------
\* A publish with requireSubscribers that resolves has left a copy somewhere.
THEOREM RequiredReaches == Spec => []RequiredReachesSomeone
<1>1. TypeOK /\ IInv => RequiredReachesSomeone
  BY FanoutAssumption DEF IInv, Account, RequiredReachesSomeone
<1> QED
  BY <1>1, TypeCorrect, Invariant, PTL

\* A publish that resolves has left a copy for every subscriber it knew of whose
\* queue was not lost.
THEOREM NobodyIsSkipped == Spec => []NobodySkipped
<1>1. IInv => NobodySkipped
  BY DEF IInv, Account, NobodySkipped
<1> QED
  BY <1>1, Invariant, PTL

-----------------------------------------------------------------------------
\* Nothing is on its way for a call that has not begun to send, or has resolved; what is
\* still on its way has not arrived, so that a copy that arrives is the first.
Quiet ==
  /\ cold => known = {}
  /\ \A m \in Calls :
       /\ stage[m] \in {"idle", "resolving"} => pending[m] = {}
       /\ stage[m] = "resolving" => sent[m] = {}
       /\ pending[m] \cap sent[m] = {}

\* Every step keeps it: a slot is used again only once all its sends are answered.
THEOREM QuietHolds == Spec => []Quiet
<1>1. Init => Quiet
  BY DEF Init, Quiet
<1>2. TypeOK /\ Quiet /\ [Next]_vars => Quiet'
  <2> SUFFICES ASSUME TypeOK, Quiet, [Next]_vars PROVE Quiet'
    OBVIOUS
  <2> USE DEF TypeOK, Quiet
  <2>1. CASE \/ UNCHANGED vars \/ Tick
             \/ \E s \in Services : QueueAppears(s) \/ QueueIsLost(s) \/ ListPage(s)
    BY <2>1 DEF vars, cacheVars, callVars, Tick, ListPage, QueueAppears, QueueIsLost
  <2>2. CASE FillCache
    <3>1. cold' = FALSE
      BY Zenon, <2>2 DEF FillCache
    <3>2. ASSUME NEW m \in Calls
          PROVE  /\ stage'[m] \notin {"resolving"}
                 /\ stage'[m] = "idle" => pending'[m] = {}
                 /\ pending'[m] \cap sent'[m] = {}
      BY <2>2 DEF FillCache, Resolving
    <3> QED
      BY <3>1, <3>2
  <2>3. CASE ListFails
    BY <2>3 DEF ListFails, brokerVars, Resolving
  <2>4. ASSUME NEW m \in Calls, Publish(m) PROVE Quiet'
    BY <2>4 DEF Publish, brokerVars, Answered
  <2>5. ASSUME NEW m \in Calls, NEW s \in Services,
               SendAccepted(m, s) \/ SendRefused(m, s)
        PROVE  Quiet'
    BY <2>5 DEF SendAccepted, SendRefused, brokerVars, cacheVars
  <2>6. ASSUME NEW m \in Calls, NEW s \in Services, ForgetQueue(m, s) PROVE Quiet'
    BY <2>6 DEF ForgetQueue, brokerVars
  <2>7. ASSUME NEW m \in Calls, NEW s \in Services, SendFails(m, s) PROVE Quiet'
    BY <2>7 DEF SendFails, brokerVars, cacheVars
  <2>8. ASSUME NEW m \in Calls, Resolve(m) \/ RefuseVoid(m) PROVE Quiet'
    BY <2>8 DEF Resolve, RefuseVoid, brokerVars, cacheVars
  <2> QED
    BY <2>1, <2>2, <2>3, <2>4, <2>5, <2>6, <2>7, <2>8 DEF Next, Settle
<1> QED
  BY <1>1, <1>2, TypeCorrect, PTL DEF Spec

-----------------------------------------------------------------------------
\* The outcomes of all calls, as the contract sees them.
Outcomes == [m \in Calls |-> Outcome(m)]

\* What each stage means to the caller.
LEMMA OutcomeIs ==
  ASSUME TypeOK, NEW m \in Calls
  PROVE  /\ stage[m] = "idle" => Outcome(m) = "none"
         /\ stage[m] \in {"resolving", "sending"} => Outcome(m) = "open"
         /\ stage[m] = "resolved" => Outcome(m) = "resolved"
         /\ stage[m] = "rejected" => Outcome(m) = "rejected"
BY DEF TypeOK, Outcome

LEMMA OutcomeIsPrimed ==
  ASSUME TypeOK', NEW m \in Calls
  PROVE  /\ stage'[m] = "idle" => Outcome(m)' = "none"
         /\ stage'[m] \in {"resolving", "sending"} => Outcome(m)' = "open"
         /\ stage'[m] = "resolved" => Outcome(m)' = "resolved"
         /\ stage'[m] = "rejected" => Outcome(m)' = "rejected"
BY DEF TypeOK, Outcome

\* Where no call changes its stage in a way its caller can tell, no outcome changes.
LEMMA OutcomesKept ==
  ASSUME TypeOK, TypeOK',
         \A m \in Calls : stage'[m] = stage[m]
                            \/ (stage[m] = "resolving" /\ stage'[m] = "sending")
  PROVE  Outcomes' = Outcomes
<1>1. ASSUME NEW m \in Calls PROVE Outcome(m)' = Outcome(m)
  BY OutcomeIs, OutcomeIsPrimed DEF TypeOK
<1> QED
  BY <1>1 DEF Outcomes

\* Where one call changes its stage, only its outcome changes.
LEMMA OutcomeOfOne ==
  ASSUME TypeOK, TypeOK', NEW m \in Calls, NEW st, stage' = [stage EXCEPT ![m] = st]
  PROVE  Outcomes' = [Outcomes EXCEPT ![m] = Outcome(m)']
<1>1. ASSUME NEW n \in Calls, n # m PROVE Outcome(n)' = Outcome(n)
  <2>1. stage'[n] = stage[n]
    BY <1>1 DEF TypeOK
  <2> QED
    BY <2>1, OutcomeIs, OutcomeIsPrimed DEF TypeOK
<1> QED
  BY <1>1 DEF Outcomes

\* One error ends the calls that depend on it; a copy may come of it.
LEMMA BreakStep ==
  ASSUME TypeOK, TypeOK', NEW M \in SUBSET Calls, Fault,
         \A m \in M : stage[m] \in {"resolving", "sending", "rejected"},
         stage' = [m \in Calls |-> IF m \in M THEN "rejected" ELSE stage[m]],
         \/ UNCHANGED sent
         \/ \E m \in M, s \in Services :
              s \notin sent[m] /\ sent' = [sent EXCEPT ![m] = @ \cup {s}]
  PROVE  Contract!Break(M)
<1>1. \A m \in M : Contract!Unsettled(m)
  BY OutcomeIs DEF Contract!Unsettled
<1>2. Outcomes' = [m \in Calls |-> IF m \in M THEN "rejected" ELSE Outcomes[m]]
  <2>1. ASSUME NEW m \in Calls
        PROVE  Outcome(m)' = IF m \in M THEN "rejected" ELSE Outcome(m)
    BY OutcomeIs, OutcomeIsPrimed DEF TypeOK
  <2> QED
    BY <2>1 DEF Outcomes
<1>3. UNCHANGED sent \/ \E m \in M, s \in Services : Contract!Copy(m, s)
  BY <1>1 DEF Contract!Copy
<1> QED
  BY <1>1, <1>2, <1>3 DEF Contract!Break, Outcomes, Fault

\* Every step of the fan-out is a step of the contract or changes none of it.
LEMMA ContractStep ==
  ASSUME TypeOK, TypeOK', IInv, Quiet, [Next]_vars
  PROVE  [Contract!Next]_(Contract!vars)
<1>1. CASE \/ UNCHANGED vars \/ Tick \/ FillCache
           \/ \E s \in Services : QueueAppears(s) \/ ListPage(s)
           \/ \E m \in Calls, s \in Services : SendRefused(m, s) \/ ForgetQueue(m, s)
  <2>1. UNCHANGED <<sent, faults>>
    BY <1>1 DEF vars, callVars, Tick, ListPage, FillCache, QueueAppears, SendRefused,
                ForgetQueue
  <2>2. \A m \in Calls : stage'[m] = stage[m]
                           \/ (stage[m] = "resolving" /\ stage'[m] = "sending")
    <3>1. CASE FillCache
      BY <3>1 DEF FillCache, Resolving
    <3>2. CASE ~FillCache
      <4>1. UNCHANGED stage
        BY <1>1, <3>2
           DEF vars, callVars, Tick, ListPage, QueueAppears, SendRefused, ForgetQueue
      <4> QED
        BY <4>1
    <3> QED
      BY <3>1, <3>2
  <2>3. Outcomes' = Outcomes
    BY <2>2, OutcomesKept
  <2> QED
    BY <2>1, <2>3 DEF Contract!vars, Outcomes
<1>2. ASSUME NEW s \in Services, QueueIsLost(s) PROVE Contract!Next
  <2>1. Fault /\ UNCHANGED <<stage, sent>>
    BY <1>2 DEF QueueIsLost, callVars
  <2>2. stage' = [m \in Calls |-> IF m \in {} THEN "rejected" ELSE stage[m]]
    BY <2>1 DEF TypeOK
  <2>3. Contract!Break({})
    BY <2>1, <2>2, BreakStep
  <2> QED
    BY <2>3 DEF Contract!Next
<1>3. CASE ListFails
  <2>1. /\ Fault /\ UNCHANGED sent
        /\ stage' = [m \in Calls |-> IF m \in Resolving THEN "rejected" ELSE stage[m]]
    BY <1>3 DEF ListFails
  <2>2. Resolving \in SUBSET Calls /\ \A m \in Resolving : stage[m] = "resolving"
    BY DEF Resolving
  <2>3. Contract!Break(Resolving)
    BY <2>1, <2>2, BreakStep
  <2> QED
    BY <2>2, <2>3 DEF Contract!Next
<1>4. ASSUME NEW m \in Calls, NEW s \in Services, SendFails(m, s) PROVE Contract!Next
  <2>1. /\ Fault /\ s \in pending[m]
        /\ stage' = [stage EXCEPT ![m] = "rejected"]
        /\ UNCHANGED sent \/ sent' = [sent EXCEPT ![m] = @ \cup {s}]
    BY <1>4 DEF SendFails
  <2>2. s \notin sent[m] /\ stage[m] \in {"sending", "rejected"}
    BY <2>1 DEF TypeOK, Quiet, IInv, Account
  <2>3. stage' = [n \in Calls |-> IF n \in {m} THEN "rejected" ELSE stage[n]]
    BY <2>1 DEF TypeOK
  <2>4. Contract!Break({m})
    BY <2>1, <2>2, <2>3, BreakStep
  <2> QED
    BY <2>4 DEF Contract!Next
<1>5. ASSUME NEW m \in Calls, Publish(m) PROVE Contract!Begin(m)
  <2>1. /\ stage[m] \notin {"resolving", "sending"}
        /\ stage' = [stage EXCEPT ![m] = IF cold THEN "resolving" ELSE "sending"]
        /\ sent' = [sent EXCEPT ![m] = {}] /\ UNCHANGED faults
    BY <1>5 DEF Publish
  <2>2. stage'[m] \in {"resolving", "sending"}
    BY <2>1 DEF TypeOK
  <2>3. Outcome(m) # "open" /\ Outcome(m)' = "open"
    BY <2>1, <2>2, OutcomeIs, OutcomeIsPrimed DEF TypeOK
  <2>4. Outcomes' = [Outcomes EXCEPT ![m] = "open"]
    BY <2>1, <2>3, OutcomeOfOne
  <2> QED
    BY <2>1, <2>3, <2>4 DEF Contract!Begin, Outcomes
<1>6. ASSUME NEW m \in Calls, NEW s \in Services, SendAccepted(m, s)
      PROVE  Contract!Deliver(m, s)
  <2>1. /\ s \in pending[m] /\ UNCHANGED <<stage, faults>>
        /\ sent' = [sent EXCEPT ![m] = @ \cup {s}]
    BY <1>6 DEF SendAccepted, cacheVars
  <2>2. s \notin sent[m] /\ stage[m] \in {"sending", "rejected"}
    BY <2>1 DEF TypeOK, Quiet, IInv, Account
  <2>3. Contract!Unsettled(m)
    BY <2>2, OutcomeIs DEF Contract!Unsettled
  <2>4. Outcomes' = Outcomes
    <3>1. \A n \in Calls : stage'[n] = stage[n]
      BY <2>1
    <3> QED
      BY Zenon, <3>1, OutcomesKept
  <2> QED
    BY <2>1, <2>2, <2>3, <2>4 DEF Contract!Deliver, Contract!Copy, Outcomes
<1>7. ASSUME NEW m \in Calls, Resolve(m) PROVE Contract!Resolve(m)
  <2>1. /\ stage[m] = "sending" /\ stage' = [stage EXCEPT ![m] = "resolved"]
        /\ sent[m] # {} \/ m \notin Required
        /\ UNCHANGED <<sent, faults>>
    BY <1>7 DEF Resolve, FanoutDone
  <2>2. Outcome(m) = "open" /\ Outcome(m)' = "resolved"
    BY <2>1, OutcomeIs, OutcomeIsPrimed DEF TypeOK
  <2>3. Outcomes' = [Outcomes EXCEPT ![m] = "resolved"]
    BY <2>1, <2>2, OutcomeOfOne
  <2> QED
    BY <2>1, <2>2, <2>3 DEF Contract!Resolve, Outcomes
<1>8. ASSUME NEW m \in Calls, RefuseVoid(m) PROVE Contract!Refuse(m)
  <2>1. /\ stage[m] = "sending" /\ stage' = [stage EXCEPT ![m] = "rejected"]
        /\ sent[m] = {} /\ m \in Required
        /\ UNCHANGED <<sent, faults>>
    BY <1>8 DEF RefuseVoid, FanoutDone
  <2>2. Outcome(m) = "open" /\ Outcome(m)' = "rejected"
    BY <2>1, OutcomeIs, OutcomeIsPrimed DEF TypeOK
  <2>3. Outcomes' = [Outcomes EXCEPT ![m] = "rejected"]
    BY <2>1, <2>2, OutcomeOfOne
  <2> QED
    BY <2>1, <2>2, <2>3 DEF Contract!Refuse, Outcomes
<1> QED
  BY <1>1, <1>2, <1>3, <1>4, <1>5, <1>6, <1>7, <1>8 DEF Next, Settle, Contract!Next

\* The fan-out implements what the relay relies on: a publish that resolves is over and
\* has reached someone where that was required, one that is turned down without an error
\* has reached nobody, and no service gets two copies of one publish.
THEOREM Refinement == Spec => ImplementsPublish
<1>1. Init => Contract!Init
  BY DEF Init, Contract!Init, Outcome
<1>2. TypeOK /\ TypeOK' /\ IInv /\ Quiet /\ [Next]_vars => [Contract!Next]_(Contract!vars)
  BY ContractStep
<1> QED
  BY <1>1, <1>2, TypeCorrect, Invariant, QuietHolds, PTL
     DEF Spec, ImplementsPublish, Contract!Spec
==============================================================================
