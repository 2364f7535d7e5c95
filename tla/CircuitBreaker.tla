---------------------------- MODULE CircuitBreaker ----------------------------
(***************************************************************************)
(* One circuit breaker with calls that overlap                             *)
(* (packages/circuit-breaker/src/index.ts).  Everything between two awaits *)
(* is one step: the admission of a call, and the handling of its outcome.  *)
(* In between the breaker may change state any number of times.            *)
(***************************************************************************)
EXTENDS Integers, FiniteSets

CONSTANTS Calls,     \* calls that may run at once; each slot is reused
          Threshold, \* failureThreshold
          Recovery,  \* recoveryMs, in ticks
          MaxFaults  \* bound: calls that do not succeed in a behaviour

\* The constructor's RangeErrors.
ASSUME BreakerAssumption ==
  /\ Threshold \in Nat \ {0}
  /\ Recovery \in Nat
  /\ MaxFaults \in Nat

VARIABLES
  state,    \* _state
  failures, \* _failures
  wait,     \* ticks until recoveryMs have passed since _openedAt
  probing,  \* _probing
  epoch,    \* _epoch
  running,  \* calls whose fn is in flight
  probes,   \* those among them that are probes (isProbe)
  began,    \* the epoch each of them remembers
  stale,    \* history: calls in flight during some change of state
  faults

breakerVars == <<state, failures, wait, probing, epoch>>
vars        == <<breakerVars, running, probes, began, stale, faults>>

-----------------------------------------------------------------------------
Init ==
  /\ state    = "closed"
  /\ failures = 0
  /\ wait     = 0
  /\ probing  = FALSE
  /\ epoch    = 0
  /\ running  = {}
  /\ probes   = {}
  /\ began    = [c \in Calls |-> 0]
  /\ stale    = {}
  /\ faults   = 0

Fault == /\ faults < MaxFaults
         /\ faults' = faults + 1

Tick ==
  /\ wait > 0
  /\ wait' = wait - 1
  /\ UNCHANGED <<state, failures, probing, epoch, running, probes, began, stale, faults>>

\* Every call in flight across a change of state belongs to the past.
Outdate == stale' = (IF state' = state THEN stale ELSE stale \cup running) \cap running'

\* What the `state` getter returns.
Current == IF state = "open" /\ wait = 0 THEN "half-open" ELSE state

\* The getter's own change: open becomes half-open once the window has passed.
Observe ==
  /\ state' = Current
  /\ epoch' = IF Current = state THEN epoch ELSE epoch + 1

\* Someone reads the state (the gateway's metrics), or a call is refused: it leaves
\* nothing behind but what the getter did.
Look ==
  /\ Current # state
  /\ Observe
  /\ UNCHANGED <<failures, wait, probing, running, probes, began, faults>>
  /\ Outdate

\* Fault: nothing says that a probe is already in flight.
AdmitAnyProbe(c) ==
  /\ c \notin running
  /\ Current # "open"
  /\ Observe
  /\ running' = running \cup {c}
  /\ probes'  = IF Current = "half-open" THEN probes \cup {c} ELSE probes
  /\ probing' = (probing \/ Current = "half-open")
  /\ began'   = [began EXCEPT ![c] = epoch']
  /\ Outdate
  /\ UNCHANGED <<failures, wait, faults>>

\* call() up to its await: half-open admits one probe.
Admit(c) ==
  /\ c \notin running
  /\ Current = "closed" \/ (Current = "half-open" /\ ~probing)
  /\ Observe
  /\ running' = running \cup {c}
  /\ probes'  = IF Current = "half-open" THEN probes \cup {c} ELSE probes
  /\ probing' = (probing \/ Current = "half-open")
  /\ began'   = [began EXCEPT ![c] = epoch']
  /\ Outdate
  /\ UNCHANGED <<failures, wait, faults>>

-----------------------------------------------------------------------------
\* Fault: an outcome counts whenever the call began.
AnyCounts(c) == TRUE

\* The outcome of a call that began before a change of state says nothing.
Counts(c) == c \in probes \/ began[c] = epoch

\* The end of call(): the outcome has been handled, `finally` clears the probe flag.
Return(c) ==
  /\ running' = running \ {c}
  /\ probes'  = probes \ {c}
  /\ probing' = (probing /\ c \notin probes)
  /\ Outdate
  /\ UNCHANGED began

\* _onSuccess
Succeed(c) ==
  /\ c \in running
  /\ \/ /\ Counts(c)
        /\ state'    = "closed"
        /\ epoch'    = IF state = "closed" THEN epoch ELSE epoch + 1
        /\ failures' = 0
        /\ wait'     = 0
     \/ ~Counts(c) /\ UNCHANGED <<state, epoch, failures, wait>>
  /\ Return(c)
  /\ UNCHANGED faults

\* Fault: the breaker trips one failure late.
TrippingLate == state = "half-open" \/ failures >= Threshold

\* A failure now opens the breaker.
Tripping == state = "half-open" \/ failures + 1 >= Threshold

\* _onFailure
Fail(c) ==
  /\ c \in running
  /\ Fault
  /\ \/ /\ Counts(c) /\ Tripping
        /\ state'    = "open"
        /\ epoch'    = epoch + 1
        /\ failures' = 0
        /\ wait'     = Recovery
     \/ /\ Counts(c) /\ ~Tripping
        /\ failures' = failures + 1
        /\ UNCHANGED <<state, epoch, wait>>
     \/ ~Counts(c) /\ UNCHANGED <<state, epoch, failures, wait>>
  /\ Return(c)

\* Fault: only outcomes that count end the probe.
AbortKeepsProbe(c) ==
  /\ c \in running
  /\ Fault
  /\ running' = running \ {c}
  /\ probes'  = probes \ {c}
  /\ UNCHANGED <<breakerVars, began>>
  /\ Outdate

\* It throws what countsAsFailure says is no failure.
Abort(c) ==
  /\ c \in running
  /\ Fault
  /\ UNCHANGED <<state, epoch, failures, wait>>
  /\ Return(c)

Settle(c) == Succeed(c) \/ Fail(c) \/ Abort(c)

Next ==
  \/ Tick
  \/ Look
  \/ \E c \in Calls : Admit(c) \/ Settle(c)

Spec == Init /\ [][Next]_vars

\* Time passes, requests keep coming, every fn settles (its callers time out).
Fairness ==
  /\ WF_vars(Tick)
  /\ WF_vars(\E c \in Calls : Admit(c))
  /\ \A c \in Calls : WF_vars(Settle(c))

FairSpec == Spec /\ Fairness

-----------------------------------------------------------------------------
\* The shape of the state; the failure counter stays below the threshold.
TypeOK ==
  /\ state \in {"closed", "open", "half-open"}
  /\ failures \in 0..(Threshold - 1)
  /\ wait \in 0..Recovery
  /\ probing \in BOOLEAN
  /\ epoch \in Nat
  /\ running \in SUBSET Calls
  /\ probes \in SUBSET running
  /\ began \in [Calls -> Nat]
  /\ stale \in SUBSET running
  /\ faults \in 0..MaxFaults

\* "Half-open admits exactly ONE probe", and nothing moves the breaker while the
\* probe is in flight: neither a call of an earlier round nor the getter.
OneProbe ==
  /\ \A c, d \in probes : c = d
  /\ probes # {} => state = "half-open"

\* An outcome changes nothing if the breaker has changed its state, any number of
\* times, since the call was admitted ("CLOS3-S6-10").
StaleIsIgnored ==
  [][\A c \in stale : c \notin running' => UNCHANGED <<state, failures, wait, epoch>>]_vars

\* Once the dependency has stopped failing the breaker closes for good: no outcome
\* of a probe, not even one that says nothing, leaves it refusing everyone.
ClosesForGood == <>[](state = "closed")
==============================================================================
