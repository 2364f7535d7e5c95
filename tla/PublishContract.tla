--------------------------- MODULE PublishContract ---------------------------
(***************************************************************************)
(* What the caller of publish may rely on, the relay above all, however    *)
(* the topic's subscribers come and go: a publish that resolves is over,   *)
(* with a copy on some queue where one was required; it is turned down     *)
(* without an error only where one was required and nobody took it; and    *)
(* no service gets two copies of one publish.  A publish that fails may    *)
(* have left copies, and may leave more after it has rejected.             *)
(***************************************************************************)
EXTENDS Naturals

CONSTANTS Services, Calls, Required, MaxFaults

VARIABLES outcome, \* of each call: "none", "open", "resolved", "rejected"
          took,    \* the services that got a copy of it
          faults

vars == <<outcome, took, faults>>

Init ==
  /\ outcome = [m \in Calls |-> "none"]
  /\ took    = [m \in Calls |-> {}]
  /\ faults  = 0

Begin(m) ==
  /\ outcome[m] # "open"
  /\ outcome' = [outcome EXCEPT ![m] = "open"]
  /\ took'    = [took EXCEPT ![m] = {}]
  /\ UNCHANGED faults

\* A call some of whose copies may still be on their way.
Unsettled(m) == outcome[m] \in {"open", "rejected"}

Copy(m, s) ==
  /\ Unsettled(m) /\ s \notin took[m]
  /\ took' = [took EXCEPT ![m] = @ \cup {s}]

Deliver(m, s) == Copy(m, s) /\ UNCHANGED <<outcome, faults>>

Resolve(m) ==
  /\ outcome[m] = "open"
  /\ took[m] # {} \/ m \notin Required
  /\ outcome' = [outcome EXCEPT ![m] = "resolved"]
  /\ UNCHANGED <<took, faults>>

\* With requireSubscribers, a publish that reached nobody.
Refuse(m) ==
  /\ outcome[m] = "open"
  /\ took[m] = {} /\ m \in Required
  /\ outcome' = [outcome EXCEPT ![m] = "rejected"]
  /\ UNCHANGED <<took, faults>>

\* One error ends the calls M that depend on it; a copy may come of it nevertheless.
Break(M) ==
  /\ faults < MaxFaults
  /\ faults' = faults + 1
  /\ \A m \in M : Unsettled(m)
  /\ outcome' = [m \in Calls |-> IF m \in M THEN "rejected" ELSE outcome[m]]
  /\ UNCHANGED took \/ \E m \in M, s \in Services : Copy(m, s)

Next ==
  \/ \E m \in Calls :
       \/ Begin(m) \/ Resolve(m) \/ Refuse(m)
       \/ \E s \in Services : Deliver(m, s)
  \/ \E M \in SUBSET Calls : Break(M)

Spec == Init /\ [][Next]_vars
==============================================================================
