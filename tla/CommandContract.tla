--------------------------- MODULE CommandContract ---------------------------
(***************************************************************************)
(* What a command's caller may rely on, whatever happens between the 202   *)
(* it got and the status it polls: each handler's write happens at most    *)
(* once, a "succeeded" is reported only when every write is in, and what   *)
(* is reported is only ever improved (docs of recordCommandResult, I1) or, *)
(* for the older recordCommandOutcome, never changed.                      *)
(***************************************************************************)
CONSTANTS Commands, Handlers, Hooks, Guarded

VARIABLES applied, \* how often each handler's write was made for each command
          result   \* what each hook reports of each command

vars == <<applied, result>>

Init ==
  /\ applied = [c \in Commands |-> [h \in Handlers |-> 0]]
  /\ result  = [k \in Hooks |-> [c \in Commands |-> "none"]]

Apply(c, h) ==
  /\ applied[c][h] = 0
  /\ applied' = [applied EXCEPT ![c][h] = 1]
  /\ UNCHANGED result

\* What a hook reports may still change to something else.
Open(k, c) == result[k][c] = "none" \/ (k \in Guarded /\ result[k][c] # "succeeded")

Report(c, s) ==
  /\ s = "succeeded" => \A h \in Handlers : applied[c][h] = 1
  /\ \E K \in SUBSET { k \in Hooks : Open(k, c) } :
       result' = [k \in Hooks |-> IF k \in K THEN [result[k] EXCEPT ![c] = s] ELSE result[k]]
  /\ UNCHANGED applied

Next ==
  \E c \in Commands :
    \/ \E h \in Handlers : Apply(c, h)
    \/ \E s \in {"succeeded", "rejected", "failed"} : Report(c, s)

Spec == Init /\ [][Next]_vars
==============================================================================
