--------------------------- MODULE CommitteeBallot ----------------------------
(***************************************************************************)
(* What a committee decision promises: votes are counted one at a time, a  *)
(* voter's once, and the outcome is announced together with a vote after   *)
(* which no vote still to come could change it, at the latest with the     *)
(* last one. Then nothing is counted any more.                             *)
(***************************************************************************)
EXTENDS Integers, FiniteSets

CONSTANT Voters

VARIABLES members, \* size of the committee
          need,    \* approvals that carry the motion
          votes,   \* rows [voter, vote]
          outcome  \* "open", "approve", "reject"

vars == <<members, need, votes, outcome>>

Choices == {"approve", "reject", "abstain"}

Count(rows, x) == Cardinality({ r \in rows : r.vote = x })

Cast(rows) == Count(rows, "approve") + Count(rows, "reject") + Count(rows, "abstain")

Pending(rows) == IF Cast(rows) < members THEN members - Cast(rows) ELSE 0

\* Whatever the pending members vote, the motion is carried, or it is not.
Sure(rows, o) ==
  \A more \in 0..Pending(rows) :
    (o = "approve") <=> (Count(rows, "approve") + more >= need)

Init == votes = {} /\ outcome = "open" /\ members \in Nat /\ need \in Nat

Vote(row) ==
  /\ outcome = "open"
  /\ \A r \in votes : r.voter # row.voter
  /\ votes' = votes \cup {row}
  /\ \/ Pending(votes') > 0 /\ outcome' = "open"
     \/ \E o \in {"approve", "reject"} : Sure(votes', o) /\ outcome' = o
  /\ UNCHANGED <<members, need>>

Next == \E row \in [voter : Voters, vote : Choices] : Vote(row)

Spec == Init /\ [][Next]_vars
===============================================================================
