---------------------------- MODULE CommitteeQuorum ----------------------------
(***************************************************************************)
(* A committee decision of the workflow service                            *)
(* (services/workflow-service/src/modules/quorum): votes arrive as         *)
(* commands, several workers tally them in transactions under the row lock *)
(* of the decision, and readers show the decision next to its tally.       *)
(***************************************************************************)
EXTENDS Integers, FiniteSets, Sequences

CONSTANTS Voters,      \* actors with a role that may vote
          Workers,     \* consumers of the vote command
          Sizes,       \* values of totalMembers
          MaxCommands, \* bound: vote commands
          MaxFaults    \* bound: transactions rolled back

ASSUME QuorumAssumption ==
  /\ Sizes \subseteq Nat \ {0}
  /\ MaxCommands \in Nat /\ MaxFaults \in Nat
  /\ IsFiniteSet(Voters)

VARIABLES
  decision, \* row of committee_decisions: [rule, threshold, members, outcome]; "open"
            \* stands for status open
  votes,    \* rows of committee_votes: [voter, vote]
  events,   \* outcomes of the committeeDecided events in the outbox
  sent,     \* vote commands published
  verdict,  \* per command: "none", or the outcome of its audit event; it is written
            \* with the claim in _inbox.processed
  tx,       \* per worker: Idle, or the transaction that runs
  shown,    \* the reader: NoRead, the snapshot it took, or what it answers
  faults

vars == <<decision, votes, events, sent, verdict, tx, shown, faults>>

-----------------------------------------------------------------------------
\* tallyQuorum.
Choices  == {"approve", "reject", "abstain"}
Outcomes == {"approve", "reject"}
Rows     == [voter : Voters, vote : Choices]

\* nth stands for the messageId: the commands of a voter for the same choice differ in it.
Commands == [voter : Voters, vote : Choices, nth : 1..MaxCommands]

Row(c) == [voter |-> c.voter, vote |-> c.vote]

Decisions == [rule : {"majority", "unanimous", "threshold"}, threshold : Nat,
              members : Sizes, outcome : Outcomes \cup {"open"}]

Count(rows, x) == Cardinality({ r \in rows : r.vote = x })

Cast(rows) == Count(rows, "approve") + Count(rows, "reject") + Count(rows, "abstain")

Pending(d, rows) == IF Cast(rows) < d.members THEN d.members - Cast(rows) ELSE 0

\* Fault: a tie is left open.
TieStaysOpen(d, rows) ==
  LET a == Count(rows, "approve") IN
  IF 2 * a > d.members THEN "approve"
  ELSE IF \/ 2 * Count(rows, "reject") > d.members
          \/ 2 * (a + Pending(d, rows)) < d.members THEN "reject"
  ELSE "open"

Majority(d, rows) ==
  LET a == Count(rows, "approve") IN
  IF 2 * a > d.members THEN "approve"
  ELSE IF \/ 2 * Count(rows, "reject") > d.members
          \/ 2 * (a + Pending(d, rows)) <= d.members THEN "reject"
  ELSE "open"

Unanimous(d, rows) ==
  IF Count(rows, "reject") > 0 THEN "reject"
  ELSE IF Count(rows, "approve") = d.members THEN "approve"
  ELSE IF Pending(d, rows) = 0 THEN "reject"
  ELSE "open"

Threshold(d, rows) ==
  LET a == Count(rows, "approve") IN
  IF a >= d.threshold THEN "approve"
  ELSE IF a + Pending(d, rows) < d.threshold THEN "reject"
  ELSE "open"

Tally(d, rows) ==
  CASE d.rule = "majority"  -> Majority(d, rows)
    [] d.rule = "unanimous" -> Unanimous(d, rows)
    [] d.rule = "threshold" -> Threshold(d, rows)

-----------------------------------------------------------------------------
Idle   == [at |-> "idle"]
NoRead == [at |-> "none"]

\* A decision just created: the routes see to it that its threshold can be reached;
\* without one the column is null, which tallyQuorum reads as 1.
Init ==
  /\ decision \in { d \in [rule : {"majority", "unanimous", "threshold"}, members : Sizes,
                           threshold : UNION { 1..n : n \in Sizes }, outcome : {"open"}] :
                      IF d.rule = "threshold" THEN d.threshold <= d.members ELSE d.threshold = 1 }
  /\ votes   = {}
  /\ events  = <<>>
  /\ sent    = {}
  /\ verdict = [c \in Commands |-> "none"]
  /\ tx      = [w \in Workers |-> Idle]
  /\ shown   = NoRead
  /\ faults  = 0

HasVoted(v) == \E r \in votes : r.voter = v

\* POST .../votes: a voter who has not voted yet publishes a command; clicking twice
\* publishes two, for the same choice or another.
Ask(c) ==
  /\ ~HasVoted(c.voter)
  /\ Cardinality(sent) < MaxCommands
  /\ c.nth = Cardinality({ d \in sent : Row(d) = Row(c) }) + 1
  /\ sent' = sent \cup {c}
  /\ UNCHANGED <<decision, votes, events, verdict, tx, shown, faults>>

-----------------------------------------------------------------------------
\* castCommitteeVote: one transaction, each statement sees what is committed by then.
\* It always finds the decision: the route that publishes the vote has read it first,
\* and decisions are never deleted.

Go(w, t) == tx' = [tx EXCEPT ![w] = t]

\* A delivery (a redelivery alike) claims the message; a second claim waits for the
\* first and then gives the message up.
Claim(w, c) ==
  /\ tx[w] = Idle
  /\ c \in sent /\ verdict[c] = "none"
  /\ \A x \in Workers : tx[x] # Idle => tx[x].cmd # c
  /\ Go(w, [at |-> "claimed", cmd |-> c])
  /\ UNCHANGED <<decision, votes, events, sent, verdict, shown, faults>>

Locks(w) == tx[w].at \in {"locked", "voted"}

\* Fault: SELECT without FOR UPDATE.
NoLock(w) ==
  /\ tx[w].at = "claimed"
  /\ Go(w, [at |-> "locked", cmd |-> tx[w].cmd, saw |-> decision.outcome])
  /\ UNCHANGED <<decision, votes, events, sent, verdict, shown, faults>>

\* SELECT ... FOR UPDATE of the decision.
Lock(w) ==
  /\ tx[w].at = "claimed"
  /\ \A x \in Workers : ~Locks(x)
  /\ Go(w, [at |-> "locked", cmd |-> tx[w].cmd, saw |-> decision.outcome])
  /\ UNCHANGED <<decision, votes, events, sent, verdict, shown, faults>>

\* Fault: only the status decides between a duplicate and a late vote.
StatusFirst(w) ==
  LET c == tx[w].cmd IN
  /\ tx[w].at = "locked"
  /\ Go(w, [at |-> "voted", cmd |-> c, saw |-> tx[w].saw,
            new  |-> IF tx[w].saw = "open" /\ ~HasVoted(c.voter) THEN {Row(c)} ELSE {},
            late |-> tx[w].saw # "open"])
  /\ UNCHANGED <<decision, votes, events, sent, verdict, shown, faults>>

\* The voter's row: there already, inserted, or too late.
Insert(w) ==
  LET c == tx[w].cmd IN
  /\ tx[w].at = "locked"
  /\ Go(w, [at |-> "voted", cmd |-> c, saw |-> tx[w].saw,
            new  |-> IF tx[w].saw = "open" /\ ~HasVoted(c.voter) THEN {Row(c)} ELSE {},
            late |-> tx[w].saw # "open" /\ ~HasVoted(c.voter)])
  /\ UNCHANGED <<decision, votes, events, sent, verdict, shown, faults>>

\* Fault: a late vote throws, which takes the claim back: the message comes again.
LateThrows(w) ==
  LET t    == tx[w]
      rows == votes \cup t.new
      o    == Tally(decision, rows)
      now  == t.saw = "open" /\ o # "open"
  IN
  /\ t.at = "voted"
  /\ votes'    = rows
  /\ decision' = [decision EXCEPT !.outcome = IF now THEN o ELSE @]
  /\ events'   = IF now THEN Append(events, o) ELSE events
  /\ verdict'  = IF t.late THEN verdict ELSE [verdict EXCEPT ![t.cmd] = "success"]
  /\ Go(w, Idle)
  /\ UNCHANGED <<sent, shown, faults>>

\* The tally, the update of a row that is still open, the event, the audit and the
\* commit.
Commit(w) ==
  LET t    == tx[w]
      rows == votes \cup t.new
      o    == Tally(decision, rows)
      now  == t.saw = "open" /\ o # "open"
  IN
  /\ t.at = "voted"
  /\ votes'    = rows
  /\ decision' = IF now /\ decision.outcome = "open"
                   THEN [decision EXCEPT !.outcome = o] ELSE decision
  /\ events'   = IF now THEN Append(events, o) ELSE events
  /\ verdict'  = [verdict EXCEPT ![t.cmd] = IF t.late THEN "rejected" ELSE "success"]
  /\ Go(w, Idle)
  /\ UNCHANGED <<sent, shown, faults>>

\* The process dies or the database refuses: nothing of the transaction stays, and
\* the message comes again.
Rollback(w) ==
  /\ tx[w] # Idle
  /\ faults < MaxFaults
  /\ faults' = faults + 1
  /\ Go(w, Idle)
  /\ UNCHANGED <<decision, votes, events, sent, verdict, shown>>

-----------------------------------------------------------------------------
\* GET of the decision: two statements of one repeatable-read transaction.
ReadDecision ==
  /\ shown.at = "none"
  /\ shown' = [at |-> "snapshot", outcome |-> decision.outcome, votes |-> votes]
  /\ UNCHANGED <<decision, votes, events, sent, verdict, tx, faults>>

Answered(rows) ==
  shown' = [at |-> "answered", outcome |-> shown.outcome, tally |-> Tally(decision, rows)]

\* Fault: read committed, the second statement has a snapshot of its own.
ReadLatest ==
  /\ shown.at = "snapshot"
  /\ Answered(votes)
  /\ UNCHANGED <<decision, votes, events, sent, verdict, tx, faults>>

ReadVotes ==
  /\ shown.at = "snapshot"
  /\ Answered(shown.votes)
  /\ UNCHANGED <<decision, votes, events, sent, verdict, tx, faults>>

ReadOver ==
  /\ shown.at = "answered"
  /\ shown' = NoRead
  /\ UNCHANGED <<decision, votes, events, sent, verdict, tx, faults>>

-----------------------------------------------------------------------------
Next ==
  \/ \E c \in Commands : Ask(c)
  \/ \E w \in Workers :
       \/ \E c \in sent : Claim(w, c)
       \/ Lock(w)
       \/ Insert(w)
       \/ Commit(w)
       \/ Rollback(w)
  \/ ReadDecision
  \/ ReadVotes
  \/ ReadOver

Spec == Init /\ [][Next]_vars

\* The queue delivers every message; a transaction goes on, and gets the row lock in
\* its turn.
Fairness ==
  /\ \A c \in Commands : WF_vars(\E w \in Workers : Claim(w, c))
  /\ \A w \in Workers : SF_vars(Lock(w)) /\ WF_vars(Insert(w) \/ Commit(w))

FairSpec == Spec /\ Fairness

-----------------------------------------------------------------------------
Transactions ==
  {Idle} \cup [at : {"claimed"}, cmd : Commands]
         \cup [at : {"locked"}, cmd : Commands, saw : Outcomes \cup {"open"}]
         \cup [at : {"voted"}, cmd : Commands, saw : Outcomes \cup {"open"},
               new : SUBSET Rows, late : BOOLEAN]

\* The shape of the state; a table of votes never holds more of them than the
\* committee has members, although anybody with the role may vote.
TypeOK ==
  /\ decision \in Decisions
  /\ votes \in SUBSET Rows /\ Cast(votes) <= decision.members
  /\ events \in Seq(Outcomes)
  /\ sent \in SUBSET Commands
  /\ verdict \in [Commands -> {"none", "success", "rejected"}]
  /\ tx \in [Workers -> Transactions]
  /\ shown \in {NoRead}
       \cup [at : {"snapshot"}, outcome : Outcomes \cup {"open"}, votes : SUBSET Rows]
       \cup [at : {"answered"}, outcome : Outcomes \cup {"open"},
             tally : Outcomes \cup {"open"}]
  /\ faults \in 0..MaxFaults

\* A decision is announced to the workflow once, with the outcome the row has
\* (castVoteTx enqueues outside the check that its UPDATE hit a row).
AnnouncedOnce ==
  events = IF decision.outcome = "open" THEN <<>> ELSE <<decision.outcome>>

\* The audit trail tells a late voter from one whose vote counts, however the two
\* race (REL-031).
VerdictIsTrue ==
  \A c \in Commands :
    /\ verdict[c] = "success"  => HasVoted(c.voter)
    /\ verdict[c] = "rejected" => ~HasVoted(c.voter) /\ decision.outcome # "open"

\* A reader is never shown a decision next to the tally of another moment (REL-025).
ReadsAgree == shown.at = "answered" => shown.outcome = shown.tally

\* No vote command stays without an answer, whatever is rolled back on the way.
EveryVoteAnswered == []<>(\A c \in sent : verdict[c] # "none")

\* The approvals that carry the motion, by the rule of the decision.
Needed(d) ==
  CASE d.rule = "majority"  -> (d.members \div 2) + 1
    [] d.rule = "unanimous" -> d.members
    [] d.rule = "threshold" -> d.threshold

\* The transactions implement a ballot that counts one vote at a time and is decided
\* early only when no vote still to come could change the outcome.
Ballot == INSTANCE CommitteeBallot WITH
            members <- decision.members, need <- Needed(decision),
            votes <- votes, outcome <- decision.outcome

ImplementsBallot == Ballot!Spec
===============================================================================
