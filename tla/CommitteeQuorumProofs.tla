------------------------ MODULE CommitteeQuorumProofs ------------------------
(***************************************************************************)
(* Theorems of CommitteeQuorum, for any voters, workers and committees.    *)
(***************************************************************************)
EXTENDS CommitteeQuorum, FiniteSetTheorems, TLAPS

\* The row of a command: its voter and its choice.
LEMMA RowOf ==
  ASSUME NEW c \in Commands
  PROVE  Row(c) \in Rows /\ Row(c).voter = c.voter /\ Row(c).vote \in Choices
BY DEF Row, Rows, Commands

\* A finite set of rows has a count of each choice.
LEMMA CountType ==
  ASSUME NEW rows, IsFiniteSet(rows)
  PROVE  /\ \A x : Count(rows, x) \in Nat
         /\ Cast(rows) \in Nat
<1>1. ASSUME NEW x PROVE Count(rows, x) \in Nat
  <2>1. { r \in rows : r.vote = x } \in SUBSET rows
    OBVIOUS
  <2> QED
    BY <2>1, FS_Subset, FS_CardinalityType DEF Count
<1> QED
  BY <1>1 DEF Cast

\* A new row adds one to the count of its choice.
LEMMA CountAdd ==
  ASSUME NEW rows, IsFiniteSet(rows), NEW c, c \notin rows, NEW x
  PROVE  Count(rows \cup {c}, x) = Count(rows, x) + (IF c.vote = x THEN 1 ELSE 0)
<1> DEFINE Of(S) == { r \in S : r.vote = x }
<1>1. Of(rows) \in SUBSET rows
  OBVIOUS
<1>2. IsFiniteSet(Of(rows)) /\ Cardinality(Of(rows)) \in Nat
  BY <1>1, FS_Subset, FS_CardinalityType
<1>3. CASE c.vote = x
  <2>1. Of(rows \cup {c}) = Of(rows) \cup {c} /\ c \notin Of(rows)
    BY <1>3
  <2>2. Cardinality(Of(rows) \cup {c}) = Cardinality(Of(rows)) + 1
    BY <1>2, <2>1, FS_AddElement
  <2> QED
    BY <1>3, <2>1, <2>2 DEF Count
<1>4. CASE c.vote # x
  <2>1. Of(rows \cup {c}) = Of(rows)
    BY <1>4
  <2>2. Count(rows \cup {c}, x) = Count(rows, x)
    BY <2>1 DEF Count
  <2>3. Count(rows, x) \in Nat
    BY CountType
  <2> QED
    BY <1>4, <2>2, <2>3
<1> QED
  BY <1>3, <1>4

\* A new row takes one more seat of the committee.
LEMMA CastAdd ==
  ASSUME NEW rows, IsFiniteSet(rows), NEW c, c \notin rows, c.vote \in Choices
  PROVE  Cast(rows \cup {c}) = Cast(rows) + 1
BY CountType, CountAdd DEF Cast, Choices

\* The empty table.
LEMMA NoRows ==
  /\ IsFiniteSet({})
  /\ \A x : Count({}, x) = 0
  /\ Cast({}) = 0
<1>1. \A x : { r \in {} : r.vote = x } = {}
  OBVIOUS
<1> QED
  BY <1>1, FS_EmptySet DEF Count, Cast

Rules == {"majority", "unanimous", "threshold"}

\* A tally is an outcome, or leaves the decision open.
LEMMA TallyType ==
  ASSUME NEW d, d.rule \in Rules, NEW rows
  PROVE  Tally(d, rows) \in Outcomes \cup {"open"}
BY DEF Tally, Majority, Unanimous, Threshold, Outcomes, Rules

\* A tally that leaves the decision open leaves a seat to vote: no rule waits for a
\* vote that nobody can cast any more.
LEMMA OpenSeat ==
  ASSUME NEW d, d.rule \in Rules, d.members \in Nat, d.threshold \in Nat,
         NEW rows, IsFiniteSet(rows), Tally(d, rows) = "open"
  PROVE  Cast(rows) < d.members
<1>1. Count(rows, "approve") \in Nat /\ Count(rows, "reject") \in Nat /\ Cast(rows) \in Nat
  BY CountType
<1> SUFFICES ASSUME ~(Cast(rows) < d.members) PROVE FALSE
  OBVIOUS
<1>2. Pending(d, rows) = 0
  BY <1>1 DEF Pending
<1>3. CASE d.rule = "majority"
  BY <1>1, <1>2, <1>3 DEF Tally, Majority
<1>4. CASE d.rule = "unanimous"
  BY <1>1, <1>2, <1>4 DEF Tally, Unanimous
<1>5. CASE d.rule = "threshold"
  BY <1>1, <1>2, <1>5 DEF Tally, Threshold
<1> QED
  BY <1>3, <1>4, <1>5 DEF Rules

\* An outcome of the tally is one that no vote still to come could change.
LEMMA TallyIsSure ==
  ASSUME NEW d, d.rule \in Rules, d.members \in Nat \ {0}, d.threshold \in Nat,
         NEW rows, IsFiniteSet(rows), Cast(rows) <= d.members,
         Tally(d, rows) # "open", NEW more \in 0..Pending(d, rows)
  PROVE  (Tally(d, rows) = "approve") <=> (Count(rows, "approve") + more >= Needed(d))
<1> DEFINE a == Count(rows, "approve")
           r == Count(rows, "reject")
           p == Pending(d, rows)
<1>1. /\ a \in Nat /\ r \in Nat /\ p \in Nat /\ more \in Nat /\ more <= p
      /\ a + r + p <= d.members
  BY CountType DEF Cast, Pending
<1>2. CASE d.rule = "majority"
  <2>1. Needed(d) = (d.members \div 2) + 1
    BY <1>2 DEF Needed
  <2>2. Tally(d, rows) = IF 2 * a > d.members THEN "approve"
                         ELSE IF 2 * r > d.members \/ 2 * (a + p) <= d.members THEN "reject"
                         ELSE "open"
    BY <1>2 DEF Tally, Majority
  <2>3. d.members \div 2 \in Nat /\ 2 * (d.members \div 2) <= d.members
        /\ d.members <= 2 * (d.members \div 2) + 1
    OBVIOUS
  <2> HIDE DEF a, r, p
  <2>4. CASE 2 * a > d.members
    <3>1. a + more >= (d.members \div 2) + 1
      BY <1>1, <2>3, <2>4
    <3> QED
      BY <2>1, <2>2, <2>4, <3>1 DEF a
  <2>5. CASE ~(2 * a > d.members) /\ (2 * r > d.members \/ 2 * (a + p) <= d.members)
    <3>1. ~(a + more >= (d.members \div 2) + 1)
      BY <1>1, <2>3, <2>5
    <3> QED
      BY <2>1, <2>2, <2>5, <3>1 DEF a
  <2> QED
    BY <2>2, <2>4, <2>5
<1>3. CASE d.rule = "unanimous"
  <2>1. Needed(d) = d.members
    BY <1>3 DEF Needed
  <2>2. Tally(d, rows) = IF r > 0 THEN "reject" ELSE IF a = d.members THEN "approve"
                         ELSE IF p = 0 THEN "reject" ELSE "open"
    BY <1>3 DEF Tally, Unanimous
  <2> QED
    BY <1>1, <2>1, <2>2
<1>4. CASE d.rule = "threshold"
  <2>1. Needed(d) = d.threshold
    BY <1>4 DEF Needed
  <2>2. Tally(d, rows) = IF a >= d.threshold THEN "approve"
                         ELSE IF a + p < d.threshold THEN "reject" ELSE "open"
    BY <1>4 DEF Tally, Threshold
  <2> QED
    BY <1>1, <2>1, <2>2
<1> QED
  BY <1>2, <1>3, <1>4 DEF Rules

-----------------------------------------------------------------------------
\* The shape of the state, without the seats of the table of votes.
Base ==
  /\ decision \in Decisions
  /\ votes \in SUBSET Rows /\ IsFiniteSet(votes)
  /\ events \in Seq(Outcomes)
  /\ sent \in SUBSET Commands
  /\ verdict \in [Commands -> {"none", "success", "rejected"}]
  /\ tx \in [Workers -> Transactions]
  /\ shown \in {NoRead}
       \cup [at : {"snapshot"}, outcome : Outcomes \cup {"open"}, votes : SUBSET Rows]
       \cup [at : {"answered"}, outcome : Outcomes \cup {"open"},
             tally : Outcomes \cup {"open"}]
  /\ faults \in 0..MaxFaults

\* The row lock is held by one transaction, which alone changes the decision and the
\* votes: what it read is still so when it commits.
Locking ==
  /\ \A w, x \in Workers : Locks(w) /\ Locks(x) => w = x
  /\ \A w \in Workers : Locks(w) => tx[w].saw = decision.outcome
  /\ \A w \in Workers : tx[w].at = "voted" =>
       /\ tx[w].new = IF decision.outcome = "open" /\ ~HasVoted(tx[w].cmd.voter)
                        THEN {Row(tx[w].cmd)} ELSE {}
       /\ tx[w].late <=> decision.outcome # "open" /\ ~HasVoted(tx[w].cmd.voter)

\* The decision is what its votes make it, in the table and in what a reader sees.
Counted ==
  /\ decision.outcome = Tally(decision, votes)
  /\ Cast(votes) <= decision.members
  /\ shown.at = "snapshot" => shown.outcome = Tally(decision, shown.votes)

IInv == Base /\ Locking /\ Counted /\ AnnouncedOnce /\ VerdictIsTrue /\ ReadsAgree

\* A decision just created is open.
LEMMA OpenAtFirst ==
  ASSUME NEW d, d.rule \in Rules, d.members \in Nat \ {0}, d.threshold \in Nat \ {0},
         d.rule = "threshold" => d.threshold <= d.members
  PROVE  Tally(d, {}) = "open"
<1>1. Count({}, "approve") = 0 /\ Count({}, "reject") = 0 /\ Pending(d, {}) = d.members
  BY NoRows DEF Pending
<1> QED
  BY <1>1 DEF Tally, Majority, Unanimous, Threshold, Rules

\* A tally depends on the rule, the threshold and the size of the committee alone.
LEMMA TallySame ==
  ASSUME NEW d, NEW e, d.rule = e.rule, d.members = e.members, d.threshold = e.threshold,
         NEW rows
  PROVE  Tally(d, rows) = Tally(e, rows)
BY DEF Tally, Majority, Unanimous, Threshold, Pending

LEMMA InitInv == Init => IInv
<1> SUFFICES ASSUME Init PROVE IInv
  OBVIOUS
<1>1. /\ decision.rule \in Rules /\ decision.members \in Nat \ {0}
      /\ decision.threshold \in Nat \ {0} /\ decision.outcome = "open"
      /\ decision.rule = "threshold" => decision.threshold <= decision.members
      /\ decision \in Decisions
  <2>1. /\ decision \in [rule : Rules, members : Sizes,
                         threshold : UNION { 1..n : n \in Sizes }, outcome : {"open"}]
        /\ IF decision.rule = "threshold" THEN decision.threshold <= decision.members
           ELSE decision.threshold = 1
    BY DEF Init, Rules
  <2>2. /\ decision = [rule |-> decision.rule, members |-> decision.members,
                       threshold |-> decision.threshold, outcome |-> decision.outcome]
        /\ decision.rule \in Rules /\ decision.members \in Sizes
        /\ decision.threshold \in UNION { 1..n : n \in Sizes } /\ decision.outcome = "open"
    BY <2>1
  <2>3. PICK n \in Sizes : decision.threshold \in 1..n
    BY <2>2
  <2>4. n \in Nat /\ decision.members \in Nat \ {0} /\ decision.threshold \in Nat \ {0}
    BY <2>2, <2>3, QuorumAssumption
  <2> QED
    BY <2>1, <2>2, <2>4 DEF Decisions, Rules
<1>2. Base
  BY <1>1, NoRows, QuorumAssumption DEF Init, Base, Idle, NoRead, Transactions
<1>3. Locking
  BY DEF Init, Locking, Locks, Idle
<1>4. Counted
  BY <1>1, OpenAtFirst, NoRows DEF Init, Counted, NoRead
<1>5. AnnouncedOnce /\ VerdictIsTrue /\ ReadsAgree
  BY <1>1 DEF Init, AnnouncedOnce, VerdictIsTrue, ReadsAgree, NoRead
<1> QED
  BY <1>2, <1>3, <1>4, <1>5 DEF IInv

\* What a commit does to the decision and its votes, in the three cases there are.
LEMMA CommitCases ==
  ASSUME IInv, NEW w \in Workers, Commit(w)
  PROVE  LET c == tx[w].cmd IN
         /\ c \in Commands
         /\ \/ /\ votes' = votes /\ decision' = decision /\ events' = events
               /\ decision.outcome = "open" => HasVoted(c.voter)
               /\ verdict' = [verdict EXCEPT ![c] = IF HasVoted(c.voter) THEN "success"
                                                    ELSE "rejected"]
            \/ /\ decision.outcome = "open" /\ ~HasVoted(c.voter)
               /\ votes' = votes \cup {Row(c)}
               /\ decision' = [decision EXCEPT !.outcome = Tally(decision, votes')]
               /\ events' = IF Tally(decision, votes') = "open" THEN events
                            ELSE <<Tally(decision, votes')>>
               /\ verdict' = [verdict EXCEPT ![c] = "success"]
<1> DEFINE t == tx[w]
           c == tx[w].cmd
<1>1. t.at = "voted" /\ Locks(w) /\ c \in Commands
  BY DEF Commit, Locks, IInv, Base, Transactions, Idle
<1>2. t.saw = decision.outcome
  BY <1>1 DEF IInv, Locking
<1>3. /\ t.new = IF decision.outcome = "open" /\ ~HasVoted(c.voter) THEN {Row(c)} ELSE {}
      /\ t.late <=> decision.outcome # "open" /\ ~HasVoted(c.voter)
  BY <1>1 DEF IInv, Locking
<1>4. CASE decision.outcome = "open" /\ ~HasVoted(c.voter)
  <2>1. votes' = votes \cup {Row(c)}
    BY <1>3, <1>4 DEF Commit
  <2>2. events = <<>>
    BY <1>4 DEF IInv, AnnouncedOnce
  <2>3. CASE Tally(decision, votes') = "open"
    <3>1. decision' = decision
      BY <1>2, <1>4, <2>1, <2>3 DEF Commit
    <3>2. decision = [decision EXCEPT !.outcome = Tally(decision, votes')]
      BY <1>4, <2>3 DEF IInv, Base, Decisions
    <3> QED
      BY <1>1, <1>2, <1>3, <1>4, <2>1, <2>3, <3>1, <3>2 DEF Commit
  <2>4. CASE Tally(decision, votes') # "open"
    <3> DEFINE o == Tally(decision, votes')
    <3>1. votes' = votes \cup t.new /\ t.saw = "open" /\ ~t.late
      BY <1>2, <1>3, <1>4 DEF Commit
    <3>2. decision' = [decision EXCEPT !.outcome = o] /\ events' = Append(events, o)
      BY <1>4, <2>4, <3>1 DEF Commit
    <3>3. Append(events, o) = <<o>>
      BY <2>2
    <3>4. verdict' = [verdict EXCEPT ![c] = "success"]
      BY <3>1 DEF Commit
    <3> QED
      BY <1>1, <1>4, <2>1, <2>4, <3>2, <3>3, <3>4
  <2> QED
    BY <2>3, <2>4
<1>5. CASE decision.outcome # "open" \/ HasVoted(c.voter)
  <2>1. votes' = votes
    BY <1>3, <1>5 DEF Commit
  <2>2. decision.outcome = Tally(decision, votes)
    BY DEF IInv, Counted
  <2>3. decision' = decision /\ events' = events
    BY <1>2, <2>1, <2>2 DEF Commit
  <2> QED
    BY <1>1, <1>3, <1>5, <2>1, <2>3 DEF Commit
<1> QED
  BY <1>4, <1>5

\* An uncommitted step leaves the table as it is.
LEMMA StepOfTx ==
  ASSUME IInv, NEW w \in Workers, NEW t \in Transactions, Go(w, t),
         UNCHANGED <<decision, votes, events, sent, verdict, shown>>,
         faults' \in 0..MaxFaults,
         Locking'
  PROVE  IInv'
<1>1. Base'
  BY DEF IInv, Base, Go
<1>2. Counted' /\ AnnouncedOnce' /\ VerdictIsTrue' /\ ReadsAgree'
  BY DEF IInv, Counted, AnnouncedOnce, VerdictIsTrue, ReadsAgree, HasVoted
<1> QED
  BY <1>1, <1>2 DEF IInv

\* A commit ends the one transaction that held the lock.
LEMMA CommitInv ==
  ASSUME IInv, NEW w \in Workers, Commit(w)
  PROVE  IInv'
<1> DEFINE c == tx[w].cmd
           Same == /\ votes' = votes /\ decision' = decision /\ events' = events
                   /\ decision.outcome = "open" => HasVoted(c.voter)
                   /\ verdict' = [verdict EXCEPT ![c] = IF HasVoted(c.voter) THEN "success"
                                                        ELSE "rejected"]
           Voted == /\ decision.outcome = "open" /\ ~HasVoted(c.voter)
                    /\ votes' = votes \cup {Row(c)}
                    /\ decision' = [decision EXCEPT !.outcome = Tally(decision, votes')]
                    /\ events' = IF Tally(decision, votes') = "open" THEN events
                                 ELSE <<Tally(decision, votes')>>
                    /\ verdict' = [verdict EXCEPT ![c] = "success"]
<1>1. c \in Commands /\ (Same \/ Voted)
  BY CommitCases
<1>2. /\ tx' = [tx EXCEPT ![w] = Idle] /\ tx \in [Workers -> Transactions]
      /\ UNCHANGED <<sent, shown, faults>>
  BY DEF Commit, Go, IInv, Base
<1>3. Locking'
  <2>1. Locks(w) /\ \A x \in Workers : Locks(x) => x = w
    BY DEF Commit, Locks, IInv, Locking
  <2>2. \A x \in Workers : ~Locks(x)' /\ tx'[x].at # "voted"
    BY <1>2, <2>1 DEF Locks, Idle
  <2> QED
    BY <2>2 DEF Locking
<1>4. CASE Same
  <2>1. Base'
    BY <1>1, <1>2, <1>4 DEF IInv, Base, Transactions
  <2>2. Counted' /\ AnnouncedOnce' /\ ReadsAgree'
    BY <1>2, <1>4 DEF IInv, Counted, AnnouncedOnce, ReadsAgree
  <2>3. VerdictIsTrue'
    BY <1>1, <1>4 DEF IInv, Base, VerdictIsTrue, HasVoted
  <2> QED
    BY <1>3, <2>1, <2>2, <2>3 DEF IInv
<1>5. CASE Voted
  <2> DEFINE o == Tally(decision, votes')
  <2>1. /\ decision \in Decisions /\ decision.rule \in Rules /\ decision.members \in Nat \ {0}
        /\ decision.threshold \in Nat /\ votes \in SUBSET Rows /\ IsFiniteSet(votes)
    BY QuorumAssumption DEF IInv, Base, Decisions, Rules
  <2>2. o \in Outcomes \cup {"open"}
    BY <2>1, TallyType
  <2>3. IsFiniteSet(votes') /\ votes' \in SUBSET Rows
    BY <1>1, <1>5, <2>1, RowOf, FS_AddElement
  <2>4. /\ decision' \in Decisions /\ decision'.outcome = o
        /\ decision'.rule = decision.rule /\ decision'.members = decision.members
        /\ decision'.threshold = decision.threshold
    BY <1>5, <2>1, <2>2 DEF Decisions
  <2>5. events' = (IF o = "open" THEN <<>> ELSE <<o>>) /\ events' \in Seq(Outcomes)
    BY <1>5, <2>2 DEF IInv, AnnouncedOnce
  <2>6. Base'
    BY <1>1, <1>2, <1>5, <2>3, <2>4, <2>5 DEF IInv, Base, Transactions
  <2>7. Cast(votes') <= decision'.members
    <3>1. Tally(decision, votes) = "open"
      BY <1>5 DEF IInv, Counted
    <3>2. Cast(votes) < decision.members /\ Cast(votes) \in Nat
      BY <2>1, <3>1, OpenSeat, CountType
    <3>3. Cast(votes \cup {Row(c)}) = Cast(votes) + 1
      BY <1>1, <1>5, <2>1, RowOf, CastAdd DEF HasVoted
    <3> QED
      BY <1>5, <2>1, <2>4, <3>2, <3>3
  <2>8. Counted'
    <3>1. decision'.outcome = Tally(decision', votes')
      BY <2>4, TallySame
    <3>2. shown'.at = "snapshot" => shown'.outcome = Tally(decision', shown'.votes)
      BY <1>2, <2>4, TallySame DEF IInv, Counted
    <3> QED
      BY <2>7, <3>1, <3>2 DEF Counted
  <2>9. AnnouncedOnce' /\ ReadsAgree'
    BY <1>2, <2>4, <2>5 DEF IInv, AnnouncedOnce, ReadsAgree
  <2>10. VerdictIsTrue'
    <3>1. \A v : HasVoted(v)' <=> HasVoted(v) \/ v = c.voter
      BY <1>1, <1>5, RowOf DEF HasVoted
    <3> QED
      BY <1>1, <1>5, <3>1 DEF IInv, Base, VerdictIsTrue
  <2> QED
    BY <1>3, <2>6, <2>8, <2>9, <2>10 DEF IInv
<1> QED
  BY <1>1, <1>4, <1>5

\* A step of the reader.
LEMMA ReadInv ==
  ASSUME IInv, ReadDecision \/ ReadVotes \/ ReadOver
  PROVE  IInv'
<1>1. UNCHANGED <<decision, votes, events, sent, verdict, tx, faults>>
  BY DEF ReadDecision, ReadVotes, ReadOver
<1>2. Locking' /\ AnnouncedOnce' /\ VerdictIsTrue'
  BY <1>1 DEF IInv, Locking, Locks, AnnouncedOnce, VerdictIsTrue, HasVoted
<1>3. /\ decision.rule \in Rules /\ decision.outcome \in Outcomes \cup {"open"}
      /\ votes \in SUBSET Rows
  BY DEF IInv, Base, Decisions, Rules
<1>4. CASE ReadDecision
  <2>1. shown' = [at |-> "snapshot", outcome |-> decision.outcome, votes |-> votes]
    BY <1>4 DEF ReadDecision
  <2> QED
    BY <1>1, <1>2, <1>3, <2>1 DEF IInv, Base, Counted, ReadsAgree
<1>5. CASE ReadVotes
  <2>1. /\ shown.at = "snapshot"
        /\ shown' = [at |-> "answered", outcome |-> shown.outcome,
                     tally |-> Tally(decision, shown.votes)]
    BY <1>5 DEF ReadVotes, Answered
  <2>2. shown.outcome = Tally(decision, shown.votes)
    BY <2>1 DEF IInv, Counted
  <2>3. Tally(decision, shown.votes) \in Outcomes \cup {"open"}
    BY <1>3, TallyType
  <2> QED
    BY <1>1, <1>2, <2>1, <2>2, <2>3 DEF IInv, Base, Counted, ReadsAgree
<1>6. CASE ReadOver
  BY <1>1, <1>2, <1>6 DEF ReadOver, NoRead, IInv, Base, Counted, ReadsAgree
<1> QED
  BY <1>4, <1>5, <1>6

\* Every step keeps the invariant.
LEMMA NextInv ==
  ASSUME IInv, [Next]_vars
  PROVE  IInv'
<1>1. ASSUME NEW c \in Commands, Ask(c) PROVE IInv'
  BY <1>1 DEF Ask, IInv, Base, Locking, Locks, Counted, AnnouncedOnce, VerdictIsTrue,
              ReadsAgree, HasVoted
<1>2. ASSUME NEW w \in Workers, NEW c \in sent, Claim(w, c) PROVE IInv'
  <2>1. tx[w] = Idle /\ tx' = [tx EXCEPT ![w] = [at |-> "claimed", cmd |-> c]]
        /\ UNCHANGED <<decision, votes, events, sent, verdict, shown, faults>>
    BY <1>2 DEF Claim, Go
  <2>2. Locking'
    BY <2>1 DEF IInv, Base, Locking, Locks, HasVoted
  <2>3. [at |-> "claimed", cmd |-> c] \in Transactions
    BY DEF IInv, Base, Transactions
  <2> QED
    BY <1>2, <2>1, <2>2, <2>3, StepOfTx DEF Claim, IInv, Base
<1>3. ASSUME NEW w \in Workers, Lock(w) PROVE IInv'
  <2> DEFINE t == [at |-> "locked", cmd |-> tx[w].cmd, saw |-> decision.outcome]
  <2>1. /\ tx[w].at = "claimed" /\ \A x \in Workers : ~Locks(x)
        /\ tx' = [tx EXCEPT ![w] = t]
        /\ UNCHANGED <<decision, votes, events, sent, verdict, shown, faults>>
    BY <1>3 DEF Lock, Go
  <2>2. t \in Transactions
    BY <2>1 DEF IInv, Base, Transactions, Idle, Decisions
  <2>3. Locking'
    BY <2>1 DEF IInv, Base, Locking, Locks, HasVoted
  <2> QED
    BY <1>3, <2>1, <2>2, <2>3, StepOfTx DEF Lock, IInv, Base
<1>4. ASSUME NEW w \in Workers, Insert(w) PROVE IInv'
  <2> DEFINE c == tx[w].cmd
             t == [at |-> "voted", cmd |-> c, saw |-> tx[w].saw,
                   new  |-> IF tx[w].saw = "open" /\ ~HasVoted(c.voter) THEN {Row(c)} ELSE {},
                   late |-> tx[w].saw # "open" /\ ~HasVoted(c.voter)]
  <2>1. /\ tx[w].at = "locked" /\ tx' = [tx EXCEPT ![w] = t]
        /\ UNCHANGED <<decision, votes, events, sent, verdict, shown, faults>>
    BY <1>4 DEF Insert, Go
  <2>2. Locks(w) /\ tx[w].saw = decision.outcome
    BY <2>1 DEF IInv, Locking, Locks
  <2>3. c \in Commands /\ tx[w].saw \in Outcomes \cup {"open"}
    BY <2>1 DEF IInv, Base, Transactions, Idle
  <2>4. t \in Transactions
    BY <2>3, RowOf DEF Transactions
  <2>5. Locking'
    <3>1. /\ tx'[w] = t /\ \A x \in Workers : x # w => tx'[x] = tx[x]
          /\ \A v : HasVoted(v)' <=> HasVoted(v)
      BY <2>1 DEF IInv, Base, HasVoted
    <3>2. \A x \in Workers : Locks(x)' <=> Locks(x)
      BY <2>2, <3>1 DEF Locks
    <3>3. \A x \in Workers : x # w => ~Locks(x) /\ tx'[x].at # "voted"
      BY <2>2, <3>1 DEF IInv, Locking, Locks
    <3>4. \A x, y \in Workers : Locks(x)' /\ Locks(y)' => x = y
      BY <3>2 DEF IInv, Locking
    <3>5. \A x \in Workers : Locks(x)' => tx'[x].saw = decision'.outcome
      BY <2>1, <2>2, <3>1, <3>2, <3>3
    <3>6. \A x \in Workers : tx'[x].at = "voted" =>
            /\ tx'[x].new = IF decision'.outcome = "open" /\ ~HasVoted(tx[x].cmd.voter)'
                              THEN {Row(tx'[x].cmd)} ELSE {}
            /\ tx'[x].late <=> decision'.outcome # "open" /\ ~HasVoted(tx[x].cmd.voter)'
      <4> SUFFICES ASSUME NEW x \in Workers, tx'[x].at = "voted"
                   PROVE  /\ tx'[x].new = IF /\ decision'.outcome = "open"
                                             /\ ~HasVoted(tx[x].cmd.voter)'
                                            THEN {Row(tx'[x].cmd)} ELSE {}
                          /\ tx'[x].late <=> /\ decision'.outcome # "open"
                                             /\ ~HasVoted(tx[x].cmd.voter)'
        OBVIOUS
      <4>1. x = w /\ tx'[x] = t /\ tx'[x].cmd = c
        BY <3>1, <3>3
      <4>2. HasVoted(tx[x].cmd.voter)' <=> HasVoted(c.voter)
        BY <2>1, <4>1 DEF HasVoted
      <4>3. decision' = decision /\ tx[w].saw = decision.outcome
        BY <2>1, <2>2
      <4>4. tx'[x].new = IF decision.outcome = "open" /\ ~HasVoted(c.voter) THEN {Row(c)} ELSE {}
        BY <4>1, <4>3
      <4>5. tx'[x].late <=> decision.outcome # "open" /\ ~HasVoted(c.voter)
        <5>1. t.late = (tx[w].saw # "open" /\ ~HasVoted(c.voter))
          BY Zenon
        <5>2. tx'[x].late = (decision.outcome # "open" /\ ~HasVoted(c.voter))
          BY <4>1, <4>3, <5>1, Zenon
        <5> QED
          BY <5>2, Zenon
      <4> QED
        BY <4>1, <4>2, <4>3, <4>4, <4>5
    <3> QED
      BY <3>4, <3>5, <3>6 DEF Locking
  <2> QED
    BY <1>4, <2>1, <2>4, <2>5, StepOfTx DEF Insert, IInv, Base
<1>5. ASSUME NEW w \in Workers, Rollback(w) PROVE IInv'
  <2>1. /\ tx' = [tx EXCEPT ![w] = Idle] /\ faults < MaxFaults /\ faults' = faults + 1
        /\ UNCHANGED <<decision, votes, events, sent, verdict, shown>>
    BY <1>5 DEF Rollback, Go
  <2>2. Locking'
    BY <2>1 DEF IInv, Base, Locking, Locks, HasVoted, Idle
  <2>3. faults' \in 0..MaxFaults
    BY <2>1, QuorumAssumption DEF IInv, Base
  <2> QED
    BY <1>5, <2>1, <2>2, <2>3, StepOfTx DEF Rollback, Transactions
<1>6. CASE UNCHANGED vars
  BY <1>6 DEF vars, IInv, Base, Locking, Locks, Counted, AnnouncedOnce, VerdictIsTrue,
              ReadsAgree, HasVoted
<1> QED
  BY <1>1, <1>2, <1>3, <1>4, <1>5, <1>6, CommitInv, ReadInv DEF Next

-----------------------------------------------------------------------------
\* The inductive invariant of the vote: what a transaction that holds the row lock
\* knows, and that the stored outcome is the tally of the stored votes.
THEOREM Invariant == Spec => []IInv
<1>1. Init => IInv
  BY InitInv
<1>2. IInv /\ [Next]_vars => IInv'
  BY NextInv
<1> QED
  BY <1>1, <1>2, PTL DEF Spec

\* The state keeps its shape, and no committee counts more votes than it has members,
\* however many people have a role that may vote.
THEOREM TypeCorrect == Spec => []TypeOK
<1>1. IInv => TypeOK
  BY DEF IInv, Base, Counted, TypeOK
<1> QED
  BY <1>1, Invariant, PTL

\* A decision is announced once, with the outcome its row has.
THEOREM AnnouncedTrue == Spec => []AnnouncedOnce
<1>1. IInv => AnnouncedOnce
  BY DEF IInv
<1> QED
  BY <1>1, Invariant, PTL

\* The audit trail tells a late voter from one whose vote counts.
THEOREM VerdictsTrue == Spec => []VerdictIsTrue
<1>1. IInv => VerdictIsTrue
  BY DEF IInv
<1> QED
  BY <1>1, Invariant, PTL

\* A reader sees an outcome and the tally of one moment.
THEOREM ReadersAgree == Spec => []ReadsAgree
<1>1. IInv => ReadsAgree
  BY DEF IInv
<1> QED
  BY <1>1, Invariant, PTL

\* A vote that a commit adds to an open decision is a vote of the ballot: the outcome
\* it may bring is one that no vote still to come could change.
LEMMA CommitVotes ==
  ASSUME IInv, NEW w \in Workers, Commit(w)
  PROVE  [Ballot!Next]_(Ballot!vars)
<1> DEFINE c == tx[w].cmd
           o == Tally(decision, votes')
<1>1. /\ c \in Commands
      /\ \/ votes' = votes /\ decision' = decision
         \/ /\ decision.outcome = "open" /\ ~HasVoted(c.voter)
            /\ votes' = votes \cup {Row(c)} /\ decision' = [decision EXCEPT !.outcome = o]
  BY CommitCases
<1>2. CASE votes' = votes /\ decision' = decision
  BY <1>2 DEF Ballot!vars, Needed
<1>3. CASE /\ decision.outcome = "open" /\ ~HasVoted(c.voter)
           /\ votes' = votes \cup {Row(c)} /\ decision' = [decision EXCEPT !.outcome = o]
  <2>1. /\ decision \in Decisions /\ decision.rule \in Rules /\ decision.members \in Nat \ {0}
        /\ decision.threshold \in Nat /\ IsFiniteSet(votes)
    BY QuorumAssumption DEF IInv, Base, Decisions, Rules
  <2>2. IsFiniteSet(votes') /\ Cast(votes') \in Nat
    BY <1>3, <2>1, FS_AddElement, CountType
  <2>3. /\ decision'.outcome = o /\ decision'.members = decision.members
        /\ decision'.rule = decision.rule /\ decision'.threshold = decision.threshold
    BY <1>3, <2>1 DEF Decisions
  <2>4. Cast(votes') <= decision.members
    BY <1>1, <2>3, CommitInv DEF IInv, Counted
  <2>5. Needed(decision') = Needed(decision)
    BY <2>3 DEF Needed
  <2>6. /\ Ballot!Pending(votes') = Pending(decision, votes')
        /\ \A x : Ballot!Count(votes', x) = Count(votes', x)
    <3>1. \A x : Ballot!Count(votes', x) = Count(votes', x)
      BY DEF Ballot!Count, Count, Ballot!Cardinality, Cardinality
    <3>2. Ballot!Cast(votes') = Cast(votes')
      BY <3>1 DEF Ballot!Cast, Cast
    <3> QED
      BY <3>1, <3>2 DEF Ballot!Pending, Pending
  <2>7. CASE o = "open"
    <3>1. Cast(votes') < decision.members
      BY <2>1, <2>2, <2>7, OpenSeat
    <3>2. Pending(decision, votes') > 0
      BY <2>1, <2>2, <3>1 DEF Pending
    <3>3. Ballot!Vote(Row(c))
      BY <1>1, <1>3, <2>3, <2>5, <2>6, <2>7, <3>2, RowOf DEF Ballot!Vote, HasVoted
    <3> QED
      BY <1>1, <3>3, RowOf DEF Ballot!Next, Rows, Choices, Ballot!Choices
  <2>8. CASE o # "open"
    <3>1. o \in Outcomes
      BY <2>1, <2>8, TallyType
    <3>2. \A more \in 0..Pending(decision, votes') :
            (o = "approve") <=> (Count(votes', "approve") + more >= Needed(decision))
      BY <2>1, <2>2, <2>4, <2>8, TallyIsSure
    <3>3. Ballot!Sure(votes', o)
      BY <2>6, <3>2 DEF Ballot!Sure
    <3>4. Ballot!Vote(Row(c))
      BY <1>1, <1>3, <2>3, <2>5, <3>1, <3>3, RowOf DEF Ballot!Vote, HasVoted, Outcomes
    <3> QED
      BY <1>1, <3>4, RowOf DEF Ballot!Next, Rows, Choices, Ballot!Choices
  <2> QED
    BY <2>7, <2>8
<1> QED
  BY <1>1, <1>2, <1>3

\* Every step of the workers and the reader is a vote of the ballot or none of it.
LEMMA BallotStep ==
  ASSUME IInv, [Next]_vars
  PROVE  [Ballot!Next]_(Ballot!vars)
<1>1. CASE \E w \in Workers : Commit(w)
  BY <1>1, CommitVotes
<1>2. CASE ~ \E w \in Workers : Commit(w)
  <2>1. UNCHANGED <<decision, votes>>
    BY <1>2 DEF Next, vars, Ask, Claim, Lock, Insert, Rollback, ReadDecision, ReadVotes,
                ReadOver
  <2> QED
    BY <2>1 DEF Ballot!vars, Needed
<1> QED
  BY <1>1, <1>2

\* The transactions implement the ballot: one vote at a time, a voter's once, and an
\* outcome only when no vote still to come could change it.
THEOREM Refinement == Spec => ImplementsBallot
<1>1. Init => Ballot!Init
  <2> SUFFICES ASSUME Init PROVE Ballot!Init
    OBVIOUS
  <2>1. decision \in Decisions /\ decision.outcome = "open" /\ decision.members \in Nat
    BY InitInv, QuorumAssumption DEF Init, IInv, Base, Decisions
  <2>2. Needed(decision) \in Nat
    BY <2>1 DEF Needed, Decisions
  <2> QED
    BY <2>1, <2>2 DEF Ballot!Init, Init
<1>2. IInv /\ [Next]_vars => [Ballot!Next]_(Ballot!vars)
  BY BallotStep
<1> QED
  BY <1>1, <1>2, Invariant, PTL DEF Spec, ImplementsBallot, Ballot!Spec
==============================================================================
