----------------------------- MODULE OutboxRelay -----------------------------
(***************************************************************************)
(* The transactional outbox of one service database and the relays that    *)
(* drain it (packages/outbox/src/index.ts).                                *)
(*                                                                         *)
(* A business transaction inserts an outbox row with its own writes        *)
(* (enqueue).  Every worker process of the service runs startRelay: on     *)
(* each interval one cycle selects the oldest unpublished rows it is not   *)
(* backing off from, publishes them in waves, and marks the ones that      *)
(* succeeded in one UPDATE at the end (relayOnce).  purgeOutbox deletes    *)
(* old published rows.  The bus is seen from outside: a publish resolves   *)
(* or rejects, and either may have left a copy on the broker.              *)
(***************************************************************************)
EXTENDS Integers, FiniteSets

CONSTANTS Rows,         \* outbox rows; a row's id is the messageId it is published with
          Required,     \* the rows whose topic is in REQUIRED_DELIVERY_TOPICS
          CreatedAt,    \* created_at of each row: the start of its transaction
          Relays,       \* worker processes running startRelay on this database
          Batches,      \* the values of relayOnce's parameter batch, the LIMIT of one cycle
          Wave,         \* resolveRelayConcurrency: publishes in flight at once
          BackoffBase,  \* RELAY_BACKOFF_BASE_MS, in relay intervals
          BackoffMax,   \* RELAY_BACKOFF_MAX_MS, in relay intervals
          MaxTracked,   \* RELAY_BACKOFF_MAX_ROWS
          MaxFaults     \* bound: crashes, broker faults, failed UPDATEs and cycles that
                        \* outlast their interval, in a behaviour

ASSUME RelayAssumption ==
  /\ Required \subseteq Rows
  /\ CreatedAt \in [Rows -> Nat]
  /\ Batches \subseteq Nat \ {0}
  /\ Wave \in Nat \ {0}
  /\ BackoffBase \in Nat \ {0}
  /\ BackoffMax \in Nat /\ BackoffBase <= BackoffMax
  /\ MaxTracked \in Nat \ {0}
  /\ MaxFaults \in Nat

VARIABLES
  \* the database
  row,          \* "absent", "unpublished" (committed), "published", "purged"
  \* each relay process
  phase,        \* "down", "idle" or "running" (the `running` flag of startRelay)
  due,          \* the interval timer has fired and its callback has not run yet
  todo,         \* rows of this cycle's batch not yet in a wave
  wave,         \* rows whose publish is in flight
  ok,           \* succeededIds of this cycle
  delay,        \* relayBackoff: the row's last delay, 0 when it is not in the map
  wait,         \* relayBackoff: intervals left until nextAt
  before,       \* relayBackoff: <<e, f>> when e was inserted in the map before f
  \* the broker
  subscribed,   \* the rows for whose topic a publish finds a subscriber queue
  \* history, read by no action
  accepted,     \* the bus resolved a publish of the row
  copies,       \* how many publishes of the row by this relay reached a queue
  redo,         \* how many times this relay lost the fact that it had sent the row
  faults        \* faults so far

dbVars     == <<row>>
relayVars  == <<phase, due, todo, wave, ok, delay, wait, before>>
brokerVars == <<subscribed, accepted, copies, redo, faults>>
vars       == <<dbVars, relayVars, brokerVars>>

-----------------------------------------------------------------------------
Lesser(a, b) == IF a < b THEN a ELSE b

\* ORDER BY created_at LIMIT n: any n oldest rows of S, ties broken at will
OldestOf(S, n) ==
  { T \in SUBSET S : /\ Cardinality(T) = Lesser(n, Cardinality(S))
                     /\ \A e \in T, f \in S \ T : CreatedAt[e] <= CreatedAt[f] }

\* Fault: the SELECT forgets the backoff and takes the same failing rows again.
NoneBackedOff(p) == {}

\* backedOffIds: the rows still waiting out a backoff in this process
BackedOff(p) == { e \in Rows : wait[p][e] > 0 }

Tracked(p) == { e \in Rows : delay[p][e] > 0 }

\* Fault: the doubling is not capped.
UncappedDelay(d) == IF d = 0 THEN BackoffBase ELSE 2 * d

\* min(RELAY_BACKOFF_MAX_MS, RELAY_BACKOFF_BASE_MS * 2 ** (attempts - 1))
NextDelay(d) == IF d = 0 THEN BackoffBase ELSE Lesser(BackoffMax, 2 * d)

Retired(e)   == row[e] \in {"published", "purged"}

Fault == /\ faults < MaxFaults
         /\ faults' = faults + 1

Init ==
  /\ row         = [e \in Rows |-> "absent"]
  /\ phase       = [p \in Relays |-> "idle"]
  /\ due         = [p \in Relays |-> FALSE]
  /\ todo        = [p \in Relays |-> {}]
  /\ wave        = [p \in Relays |-> {}]
  /\ ok          = [p \in Relays |-> {}]
  /\ delay       = [p \in Relays |-> [e \in Rows |-> 0]]
  /\ wait        = [p \in Relays |-> [e \in Rows |-> 0]]
  /\ before      = [p \in Relays |-> {}]
  /\ subscribed  = {}
  /\ accepted    = [e \in Rows |-> FALSE]
  /\ copies      = [p \in Relays |-> [e \in Rows |-> 0]]
  /\ redo        = [p \in Relays |-> [e \in Rows |-> 0]]
  /\ faults      = 0

-----------------------------------------------------------------------------
\* The business transaction commits its writes and, with them, the outbox row.
Enqueue(e) ==
  /\ row[e] = "absent"
  /\ row' = [row EXCEPT ![e] = "unpublished"]
  /\ UNCHANGED <<relayVars, brokerVars>>

\* One relay interval passes: backoff waits shrink, every live timer fires.  A cycle
\* that still runs by then is counted as a fault, to bound how often one does.
Tick ==
  /\ \A p \in Relays : ~due[p]
  /\ IF \E p \in Relays : phase[p] = "running" THEN Fault ELSE UNCHANGED faults
  /\ due'  = [p \in Relays |-> phase[p] # "down"]
  /\ wait' = [p \in Relays |-> [e \in Rows |-> IF wait[p][e] = 0 THEN 0 ELSE wait[p][e] - 1]]
  /\ UNCHANGED <<dbVars, phase, todo, wave, ok, delay, before, subscribed, accepted,
                 copies, redo>>

\* The timer fires while the previous cycle still runs: the callback returns.
SkipCycle(p) ==
  /\ due[p] /\ phase[p] = "running"
  /\ due' = [due EXCEPT ![p] = FALSE]
  /\ UNCHANGED <<dbVars, phase, todo, wave, ok, delay, wait, before, brokerVars>>

\* Fault: no `running` flag, a cycle starts over the one still in flight.
StartCycleOverlapping(p) ==
  /\ due[p] /\ phase[p] # "down"
  /\ due' = [due EXCEPT ![p] = FALSE]
  /\ \E n \in Batches, batch \in SUBSET Rows :
       /\ batch \in OldestOf({e \in Rows : row[e] = "unpublished"} \ BackedOff(p), n)
       /\ todo'  = [todo EXCEPT ![p] = batch]
       /\ ok'    = [ok EXCEPT ![p] = {}]
       /\ phase' = [phase EXCEPT ![p] = IF batch = {} THEN "idle" ELSE "running"]
  /\ UNCHANGED <<dbVars, wave, delay, wait, before, brokerVars>>

\* relayOnce: the SELECT; an empty result ends the cycle at once.
StartCycle(p) ==
  /\ due[p] /\ phase[p] = "idle"
  /\ due' = [due EXCEPT ![p] = FALSE]
  /\ \E n \in Batches, batch \in SUBSET Rows :
       /\ batch \in OldestOf({e \in Rows : row[e] = "unpublished"} \ BackedOff(p), n)
       /\ todo'  = [todo EXCEPT ![p] = batch]
       /\ ok'    = [ok EXCEPT ![p] = {}]
       /\ phase' = [phase EXCEPT ![p] = IF batch = {} THEN "idle" ELSE "running"]
  /\ UNCHANGED <<dbVars, wave, delay, wait, before, brokerVars>>

\* The next chunk of the batch starts once every publish of the last one settled.
LaunchWave(p) ==
  /\ phase[p] = "running" /\ wave[p] = {} /\ todo[p] # {}
  /\ \E chunk \in OldestOf(todo[p], Wave) :
       /\ wave' = [wave EXCEPT ![p] = chunk]
       /\ todo' = [todo EXCEPT ![p] = @ \ chunk]
  /\ UNCHANGED <<dbVars, phase, due, ok, delay, wait, before, brokerVars>>

-----------------------------------------------------------------------------
\* relayBackoff without the rows S, with d as the new delay of the rows T.
Backoff(p, S, T, d) ==
  /\ delay' = [delay EXCEPT ![p] = [e \in Rows |-> IF e \in T THEN d
                                     ELSE IF e \in S THEN 0 ELSE delay[p][e]]]
  /\ wait'  = [wait EXCEPT ![p] = [e \in Rows |-> IF e \in T THEN d
                                     ELSE IF e \in S THEN 0 ELSE wait[p][e]]]
  /\ before' = [before EXCEPT ![p] =
       { x \in @ : x[1] \notin S /\ x[2] \notin S }
       \cup ((Tracked(p) \ (S \cup T)) \X (T \ Tracked(p)))]

\* Once the last publish of a wave settles, the rows of the cycle that succeeded,
\* S, leave the backoff map.
Cleared(p, e, S) == IF wave[p] = {e} THEN S ELSE {}

\* Fault: one success stands for every publish of the wave still in flight.
FulfilledForWave(p, e) ==
  /\ e \in wave[p]
  /\ wave'     = [wave EXCEPT ![p] = @ \ {e}]
  /\ ok'       = [ok EXCEPT ![p] = @ \cup wave[p]]
  /\ Backoff(p, Cleared(p, e, ok[p] \cup {e}), {}, 0)
  /\ accepted' = [accepted EXCEPT ![e] = TRUE]
  /\ UNCHANGED <<dbVars, phase, due, todo, subscribed, redo, faults>>

\* A publish resolves: the row will be among succeededIds.
Fulfilled(p, e) ==
  /\ e \in wave[p]
  /\ wave'     = [wave EXCEPT ![p] = @ \ {e}]
  /\ ok'       = [ok EXCEPT ![p] = @ \cup {e}]
  /\ Backoff(p, Cleared(p, e, ok[p] \cup {e}), {}, 0)
  /\ accepted' = [accepted EXCEPT ![e] = TRUE]
  /\ UNCHANGED <<dbVars, phase, due, todo, subscribed, redo, faults>>

\* It resolves having enqueued a copy.
PublishDelivered(p, e) ==
  /\ e \in subscribed
  /\ Fulfilled(p, e)
  /\ copies' = [copies EXCEPT ![p][e] = @ + 1]

\* Fault: requireSubscribers is not passed, an audit row may reach nobody too.
PublishVoidAny(p, e) ==
  /\ e \notin subscribed
  /\ Fulfilled(p, e)
  /\ UNCHANGED copies

\* It resolves with no subscriber queue to send to.  With requireSubscribers,
\* which relayOnce passes for the required topics, publish throws instead.
PublishVoid(p, e) ==
  /\ e \notin subscribed \cup Required
  /\ Fulfilled(p, e)
  /\ UNCHANGED copies

\* The entry a full map evicts to admit a new one: the first inserted.
Evicted(p, e) ==
  IF e \notin Tracked(p) /\ Cardinality(Tracked(p)) >= MaxTracked
    THEN { f \in Tracked(p) : \A g \in Tracked(p) : <<g, f>> \notin before[p] }
    ELSE {}

\* recordRelayFailure, and the end of the wave if e was its last row.
RecordFailure(p, e) ==
  Backoff(p, Evicted(p, e) \cup Cleared(p, e, ok[p]), {e}, NextDelay(delay[p][e]))

\* A publish rejects: the row is left out of succeededIds and backs off.
Rejected(p, e) ==
  /\ e \in wave[p]
  /\ wave' = [wave EXCEPT ![p] = @ \ {e}]
  /\ RecordFailure(p, e)
  /\ UNCHANGED <<dbVars, phase, due, todo, ok, subscribed, accepted>>

\* A publish that is refused whenever it is tried: a required one with no subscriber
\* (a body the broker does not take fails in the same way).
PublishRefused(p, e) ==
  /\ e \in Required \ subscribed
  /\ Rejected(p, e)
  /\ UNCHANGED <<copies, redo, faults>>

\* A transient fault: the publish rejects, yet a copy may have been enqueued
\* (a timeout after the send, or another queue of the fan-out took its copy).
PublishFaults(p, e) ==
  /\ Fault
  /\ Rejected(p, e)
  /\ \/ UNCHANGED <<copies, redo>>
     \/ /\ e \in subscribed
        /\ copies' = [copies EXCEPT ![p][e] = @ + 1]
        /\ redo'   = [redo EXCEPT ![p][e] = @ + 1]

-----------------------------------------------------------------------------
BatchDone(p) == phase[p] = "running" /\ wave[p] = {} /\ todo[p] = {}

EndCycle(p) ==
  /\ phase' = [phase EXCEPT ![p] = "idle"]
  /\ ok'    = [ok EXCEPT ![p] = {}]
  /\ UNCHANGED <<due, todo, wave, delay, wait, before, subscribed, accepted, copies>>

\* One UPDATE ... WHERE id IN (succeededIds); a row purged meanwhile is not there.
MarkPublished(p) ==
  /\ BatchDone(p)
  /\ row' = [e \in Rows |-> IF e \in ok[p] /\ row[e] = "unpublished" THEN "published" ELSE row[e]]
  /\ EndCycle(p)
  /\ UNCHANGED <<redo, faults>>

\* A table of counters by process and row, one up for the rows S of process p.
Counted(f, p, S) == [f EXCEPT ![p] = [e \in Rows |-> IF e \in S THEN @[e] + 1 ELSE @[e]]]

\* The UPDATE fails: startRelay logs the cycle's error and the rows stay unpublished.
MarkFails(p) ==
  /\ BatchDone(p) /\ ok[p] # {}
  /\ Fault
  /\ EndCycle(p)
  /\ redo' = Counted(redo, p, ok[p])
  /\ UNCHANGED dbVars

\* The process dies: its batch, its successes and its backoff map are gone.  Of the
\* publishes in flight any number has left a copy.
Crash(p) ==
  /\ phase[p] # "down"
  /\ Fault
  /\ phase' = [phase EXCEPT ![p] = "down"]
  /\ due'   = [due EXCEPT ![p] = FALSE]
  /\ todo'  = [todo EXCEPT ![p] = {}]
  /\ wave'  = [wave EXCEPT ![p] = {}]
  /\ ok'    = [ok EXCEPT ![p] = {}]
  /\ delay' = [delay EXCEPT ![p] = [e \in Rows |-> 0]]
  /\ wait'  = [wait EXCEPT ![p] = [e \in Rows |-> 0]]
  /\ before' = [before EXCEPT ![p] = {}]
  /\ \E sent \in SUBSET (wave[p] \cap subscribed) :
       /\ copies' = Counted(copies, p, sent)
       /\ redo'   = Counted(redo, p, ok[p] \cup sent)
  /\ UNCHANGED <<dbVars, subscribed, accepted>>

Restart(p) ==
  /\ phase[p] = "down"
  /\ phase' = [phase EXCEPT ![p] = "idle"]
  /\ UNCHANGED <<dbVars, due, todo, wave, ok, delay, wait, before, brokerVars>>

\* purgeOutbox: a published row past its retention is deleted.  Retention is
\* days against a cycle's seconds, so a row may go at any time after its UPDATE.
Purge(e) ==
  /\ row[e] = "published"
  /\ row' = [row EXCEPT ![e] = "purged"]
  /\ UNCHANGED <<relayVars, brokerVars>>

\* The consumer's side of the broker: a queue is created, or lost by a restart.
SubscriberAppears(e) ==
  /\ e \notin subscribed
  /\ subscribed' = subscribed \cup {e}
  /\ UNCHANGED <<dbVars, relayVars, accepted, copies, redo, faults>>

SubscriberVanishes(e) ==
  /\ e \in subscribed
  /\ Fault
  /\ subscribed' = subscribed \ {e}
  /\ UNCHANGED <<dbVars, relayVars, accepted, copies, redo>>

-----------------------------------------------------------------------------
Settle(p, e) ==
  \/ PublishDelivered(p, e)
  \/ PublishVoid(p, e)
  \/ PublishRefused(p, e)
  \/ PublishFaults(p, e)

Next ==
  \/ Tick
  \/ \E e \in Rows :
       \/ Enqueue(e)
       \/ Purge(e)
       \/ SubscriberAppears(e)
       \/ SubscriberVanishes(e)
  \/ \E p \in Relays :
       \/ SkipCycle(p)
       \/ StartCycle(p)
       \/ LaunchWave(p)
       \/ MarkPublished(p)
       \/ MarkFails(p)
       \/ Crash(p)
       \/ Restart(p)
       \/ \E e \in Rows : Settle(p, e)

Spec == Init /\ [][Next]_vars

\* setInterval keeps firing, a publish settles (requestTimeout bounds it), the
\* process manager restarts a dead worker. No consumer need ever create its queue.
Fairness ==
  /\ WF_vars(Tick)
  /\ \A p \in Relays :
       /\ WF_vars(SkipCycle(p))
       /\ WF_vars(StartCycle(p))
       /\ WF_vars(LaunchWave(p))
       /\ WF_vars(MarkPublished(p))
       /\ WF_vars(Restart(p))
       /\ \A e \in Rows : WF_vars(Settle(p, e))

FairSpec == Spec /\ Fairness

-----------------------------------------------------------------------------
\* The shape of the state.
TypeOK ==
  /\ row \in [Rows -> {"absent", "unpublished", "published", "purged"}]
  /\ phase \in [Relays -> {"down", "idle", "running"}]
  /\ due \in [Relays -> BOOLEAN]
  /\ todo \in [Relays -> SUBSET Rows]
  /\ wave \in [Relays -> SUBSET Rows]
  /\ ok \in [Relays -> SUBSET Rows]
  /\ delay \in [Relays -> [Rows -> 0..BackoffMax]]
  /\ wait \in [Relays -> [Rows -> 0..BackoffMax]]
  /\ before \in [Relays -> SUBSET (Rows \X Rows)]
  /\ subscribed \in SUBSET Rows
  /\ accepted \in [Rows -> BOOLEAN]
  /\ copies \in [Relays -> [Rows -> Nat]]
  /\ redo \in [Relays -> [Rows -> Nat]]
  /\ faults \in 0..MaxFaults

Delivered(e) == \E p \in Relays : copies[p][e] > 0

\* A row is never marked published, and so never dropped by the purge, unless
\* the bus resolved a publish of that very row: one row's failure inside a
\* batch is not covered by its neighbours' success in the batched UPDATE.
PublishedWasAccepted ==
  \A e \in Rows : Retired(e) => accepted[e]

\* An audit row marked published has a copy on a queue, whatever came and went
\* between the SELECT, the send and the UPDATE (relayOnce, requireSubscribers).
RequiredNeverVoid ==
  \A e \in Required : Retired(e) => Delivered(e)

\* A relay process puts a second copy of a row on the broker only after it lost
\* the knowledge of having sent the first: a crash, a failed UPDATE or a publish
\* that rejected after sending.  Overlapping processes add one copy each, no more.
DuplicatesExplained ==
  \A p \in Relays, e \in Rows : copies[p][e] <= 1 + redo[p][e]

\* Every committed row is published in the end, unless it is an audit row that nobody
\* subscribes to: rows that are refused for ever do not starve the rows behind them,
\* however small the batch.
EventuallyPublished ==
  \A e \in Rows :
    (row[e] = "unpublished") ~> (Retired(e) \/ e \in Required \ subscribed)
==============================================================================
