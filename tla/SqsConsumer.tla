----------------------------- MODULE SqsConsumer -----------------------------
(***************************************************************************)
(* The SQS consumer of one service's queue for one command topic           *)
(* (services/queue-service/src/bus.ts, SqsQueue.pollTopic) and the tables  *)
(* its handlers and hooks write (packages/outbox: markProcessed,           *)
(* recordCommandOutcome, recordCommandResult).                             *)
(*                                                                         *)
(* The broker holds copies of commands; several copies may carry the same  *)
(* command, since the relay that sends them may repeat itself.  Every      *)
(* worker process polls the queue: it receives a batch, and for each copy  *)
(* runs the topic's handlers in turn, dead-letters or not, emits the       *)
(* outcome to the onOutcome hooks, and deletes the copy.  A copy whose     *)
(* visibility timeout runs out is received again, by anyone, while the     *)
(* first receiver is still at work on it.                                  *)
(***************************************************************************)
EXTENDS Integers, FiniteSets

CONSTANTS Commands,    \* message ids
          Copies,      \* SQS messages
          CommandOf,   \* the command each copy carries
          Malformed,   \* copies that do not parse or fail parseEnvelope
          Anonymous,   \* malformed copies with no messageId or tenantId to report on
          Broken,      \* commands whose handlers always throw a retryable error
          Refusable,   \* commands a handler may refuse with a NonRetryableError
          Workers,     \* processes polling the queue
          NumHandlers, \* handlers subscribed to the topic, run in this order
          Hooks,       \* onOutcome callbacks
          Guarded,     \* hooks storing with recordCommandResult, the others with
                       \* recordCommandOutcome
          MaxReceive,  \* SQS_MAX_RECEIVE_COUNT
          MaxBatch,    \* MaxNumberOfMessages
          Redrive,     \* TRUE: the queue carries its native RedrivePolicy
          NoCopy,
          MaxFaults    \* bound: crashes, failed calls and throwing handlers in a behaviour

ASSUME ConsumerAssumption ==
  /\ CommandOf \in [Copies -> Commands]
  /\ Anonymous \subseteq Malformed /\ Malformed \subseteq Copies
  /\ NumHandlers \in Nat \ {0}
  /\ Guarded \subseteq Hooks
  /\ MaxReceive \in Nat \ {0}
  /\ MaxBatch \in Nat \ {0}
  /\ Redrive \in BOOLEAN
  /\ NoCopy \notin Copies
  /\ MaxFaults \in Nat

VARIABLES
  \* the broker
  place,     \* of each copy: "unsent", "queue" or "gone"
  visible,   \* copies on the queue that a receive may return
  receives,  \* ApproximateReceiveCount, saturating at MaxReceive
  grave,     \* "none"; "kept": it is on the DLQ; "dropped": the DLQ send failed
  \* each worker
  pc,        \* "down", "poll", "handle", "tx", "dlq", "emit", "delete"
  held,      \* the batch: the receive count of each copy in it, 0 for the others
  cur,       \* the copy being processed
  next,      \* the handler to run next
  clean,     \* allHandled
  verdict,   \* the outcome to emit, "none" if there is none
  told,      \* the hooks it was emitted to
  \* the service database
  processed, \* dedupe keys in _inbox.processed
  applied,   \* how often the effect of each handler on each command was committed
  result,    \* what each hook stored for each command
  faults     \* faults so far

brokerVars == <<place, visible, receives, grave>>
workerVars == <<pc, held, cur, next, clean, verdict, told>>
dbVars     == <<processed, applied, result>>
vars       == <<brokerVars, workerVars, dbVars, faults>>

-----------------------------------------------------------------------------
Handlers == 1..NumHandlers
Statuses == {"succeeded", "rejected", "failed"}

\* Fault: every handler of the topic claims the raw message id.
SharedKey(c, h) == <<c, 1>>

\* What a handler of a topic with several claims: its name folded with the id.
DedupeKey(c, h) == <<c, h>>

Lesser(a, b) == IF a < b THEN a ELSE b

Fault == /\ faults < MaxFaults
         /\ faults' = faults + 1

\* The copies of the batch a worker has not finished.
Batch(w) == { m \in Copies : held[w][m] > 0 }

Cmd(w) == CommandOf[cur[w]]

\* INSERT ... ON CONFLICT waits for a transaction that has claimed the key.
Claimed(k) == \E v \in Workers : pc[v] = "tx" /\ DedupeKey(Cmd(v), next[v]) = k

\* Fault: the upsert has lost its guard on a stored success.
RecordedUnguarded(k, old, s) == IF old = "none" \/ k \in Guarded THEN s ELSE old

\* What a hook's table holds once it is told s: recordCommandResult overwrites
\* anything but a success, recordCommandOutcome overwrites nothing.
Recorded(k, old, s) ==
  IF old = "none" \/ (k \in Guarded /\ old # "succeeded") THEN s ELSE old

Init ==
  /\ place     = [m \in Copies |-> "unsent"]
  /\ visible   = {}
  /\ receives  = [m \in Copies |-> 0]
  /\ grave     = [m \in Copies |-> "none"]
  /\ pc        = [w \in Workers |-> "poll"]
  /\ held      = [w \in Workers |-> [m \in Copies |-> 0]]
  /\ cur       = [w \in Workers |-> NoCopy]
  /\ next      = [w \in Workers |-> 1]
  /\ clean     = [w \in Workers |-> TRUE]
  /\ verdict   = [w \in Workers |-> "none"]
  /\ told      = [w \in Workers |-> {}]
  /\ processed = {}
  /\ applied   = [c \in Commands |-> [h \in Handlers |-> 0]]
  /\ result    = [k \in Hooks |-> [c \in Commands |-> "none"]]
  /\ faults    = 0

-----------------------------------------------------------------------------
\* The broker.

\* A publish of the relay enqueues a copy.
Send(m) ==
  /\ place[m] = "unsent"
  /\ place'   = [place EXCEPT ![m] = "queue"]
  /\ visible' = visible \cup {m}
  /\ UNCHANGED <<receives, grave, workerVars, dbVars, faults>>

\* The visibility timeout, the default one or the backoff a worker asked for with
\* ChangeMessageVisibility, runs out.
VisibilityExpires(m) ==
  /\ place[m] = "queue" /\ m \notin visible
  /\ visible' = visible \cup {m}
  /\ UNCHANGED <<place, receives, grave, workerVars, dbVars, faults>>

\* The native policy moves a copy received too often to the DLQ by itself.
BrokerRedrives(m) ==
  /\ Redrive
  /\ m \in visible /\ receives[m] >= MaxReceive
  /\ place'   = [place EXCEPT ![m] = "gone"]
  /\ visible' = visible \ {m}
  /\ grave'   = [grave EXCEPT ![m] = "kept"]
  /\ UNCHANGED <<receives, workerVars, dbVars, faults>>

-----------------------------------------------------------------------------
\* The poll loop.

Receivable == { m \in visible : Redrive => receives[m] < MaxReceive }

Receive(w) ==
  /\ pc[w] = "poll" /\ Batch(w) = {}
  /\ \E S \in SUBSET Receivable :
       /\ S # {} /\ Cardinality(S) <= MaxBatch
       /\ receives' = [m \in Copies |-> IF m \in S THEN Lesser(receives[m] + 1, MaxReceive)
                                        ELSE receives[m]]
       /\ held'     = [held EXCEPT ![w] = [m \in Copies |-> IF m \in S THEN receives'[m] ELSE 0]]
       /\ visible'  = visible \ S
  /\ UNCHANGED <<place, grave, pc, cur, next, clean, verdict, told, dbVars, faults>>

\* The next copy of the batch: parse it, validate its envelope.
Take(w) ==
  /\ pc[w] = "poll"
  /\ \E m \in Batch(w) :
       /\ cur' = [cur EXCEPT ![w] = m]
       /\ pc'  = [pc EXCEPT ![w] = IF m \in Malformed THEN "dlq" ELSE "handle"]
       /\ verdict' = [verdict EXCEPT ![w] =
                        IF m \in Malformed \ Anonymous THEN "rejected" ELSE "none"]
  /\ next'  = [next EXCEPT ![w] = 1]
  /\ clean' = [clean EXCEPT ![w] = TRUE]
  /\ UNCHANGED <<brokerVars, held, told, dbVars, faults>>

\* The loop is done with the copy it was processing.
Done(w) ==
  /\ pc'   = [pc EXCEPT ![w] = "poll"]
  /\ held' = [held EXCEPT ![w][cur[w]] = 0]
  /\ cur'  = [cur EXCEPT ![w] = NoCopy]
  /\ next' = [next EXCEPT ![w] = 1]
  /\ clean' = [clean EXCEPT ![w] = TRUE]
  /\ verdict' = [verdict EXCEPT ![w] = "none"]
  /\ told' = [told EXCEPT ![w] = {}]

-----------------------------------------------------------------------------
\* One handler, written as the delivery contract asks: a transaction that first
\* claims the message (markProcessed), then applies the write.

\* Fault: the loop over the handlers runs one too far.
HandlingOffByOne(w) == pc[w] = "handle" /\ next[w] <= NumHandlers + 1

Handling(w) == pc[w] = "handle" /\ next[w] \in Handlers

\* markProcessed returns false: nothing to do.
AlreadyProcessed(w) ==
  /\ Handling(w)
  /\ DedupeKey(Cmd(w), next[w]) \in processed
  /\ next' = [next EXCEPT ![w] = @ + 1]
  /\ UNCHANGED <<brokerVars, pc, held, cur, clean, verdict, told, dbVars, faults>>

\* Fault: markProcessed selects, then inserts, and waits for no one.
ClaimUnlocked(w) ==
  /\ Handling(w)
  /\ DedupeKey(Cmd(w), next[w]) \notin processed
  /\ pc' = [pc EXCEPT ![w] = "tx"]
  /\ UNCHANGED <<brokerVars, held, cur, next, clean, verdict, told, dbVars, faults>>

\* markProcessed inserts the key; the transaction goes on to apply the write.
Claim(w) ==
  /\ Handling(w)
  /\ DedupeKey(Cmd(w), next[w]) \notin processed
  /\ ~Claimed(DedupeKey(Cmd(w), next[w]))
  /\ pc' = [pc EXCEPT ![w] = "tx"]
  /\ UNCHANGED <<brokerVars, held, cur, next, clean, verdict, told, dbVars, faults>>

\* The transaction commits the claim with the write.  What the handler does after
\* the commit (a cache invalidation) may still throw.
Commit(w) ==
  /\ pc[w] = "tx" /\ Cmd(w) \notin Broken
  /\ processed' = processed \cup {DedupeKey(Cmd(w), next[w])}
  /\ applied'   = [applied EXCEPT ![Cmd(w)][next[w]] = @ + 1]
  /\ pc'   = [pc EXCEPT ![w] = "handle"]
  /\ next' = [next EXCEPT ![w] = @ + 1]
  /\ \/ UNCHANGED <<clean, faults>>
     \/ Fault /\ clean' = [clean EXCEPT ![w] = FALSE]
  /\ UNCHANGED <<brokerVars, held, cur, verdict, told, result>>

\* A retryable error rolls the transaction back; the other handlers still run.
Throw(w) ==
  /\ pc[w] = "tx"
  /\ \/ Cmd(w) \in Broken /\ UNCHANGED faults
     \/ Fault
  /\ pc'    = [pc EXCEPT ![w] = "handle"]
  /\ next'  = [next EXCEPT ![w] = @ + 1]
  /\ clean' = [clean EXCEPT ![w] = FALSE]
  /\ UNCHANGED <<brokerVars, held, cur, verdict, told, dbVars>>

\* A NonRetryableError rolls back too, and the handlers after it do not run.
Refuse(w) ==
  /\ pc[w] = "tx" /\ Cmd(w) \in Refusable
  /\ pc'      = [pc EXCEPT ![w] = "dlq"]
  /\ verdict' = [verdict EXCEPT ![w] = "rejected"]
  /\ UNCHANGED <<brokerVars, held, cur, next, clean, told, dbVars, faults>>

-----------------------------------------------------------------------------
\* What follows the handlers.

AllRan(w) == pc[w] = "handle" /\ next[w] > NumHandlers

AllSucceeded(w) ==
  /\ AllRan(w) /\ clean[w]
  /\ pc'      = [pc EXCEPT ![w] = "emit"]
  /\ verdict' = [verdict EXCEPT ![w] = "succeeded"]
  /\ UNCHANGED <<brokerVars, held, cur, next, clean, told, dbVars, faults>>

\* Fault: nothing ever gives up on a copy.
NeverExhausted(w) == FALSE

\* This receive was the last one the copy gets.
Exhausted(w) == held[w][cur[w]] >= MaxReceive

\* The copy stays on the queue, invisible for its backoff.
LeaveForRetry(w) ==
  /\ AllRan(w) /\ ~clean[w] /\ ~Exhausted(w)
  /\ Done(w)
  /\ UNCHANGED <<brokerVars, dbVars, faults>>

\* Fault: the exhausted copy is reported and deleted without going to the DLQ.
GiveUpWithoutDlq(w) ==
  /\ AllRan(w) /\ ~clean[w] /\ Exhausted(w)
  /\ pc'      = [pc EXCEPT ![w] = "emit"]
  /\ verdict' = [verdict EXCEPT ![w] = "failed"]
  /\ UNCHANGED <<brokerVars, held, cur, next, clean, told, dbVars, faults>>

\* Received too often: it is dead-lettered.
GiveUp(w) ==
  /\ AllRan(w) /\ ~clean[w] /\ Exhausted(w)
  /\ pc'      = [pc EXCEPT ![w] = "dlq"]
  /\ verdict' = [verdict EXCEPT ![w] = "failed"]
  /\ UNCHANGED <<brokerVars, held, cur, next, clean, told, dbVars, faults>>

\* routeToDlq: a failed send is logged and the loop goes on as if it had worked.
DeadLetter(w) ==
  /\ pc[w] = "dlq"
  /\ \/ grave' = [grave EXCEPT ![cur[w]] = "kept"] /\ UNCHANGED faults
     \/ /\ Fault
        /\ grave' = [grave EXCEPT ![cur[w]] = IF @ = "none" THEN "dropped" ELSE @]
  /\ pc' = [pc EXCEPT ![w] = IF verdict[w] = "none" THEN "delete" ELSE "emit"]
  /\ UNCHANGED <<place, visible, receives, held, cur, next, clean, verdict, told, dbVars>>

\* emitOutcome awaits one hook after the other: each stores the outcome or fails,
\* without holding up the others or the delete.
EmitOutcome(w) ==
  /\ pc[w] = "emit"
  /\ \E k \in Hooks \ told[w] :
       /\ told' = [told EXCEPT ![w] = @ \cup {k}]
       /\ \/ /\ result' = [result EXCEPT ![k][Cmd(w)] = Recorded(k, @, verdict[w])]
             /\ UNCHANGED faults
          \/ Fault /\ UNCHANGED result
  /\ UNCHANGED <<brokerVars, pc, held, cur, next, clean, verdict, processed, applied>>

\* The last hook has been told.
OutcomeTold(w) ==
  /\ pc[w] = "emit" /\ told[w] = Hooks
  /\ pc' = [pc EXCEPT ![w] = "delete"]
  /\ UNCHANGED <<brokerVars, held, cur, next, clean, verdict, told, dbVars, faults>>

\* deleteSqsMessage is best effort: the call fails, or its receipt handle is stale.
Delete(w) ==
  /\ pc[w] = "delete"
  /\ \/ /\ place'   = [place EXCEPT ![cur[w]] = "gone"]
        /\ visible' = visible \ {cur[w]}
        /\ UNCHANGED faults
     \/ Fault /\ UNCHANGED <<place, visible>>
  /\ Done(w)
  /\ UNCHANGED <<receives, grave, dbVars>>

\* The process dies (or stop() ends its loop between two batches): an open
\* transaction rolls back and the batch is left to its visibility timeouts.
Crash(w) ==
  /\ pc[w] # "down"
  /\ Fault
  /\ pc'   = [pc EXCEPT ![w] = "down"]
  /\ held' = [held EXCEPT ![w] = [m \in Copies |-> 0]]
  /\ cur'  = [cur EXCEPT ![w] = NoCopy]
  /\ next' = [next EXCEPT ![w] = 1]
  /\ clean' = [clean EXCEPT ![w] = TRUE]
  /\ verdict' = [verdict EXCEPT ![w] = "none"]
  /\ told' = [told EXCEPT ![w] = {}]
  /\ UNCHANGED <<brokerVars, dbVars>>

Restart(w) ==
  /\ pc[w] = "down"
  /\ pc' = [pc EXCEPT ![w] = "poll"]
  /\ UNCHANGED <<brokerVars, held, cur, next, clean, verdict, told, dbVars, faults>>

-----------------------------------------------------------------------------
\* What a live worker does, whatever it meets.
Work(w) ==
  \/ Receive(w)
  \/ Take(w)
  \/ AlreadyProcessed(w)
  \/ Claim(w)
  \/ Commit(w)
  \/ Throw(w)
  \/ Refuse(w)
  \/ AllSucceeded(w)
  \/ LeaveForRetry(w)
  \/ GiveUp(w)
  \/ DeadLetter(w)
  \/ EmitOutcome(w)
  \/ OutcomeTold(w)
  \/ Delete(w)
  \/ Restart(w)

Next ==
  \/ \E m \in Copies : Send(m) \/ VisibilityExpires(m) \/ BrokerRedrives(m)
  \/ \E w \in Workers : Work(w) \/ Crash(w)

Spec == Init /\ [][Next]_vars

\* A poll loop runs on, a worker is restarted, timeouts and the redrive happen.
Fairness ==
  /\ \A m \in Copies : WF_vars(VisibilityExpires(m)) /\ WF_vars(BrokerRedrives(m))
  /\ \A w \in Workers : WF_vars(Work(w))

FairSpec == Spec /\ Fairness

-----------------------------------------------------------------------------
\* The shape of the state.
TypeOK ==
  /\ place \in [Copies -> {"unsent", "queue", "gone"}]
  /\ visible \in SUBSET Copies
  /\ receives \in [Copies -> 0..MaxReceive]
  /\ grave \in [Copies -> {"none", "kept", "dropped"}]
  /\ pc \in [Workers -> {"down", "poll", "handle", "tx", "dlq", "emit", "delete"}]
  /\ held \in [Workers -> [Copies -> 0..MaxReceive]]
  /\ cur \in [Workers -> Copies \cup {NoCopy}]
  /\ next \in [Workers -> 1..(NumHandlers + 1)]
  /\ clean \in [Workers -> BOOLEAN]
  /\ verdict \in [Workers -> Statuses \cup {"none"}]
  /\ told \in [Workers -> SUBSET Hooks]
  /\ processed \in SUBSET (Commands \X Handlers)
  /\ applied \in [Commands -> [Handlers -> Nat]]
  /\ result \in [Hooks -> [Commands -> Statuses \cup {"none"}]]
  /\ faults \in 0..MaxFaults

AllApplied(c) == \A h \in Handlers : applied[c][h] > 0

\* The consumer implements what CommandContract promises to the command's caller.
Contract == INSTANCE CommandContract WITH
              Commands <- Commands, Handlers <- Handlers, Hooks <- Hooks,
              Guarded <- Guarded, applied <- applied, result <- result
ImplementsContract == Contract!Spec

\* However often a command is sent, received, retried or abandoned half way, each
\* handler's write is committed at most once (markProcessed inside the handler's
\* transaction).
AppliedAtMostOnce ==
  \A c \in Commands, h \in Handlers : applied[c][h] <= 1

\* A stored "succeeded" is true: every handler's write is in, though different
\* receives, by different workers, may have put them there.
SucceededIsTrue ==
  \A k \in Hooks, c \in Commands : result[k][c] = "succeeded" => AllApplied(c)

\* A copy that left the queue either did all its work or was handed to the DLQ
\* first: a worker that failed on it never deletes it in passing.
NothingVanishes ==
  \A m \in Copies : place[m] = "gone" => AllApplied(CommandOf[m]) \/ grave[m] # "none"

\* "it does NOT silently vanish": what leaves the queue is applied or on the DLQ
\* (pollTopic's QUE-1 comment).
FailedIsKept ==
  \A m \in Copies : place[m] = "gone" => AllApplied(CommandOf[m]) \/ grave[m] = "kept"

\* Every copy leaves the queue: even one whose handlers always throw does not
\* come back for ever.
EventuallySettled == \A m \in Copies : (place[m] = "queue") ~> (place[m] = "gone")
==============================================================================
