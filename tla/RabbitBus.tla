------------------------------- MODULE RabbitBus -------------------------------
(***************************************************************************)
(* The RabbitMQ adapter of the command bus for one topic                   *)
(* (services/queue-service/src/adapters/rabbitmq.ts): one durable queue    *)
(* and one dead-letter queue per service, a bucket where a failed delivery *)
(* is parked before its next attempt, and a channel whose frames a lost    *)
(* connection cuts anywhere.                                               *)
(***************************************************************************)
EXTENDS Integers

CONSTANTS Services,   \* services subscribed to the topic
          Msgs,       \* messages
          MaxRetries, \* RABBITMQ_MAX_RETRIES
          MaxFaults   \* bound: lost connections and full write buffers in a behaviour

ASSUME RabbitAssumption == MaxRetries \in Nat \ {0} /\ MaxFaults \in Nat

VARIABLES
  \* the broker
  wire,      \* messages published and not yet routed
  bound,     \* services whose queues are bound to the topic's exchanges
  copies,    \* per service, per [msg, count, stage]: how many copies
  dlq,       \* per service: messages in its dead-letter queue
  \* each service's process
  listening, \* services with a consumer on a live channel
  \* history, read by no action but Publish
  sent,      \* messages whose publish() resolved
  reached,   \* per service: messages routed to its queue
  done,      \* per service: messages all handlers have returned from
  gaveUp,    \* per service: messages it rejected
  runs,      \* per service and message: handler runs, counted up to MaxRetries + 1
  disturbed, \* per service: messages a fault met in its hands
  faults

brokerVars  == <<wire, bound, copies, dlq>>
historyVars == <<sent, reached, done, gaveUp, runs, disturbed, faults>>
vars        == <<brokerVars, listening, historyVars>>

-----------------------------------------------------------------------------
Counts == 1..MaxRetries \* the x-delivery-count header, 1 when absent

\* Delivered and unacknowledged: the handlers run, or these frames are on their way:
\* the republished copy and its ack, an ack, a nack with requeue, a nack without.
InHand == {"held", "resend", "acked", "requeued", "rejected"}

Stages == {"ready", "parked"} \cup InHand

Copy == [msg : Msgs, count : Counts, stage : Stages]

At(c, stage) == [c EXCEPT !.stage = stage]

Init ==
  /\ wire      = {}
  /\ bound     = {}
  /\ copies    = [s \in Services |-> [c \in Copy |-> 0]]
  /\ dlq       = [s \in Services |-> {}]
  /\ listening = {}
  /\ sent      = {}
  /\ reached   = [s \in Services |-> {}]
  /\ done      = [s \in Services |-> {}]
  /\ gaveUp    = [s \in Services |-> {}]
  /\ runs      = [s \in Services |-> [m \in Msgs |-> 0]]
  /\ disturbed = [s \in Services |-> {}]
  /\ faults    = 0

Fault == /\ faults < MaxFaults
         /\ faults' = faults + 1

\* Service s has copy c; it goes on to another stage, or leaves the queue.
Has(s, c)      == copies[s][c] > 0
Move(s, c, to) == copies' = [copies EXCEPT ![s][c] = @ - 1, ![s][to] = @ + 1]
Drop(s, c)     == copies' = [copies EXCEPT ![s][c] = @ - 1]

-----------------------------------------------------------------------------
\* publish(): resolves once the frame is buffered; no confirm, and the options
\* (required, requireSubscribers) are ignored.
Publish(m) ==
  /\ m \notin sent
  /\ sent' = sent \cup {m}
  /\ wire' = wire \cup {m}
  /\ UNCHANGED <<bound, copies, dlq, listening, reached, done, gaveUp, runs, disturbed, faults>>

\* The fanout exchange copies the message to the queues bound to it, if any.
Route(m) ==
  /\ m \in wire
  /\ wire'    = wire \ {m}
  /\ copies'  = [s \in Services |-> [c \in Copy |->
                   IF s \in bound /\ c = [msg |-> m, count |-> 1, stage |-> "ready"]
                     THEN copies[s][c] + 1 ELSE copies[s][c]]]
  /\ reached' = [s \in Services |-> IF s \in bound THEN reached[s] \cup {m} ELSE reached[s]]
  /\ UNCHANGED <<bound, dlq, listening, sent, done, gaveUp, runs, disturbed, faults>>

\* The publisher's connection goes, and the frame with it.
FrameLost(m) ==
  /\ m \in wire
  /\ Fault
  /\ wire' = wire \ {m}
  /\ UNCHANGED <<bound, copies, dlq, listening, sent, reached, done, gaveUp, runs, disturbed>>

-----------------------------------------------------------------------------
\* start(): the DLQ is bound before the queue, the queue before consume().
Declare(s) ==
  /\ s \notin bound
  /\ bound' = bound \cup {s}
  /\ UNCHANGED <<wire, copies, dlq, listening, historyVars>>

\* Fault: consume() does not wait for the queue to be declared.
ConsumeFirst(s) ==
  /\ s \notin listening
  /\ listening' = listening \cup {s}
  /\ UNCHANGED <<brokerVars, historyVars>>

Consume(s) ==
  /\ s \in bound /\ s \notin listening
  /\ listening' = listening \cup {s}
  /\ UNCHANGED <<brokerVars, historyVars>>

\* A delivery: the consume callback runs the handlers.
Deliver(s, c) ==
  /\ s \in listening /\ c.stage = "ready" /\ Has(s, c)
  /\ Move(s, c, At(c, "held"))
  /\ runs' = [runs EXCEPT ![s][c.msg] = IF @ > MaxRetries THEN @ ELSE @ + 1]
  /\ UNCHANGED <<wire, bound, dlq, listening, sent, reached, done, gaveUp, disturbed, faults>>

\* Every handler returned: ack.
Handled(s, c) ==
  /\ c.stage = "held" /\ Has(s, c)
  /\ Move(s, c, At(c, "acked"))
  /\ done' = [done EXCEPT ![s] = @ \cup {c.msg}]
  /\ UNCHANGED <<wire, bound, dlq, listening, sent, reached, gaveUp, runs, disturbed, faults>>

\* A NonRetryableError at any attempt, or any failure at the last one: nack without
\* requeue.
Reject(s, c) ==
  /\ c.stage = "held" /\ Has(s, c)
  /\ Move(s, c, At(c, "rejected"))
  /\ gaveUp' = [gaveUp EXCEPT ![s] = @ \cup {c.msg}]
  /\ UNCHANGED <<wire, bound, dlq, listening, sent, reached, done, runs, disturbed, faults>>

\* A handler failed with attempts left.
Retry(s, c) ==
  /\ c.stage = "held" /\ Has(s, c) /\ c.count < MaxRetries
  /\ Move(s, c, At(c, "resend"))
  /\ UNCHANGED <<wire, bound, dlq, listening, historyVars>>

\* Fault: the republished copy keeps the count it came with.
SameCount(c) == [msg |-> c.msg, count |-> c.count, stage |-> "parked"]

\* requeueWithBackoff stamps the next attempt on the copy.
NextAttempt(c) == [msg |-> c.msg, count |-> c.count + 1, stage |-> "parked"]

\* Fault: the ack goes first, and may arrive alone.
AckFirst(s, c) ==
  /\ c.stage = "resend" /\ Has(s, c)
  /\ \/ /\ Move(s, c, NextAttempt(c))
        /\ UNCHANGED <<disturbed, faults>>
     \/ /\ Fault
        /\ Drop(s, c)
        /\ disturbed' = [disturbed EXCEPT ![s] = @ \cup {c.msg}]
  /\ UNCHANGED <<wire, bound, dlq, listening, sent, reached, done, gaveUp, runs>>

\* The republished copy reaches its bucket; the ack follows it. sendToQueue may
\* report a full write buffer though it buffered the copy: then a nack with requeue
\* follows instead.
Resend(s, c) ==
  /\ c.stage = "resend" /\ Has(s, c)
  /\ \E next \in {"acked", "requeued"} :
       /\ copies' = [copies EXCEPT ![s][c] = @ - 1, ![s][At(c, next)] = @ + 1,
                                   ![s][NextAttempt(c)] = @ + 1]
       /\ IF next = "acked" THEN UNCHANGED <<disturbed, faults>>
          ELSE /\ Fault
               /\ disturbed' = [disturbed EXCEPT ![s] = @ \cup {c.msg}]
  /\ UNCHANGED <<wire, bound, dlq, listening, sent, reached, done, gaveUp, runs>>

\* The frame that settles the delivery arrives. The dead-letter exchange is named
\* after the topic alone, and is a fanout like the topic's own.
Settle(s, c) ==
  /\ Has(s, c)
  /\ \/ /\ c.stage = "acked"
        /\ Drop(s, c)
        /\ UNCHANGED dlq
     \/ /\ c.stage = "requeued"
        /\ Move(s, c, At(c, "ready"))
        /\ UNCHANGED dlq
     \/ /\ c.stage = "rejected"
        /\ Drop(s, c)
        /\ dlq' = [r \in Services |-> IF r \in bound THEN dlq[r] \cup {c.msg} ELSE dlq[r]]
  /\ UNCHANGED <<wire, bound, listening, historyVars>>

\* The bucket's TTL returns the copy to this service's queue alone.
Expire(s, c) ==
  /\ c.stage = "parked" /\ Has(s, c)
  /\ Move(s, c, At(c, "ready"))
  /\ UNCHANGED <<wire, bound, dlq, listening, historyVars>>

\* What is delivered and unacknowledged when the channel goes is ready again, its
\* count unchanged.
Returned(s) ==
  [c \in Copy |->
     IF c.stage \in InHand THEN 0
     ELSE IF c.stage = "parked" THEN copies[s][c]
     ELSE copies[s][c] + copies[s][At(c, "held")] + copies[s][At(c, "resend")]
          + copies[s][At(c, "acked")] + copies[s][At(c, "requeued")]
          + copies[s][At(c, "rejected")]]

\* The connection goes, alone or with its process: frames on their way are lost,
\* handlers that run may still return. Nothing consumes again before a start().
Disconnect(s) ==
  /\ s \in listening
  /\ Fault
  /\ listening' = listening \ {s}
  /\ copies'    = [copies EXCEPT ![s] = Returned(s)]
  /\ \E M \in SUBSET { c.msg : c \in { d \in Copy : d.stage = "held" /\ Has(s, d) } } :
       done' = [done EXCEPT ![s] = @ \cup M]
  /\ disturbed' = [disturbed EXCEPT ![s] =
                     @ \cup { c.msg : c \in { d \in Copy : d.stage \in InHand /\ Has(s, d) } }]
  /\ UNCHANGED <<wire, bound, dlq, sent, reached, gaveUp, runs>>

-----------------------------------------------------------------------------
\* What the handlers make of a delivery.
Outcome(s, c) == Handled(s, c) \/ Reject(s, c) \/ Retry(s, c)

Step(s, c) ==
  \/ Deliver(s, c)
  \/ Outcome(s, c)
  \/ Resend(s, c)
  \/ Settle(s, c)
  \/ Expire(s, c)

Next ==
  \/ \E m \in Msgs : Publish(m) \/ Route(m) \/ FrameLost(m)
  \/ \E s \in Services :
       \/ Declare(s)
       \/ Consume(s)
       \/ Disconnect(s)
       \/ \E c \in Copy : Step(s, c)

Spec == Init /\ [][Next]_vars

\* The broker delivers and routes, handlers return, frames arrive, TTLs end. Nothing
\* makes a service start again.
Fairness ==
  /\ \A m \in Msgs : WF_vars(Route(m))
  /\ \A s \in Services, c \in Copy : WF_vars(Step(s, c))

FairSpec == Spec /\ Fairness

-----------------------------------------------------------------------------
\* The shape of the state.
TypeOK ==
  /\ wire \in SUBSET sent
  /\ bound \in SUBSET Services
  /\ copies \in [Services -> [Copy -> Nat]]
  /\ dlq \in [Services -> SUBSET Msgs]
  /\ listening \in SUBSET bound
  /\ sent \in SUBSET Msgs
  /\ reached \in [Services -> SUBSET Msgs]
  /\ done \in [Services -> SUBSET Msgs]
  /\ gaveUp \in [Services -> SUBSET Msgs]
  /\ runs \in [Services -> [Msgs -> 0..(MaxRetries + 1)]]
  /\ disturbed \in [Services -> SUBSET Msgs]
  /\ faults \in 0..MaxFaults

\* A message that reached a service's queue is there, or parked, or in the service's
\* hands, until its handlers have returned or it was given up on, into the DLQ: a
\* connection lost between the frames of a retry or of an ack loses no message (the
\* republish before the ack, and the comment on at-least-once above it).
NothingVanishes ==
  \A s \in Services : \A m \in reached[s] \ (done[s] \cup (gaveUp[s] \cap dlq[s])) :
    \E c \in Copy : c.msg = m /\ Has(s, c)

\* The handlers run at most MaxRetries times for a message that no lost connection
\* and no full write buffer met in the service's hands (x-delivery-count, which the
\* adapter itself has to carry from hop to hop).
AttemptsBounded ==
  \A s \in Services, m \in Msgs : runs[s][m] > MaxRetries => m \in disturbed[s]

\* While a service listens, a message that reached it is handled or given up on: the
\* retries end, whatever is lost in between (start, requeueWithBackoff).
Settles ==
  \A s \in Services, m \in Msgs :
    (m \in reached[s]) ~> (m \in done[s] \cup gaveUp[s] \/ s \notin listening)

\* "DLQ: a separate exchange + queue per service+topic": what is in a service's DLQ
\* is what that service gave up on.
DeadLettersAreOwn == \A s \in Services : dlq[s] \subseteq gaveUp[s]
==============================================================================
