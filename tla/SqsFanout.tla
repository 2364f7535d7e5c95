------------------------------ MODULE SqsFanout ------------------------------
(***************************************************************************)
(* The publishing side of SqsQueue for one topic, in one process           *)
(* (services/queue-service/src/bus.ts): publish sends a copy to the queue  *)
(* of every subscribing service it knows of.  What it knows is a cache of  *)
(* ListQueues, served stale past its TTL while a single background refresh *)
(* runs, and corrected when a send finds a queue gone.  Services create    *)
(* their queues, and the broker loses them, at any time.                   *)
(***************************************************************************)
EXTENDS Integers, FiniteSets

CONSTANTS Services,      \* services that may subscribe to the topic
          Calls,         \* publish calls that may run at once; each slot is reused
          Required,      \* the calls made with requireSubscribers
          Ttl,           \* SQS_SUBSCRIBER_CACHE_TTL_MS, in ticks
          Recheck,       \* NO_SUBSCRIBER_RECHECK_MS, in ticks
          MaxFaults      \* bound: lost queues and failed calls in a behaviour

ASSUME FanoutAssumption ==
  /\ Required \subseteq Calls
  /\ Ttl \in Nat \ {0}
  /\ Recheck \in Nat \ {0}
  /\ MaxFaults \in Nat

VARIABLES
  \* the broker
  queues,   \* services whose queue exists
  \* the cache entry of the topic in this process
  cold,     \* subUrlCache has no entry
  known,    \* its urls
  left,     \* ticks until its exp, 0 when it is past
  refresh,  \* subUrlRefresh: "none" or "listing"
  unlisted, \* services whose page of the listing is still to come
  found,    \* queues on the pages that came
  \* each call
  stage,    \* "idle", "resolving", "sending", "resolved", "rejected"
  pending,  \* sends not answered yet
  refused,  \* sends answered that the queue does not exist, the answer not handled yet
  asked,    \* the urls it was given to send to
  sent,     \* the queues that took a copy
  \* history, read by no action
  lost,     \* services whose queue was ever lost
  faults

brokerVars == <<queues, lost>>
cacheVars  == <<cold, known, left, refresh, unlisted, found>>
callVars   == <<stage, pending, refused, asked, sent>>
vars       == <<brokerVars, cacheVars, callVars, faults>>

-----------------------------------------------------------------------------
Lesser(a, b) == IF a < b THEN a ELSE b

Fault == /\ faults < MaxFaults
         /\ faults' = faults + 1

Answered(m) == pending[m] = {} /\ refused[m] = {}

Resolving == { m \in Calls : stage[m] = "resolving" }

Init ==
  /\ queues  = {}
  /\ cold    = TRUE
  /\ known   = {}
  /\ left    = 0
  /\ refresh = "none"
  /\ unlisted = {}
  /\ found   = {}
  /\ stage   = [m \in Calls |-> "idle"]
  /\ pending = [m \in Calls |-> {}]
  /\ refused = [m \in Calls |-> {}]
  /\ asked   = [m \in Calls |-> {}]
  /\ sent    = [m \in Calls |-> {}]
  /\ lost    = {}
  /\ faults  = 0

-----------------------------------------------------------------------------
\* The broker and the clock.

\* A consumer's start() creates its queue.
QueueAppears(s) ==
  /\ s \notin queues
  /\ queues' = queues \cup {s}
  /\ UNCHANGED <<lost, cacheVars, callVars, faults>>

QueueIsLost(s) ==
  /\ s \in queues
  /\ Fault
  /\ queues' = queues \ {s}
  /\ lost'   = lost \cup {s}
  /\ UNCHANGED <<cacheVars, callVars>>

Tick ==
  /\ left > 0
  /\ left' = left - 1
  /\ UNCHANGED <<brokerVars, cold, known, refresh, unlisted, found, callVars, faults>>

-----------------------------------------------------------------------------
\* refreshSubscriberQueues: one discovery at a time, shared by all who ask.

\* A page of ListQueues: it shows the queues as they are when it is read, which may be
\* long after the page before. Larger pages are such steps in a row.
ListPage(s) ==
  /\ s \in unlisted
  /\ unlisted' = unlisted \ {s}
  /\ found'    = found \cup ({s} \cap queues)
  /\ UNCHANGED <<brokerVars, cold, known, left, refresh, callVars, faults>>

\* All pages fill the cache, and the calls that waited for them go on with it.
FillCache ==
  /\ refresh = "listing" /\ unlisted = {}
  /\ cold'    = FALSE
  /\ known'   = found
  /\ left'    = Ttl
  /\ refresh' = "none"
  /\ found'   = {}
  /\ stage'   = [m \in Calls |-> IF m \in Resolving THEN "sending" ELSE stage[m]]
  /\ asked'   = [m \in Calls |-> IF m \in Resolving THEN found ELSE asked[m]]
  /\ pending' = [m \in Calls |-> IF m \in Resolving THEN found ELSE pending[m]]
  /\ UNCHANGED <<brokerVars, unlisted, refused, sent, faults>>

\* Fault: the failed listing stays the one in flight.
ListFailsKept ==
  /\ refresh = "listing"
  /\ Fault
  /\ refresh' = "failed"
  /\ unlisted' = {}
  /\ found'   = {}
  /\ stage'   = [m \in Calls |-> IF m \in Resolving THEN "rejected" ELSE stage[m]]
  /\ UNCHANGED <<brokerVars, cold, known, left, pending, refused, asked, sent>>

\* A page fails: who waited for the listing fails too, a stale entry stays served.
ListFails ==
  /\ refresh = "listing"
  /\ Fault
  /\ refresh' = "none"
  /\ unlisted' = {}
  /\ found'   = {}
  /\ stage'   = [m \in Calls |-> IF m \in Resolving THEN "rejected" ELSE stage[m]]
  /\ UNCHANGED <<brokerVars, cold, known, left, pending, refused, asked, sent>>

-----------------------------------------------------------------------------
\* publish.

\* resolveSubscriberQueues: a cold topic waits for the listing; otherwise the
\* cached urls are used as they are, and an expired entry starts a refresh.
Publish(m) ==
  /\ stage[m] \notin {"resolving", "sending"} /\ Answered(m)
  /\ stage'   = [stage EXCEPT ![m] = IF cold THEN "resolving" ELSE "sending"]
  /\ asked'   = [asked EXCEPT ![m] = known]
  /\ pending' = [pending EXCEPT ![m] = known]
  /\ sent'    = [sent EXCEPT ![m] = {}]
  /\ IF refresh = "none" /\ (cold \/ left = 0)
       THEN refresh' = "listing" /\ unlisted' = Services
       ELSE UNCHANGED <<refresh, unlisted>>
  /\ UNCHANGED <<brokerVars, cold, known, left, found, refused, faults>>

\* One url of the fan-out takes its copy.
SendAccepted(m, s) ==
  /\ s \in pending[m] \cap queues
  /\ pending' = [pending EXCEPT ![m] = @ \ {s}]
  /\ sent'    = [sent EXCEPT ![m] = @ \cup {s}]
  /\ UNCHANGED <<brokerVars, cacheVars, stage, refused, asked, faults>>

\* Its queue no longer exists.
SendRefused(m, s) ==
  /\ s \in pending[m] \ queues
  /\ pending' = [pending EXCEPT ![m] = @ \ {s}]
  /\ refused' = [refused EXCEPT ![m] = @ \cup {s}]
  /\ UNCHANGED <<brokerVars, cacheVars, stage, asked, sent, faults>>

\* The answer arrives, maybe after the queue was created again and listed: the url is
\* dropped from the fan-out and, by forgetSubscriberQueue, from the cache, which the
\* next publish will refresh.
ForgetQueue(m, s) ==
  /\ s \in refused[m]
  /\ refused' = [refused EXCEPT ![m] = @ \ {s}]
  /\ known'   = known \ {s}
  /\ left'    = 0
  /\ UNCHANGED <<brokerVars, cold, refresh, unlisted, found, stage, pending, asked, sent,
                 faults>>

\* Fault: every error is taken for a queue that is gone.
SendFailsQuietly(m, s) ==
  /\ s \in pending[m]
  /\ Fault
  /\ pending' = [pending EXCEPT ![m] = @ \ {s}]
  /\ UNCHANGED <<brokerVars, cacheVars, stage, refused, asked, sent>>

\* Any other error rejects the publish at once; the other sends go on by themselves,
\* and this one may have left its copy.
SendFails(m, s) ==
  /\ s \in pending[m]
  /\ Fault
  /\ pending' = [pending EXCEPT ![m] = @ \ {s}]
  /\ stage'   = [stage EXCEPT ![m] = "rejected"]
  /\ \/ UNCHANGED sent
     \/ s \in queues /\ sent' = [sent EXCEPT ![m] = @ \cup {s}]
  /\ UNCHANGED <<brokerVars, cacheVars, refused, asked>>

FanoutDone(m) == stage[m] = "sending" /\ Answered(m)

\* Fault: publish counts the urls found, not the copies taken.
ResolveByUrls(m) ==
  /\ FanoutDone(m)
  /\ asked[m] # {} \/ m \notin Required
  /\ stage' = [stage EXCEPT ![m] = "resolved"]
  /\ UNCHANGED <<brokerVars, cacheVars, pending, refused, asked, sent, faults>>

\* Some queue took a copy, or nobody minds that none did.
Resolve(m) ==
  /\ FanoutDone(m)
  /\ sent[m] # {} \/ m \notin Required
  /\ stage' = [stage EXCEPT ![m] = "resolved"]
  /\ UNCHANGED <<brokerVars, cacheVars, pending, refused, asked, sent, faults>>

\* Fault: the recheck also puts an earlier refresh off.
RefuseVoidPostpones(m) ==
  /\ FanoutDone(m)
  /\ sent[m] = {} /\ m \in Required
  /\ stage' = [stage EXCEPT ![m] = "rejected"]
  /\ left'  = IF asked[m] = {} THEN Recheck ELSE left
  /\ UNCHANGED <<brokerVars, cold, known, refresh, unlisted, found, pending, refused, asked,
                 sent, faults>>

\* NoSubscribersError; a call that was given no url at all also brings the next
\* refresh forward (recheckSubscribersSoon).
RefuseVoid(m) ==
  /\ FanoutDone(m)
  /\ sent[m] = {} /\ m \in Required
  /\ stage' = [stage EXCEPT ![m] = "rejected"]
  /\ left'  = IF asked[m] = {} THEN Lesser(left, Recheck) ELSE left
  /\ UNCHANGED <<brokerVars, cold, known, refresh, unlisted, found, pending, refused, asked,
                 sent, faults>>

-----------------------------------------------------------------------------
Settle(m) ==
  \/ \E s \in Services : SendAccepted(m, s) \/ SendRefused(m, s) \/ ForgetQueue(m, s)
  \/ Resolve(m)
  \/ RefuseVoid(m)

Next ==
  \/ Tick
  \/ FillCache
  \/ ListFails
  \/ \E s \in Services : QueueAppears(s) \/ QueueIsLost(s) \/ ListPage(s)
  \/ \E m \in Calls : Publish(m) \/ Settle(m) \/ \E s \in Services : SendFails(m, s)

Spec == Init /\ [][Next]_vars

\* Time passes, requests are answered, and the topic keeps being published to.
Fairness ==
  /\ WF_vars(Tick)
  /\ \A s \in Services : WF_vars(ListPage(s))
  /\ WF_vars(FillCache)
  /\ \A m \in Calls : WF_vars(Publish(m)) /\ WF_vars(Settle(m))

FairSpec == Spec /\ Fairness

-----------------------------------------------------------------------------
\* The shape of the state.
TypeOK ==
  /\ queues \in SUBSET Services
  /\ cold \in BOOLEAN
  /\ known \in SUBSET Services
  /\ left \in 0..Ttl
  /\ refresh \in {"none", "listing"}
  /\ unlisted \in SUBSET Services
  /\ found \in SUBSET Services
  /\ stage \in [Calls -> {"idle", "resolving", "sending", "resolved", "rejected"}]
  /\ pending \in [Calls -> SUBSET Services]
  /\ refused \in [Calls -> SUBSET Services]
  /\ asked \in [Calls -> SUBSET Services]
  /\ sent \in [Calls -> SUBSET Services]
  /\ lost \in SUBSET Services
  /\ faults \in 0..MaxFaults

\* A call that must reach someone and resolves has left a copy on a queue, though
\* every queue it set out for may have vanished on the way.
RequiredReachesSomeone ==
  \A m \in Required : stage[m] = "resolved" => sent[m] # {}

\* A call that resolves skipped no subscriber it knew of but those whose queue was
\* lost: an error on one copy is never taken for success.
NobodySkipped ==
  \A m \in Calls : stage[m] = "resolved" => asked[m] \ sent[m] \subseteq lost

\* What the caller of a publish can tell of it.
Outcome(m) ==
  CASE stage[m] = "idle" -> "none"
    [] stage[m] \in {"resolving", "sending"} -> "open"
    [] OTHER -> stage[m]

\* The fan-out implements what PublishContract promises to the caller of publish:
\* requireSubscribers and errors of one queue among several included.
Contract == INSTANCE PublishContract WITH
              outcome <- [m \in Calls |-> Outcome(m)], took <- sent
ImplementsPublish == Contract!Spec

\* However a failed listing, a stale answer and a forgotten url fall together, a
\* service whose queue stays is known for good in the end, if publishing goes on.
EventuallyKnown ==
  \A s \in Services : <>[](s \in queues) => <>[](s \in known)
==============================================================================
