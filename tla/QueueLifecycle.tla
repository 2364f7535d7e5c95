---------------------------- MODULE QueueLifecycle ----------------------------
(***************************************************************************)
(* How the worker processes of one service bring its SQS queues up, keep   *)
(* them and let go of them (services/queue-service/src/bus.ts): start and  *)
(* its detached warm-up, getOrCreateQueue with the DLQ and the redrive     *)
(* policy, the re-creation of a queue lost under a poll loop, and stop.    *)
(* Queue names are fixed by topic and service, so a url is known from the  *)
(* topic and the processes create the same queues beside one another.      *)
(***************************************************************************)
EXTENDS Integers

CONSTANTS Workers,  \* worker processes of the service
          Topics,   \* topics with a handler
          MaxFaults \* bound: crashes, failed calls and lost brokers in a behaviour

ASSUME LifecycleAssumption == MaxFaults \in Nat

VARIABLES
  \* the broker, per topic
  queue,    \* topics whose queue exists
  dlq,      \* topics whose DLQ exists
  policy,   \* topics whose queue carries the RedrivePolicy
  \* each worker
  mode,     \* "down", "warming" (startupTask runs), "live"
  polling,  \* the flag of start() and stop()
  stopped,  \* stop() has returned
  cold,     \* topics the warm-up has still to create
  at,       \* per topic: "idle", "poll", "wait" (2 s), "exited", or the next call of
            \* getOrCreateQueue: "find", "create", "dlq", "attach"
  urls,     \* queueUrls
  dlqUrls,  \* dlqUrls
  known,    \* topics whose poll loop has its url
  \* history, read by no action
  torn,     \* topics whose queue was left without policy by a crash or a failed call
  faults

brokerVars == <<queue, dlq, policy>>
workerVars == <<mode, polling, stopped, cold, at, urls, dlqUrls, known>>
vars       == <<brokerVars, workerVars, torn, faults>>

-----------------------------------------------------------------------------
Creating == {"find", "create", "dlq", "attach"}

Fault == /\ faults < MaxFaults
         /\ faults' = faults + 1

Init ==
  /\ queue   = {}
  /\ dlq     = {}
  /\ policy  = {}
  /\ mode    = [w \in Workers |-> "down"]
  /\ polling = [w \in Workers |-> FALSE]
  /\ stopped = [w \in Workers |-> FALSE]
  /\ cold    = [w \in Workers |-> {}]
  /\ at      = [w \in Workers |-> [t \in Topics |-> "idle"]]
  /\ urls    = [w \in Workers |-> {}]
  /\ dlqUrls = [w \in Workers |-> {}]
  /\ known   = [w \in Workers |-> {}]
  /\ torn    = {}
  /\ faults  = 0

\* The call in progress for topic t goes on with step s.
Goto(w, t, s) == at' = [at EXCEPT ![w][t] = s]

\* getOrCreateQueue returns or throws: the warm-up turns to its next topic; a poll
\* loop polls, or waits two seconds.
Return(w, t, s) ==
  /\ Goto(w, t, IF mode[w] = "warming" THEN "idle" ELSE s)
  /\ cold' = [cold EXCEPT ![w] = @ \ {t}]

Resolved(w, t) ==
  /\ Return(w, t, "poll")
  /\ urls'  = [urls EXCEPT ![w] = @ \cup {t}]
  /\ known' = IF mode[w] = "live" THEN [known EXCEPT ![w] = @ \cup {t}] ELSE known

Failed(w, t) ==
  /\ Return(w, t, "wait")
  /\ UNCHANGED <<urls, known>>

-----------------------------------------------------------------------------
\* start(): it returns at once, the warm-up runs detached.
Start(w) ==
  /\ mode[w] = "down"
  /\ mode'    = [mode EXCEPT ![w] = "warming"]
  /\ polling' = [polling EXCEPT ![w] = TRUE]
  /\ cold'    = [cold EXCEPT ![w] = Topics]
  /\ UNCHANGED <<brokerVars, stopped, at, urls, dlqUrls, known, torn, faults>>

\* The warm-up is serial: the next topic when no call is in progress.
WarmUp(w, t) ==
  /\ mode[w] = "warming" /\ t \in cold[w]
  /\ \A u \in Topics : at[w][u] = "idle"
  /\ Goto(w, t, "find")
  /\ UNCHANGED <<brokerVars, mode, polling, stopped, cold, urls, dlqUrls, known, torn, faults>>

\* The warm-up ends: unless stop() came first, one poll loop per topic.
GoLive(w) ==
  /\ mode[w] = "warming" /\ cold[w] = {}
  /\ mode' = [mode EXCEPT ![w] = "live"]
  /\ at'   = [at EXCEPT ![w] = [t \in Topics |->
                IF polling[w] THEN "find" ELSE "exited"]]
  /\ UNCHANGED <<brokerVars, polling, stopped, cold, urls, dlqUrls, known, torn, faults>>

\* The url is cached, or GetQueueUrl finds the queue, which is taken as it is.
\* Whatever error it gives instead, the creation path follows.
Find(w, t) ==
  /\ at[w][t] = "find"
  /\ \/ /\ t \in urls[w] \cup queue
        /\ Resolved(w, t)
        /\ UNCHANGED faults
     \/ /\ t \notin urls[w]
        /\ IF t \in queue THEN Fault ELSE UNCHANGED faults
        /\ Goto(w, t, "create")
        /\ UNCHANGED <<cold, urls, known>>
  /\ UNCHANGED <<brokerVars, mode, polling, stopped, dlqUrls, torn>>

\* CreateQueue, which leaves an existing queue and its attributes alone.
Create(w, t) ==
  /\ at[w][t] = "create"
  /\ \/ /\ queue' = queue \cup {t}
        /\ Goto(w, t, "dlq")
        /\ UNCHANGED <<cold, urls, known, torn, faults>>
     \/ /\ Fault
        /\ queue' \in {queue, queue \cup {t}}
        /\ torn'  = IF t \in queue' THEN torn \cup {t} ELSE torn
        /\ Failed(w, t)
  /\ UNCHANGED <<dlq, policy, mode, polling, stopped, dlqUrls>>

\* An error while the policy is prepared or set is logged: the queue is used without.
GoOnWithout(w, t) ==
  /\ Fault
  /\ torn' = torn \cup {t}
  /\ Resolved(w, t)

\* getOrCreateDlq: the cached url, else the DLQ found or created.
Dlq(w, t) ==
  /\ at[w][t] = "dlq"
  /\ \/ /\ dlq'     = IF t \in dlqUrls[w] THEN dlq ELSE dlq \cup {t}
        /\ dlqUrls' = [dlqUrls EXCEPT ![w] = @ \cup {t}]
        /\ Goto(w, t, "attach")
        /\ UNCHANGED <<cold, urls, known, torn, faults>>
     \/ /\ GoOnWithout(w, t)
        /\ UNCHANGED <<dlq, dlqUrls>>
  /\ UNCHANGED <<queue, policy, mode, polling, stopped>>

\* Fault: the policy is taken to be there because it was asked for.
AttachAnyway(w, t) ==
  /\ at[w][t] = "attach"
  /\ policy' = policy \cup {t}
  /\ Resolved(w, t)
  /\ UNCHANGED <<queue, dlq, mode, polling, stopped, dlqUrls, torn, faults>>

\* GetQueueAttributes of the DLQ, then SetQueueAttributes; with either queue gone the
\* calls fail, which is logged too.
Attach(w, t) ==
  /\ at[w][t] = "attach"
  /\ \/ /\ policy' = IF t \in queue \cap dlq THEN policy \cup {t} ELSE policy
        /\ Resolved(w, t)
        /\ UNCHANGED <<torn, faults>>
     \/ /\ GoOnWithout(w, t)
        /\ UNCHANGED policy
  /\ UNCHANGED <<queue, dlq, mode, polling, stopped, dlqUrls>>

-----------------------------------------------------------------------------
\* The poll loop.

\* Fault: the handler of a lost queue forgets its url but not that of its DLQ.
ForgetQueueOnly(w, t) ==
  /\ urls' = [urls EXCEPT ![w] = @ \ {t}]
  /\ UNCHANGED dlqUrls

\* queueUrls.delete, dlqUrls.delete.
Forget(w, t) ==
  /\ urls'    = [urls EXCEPT ![w] = @ \ {t}]
  /\ dlqUrls' = [dlqUrls EXCEPT ![w] = @ \ {t}]

\* Fault: a receive from a lost queue is an error like any other.
WaitOnly(w, t) ==
  /\ at[w][t] = "poll" /\ polling[w]
  /\ t \notin queue
  /\ Goto(w, t, "wait")
  /\ UNCHANGED <<brokerVars, mode, polling, stopped, cold, urls, dlqUrls, known, torn, faults>>

\* ReceiveMessage finds the queue gone (isQueueMissingError): create it again.
Missing(w, t) ==
  /\ at[w][t] = "poll" /\ polling[w]
  /\ t \notin queue
  /\ Forget(w, t)
  /\ Goto(w, t, "find")
  /\ UNCHANGED <<brokerVars, mode, polling, stopped, cold, known, torn, faults>>

\* Any other failing receive waits.
ReceiveFails(w, t) ==
  /\ at[w][t] = "poll" /\ polling[w]
  /\ Fault
  /\ Goto(w, t, "wait")
  /\ UNCHANGED <<brokerVars, mode, polling, stopped, cold, urls, dlqUrls, known, torn>>

\* routeToDlq of a message: getOrCreateDlq, then a send that may find the DLQ gone.
DeadLetter(w, t) ==
  /\ at[w][t] = "poll" /\ t \in queue
  /\ t \notin dlqUrls[w]
  /\ dlq'     = dlq \cup {t}
  /\ dlqUrls' = [dlqUrls EXCEPT ![w] = @ \cup {t}]
  /\ UNCHANGED <<queue, policy, mode, polling, stopped, cold, at, urls, known, torn, faults>>

\* The two seconds are over: a loop that has a url polls it, one that has never had
\* one asks again.
WaitOver(w, t) ==
  /\ at[w][t] = "wait" /\ polling[w]
  /\ Goto(w, t, IF t \in known[w] THEN "poll" ELSE "find")
  /\ UNCHANGED <<brokerVars, mode, polling, stopped, cold, urls, dlqUrls, known, torn, faults>>

\* The loop sees that polling is over.
Exit(w, t) ==
  /\ at[w][t] \in {"poll", "wait"} /\ ~polling[w]
  /\ Goto(w, t, "exited")
  /\ UNCHANGED <<brokerVars, mode, polling, stopped, cold, urls, dlqUrls, known, torn, faults>>

-----------------------------------------------------------------------------
\* stop() is called.
Stop(w) ==
  /\ mode[w] # "down" /\ polling[w]
  /\ polling' = [polling EXCEPT ![w] = FALSE]
  /\ UNCHANGED <<brokerVars, mode, stopped, cold, at, urls, dlqUrls, known, torn, faults>>

\* Fault: stop() awaits the poll loops it knows of, not the warm-up.
LoopsDrained(w) == \A t \in Topics : at[w][t] \in {"idle", "exited"}

\* What stop() awaits: startupTask, then every poll loop it started.
Drained(w) == mode[w] = "live" /\ \A t \in Topics : at[w][t] = "exited"

\* stop() returns.
StopReturns(w) ==
  /\ mode[w] # "down" /\ ~polling[w] /\ ~stopped[w]
  /\ Drained(w)
  /\ stopped' = [stopped EXCEPT ![w] = TRUE]
  /\ UNCHANGED <<brokerVars, mode, polling, cold, at, urls, dlqUrls, known, torn, faults>>

\* The process ends, after stop() or by dying in the middle of anything.
ProcessEnds(w) ==
  /\ mode[w] # "down"
  /\ IF stopped[w] THEN UNCHANGED faults ELSE Fault
  /\ mode'    = [mode EXCEPT ![w] = "down"]
  /\ polling' = [polling EXCEPT ![w] = FALSE]
  /\ stopped' = [stopped EXCEPT ![w] = FALSE]
  /\ cold'    = [cold EXCEPT ![w] = {}]
  /\ at'      = [at EXCEPT ![w] = [t \in Topics |-> "idle"]]
  /\ urls'    = [urls EXCEPT ![w] = {}]
  /\ dlqUrls' = [dlqUrls EXCEPT ![w] = {}]
  /\ known'   = [known EXCEPT ![w] = {}]
  /\ torn'    = torn \cup { t \in queue : at[w][t] \in {"dlq", "attach"} }
  /\ UNCHANGED brokerVars

\* A broker restart loses every queue.
BrokerLosesAll ==
  /\ queue \cup dlq # {}
  /\ Fault
  /\ queue'  = {}
  /\ dlq'    = {}
  /\ policy' = {}
  /\ torn'   = {}
  /\ UNCHANGED workerVars

-----------------------------------------------------------------------------
\* One call of the SDK, or one turn of the loop.
Step(w, t) ==
  \/ WarmUp(w, t)
  \/ Find(w, t)
  \/ Create(w, t)
  \/ Dlq(w, t)
  \/ Attach(w, t)
  \/ Missing(w, t)
  \/ WaitOver(w, t)
  \/ Exit(w, t)

Next ==
  \/ BrokerLosesAll
  \/ \E w \in Workers :
       \/ Start(w)
       \/ GoLive(w)
       \/ Stop(w)
       \/ StopReturns(w)
       \/ ProcessEnds(w)
       \/ \E t \in Topics : Step(w, t) \/ ReceiveFails(w, t) \/ DeadLetter(w, t)

Spec == Init /\ [][Next]_vars

\* A process that is down is started again, the SDK answers, waits end.
Fairness ==
  \A w \in Workers :
    /\ WF_vars(Start(w))
    /\ WF_vars(GoLive(w))
    /\ WF_vars(StopReturns(w))
    /\ \A t \in Topics : WF_vars(Step(w, t))

FairSpec == Spec /\ Fairness

-----------------------------------------------------------------------------
\* The shape of the state.
TypeOK ==
  /\ queue \in SUBSET Topics
  /\ dlq \in SUBSET Topics
  /\ policy \in SUBSET queue
  /\ mode \in [Workers -> {"down", "warming", "live"}]
  /\ polling \in [Workers -> BOOLEAN]
  /\ stopped \in [Workers -> BOOLEAN]
  /\ cold \in [Workers -> SUBSET Topics]
  /\ at \in [Workers -> [Topics -> {"idle", "poll", "wait", "exited"} \cup Creating]]
  /\ urls \in [Workers -> SUBSET Topics]
  /\ dlqUrls \in [Workers -> SUBSET Topics]
  /\ known \in [Workers -> SUBSET Topics]
  /\ torn \in SUBSET Topics
  /\ faults \in 0..MaxFaults

\* A queue without its redrive policy is being given one by some worker, unless a
\* crash or a failed call cut its creation short: neither processes that create the
\* same queue beside one another nor a broker that loses everything in the middle
\* of it leave a queue bare (getOrCreateQueue, and the two deletes in pollTopic).
RedriveAttached ==
  \A t \in queue \ (policy \cup torn) : \E w \in Workers : at[w][t] \in {"dlq", "attach"}

\* After stop() has returned, neither the detached warm-up nor a poll loop of the
\* process does anything more (the comment in stop about orphan work).
StopIsFinal ==
  [][\A w \in Workers : stopped[w] /\ stopped'[w] => UNCHANGED <<at[w], urls[w], dlqUrls[w]>>]_vars

\* A queue lost under a poll loop is created again, by this worker or another, as
\* long as the worker is not told to stop (UAT B10-F83).
Recreated ==
  \A w \in Workers, t \in Topics :
    (mode[w] = "live" /\ polling[w] /\ t \notin queue) ~> (t \in queue \/ ~polling[w])
===============================================================================
