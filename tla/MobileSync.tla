------------------------------ MODULE MobileSync ------------------------------
(***************************************************************************)
(* The offline write outbox of the mobile app and the service that pushes  *)
(* it (apps/mobile/lib/core/sync/write_outbox.dart,                        *)
(* sync_push_service.dart): rows survive the app, a push cycle does not,   *)
(* and a request may be served although no answer comes back. Who calls    *)
(* pushPending, retryDead and purge is left open.                          *)
(*                                                                         *)
(* What every module has (Init, Next, ...) carries the name Mobile here:   *)
(* CallerProofs extends this module together with CircuitBreaker.          *)
(***************************************************************************)
EXTENDS Integers

CONSTANTS Writes,    \* write commands
          NoRoute,   \* those enqueued without an endpoint
          Callers,   \* callers of pushPending
          MaxPushes, \* kMaxPushRetries
          MaxMishaps \* bound: refusals, failures, lost answers and deaths of the app

ASSUME MobileAssumption ==
  /\ NoRoute \subseteq Writes
  /\ MaxPushes \in Nat \ {0} /\ MaxMishaps \in Nat

VARIABLES
  \* SQLite
  older,   \* <<w, x>> when row w was created before row x
  status,  \* per write: "none", "pending", "syncing", "synced", "dead", "purged"
  retries, \* retry_count
  \* the app
  pushing, \* _pushing
  todo,    \* per caller: what is left of the snapshot it pushes, entries [id, retries]
  hand,    \* per caller: the entry it is pushing
  at,      \* per caller: "idle", "next", "send", or the answer it got
  \* the services
  applied, \* per write: times it was applied
  \* history, read by no action
  lost,     \* per write: answers lost
  stranded, \* writes that were being pushed when the cycle ended
  mishaps

dbVars     == <<older, status, retries>>
appVars    == <<pushing, todo, hand, at>>
mobileVars == <<dbVars, appVars, applied, lost, stranded, mishaps>>

-----------------------------------------------------------------------------
\* Answers: 2xx; 401 or 429; another 4xx; 5xx, a timeout or no connection.
Answers == {"ok", "refused", "invalid", "failed"}

NoEntry == [id |-> "none", retries |-> 0]

MobileInit ==
  /\ older    = {}
  /\ status   = [w \in Writes |-> "none"]
  /\ retries  = [w \in Writes |-> 0]
  /\ pushing  = FALSE
  /\ todo     = [c \in Callers |-> {}]
  /\ hand     = [c \in Callers |-> NoEntry]
  /\ at       = [c \in Callers |-> "idle"]
  /\ applied  = [w \in Writes |-> 0]
  /\ lost     = [w \in Writes |-> 0]
  /\ stranded = {}
  /\ mishaps  = 0

Mishap == /\ mishaps < MaxMishaps
          /\ mishaps' = mishaps + 1

Set(w, s) == status' = [status EXCEPT ![w] = s]

\* ORDER BY created_at, rowid.
Earliest(e, E) == e \in E /\ \A d \in E : <<d.id, e.id>> \notin older

-----------------------------------------------------------------------------
\* enqueue.
Enqueue(w) ==
  /\ status[w] = "none"
  /\ Set(w, "pending")
  /\ older' = older \cup ({ x \in Writes : status[x] # "none" } \X {w})
  /\ UNCHANGED <<retries, appVars, applied, lost, stranded, mishaps>>

\* getPending
Snapshot == { [id |-> w, retries |-> retries[w]] : w \in { x \in Writes : status[x] = "pending" } }

\* Fault: the flag is not looked at.
PushAnyway(c) ==
  /\ at[c] = "idle"
  /\ pushing' = TRUE
  /\ todo' = [todo EXCEPT ![c] = Snapshot]
  /\ at'   = [at EXCEPT ![c] = "next"]
  /\ UNCHANGED <<dbVars, hand, applied, lost, stranded, mishaps>>

\* pushPending: unless a cycle runs, take the pending rows as they are now. A cycle
\* with nothing to push is left out.
Push(c) ==
  /\ at[c] = "idle" /\ ~pushing
  /\ Snapshot # {}
  /\ pushing' = TRUE
  /\ todo' = [todo EXCEPT ![c] = Snapshot]
  /\ at'   = [at EXCEPT ![c] = "next"]
  /\ UNCHANGED <<dbVars, hand, applied, lost, stranded, mishaps>>

\* markSyncing of the next entry; one without an endpoint is not sent, but turned down.
Take(c) ==
  /\ at[c] = "next"
  /\ \E e \in todo[c] :
       /\ Earliest(e, todo[c])
       /\ todo' = [todo EXCEPT ![c] = @ \ {e}]
       /\ Set(e.id, "syncing")
       /\ hand' = [hand EXCEPT ![c] = e]
       /\ at'   = [at EXCEPT ![c] = IF e.id \in NoRoute THEN "invalid" ELSE "send"]
  /\ UNCHANGED <<older, retries, pushing, applied, lost, stranded, mishaps>>

\* The request: the service applies the write or turns it down; no answer comes
\* back from some that are applied.
Send(c) ==
  LET w == hand[c].id IN
  /\ at[c] = "send"
  /\ \E answer \in Answers, done \in BOOLEAN :
       /\ answer = "ok" => done
       /\ answer \in {"refused", "invalid"} => ~done
       /\ IF answer = "ok" THEN UNCHANGED mishaps ELSE Mishap
       /\ at'      = [at EXCEPT ![c] = answer]
       /\ applied' = [applied EXCEPT ![w] = IF done THEN @ + 1 ELSE @]
       /\ lost'    = [lost EXCEPT ![w] = IF done /\ answer = "failed" THEN @ + 1 ELSE @]
  /\ UNCHANGED <<dbVars, pushing, todo, hand, stranded>>

\* The loop of pushPending turns to the next entry, whatever the answer was.
Turn(c) ==
  /\ hand' = [hand EXCEPT ![c] = NoEntry]
  /\ at'   = [at EXCEPT ![c] = "next"]
  /\ UNCHANGED <<older, pushing, todo, applied, lost, stranded, mishaps>>

\* Fault: the retry is counted, the status left as it is.
CountOnly(w) ==
  /\ retries' = [retries EXCEPT ![w] = @ + 1]
  /\ UNCHANGED status

IncrementRetry(w) ==
  /\ retries' = [retries EXCEPT ![w] = @ + 1]
  /\ Set(w, "pending")

Synced(c) ==
  /\ at[c] = "ok"
  /\ Set(hand[c].id, "synced")
  /\ UNCHANGED retries
  /\ Turn(c)

Invalid(c) ==
  /\ at[c] = "invalid"
  /\ Set(hand[c].id, "dead")
  /\ UNCHANGED retries
  /\ Turn(c)

\* 401, 429: pending again; the retry counts.
Refused(c) ==
  /\ at[c] = "refused"
  /\ IncrementRetry(hand[c].id)
  /\ Turn(c)

\* The cycle of c ends, with or without its entries: the `finally`.
EndCycle(c) ==
  /\ pushing' = FALSE
  /\ todo' = [todo EXCEPT ![c] = {}]
  /\ hand' = [hand EXCEPT ![c] = NoEntry]
  /\ at'   = [at EXCEPT ![c] = "idle"]

\* 401: the callback that refreshes the token throws, and with it the cycle ends.
RefreshThrows(c) ==
  /\ at[c] = "refused"
  /\ Mishap
  /\ IncrementRetry(hand[c].id)
  /\ EndCycle(c)
  /\ UNCHANGED <<older, applied, lost, stranded>>

\* Dead or pending again, by the count the snapshot holds.
Failed(c) ==
  LET e == hand[c] IN
  /\ at[c] = "failed"
  /\ \/ /\ e.retries >= MaxPushes - 1
        /\ Set(e.id, "dead")
        /\ UNCHANGED retries
     \/ /\ e.retries < MaxPushes - 1
        /\ IncrementRetry(e.id)
  /\ Turn(c)

\* The cycle is over.
Done(c) ==
  /\ at[c] = "next" /\ todo[c] = {}
  /\ EndCycle(c)
  /\ UNCHANGED <<dbVars, applied, lost, stranded, mishaps>>

\* What the callers C have in hand stays "syncing".
Strand(C) ==
  stranded' = stranded \cup { hand[c].id : c \in { d \in C : at[d] \notin {"idle", "next"} } }

\* The access token cannot be read: no DioException, so the cycle ends there.
NoToken(c) ==
  /\ at[c] = "send"
  /\ Mishap
  /\ Strand({c})
  /\ EndCycle(c)
  /\ UNCHANGED <<dbVars, applied, lost>>

\* The app dies and is started again.
AppDies ==
  /\ Mishap
  /\ Strand(Callers)
  /\ pushing' = FALSE
  /\ todo' = [c \in Callers |-> {}]
  /\ hand' = [c \in Callers |-> NoEntry]
  /\ at'   = [c \in Callers |-> "idle"]
  /\ UNCHANGED <<dbVars, applied, lost>>

-----------------------------------------------------------------------------
\* retryDead, from the sync failure screen, whatever the row died of: the count stays.
RetryDead(w) ==
  /\ status[w] = "dead"
  /\ Mishap
  /\ Set(w, "pending")
  /\ UNCHANGED <<older, retries, appVars, applied, lost, stranded>>

\* purge of a synced row older than a week.
Purge(w) ==
  /\ status[w] = "synced"
  /\ Set(w, "purged")
  /\ UNCHANGED <<older, retries, appVars, applied, lost, stranded, mishaps>>

-----------------------------------------------------------------------------
Handle(c) == Synced(c) \/ Refused(c) \/ Invalid(c) \/ Failed(c)

MobileNext ==
  \/ \E w \in Writes : Enqueue(w) \/ RetryDead(w) \/ Purge(w)
  \/ \E c \in Callers :
       \/ Push(c) \/ Take(c) \/ Send(c) \/ Handle(c) \/ Done(c)
       \/ NoToken(c) \/ RefreshThrows(c)
  \/ AppDies

MobileSpec == MobileInit /\ [][MobileNext]_mobileVars

\* Somebody calls pushPending again and again, and a cycle that runs goes on.
MobileFairness ==
  /\ WF_mobileVars(\E c \in Callers : Push(c))
  /\ \A c \in Callers : WF_mobileVars(Take(c) \/ Send(c) \/ Handle(c) \/ Done(c))

MobileFairSpec == MobileSpec /\ MobileFairness

-----------------------------------------------------------------------------
Entries == [id : Writes, retries : 0..MaxMishaps]

\* The shape of the state; one push cycle runs at a time.
MobileTypeOK ==
  /\ older \in SUBSET (Writes \X Writes)
  /\ status \in [Writes -> {"none", "pending", "syncing", "synced", "dead", "purged"}]
  /\ retries \in [Writes -> 0..MaxMishaps]
  /\ pushing \in BOOLEAN
  /\ todo \in [Callers -> SUBSET Entries]
  /\ hand \in [Callers -> Entries \cup {NoEntry}]
  /\ at \in [Callers -> {"idle", "next", "send"} \cup Answers]
  /\ pushing <=> \E c \in Callers : at[c] # "idle"
  /\ applied \in [Writes -> Nat]
  /\ lost \in [Writes -> 0..MaxMishaps]
  /\ stranded \in SUBSET Writes
  /\ mishaps \in 0..MaxMishaps

\* A write is applied twice only after an answer was lost: neither overlapping calls of
\* pushPending nor a restart send it again (_pushing; no idempotency key goes with it).
TwiceOnlyWhenLost == \A w \in Writes : applied[w] <= 1 + lost[w]

\* A write that was not in hand when its cycle ended is shown as dead in the end, or
\* as synced, and then its service has applied it (pushPending, _handleRetryableError).
Pushed ==
  \A w \in Writes :
    (status[w] = "pending") ~>
      \/ status[w] = "synced" /\ applied[w] > 0
      \/ status[w] = "dead"
      \/ w \in stranded
===============================================================================
