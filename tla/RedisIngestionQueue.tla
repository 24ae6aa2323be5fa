------------------------ MODULE RedisIngestionQueue ------------------------
(***************************************************************************)
(* The fallback ingestion queue: redisQueue in                             *)
(* internal/knowledge/data/queue.go, used when RabbitMQ cannot be dialled. *)
(*                                                                         *)
(* The queue is one Redis list.  Producers push on its right end and BRPOP *)
(* takes from the same end, so it is a stack.  The pop removes the only    *)
(* copy before the handler runs, and a retry waits in a timer of the       *)
(* worker's process: both are gone when that process dies.  The client     *)
(* sends a command again when its reply does not come (go-redis does so    *)
(* three times unless told otherwise), so one RPUSH may leave several      *)
(* copies.                                                                 *)
(***************************************************************************)
EXTENDS FiniteSets, Naturals, Sequences

CONSTANTS Jobs,
          Workers,
          NoMessage,
          MaxRetries,
          Backoffs,        \* values of RAGODESK_INGESTION_BACKOFF_MS
          MaxDisruptions   \* bound on crashes, lost replies and failed pushes

ASSUME BackoffsAssumption == Backoffs \subseteq Nat

Message == [job : Jobs, retry : 0 .. MaxRetries]
First(j) == [job |-> j, retry |-> 0]

VARIABLES
  backoff,     \* the base delay the process booted with
  list,        \* Seq(Message): ragodesk.ingestion, right end last
  dlq,         \* how often each message is in ragodesk.ingestion.dlq
  msg,         \* the message each worker is handling, or NoMessage
  failed,      \* workers whose handler failed and whose push is under way
  timers,      \* [Workers -> [Message -> Nat]]: pending time.AfterFunc calls
  asking,      \* jobs whose Enqueue is under way
  disruptions,
  offered,     \* jobs somebody tried to enqueue
  accepted,    \* jobs whose Enqueue returned nil
  handled,     \* history: how often the handler returned nil for each job
  resent       \* history: how often the client sent a push of it again

ledger == <<offered, accepted, handled>>
vars   == <<backoff, list, dlq, msg, failed, timers, asking, disruptions, ledger, resent>>

NoneOfThem == [m \in Message |-> 0]
One(bag, m)  == [bag EXCEPT ![m] = @ + 1]
Less(bag, m) == [bag EXCEPT ![m] = @ - 1]

Init ==
  /\ backoff \in Backoffs
  /\ list = <<>> /\ dlq = NoneOfThem
  /\ msg = [w \in Workers |-> NoMessage] /\ failed = {}
  /\ timers = [w \in Workers |-> NoneOfThem]
  /\ asking = {} /\ disruptions = 0
  /\ offered = {} /\ accepted = {}
  /\ handled = [j \in Jobs |-> 0] /\ resent = [j \in Jobs |-> 0]

Disturb == disruptions < MaxDisruptions /\ disruptions' = disruptions + 1

-----------------------------------------------------------------------------
RPush(m) == list' = Append(list, m)

(* Redis took the push and its reply was lost: the client, still in the     *)
(* same call, sends it again.                                               *)
SentAgain(j) == Disturb /\ resent' = [resent EXCEPT ![j] = @ + 1]

(* The call returns an error, its last try taken by Redis or not.           *)
GivenUp(m) ==
  /\ Disturb
  /\ RPush(m) \/ UNCHANGED list
  /\ UNCHANGED resent

Enqueue(j) ==
  /\ j \notin offered
  /\ offered' = offered \cup {j} /\ asking' = asking \cup {j}
  /\ UNCHANGED <<backoff, list, dlq, msg, failed, timers, disruptions, accepted, handled, resent>>

EnqueuePush(j) ==
  /\ j \in asking
  /\ \/ RPush(First(j)) /\ asking' = asking \ {j} /\ accepted' = accepted \cup {j}
          /\ UNCHANGED <<disruptions, resent>>
     \/ RPush(First(j)) /\ SentAgain(j) /\ UNCHANGED <<asking, accepted>>
     \/ GivenUp(First(j)) /\ asking' = asking \ {j} /\ UNCHANGED accepted
  /\ UNCHANGED <<backoff, dlq, msg, failed, timers, offered, handled>>

-----------------------------------------------------------------------------
(* Plausible slips: the last message stays in the list; the message is read *)
(* and never removed.                                                       *)
BRPopLeavingLast(w) ==
  /\ msg[w] = NoMessage /\ Len(list) > 1
  /\ msg' = [msg EXCEPT ![w] = list[Len(list)]]
  /\ list' = SubSeq(list, 1, Len(list) - 1)
  /\ UNCHANGED <<backoff, dlq, failed, timers, asking, disruptions, ledger, resent>>

BRPeek(w) ==
  /\ msg[w] = NoMessage /\ list # <<>>
  /\ msg' = [msg EXCEPT ![w] = list[Len(list)]]
  /\ UNCHANGED <<backoff, list, dlq, failed, timers, asking, disruptions, ledger, resent>>

BRPop(w) ==
  /\ msg[w] = NoMessage /\ list # <<>>
  /\ msg' = [msg EXCEPT ![w] = list[Len(list)]]
  /\ list' = SubSeq(list, 1, Len(list) - 1)
  /\ UNCHANGED <<backoff, dlq, failed, timers, asking, disruptions, ledger, resent>>

(* The list was popped and the reply was lost: the client pops again, or    *)
(* consume logs the error and calls it again.                               *)
ReplyLost(w) ==
  /\ msg[w] = NoMessage /\ list # <<>>
  /\ Disturb
  /\ list' = SubSeq(list, 1, Len(list) - 1)
  /\ UNCHANGED <<backoff, dlq, msg, failed, timers, asking, ledger, resent>>

Running(w) == msg[w] # NoMessage /\ w \notin failed
LetGo(w)   == msg' = [msg EXCEPT ![w] = NoMessage] /\ failed' = failed \ {w}

HandlerOk(w) ==
  /\ Running(w) /\ LetGo(w)
  /\ handled' = [handled EXCEPT ![msg[w].job] = @ + 1]
  /\ UNCHANGED <<backoff, list, dlq, timers, asking, disruptions, offered, accepted, resent>>

CanRetry(m)  == m.retry < MaxRetries
RetryCopy(m) == [job |-> m.job, retry |-> m.retry + 1]

(* requeueWithDelay with a positive delay: the copy waits in process memory.*)
RetryLater(w) ==
  /\ Running(w) /\ CanRetry(msg[w]) /\ backoff > 0
  /\ timers' = [timers EXCEPT ![w] = One(@, RetryCopy(msg[w]))]
  /\ LetGo(w)
  /\ UNCHANGED <<backoff, list, dlq, asking, disruptions, ledger, resent>>

(* Without a delay, and for a dead letter, consume itself pushes.           *)
HandlerErr(w) ==
  /\ Running(w) /\ (CanRetry(msg[w]) => backoff = 0)
  /\ failed' = failed \cup {w}
  /\ UNCHANGED <<backoff, list, dlq, msg, timers, asking, disruptions, ledger, resent>>

RetryNow(w) ==
  /\ w \in failed /\ CanRetry(msg[w])
  /\ LET m == RetryCopy(msg[w]) IN
     \/ RPush(m) /\ LetGo(w) /\ UNCHANGED <<disruptions, resent>>
     \/ RPush(m) /\ SentAgain(m.job) /\ UNCHANGED <<msg, failed>>
     \/ GivenUp(m) /\ LetGo(w)
  /\ UNCHANGED <<backoff, dlq, timers, asking, ledger>>

(* A failed push of a dead letter is only logged, like that of a retry.     *)
PushDLQ(w) ==
  /\ w \in failed /\ ~ CanRetry(msg[w])
  /\ \/ dlq' = One(dlq, msg[w]) /\ LetGo(w) /\ UNCHANGED <<disruptions, resent>>
     \/ dlq' = One(dlq, msg[w]) /\ SentAgain(msg[w].job) /\ UNCHANGED <<msg, failed>>
     \/ Disturb /\ dlq' \in {dlq, One(dlq, msg[w])} /\ LetGo(w) /\ UNCHANGED resent
  /\ UNCHANGED <<backoff, list, timers, asking, ledger>>

TimerFires(w, m) ==
  /\ timers[w][m] > 0
  /\ LET gone == timers' = [timers EXCEPT ![w] = Less(@, m)] IN
     \/ RPush(m) /\ gone /\ UNCHANGED <<disruptions, resent>>
     \/ RPush(m) /\ SentAgain(m.job) /\ UNCHANGED timers
     \/ GivenUp(m) /\ gone
  /\ UNCHANGED <<backoff, dlq, msg, failed, asking, ledger>>

(* The process dies, and the message in hand and the timers with it.  One   *)
(* that somebody starts in its place takes over the name.                   *)
Crash(w) ==
  /\ msg[w] # NoMessage \/ timers[w] # NoneOfThem
  /\ Disturb /\ LetGo(w)
  /\ timers' = [timers EXCEPT ![w] = NoneOfThem]
  /\ UNCHANGED <<backoff, list, dlq, asking, ledger, resent>>

-----------------------------------------------------------------------------
Consume(w) ==
  \/ BRPop(w) \/ HandlerOk(w) \/ HandlerErr(w)
  \/ RetryLater(w) \/ RetryNow(w) \/ PushDLQ(w)

Next ==
  \/ \E j \in Jobs : Enqueue(j) \/ EnqueuePush(j)
  \/ \E w \in Workers :
       \/ Consume(w) \/ ReplyLost(w) \/ Crash(w)
       \/ \E m \in Message : TimerFires(w, m)

Fairness ==
  \A w \in Workers :
    /\ WF_vars(Consume(w))
    /\ \A m \in Message : WF_vars(TimerFires(w, m))

Spec == Init /\ [][Next]_vars
FairSpec == Spec /\ Fairness

-----------------------------------------------------------------------------
TypeOK ==
  /\ backoff \in Backoffs
  /\ list \in Seq(Message) /\ dlq \in [Message -> Nat]
  /\ msg \in [Workers -> Message \cup {NoMessage}]
  /\ failed \subseteq {w \in Workers : msg[w] # NoMessage}
  /\ timers \in [Workers -> [Message -> Nat]]
  /\ disruptions \in 0 .. MaxDisruptions
  /\ accepted \subseteq offered /\ asking \subseteq offered /\ offered \subseteq Jobs
  /\ handled \in [Jobs -> Nat] /\ resent \in [Jobs -> Nat]

Of(j)     == {m \in Message : m.job = j}
Parked(j) == \E m \in Of(j) : dlq[m] > 0

(* Every place that holds a copy of job j, a call that is to push one       *)
(* included.                                                                *)
Copies(j) ==
  {<<"asked", k>> : k \in asking \cap {j}}
    \cup {<<"list", i>> : i \in {k \in 1 .. Len(list) : list[k].job = j}}
    \cup {<<"hand", w>> : w \in {v \in Workers : msg[v] # NoMessage /\ msg[v].job = j}}
    \cup (UNION {{<<"timer", w, m, i>> : i \in 1 .. timers[w][m]} : w \in Workers, m \in Of(j)})
    \cup (UNION {{<<"dlq", m, i>> : i \in 1 .. dlq[m]} : m \in Of(j)})

(* A job is accounted for: its copies and its successful runs together are  *)
(* one more, at most, than the pushes of it that the client sent again      *)
(* (queue.go, redisQueue).  Neither a pop, a retry, a timer, a dead letter  *)
(* nor a crash adds one, so with no reply lost no job is handled twice.     *)
CopiesArePaidFor ==
  \A j \in Jobs : Cardinality(Copies(j)) + handled[j] <= 1 + resent[j]

(* Undisturbed, every accepted job is handled or parked in the end.         *)
SettlesInPeace ==
  \A j \in Jobs : j \in accepted ~> handled[j] > 0 \/ Parked(j) \/ disruptions > 0
=============================================================================
