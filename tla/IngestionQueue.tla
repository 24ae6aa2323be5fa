--------------------------- MODULE IngestionQueue ---------------------------
(***************************************************************************)
(* The RabbitMQ ingestion queue: rabbitQueue in                            *)
(* internal/knowledge/data/queue.go, and the broker it talks to.           *)
(*                                                                         *)
(* The broker keeps three durable queues (main, retry, dead letter).  A    *)
(* queue is a bag of messages: with several consumers and redeliveries the *)
(* order of handling is not the order of publication.  A worker is one     *)
(* goroutine running consume; it holds at most one unacknowledged message  *)
(* (Qos 1).  The handler (processIngestion) is any computation that ends   *)
(* in success or in an error; KnowledgeIngestion replaces it by the real   *)
(* one.                                                                    *)
(*                                                                         *)
(* The environment may break the service MaxDisruptions times: a worker's  *)
(* process dies, the connection drops, or a publish returns an error.      *)
(* MaxUnconfirmed bounds a separate loss: the channel is not in confirm    *)
(* mode, so a publish the client library accepted may never arrive.        *)
(***************************************************************************)
EXTENDS Naturals, FiniteSets

CONSTANTS Jobs,            \* the ingestion jobs (biz.IngestionJob)
          Workers,         \* consumer goroutines
          NoMessage,       \* what an idle worker holds
          MaxRetries,      \* RAGODESK_INGESTION_MAX_RETRIES, default 3
          BackoffBase,     \* RAGODESK_INGESTION_BACKOFF_MS, default 500
          MaxDisruptions,  \* bound on crashes, lost connections, failed publishes
          MaxUnconfirmed   \* bound on publishes that are lost unnoticed

Message == [job : Jobs, retry : 0 .. MaxRetries]

ASSUME RetriesAssumption    == MaxRetries \in Nat
ASSUME BackoffAssumption    == BackoffBase \in Nat
ASSUME BoundsAssumption     == MaxDisruptions \in Nat /\ MaxUnconfirmed \in Nat
ASSUME NoMessageAssumption  == NoMessage \notin Message

VARIABLES
  main,        \* [Message -> Nat]: copies in ragodesk.ingestion
  retryq,      \* [Message -> Nat]: copies waiting in ragodesk.ingestion.retry
  dlq,         \* [Message -> Nat]: copies parked in ragodesk.ingestion.dlq
  phase,       \* where each worker is in the body of its loop
  msg,         \* the message each worker is processing
  link,        \* "up" while the worker's channel is open
  disruptions, \* disruptions so far
  accepted,    \* jobs whose Enqueue returned nil
  handled,     \* jobs for which some run of the handler returned nil
  failures,    \* [Jobs -> Nat]: handler runs that returned an error
  unconfirmed  \* jobs whose publish was accepted locally and then lost

broker   == <<main, retryq, dlq>>
consumer == <<phase, msg, link>>
ledger   == <<accepted, handled, failures, unconfirmed>>
vars     == <<main, retryq, dlq, phase, msg, link, disruptions,
              accepted, handled, failures, unconfirmed>>

Phases == {"idle", "running", "handled", "erred", "published"}

Put(q, m)  == [q EXCEPT ![m] = @ + 1]
Take(q, m) == [q EXCEPT ![m] = @ - 1]

Init ==
  /\ main   = [m \in Message |-> 0]
  /\ retryq = [m \in Message |-> 0]
  /\ dlq    = [m \in Message |-> 0]
  /\ phase  = [w \in Workers |-> "idle"]
  /\ msg    = [w \in Workers |-> NoMessage]
  /\ link   = [w \in Workers |-> "up"]
  /\ disruptions = 0
  /\ accepted = {} /\ handled = {} /\ unconfirmed = {}
  /\ failures = [j \in Jobs |-> 0]

-----------------------------------------------------------------------------
(* Enqueue: one publish to the main queue with an empty header table. *)

FirstCopy(j) == [job |-> j, retry |-> 0]

Enqueue(j) ==
  /\ j \notin accepted
  /\ main' = Put(main, FirstCopy(j))
  /\ accepted' = accepted \cup {j}
  /\ UNCHANGED <<retryq, dlq, consumer, disruptions, handled, failures, unconfirmed>>

(* publish returned an error: the caller is told, nothing was queued. *)
EnqueueFails(j) ==
  /\ j \notin accepted
  /\ disruptions < MaxDisruptions
  /\ disruptions' = disruptions + 1
  /\ UNCHANGED <<broker, consumer, ledger>>

(* publish returned nil because the frame was written to the socket; the *)
(* connection broke before the broker had it, and no confirm is awaited. *)
EnqueueLost(j) ==
  /\ j \notin accepted
  /\ Cardinality(unconfirmed) < MaxUnconfirmed
  /\ accepted' = accepted \cup {j}
  /\ unconfirmed' = unconfirmed \cup {j}
  /\ UNCHANGED <<broker, consumer, disruptions, handled, failures>>

-----------------------------------------------------------------------------
(* The consumer loop. *)

Deliver(w, m) ==
  /\ phase[w] = "idle" /\ link[w] = "up"
  /\ main[m] > 0
  /\ main' = Take(main, m)
  /\ phase' = [phase EXCEPT ![w] = "running"]
  /\ msg' = [msg EXCEPT ![w] = m]
  /\ UNCHANGED <<retryq, dlq, link, disruptions, ledger>>

HandlerOk(w) ==
  /\ phase[w] = "running"
  /\ phase' = [phase EXCEPT ![w] = "handled"]
  /\ handled' = handled \cup {msg[w].job}
  /\ UNCHANGED <<broker, msg, link, disruptions, accepted, failures, unconfirmed>>

HandlerErr(w) ==
  /\ phase[w] = "running"
  /\ phase' = [phase EXCEPT ![w] = "erred"]
  /\ failures' = [failures EXCEPT ![msg[w].job] = @ + 1]
  /\ UNCHANGED <<broker, msg, link, disruptions, accepted, handled, unconfirmed>>

(* A plausible slip: one retry too few. *)
CanRetryOnceLess(m) == m.retry + 1 < MaxRetries

(* retry < maxRetries: a copy with the header incremented goes to the retry queue. *)
CanRetry(m)  == m.retry < MaxRetries
RetryCopy(m) == [job |-> m.job, retry |-> m.retry + 1]

PublishRetry(w) ==
  /\ phase[w] = "erred" /\ link[w] = "up"
  /\ CanRetry(msg[w])
  /\ retryq' = Put(retryq, RetryCopy(msg[w]))
  /\ phase' = [phase EXCEPT ![w] = "published"]
  /\ UNCHANGED <<main, dlq, msg, link, disruptions, ledger>>

PublishDLQ(w) ==
  /\ phase[w] = "erred" /\ link[w] = "up"
  /\ ~ CanRetry(msg[w])
  /\ dlq' = Put(dlq, msg[w])
  /\ phase' = [phase EXCEPT ![w] = "published"]
  /\ UNCHANGED <<main, retryq, msg, link, disruptions, ledger>>

(* A plausible slip: the message is kept after it was disposed of. *)
BackToIdleHolding(w) ==
  /\ phase' = [phase EXCEPT ![w] = "idle"]
  /\ UNCHANGED msg

BackToIdle(w) ==
  /\ phase' = [phase EXCEPT ![w] = "idle"]
  /\ msg' = [msg EXCEPT ![w] = NoMessage]

(* The publish to the retry or dead-letter queue failed: Nack with requeue. *)
PublishFails(w) ==
  /\ phase[w] = "erred" /\ link[w] = "up"
  /\ disruptions < MaxDisruptions
  /\ disruptions' = disruptions + 1
  /\ main' = Put(main, msg[w])
  /\ BackToIdle(w)
  /\ UNCHANGED <<retryq, dlq, link, ledger>>

Ack(w) ==
  /\ phase[w] \in {"handled", "published"} /\ link[w] = "up"
  /\ BackToIdle(w)
  /\ UNCHANGED <<broker, link, disruptions, ledger>>

(* On a closed channel the publish, the Ack and the Nack all fail unnoticed; *)
(* the loop then reads a closed delivery channel and returns.                *)
GiveUp(w) ==
  /\ phase[w] \in {"handled", "erred", "published"} /\ link[w] = "down"
  /\ BackToIdle(w)
  /\ UNCHANGED <<broker, link, disruptions, ledger>>

-----------------------------------------------------------------------------
(* The broker and the environment. *)

(* A plausible slip: the retry queue dead-letters into itself. *)
ExpireInPlace(m) ==
  /\ BackoffBase > 0
  /\ retryq[m] > 0
  /\ UNCHANGED vars

(* The per-message TTL expires and the retry queue dead-letters into main.   *)
(* publish sets an expiration only for a positive delay and the queue itself *)
(* has no TTL: with a zero base nothing ever leaves the retry queue.         *)
Expire(m) ==
  /\ BackoffBase > 0
  /\ retryq[m] > 0
  /\ retryq' = Take(retryq, m)
  /\ main' = Put(main, m)
  /\ UNCHANGED <<dlq, consumer, disruptions, ledger>>

(* A plausible slip: deliveries are acknowledged on receipt (autoAck). *)
RequeuedNever(w) == main

(* The broker requeues what a closed channel had not acknowledged. *)
Requeued(w) == IF phase[w] = "idle" THEN main ELSE Put(main, msg[w])

(* The process dies (or is redeployed) and one is started in its place, by  *)
(* whoever runs it: the repository has nothing that would.                  *)
Crash(w) ==
  /\ phase[w] # "idle"
  /\ disruptions < MaxDisruptions
  /\ disruptions' = disruptions + 1
  /\ main' = IF link[w] = "up" THEN Requeued(w) ELSE main
  /\ BackToIdle(w)
  /\ link' = [link EXCEPT ![w] = "up"]
  /\ UNCHANGED <<retryq, dlq, ledger>>

(* The connection drops under a running handler: the message is redelivered *)
(* while the handler is still at work on it.                                *)
ConnectionLost(w) ==
  /\ link[w] = "up"
  /\ disruptions < MaxDisruptions
  /\ disruptions' = disruptions + 1
  /\ main' = Requeued(w)
  /\ link' = [link EXCEPT ![w] = "down"]
  /\ UNCHANGED <<retryq, dlq, phase, msg, ledger>>

(* Nothing in the code dials again: a worker without a channel stays away    *)
(* until an operator restarts its process.                                  *)
Restart(w) ==
  /\ link[w] = "down" /\ phase[w] = "idle"
  /\ link' = [link EXCEPT ![w] = "up"]
  /\ UNCHANGED <<broker, phase, msg, disruptions, ledger>>

-----------------------------------------------------------------------------
(* What the code and the broker do of their own accord. *)
Consume(w) ==
  \/ \E m \in Message : Deliver(w, m)
  \/ HandlerOk(w) \/ HandlerErr(w)
  \/ PublishRetry(w) \/ PublishDLQ(w) \/ Ack(w) \/ GiveUp(w)

Offer(j) == Enqueue(j) \/ EnqueueFails(j) \/ EnqueueLost(j)

Disrupt(w) == PublishFails(w) \/ Crash(w) \/ ConnectionLost(w) \/ Restart(w)

Next ==
  \/ \E j \in Jobs : Offer(j)
  \/ \E w \in Workers : Consume(w) \/ Disrupt(w)
  \/ \E m \in Message : Expire(m)

(* A worker never stops half-way through its loop and the broker expires    *)
(* what is due.  Enqueuing, disruptions and the restart of a disconnected   *)
(* process are nobody's duty.                                               *)
Fairness ==
  /\ \A w \in Workers : WF_vars(Consume(w))
  /\ \A m \in Message : WF_vars(Expire(m))

Spec == Init /\ [][Next]_vars
FairSpec == Spec /\ Fairness

-----------------------------------------------------------------------------
TypeOK ==
  /\ main \in [Message -> Nat] /\ retryq \in [Message -> Nat] /\ dlq \in [Message -> Nat]
  /\ phase \in [Workers -> Phases]
  /\ msg \in [Workers -> Message \cup {NoMessage}]
  /\ \A w \in Workers : (phase[w] = "idle") <=> (msg[w] = NoMessage)
  /\ link \in [Workers -> {"up", "down"}]
  /\ disruptions \in 0 .. MaxDisruptions
  /\ accepted \subseteq Jobs /\ handled \subseteq Jobs /\ unconfirmed \subseteq Jobs
  /\ failures \in [Jobs -> Nat]

(* Somebody is still answerable for the job: a copy waits in main or in the *)
(* retry queue, or a connected worker holds one it has not disposed of.     *)
Waiting(j) == \E m \in Message : m.job = j /\ (main[m] > 0 \/ retryq[m] > 0)
InHand(j)  == \E w \in Workers :
                /\ phase[w] \in {"running", "erred"} /\ link[w] = "up"
                /\ msg[w].job = j
Parked(j)  == \E m \in Message : m.job = j /\ dlq[m] > 0

(* No job is ever forgotten: whatever crashes, disconnections, failed       *)
(* publishes and retries happened, an accepted job that the broker received *)
(* has been handled, is parked, or is still somebody's duty.                *)
NoJobLost ==
  \A j \in accepted \ unconfirmed :
    j \in handled \/ Parked(j) \/ Waiting(j) \/ InHand(j)

(* A job is dead-lettered only when its retries are spent: it carries the   *)
(* last retry number and the handler really failed more than MaxRetries     *)
(* times (a crash or a failed publish never costs a retry).                 *)
DeadLetterEarned ==
  \A m \in Message : dlq[m] > 0 => m.retry = MaxRetries /\ failures[m.job] > MaxRetries

(* The refinement of JobDelivery.  A job for which nobody is answerable has *)
(* a status the abstract queue does not know; one the broker never received *)
(* (see EnqueueLost) stays unknown to it.                                   *)
JobStatus(j) ==
  CASE j \in handled          -> "done"
    [] j \notin handled /\ Parked(j) -> "dead"
    [] j \notin handled /\ ~ Parked(j) /\ (Waiting(j) \/ InHand(j)) -> "pending"
    [] OTHER -> IF j \in accepted \ unconfirmed THEN "forgotten" ELSE "unknown"

Delivery == INSTANCE JobDelivery WITH status <- [j \in Jobs |-> JobStatus(j)]

(* The queue implements JobDelivery: an accepted job goes from pending to   *)
(* done or dead and is never forgotten on the way.                          *)
DeliversAtLeastOnce == Delivery!Spec

(* Every accepted job is settled in the end, provided some worker keeps its *)
(* connection from some time on (a disconnected worker never dials again).  *)
SomeWorkerStays == \E w \in Workers : <>[](link[w] = "up")
JobsSettle == SomeWorkerStays => Delivery!Settled
=============================================================================
