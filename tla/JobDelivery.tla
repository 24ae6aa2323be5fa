---------------------------- MODULE JobDelivery ----------------------------
(***************************************************************************)
(* What an ingestion queue promises to the code that enqueues a job:       *)
(* the promise biz.IngestionQueue (internal/knowledge/biz/knowledge.go)    *)
(* needs for a document to leave "processing".                             *)
(*                                                                         *)
(* A job whose Enqueue returned nil stays pending until some run of the    *)
(* handler succeeds ("done") or until it is parked in the dead-letter      *)
(* queue ("dead").  It is never forgotten.  Delivery is at least once: a   *)
(* surplus copy may still be handled afterwards, so a dead job can become  *)
(* done, but nothing undoes a done one.                                    *)
(***************************************************************************)
CONSTANT Jobs

VARIABLE status

Statuses == {"unknown", "pending", "done", "dead"}

Init == status = [j \in Jobs |-> "unknown"]

Accept(j) ==
  /\ status[j] = "unknown"
  /\ status' = [status EXCEPT ![j] = "pending"]

Complete(j) ==
  /\ status[j] \in {"pending", "dead"}
  /\ status' = [status EXCEPT ![j] = "done"]

DeadLetter(j) ==
  /\ status[j] = "pending"
  /\ status' = [status EXCEPT ![j] = "dead"]

Next == \E j \in Jobs : Accept(j) \/ Complete(j) \/ DeadLetter(j)

(* Every accepted job is settled in the end. *)
Settled == \A j \in Jobs : status[j] = "pending" ~> status[j] \in {"done", "dead"}

Spec == Init /\ [][Next]_status
=============================================================================
