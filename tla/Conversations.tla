--------------------------- MODULE Conversations ---------------------------
(***************************************************************************)
(* Chat sessions (internal/conversation/biz, data, service) and the part   *)
(* of RAGService.SendMessage that records an exchange in one.  Requests    *)
(* read the session row first and write afterwards, one statement at a     *)
(* time; every request may also start a goroutine that purges what is      *)
(* older than the retention, in four statements of which the first three   *)
(* drop their errors.  No foreign key ties messages, events and feedback   *)
(* to their session.                                                       *)
(***************************************************************************)
EXTENDS Integers, FiniteSets

CONSTANTS
  Sessions,     \* session ids; a new one is never used again
  Tenants, TenantOf,
  Clients,      \* requests at work at the same time
  Retention,    \* age at which a session expires
  Interval,     \* purge interval
  Ops,          \* the requests there are
  MaxTime, MaxRequests, MaxFaults   \* bounds

AllOps == {"create", "read", "close", "feedback", "send"}
ASSUME OpsAssumption == Ops \subseteq AllOps /\ TenantOf \in [Sessions -> Tenants]
ASSUME SetsAssumption == Sessions # {} /\ IsFiniteSet(Clients)
ASSUME TimesAssumption ==
  /\ Retention \in Nat \ {0} /\ Interval \in Nat \ {0}
  /\ MaxTime \in Nat /\ MaxRequests \in Nat /\ MaxFaults \in Nat

VARIABLES
  now,        \* the clock
  row,        \* chat_session: the status, "none" before and "gone" after
  created,    \* its created_at
  pairs,      \* exchanges of a session in chat_message
  events,     \* kinds of events of a session in session_event
  feedback,   \* whether a session has rows in message_feedback
  lastPurge,  \* of the process; -1 is the zero time
  purges,     \* the purge goroutines
  req,        \* the requests
  answered,   \* history: exchanges answered with 200
  stray,      \* history: sessions that got a row while or after they were purged
  spared,     \* history: sessions a failed statement of a purge passed over
  torn,       \* history: sessions a purge left after taking their messages
  requests, faults    \* used up so far

tables   == <<row, created, pairs, events, feedback>>
history  == <<answered, stray, spared, torn>>
vars     == <<now, tables, lastPurge, purges, req, history, requests, faults>>

Kinds     == {"open", "close", "escalation", "refusal"}
Purges    == [tenant : Tenants, at : 0 .. MaxTime, step : 1 .. 4]
NoRequest == [pc |-> "idle", op |-> "read", s |-> CHOOSE s \in Sessions : TRUE, biz |-> FALSE]

Init ==
  /\ now = 0
  /\ row = [s \in Sessions |-> "none"] /\ created = [s \in Sessions |-> 0]
  /\ pairs = [s \in Sessions |-> 0] /\ events = [s \in Sessions |-> {}]
  /\ feedback = [s \in Sessions |-> FALSE]
  /\ lastPurge = -1 /\ purges = {}
  /\ req = [c \in Clients |-> NoRequest]
  /\ answered = [s \in Sessions |-> 0] /\ stray = {} /\ spared = {} /\ torn = {}
  /\ requests = 0 /\ faults = 0

-----------------------------------------------------------------------------
(* The purge, PurgeExpired.                                                 *)

Exists(s)     == row[s] \in {"bot", "closed"}
(* The cutoff was fixed when the goroutine was started. *)
Expired(p, s) == Exists(s) /\ TenantOf[s] = p.tenant /\ created[s] + Retention < p.at
Matched(p)    == {s \in Sessions : Expired(p, s)}

(* The goroutine goes on to its next statement. *)
Moved(p) == purges' = (purges \ {p}) \cup (IF p.step = 4 THEN {} ELSE {[p EXCEPT !.step = @ + 1]})

(* A plausible slip: the sessions first. *)
SessionsFirst(p) ==
  /\ p \in purges
  /\ row' = [s \in Sessions |-> IF p.step = 1 /\ Expired(p, s) THEN "gone" ELSE row[s]]
  /\ feedback' = [s \in Sessions |-> feedback[s] /\ ~(p.step = 2 /\ row[s] = "gone")]
  /\ events' = [s \in Sessions |-> IF p.step = 3 /\ row[s] = "gone" THEN {} ELSE events[s]]
  /\ pairs' = [s \in Sessions |-> IF p.step = 4 /\ row[s] = "gone" THEN 0 ELSE pairs[s]]
  /\ Moved(p)
  /\ UNCHANGED <<now, created, lastPurge, req, history, requests, faults>>

(* Feedback, events, messages, sessions; each statement finds the expired   *)
(* sessions anew.                                                           *)
PurgeStep(p) ==
  /\ p \in purges
  /\ feedback' = [s \in Sessions |-> feedback[s] /\ ~(p.step = 1 /\ Expired(p, s))]
  /\ events' = [s \in Sessions |-> IF p.step = 2 /\ Expired(p, s) THEN {} ELSE events[s]]
  /\ pairs' = [s \in Sessions |-> IF p.step = 3 /\ Expired(p, s) THEN 0 ELSE pairs[s]]
  /\ row' = [s \in Sessions |-> IF p.step = 4 /\ Expired(p, s) THEN "gone" ELSE row[s]]
  /\ Moved(p)
  /\ UNCHANGED <<now, created, lastPurge, req, history, requests, faults>>

(* A statement fails; the error of the first three is dropped. *)
PurgeFails(p) ==
  /\ p \in purges /\ faults < MaxFaults
  /\ faults' = faults + 1
  /\ spared' = IF p.step < 4 THEN spared \cup Matched(p) ELSE spared
  /\ torn' = IF p.step = 4 THEN torn \cup Matched(p) ELSE torn
  /\ Moved(p)
  /\ UNCHANGED <<now, tables, lastPurge, req, answered, stray, requests>>

-----------------------------------------------------------------------------
(* Requests, biz/conversation.go and service/conversation.go.               *)

At(c, l) == req[c].pc = l
Goto(c, l) == req' = [req EXCEPT ![c].pc = l]
End(c)     == req' = [req EXCEPT ![c] = NoRequest]

(* A row is written for a session that a purge has under way or has removed. *)
Stray(s) ==
  stray' = IF row[s] = "gone" \/ \E p \in purges : Expired(p, s) THEN stray \cup {s} ELSE stray

Arrive(c) ==
  \E op \in Ops, s \in Sessions :
    /\ At(c, "idle") /\ requests < MaxRequests
    /\ op = "create" <=> row[s] = "none"
    /\ op = "create" => \A d \in Clients : req[d].op = "create" => req[d].s # s
    /\ req' = [req EXCEPT ![c] = [pc |-> IF op = "send" THEN "ask" ELSE "purge", op |-> op,
                                  s |-> s, biz |-> op \in {"create", "send", "read"}]]
    /\ requests' = requests + 1
    /\ UNCHANGED <<now, tables, lastPurge, purges, history, faults>>

(* maybePurge: at most one purge per interval and process, for the tenant   *)
(* whose request comes first.                                               *)
MaybePurge(c) ==
  /\ At(c, "purge")
  /\ IF lastPurge >= 0 /\ now - lastPurge < Interval
     THEN UNCHANGED <<lastPurge, purges>>
     ELSE /\ lastPurge' = now
          /\ purges' = purges \cup {[tenant |-> TenantOf[req[c].s], at |-> now, step |-> 1]}
  /\ Goto(c, CASE req[c].op = "create" -> "insert"
               [] req[c].op = "feedback" /\ req[c].biz -> "rate"
               [] OTHER -> "read")
  /\ UNCHANGED <<now, tables, history, requests, faults>>

Insert(c) ==
  /\ At(c, "insert")
  /\ row' = [row EXCEPT ![req[c].s] = "bot"] /\ created' = [created EXCEPT ![req[c].s] = now]
  /\ Goto(c, "opened")
  /\ UNCHANGED <<now, pairs, events, feedback, lastPurge, purges, history, requests, faults>>

(* GetSession.  The service reads for its own check first, then the use     *)
(* case of a closing reads again.                                           *)
Read(c) ==
  /\ At(c, "read")
  /\ LET r == req[c] IN
     IF ~Exists(r.s) \/ (r.op = "read") \/ (r.biz /\ row[r.s] = "closed")
     THEN IF r.op = "send" THEN Goto(c, "refused") ELSE End(c)
     ELSE IF ~r.biz
     THEN req' = [req EXCEPT ![c] = [pc |-> "purge", op |-> r.op, s |-> r.s, biz |-> TRUE]]
     ELSE Goto(c, IF r.op = "close" THEN "close" ELSE "record")
  /\ UNCHANGED <<now, tables, lastPurge, purges, history, requests, faults>>

(* The UPDATE does not look at the status; a row that is gone is a 404, and *)
(* so is one that another closing left just so, with the same reason and    *)
(* second: MySQL counts the rows it changed.                                *)
Close(c) ==
  /\ At(c, "close")
  /\ LET s == req[c].s IN
     \/ Exists(s) /\ row' = [row EXCEPT ![s] = "closed"] /\ Goto(c, "closed")
     \/ row[s] # "bot" /\ UNCHANGED row /\ End(c)
  /\ UNCHANGED <<now, created, pairs, events, feedback, lastPurge, purges, history, requests, faults>>

(* CreateEvent, whose error nobody looks at. *)
Event(c, kind) ==
  /\ events' = [events EXCEPT ![req[c].s] = @ \cup {kind}]
  /\ Stray(req[c].s)
  /\ UNCHANGED <<now, row, created, pairs, feedback, lastPurge, purges, answered, spared,
                 torn, requests, faults>>

OpenEvent(c)  == At(c, "opened") /\ Event(c, "open") /\ End(c)
CloseEvent(c) == At(c, "closed") /\ Event(c, "close") /\ (End(c) \/ Goto(c, "escalate"))
Escalation(c) == At(c, "escalate") /\ Event(c, "escalation") /\ End(c)
Refusal(c)    == At(c, "recorded") /\ Event(c, "refusal") /\ Goto(c, "reply")

(* CreateFeedback: whatever the message id says. *)
Rate(c) ==
  /\ At(c, "rate")
  /\ feedback' = [feedback EXCEPT ![req[c].s] = TRUE]
  /\ Stray(req[c].s)
  /\ End(c)
  /\ UNCHANGED <<now, row, created, pairs, events, lastPurge, purges, answered, spared,
                 torn, requests, faults>>

-----------------------------------------------------------------------------
(* SendMessage: the pipeline answers first, then RecordRAGExchange.         *)

(* The model has been called and paid; the tokens are still to be logged.   *)
Ask(c) ==
  /\ At(c, "ask")
  /\ Goto(c, "purge")
  /\ UNCHANGED <<now, tables, lastPurge, purges, history, requests, faults>>

(* A plausible slip: the session row that was read is written back with its *)
(* new updated_at.                                                          *)
RecordTouchesSession(c) ==
  /\ At(c, "record")
  /\ pairs' = [pairs EXCEPT ![req[c].s] = @ + 1]
  /\ row' = [row EXCEPT ![req[c].s] = IF Exists(req[c].s) THEN "bot" ELSE @]
  /\ Stray(req[c].s)
  /\ Goto(c, "recorded") \/ Goto(c, "reply")
  /\ UNCHANGED <<now, created, events, feedback, lastPurge, purges, answered, spared,
                 torn, requests, faults>>

(* CreateMessages: question and answer in one transaction. *)
Record(c) ==
  /\ At(c, "record")
  /\ pairs' = [pairs EXCEPT ![req[c].s] = @ + 1]
  /\ Stray(req[c].s)
  /\ Goto(c, "recorded") \/ Goto(c, "reply")
  /\ UNCHANGED <<now, row, created, events, feedback, lastPurge, purges, answered, spared,
                 torn, requests, faults>>

Reply(c) ==
  /\ At(c, "reply")
  /\ answered' = [answered EXCEPT ![req[c].s] = @ + 1]
  /\ End(c)
  /\ UNCHANGED <<now, tables, lastPurge, purges, stray, spared, torn, requests, faults>>

(* An error answer: the deferred recordUsage logs no model and no tokens.   *)
Refuse(c) ==
  /\ At(c, "refused")
  /\ End(c)
  /\ UNCHANGED <<now, tables, lastPurge, purges, history, requests, faults>>

(* A plausible slip: the error of CreateMessages is dropped like those of   *)
(* the events.                                                              *)
FailsQuietly(c) ==
  /\ req[c].pc \in {"insert", "read", "close", "rate", "record", "opened", "closed", "escalate", "recorded"}
  /\ faults < MaxFaults /\ faults' = faults + 1
  /\ IF req[c].pc \in {"recorded", "record"} THEN Goto(c, "reply") ELSE End(c)
  /\ UNCHANGED <<now, tables, lastPurge, purges, history, requests>>

(* A statement fails.  An event that is not written changes nothing else;   *)
(* anything else ends the request with an error.                            *)
Fails(c) ==
  /\ req[c].pc \in {"insert", "read", "close", "rate", "record", "opened", "closed", "escalate", "recorded"}
  /\ faults < MaxFaults /\ faults' = faults + 1
  /\ CASE req[c].pc = "recorded" -> Goto(c, "reply")
       [] req[c].op = "send" /\ req[c].pc # "recorded" -> Goto(c, "refused")
       [] OTHER -> End(c)
  /\ UNCHANGED <<now, tables, lastPurge, purges, history, requests>>

(* The process dies with its requests and purges; lastPurge starts anew.    *)
Crash ==
  /\ faults < MaxFaults /\ faults' = faults + 1
  /\ req' = [c \in Clients |-> NoRequest] /\ purges' = {} /\ lastPurge' = -1
  /\ torn' = torn \cup UNION {Matched(p) : p \in {q \in purges : q.step = 4}}
  /\ UNCHANGED <<now, tables, answered, stray, spared, requests>>

Tick ==
  /\ now < MaxTime /\ now' = now + 1
  /\ UNCHANGED <<tables, lastPurge, purges, req, history, requests, faults>>

-----------------------------------------------------------------------------
ClientStep(c) ==
  \/ MaybePurge(c) \/ Insert(c) \/ Read(c) \/ Close(c) \/ Rate(c) \/ Ask(c) \/ Record(c)
  \/ OpenEvent(c) \/ CloseEvent(c) \/ Escalation(c) \/ Refusal(c) \/ Reply(c) \/ Refuse(c)

Next ==
  \/ \E c \in Clients : Arrive(c) \/ ClientStep(c) \/ Fails(c)
  \/ \E p \in purges : PurgeStep(p) \/ PurgeFails(p)
  \/ Crash
  \/ Tick

Spec == Init /\ [][Next]_vars

-----------------------------------------------------------------------------
(* Every variable has the shape the code gives it. *)
TypeOK ==
  /\ now \in 0 .. MaxTime /\ lastPurge \in -1 .. now
  /\ row \in [Sessions -> {"none", "bot", "closed", "gone"}]
  /\ created \in [Sessions -> 0 .. now]
  /\ pairs \in [Sessions -> 0 .. MaxRequests] /\ answered \in [Sessions -> 0 .. MaxRequests]
  /\ events \in [Sessions -> SUBSET Kinds] /\ feedback \in [Sessions -> BOOLEAN]
  /\ purges \subseteq Purges
  /\ \A c \in Clients : req[c].op \in AllOps /\ req[c].s \in Sessions /\ req[c].biz \in BOOLEAN
  /\ stray \subseteq Sessions /\ spared \subseteq Sessions /\ torn \subseteq Sessions

(* No message, event or feedback is left behind without its session, where  *)
(* no later purge would find it: not by a purge that dies between its       *)
(* statements, not by two purges at once, not by a request that started     *)
(* before the session expired.  Only a row written while the purge is at    *)
(* work or later, and a statement whose error it dropped, can do that.      *)
NothingLeftBehind ==
  \A s \in Sessions \ (stray \cup spared) :
    row[s] = "gone" => pairs[s] = 0 /\ events[s] = {} /\ ~feedback[s]

(* An exchange that was answered is in the history as long as the session   *)
(* is, whatever its age, whichever requests and purges are at work and      *)
(* whatever fails.  One thing only takes messages from a session that       *)
(* stays: a purge of a session whose retention is over, at its last         *)
(* statement now, or cut off or failed just there.                          *)
AnsweredIsKept ==
  \A s \in Sessions :
    Exists(s) /\ pairs[s] < answered[s] =>
      /\ created[s] + Retention < now
      /\ s \in torn \/ \E p \in purges : p.step = 4 /\ Expired(p, s)

(* A closed session is closed for good: neither a second closing, nor an    *)
(* exchange that read it open, opens it again, and what is still added to   *)
(* it comes from a request that had passed its check.                       *)
ClosedForGood ==
  [][\A s \in Sessions :
       row[s] = "closed" =>
         /\ row'[s] \in {"closed", "gone"}
         /\ pairs'[s] > pairs[s] => \E c \in Clients : req[c].s = s /\ req[c].pc = "record"]_vars
=============================================================================
