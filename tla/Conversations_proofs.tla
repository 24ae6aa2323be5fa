------------------------ MODULE Conversations_proofs ------------------------
(***************************************************************************)
(* Proofs about Conversations: what a purge leaves, what the history of a  *)
(* session keeps, and that a closed session stays closed, for any number   *)
(* of sessions, tenants, requests, purges and faults.                      *)
(***************************************************************************)
EXTENDS Conversations, FiniteSetTheorems, TLAPS

(* The places a request can be at. *)
Places   == {"idle", "ask", "purge", "insert", "opened", "read", "close", "closed", "escalate",
             "rate", "record", "recorded", "reply", "refused"}
Requests == [pc : Places, op : AllOps, s : Sessions, biz : BOOLEAN]

(* A creation has its session to itself and is the only one to insert; any  *)
(* other request is about a session that was inserted.                      *)
RequestsOK ==
  /\ req \in [Clients -> Requests]
  /\ \A c \in Clients :
       /\ req[c].pc = "insert" => req[c].op = "create"
       /\ req[c].op = "create" => req[c].pc \in {"purge", "insert", "opened"}
       /\ req[c].op = "create" /\ req[c].pc # "opened" => row[req[c].s] = "none"
       /\ req[c].op # "create" /\ req[c].pc # "idle" => row[req[c].s] # "none"
  /\ \A c, d \in Clients :
       c # d /\ req[c].op = "create" /\ req[d].op = "create" => req[c].s # req[d].s

(* What the statements a purge has executed have left of the sessions it    *)
(* takes.  Its cutoff lies in the past, so no session joins them later.     *)
Emptied(s, step) ==
  /\ step > 1 => ~feedback[s]
  /\ step > 2 => events[s] = {}
  /\ step > 3 => pairs[s] = 0
PurgesBehind ==
  /\ \A p \in purges : p.at <= now
  /\ \A p \in purges, s \in Sessions \ (stray \cup spared) : Expired(p, s) => Emptied(s, p.step)

(* The requests about a session that may still record an exchange in it,    *)
(* those that have recorded one and not answered, and all of them.          *)
MayRecord(r, s) == r.s = s /\ r.pc \notin {"idle", "recorded", "reply", "refused"}
Recorded(r, s)  == r.s = s /\ r.pc \in {"recorded", "reply"}
Open(r, s)      == r.s = s /\ r.pc # "idle"
Coming(q, s)    == {c \in Clients : MayRecord(q[c], s)}
Owed(q, s)      == {c \in Clients : Recorded(q[c], s)}
Served(q, s)    == {c \in Clients : Open(q[c], s)}

(* A purge has taken the messages of a session: its row is gone too, or     *)
(* about to go, or was left.                                                *)
Halved(s) == row[s] = "gone" \/ s \in torn \/ \E p \in purges : p.step = 4 /\ Expired(p, s)

(* Every exchange belongs to a request of its own, and every answer too;    *)
(* an answered exchange, and one about to be answered, is there until a     *)
(* purge takes the messages, which it does when the retention is over.      *)
Counted ==
  /\ requests \in 0 .. MaxRequests
  /\ row \in [Sessions -> {"none", "bot", "closed", "gone"}] /\ created \in [Sessions -> 0 .. now]
  /\ pairs \in [Sessions -> Nat] /\ answered \in [Sessions -> Nat]
  /\ \A s \in Sessions :
       /\ pairs[s] + Cardinality(Coming(req, s)) <= requests
       /\ answered[s] + Cardinality(Served(req, s)) <= requests
       /\ row[s] = "none" => answered[s] = 0
       /\ ~Halved(s) => pairs[s] >= answered[s] + Cardinality(Owed(req, s))
       /\ Halved(s) => row[s] # "none" /\ created[s] + Retention < now

(* The rest of TypeOK. *)
ShapesOK ==
  /\ now \in 0 .. MaxTime /\ lastPurge \in -1 .. now
  /\ events \in [Sessions -> SUBSET Kinds] /\ feedback \in [Sessions -> BOOLEAN]
  /\ purges \subseteq Purges
  /\ stray \subseteq Sessions /\ spared \subseteq Sessions /\ torn \subseteq Sessions

IInv == ShapesOK /\ Counted /\ RequestsOK /\ PurgesBehind /\ NothingLeftBehind

-----------------------------------------------------------------------------
(* The requests.                                                            *)

LEMMA IdleRequest == NoRequest \in Requests /\ NoRequest.pc = "idle" /\ NoRequest.op = "read"
BY SetsAssumption DEF NoRequest, Requests, Places, AllOps

(* Where a step of a request takes it. *)
LEMMA GoneTo ==
  ASSUME req \in [Clients -> Requests], NEW c \in Clients, NEW l \in Places, Goto(c, l)
  PROVE  /\ req' \in [Clients -> Requests]
         /\ req'[c].pc = l /\ req'[c].op = req[c].op /\ req'[c].s = req[c].s /\ req'[c].biz = req[c].biz
         /\ \A d \in Clients \ {c} : req'[d] = req[d]
<1>1. req[c] \in Requests
  OBVIOUS
<1>2. /\ [req[c] EXCEPT !.pc = l] \in Requests
      /\ [req[c] EXCEPT !.pc = l].pc = l
      /\ [req[c] EXCEPT !.pc = l].op = req[c].op
      /\ [req[c] EXCEPT !.pc = l].s = req[c].s
      /\ [req[c] EXCEPT !.pc = l].biz = req[c].biz
  BY <1>1 DEF Requests
<1> QED BY <1>1, <1>2 DEF Goto

LEMMA Ended ==
  ASSUME req \in [Clients -> Requests], NEW c \in Clients, End(c)
  PROVE  /\ req' \in [Clients -> Requests]
         /\ req'[c].pc = "idle" /\ req'[c].op = "read"
         /\ \A d \in Clients \ {c} : req'[d] = req[d]
BY IdleRequest DEF End

(* What a step of request c does to it, whichever step it is: it goes on as *)
(* the request it was, or it ends.                                          *)
GoesOn(c) ==
  /\ req' \in [Clients -> Requests]
  /\ \A d \in Clients \ {c} : req'[d] = req[d]
  /\ req[c].pc # "idle"
  /\ \/ req'[c].pc = "idle" /\ req'[c].op = "read"
     \/ /\ req'[c].op = req[c].op /\ req'[c].s = req[c].s /\ req'[c].pc # "idle"
        /\ req'[c].pc = "insert" => req[c].op = "create" /\ req[c].pc = "purge"
        /\ req[c].op = "create" => \/ req[c].pc = "purge" /\ req'[c].pc = "insert"
                                   \/ req[c].pc = "insert" /\ req'[c].pc = "opened"
        /\ Recorded(req'[c], req[c].s) => req[c].pc \in {"record", "recorded", "reply"}
        /\ MayRecord(req'[c], req[c].s) => MayRecord(req[c], req[c].s)

LEMMA PurgeGoesOn ==
  ASSUME RequestsOK, NEW c \in Clients, MaybePurge(c) PROVE GoesOn(c)
<1> DEFINE l == CASE req[c].op = "create" -> "insert"
                  [] req[c].op = "feedback" /\ req[c].biz -> "rate"
                  [] OTHER -> "read"
<1>1. req[c] \in Requests /\ req[c].pc = "purge"
  BY DEF RequestsOK, MaybePurge, At
<1>2. /\ l \in {"insert", "rate", "read"}
      /\ l = "insert" <=> req[c].op = "create"
  OBVIOUS
<1>3. Goto(c, l)
  BY DEF MaybePurge
<1>4. l \in Places
  BY <1>2 DEF Places
<1> HIDE DEF l
<1> QED BY <1>1, <1>2, <1>3, <1>4, GoneTo DEF RequestsOK, GoesOn, Recorded, MayRecord

LEMMA ReadGoesOn ==
  ASSUME RequestsOK, NEW c \in Clients, Read(c) PROVE GoesOn(c)
<1>1. req[c] \in Requests /\ req[c].pc = "read" /\ req[c].op # "create"
  BY DEF RequestsOK, Read, At
<1>2. CASE Goto(c, "refused")
  BY <1>1, <1>2, GoneTo DEF RequestsOK, GoesOn, Recorded, MayRecord, Places
<1>3. CASE End(c)
  BY <1>1, <1>3, Ended DEF RequestsOK, GoesOn
<1>4. CASE req' = [req EXCEPT ![c] = [pc |-> "purge", op |-> req[c].op, s |-> req[c].s, biz |-> TRUE]]
  <2>1. [pc |-> "purge", op |-> req[c].op, s |-> req[c].s, biz |-> TRUE] \in Requests
    BY <1>1 DEF Requests, Places
  <2> QED BY <1>1, <1>4, <2>1 DEF RequestsOK, GoesOn, Recorded, MayRecord
<1>5. CASE Goto(c, "close") \/ Goto(c, "record")
  BY <1>1, <1>5, GoneTo DEF RequestsOK, GoesOn, Recorded, MayRecord, Places
<1>6. \/ Goto(c, "refused") \/ End(c) \/ Goto(c, "close") \/ Goto(c, "record")
      \/ req' = [req EXCEPT ![c] = [pc |-> "purge", op |-> req[c].op, s |-> req[c].s, biz |-> TRUE]]
  BY DEF Read
<1> QED BY <1>2, <1>3, <1>4, <1>5, <1>6

(* The other steps of a request. *)
LEMMA OthersGoOn ==
  ASSUME RequestsOK, NEW c \in Clients,
         \/ Insert(c) \/ Close(c) \/ Rate(c) \/ Ask(c) \/ Record(c) \/ OpenEvent(c) \/ CloseEvent(c)
         \/ Escalation(c) \/ Refusal(c) \/ Reply(c) \/ Refuse(c)
  PROVE  GoesOn(c)
<1>0. req[c] \in Requests
  BY DEF RequestsOK
<1>1. CASE End(c) /\ req[c].pc # "idle"
  BY <1>0, <1>1, Ended DEF RequestsOK, GoesOn
<1>2. ASSUME Goto(c, "opened"), req[c].pc = "insert" PROVE GoesOn(c)
  BY <1>0, <1>2, GoneTo DEF RequestsOK, GoesOn, Recorded, MayRecord, Places
<1>3. ASSUME NEW l \in {"closed", "escalate", "purge", "recorded", "reply"}, Goto(c, l),
             req[c].pc \in {"close", "closed", "ask", "record", "recorded"},
             l \in {"recorded", "reply"} <=> req[c].pc \in {"record", "recorded"}
      PROVE  GoesOn(c)
  <2>1. l \in Places
    BY <1>3 DEF Places
  <2> QED BY <1>0, <1>3, <2>1, GoneTo DEF RequestsOK, GoesOn, Recorded, MayRecord
<1> QED
  BY <1>1, <1>2, <1>3 DEF Insert, Close, Rate, Ask, Record, OpenEvent, CloseEvent, Escalation, Refusal, Reply,
                          Refuse, At

LEMMA FailureGoesOn ==
  ASSUME RequestsOK, NEW c \in Clients, Fails(c) PROVE GoesOn(c)
<1>1. /\ req[c] \in Requests
      /\ req[c].pc \in {"insert", "read", "close", "rate", "record", "opened", "closed", "escalate", "recorded"}
  BY DEF RequestsOK, Fails
<1>2. CASE End(c)
  BY <1>1, <1>2, Ended DEF RequestsOK, GoesOn
<1>3. CASE req[c].pc = "recorded" /\ Goto(c, "reply")
  BY <1>1, <1>3, GoneTo DEF RequestsOK, GoesOn, Recorded, MayRecord, Places
<1>4. CASE req[c].op = "send" /\ Goto(c, "refused")
  BY <1>1, <1>4, GoneTo DEF RequestsOK, GoesOn, Recorded, MayRecord, Places
<1> QED BY <1>2, <1>3, <1>4 DEF Fails

(* Every step leaves the requests alone, begins one, moves one, or ends all *)
(* of them.                                                                 *)
LEMMA RequestSteps ==
  ASSUME RequestsOK, [Next]_vars
  PROVE  \/ UNCHANGED req
         \/ \E c \in Clients : Arrive(c) \/ GoesOn(c)
         \/ req' = [c \in Clients |-> NoRequest]
<1>1. ASSUME NEW p \in purges, PurgeStep(p) \/ PurgeFails(p) PROVE UNCHANGED req
  BY <1>1 DEF PurgeStep, PurgeFails
<1>2. ASSUME NEW c \in Clients, ClientStep(c) \/ Fails(c) PROVE GoesOn(c)
  BY <1>2, PurgeGoesOn, ReadGoesOn, OthersGoOn, FailureGoesOn DEF ClientStep
<1>3. CASE Crash
  BY <1>3 DEF Crash
<1>4. CASE Tick \/ UNCHANGED vars
  BY <1>4 DEF Tick, vars
<1> QED BY <1>1, <1>2, <1>3, <1>4 DEF Next

(* The row of a session goes its way, and only forward. *)
LEMMA RowSteps ==
  ASSUME IInv, [Next]_vars, NEW s \in Sessions
  PROVE  \/ row'[s] = row[s] /\ created'[s] = created[s]
         \/ /\ row[s] = "none" /\ row'[s] = "bot" /\ created'[s] = now
            /\ \E c \in Clients : Insert(c) /\ req[c].s = s
         \/ Exists(s) /\ row'[s] = "closed" /\ created'[s] = created[s]
         \/ /\ Exists(s) /\ row'[s] = "gone" /\ created'[s] = created[s]
            /\ \E p \in purges : PurgeStep(p) /\ Expired(p, s)
<1>0. /\ row \in [Sessions -> {"none", "bot", "closed", "gone"}] /\ created \in [Sessions -> 0 .. now]
      /\ req \in [Clients -> Requests]
  BY DEF IInv, Counted, RequestsOK
<1>1. ASSUME NEW p \in purges, PurgeStep(p) PROVE row'[s] = row[s] \/ (Exists(s) /\ row'[s] = "gone" /\ Expired(p, s))
  BY <1>1 DEF PurgeStep, Expired
<1>2. ASSUME NEW p \in purges, PurgeStep(p) PROVE UNCHANGED created
  BY <1>2 DEF PurgeStep
<1>3. ASSUME NEW p \in purges, PurgeFails(p) PROVE UNCHANGED <<row, created>>
  BY <1>3 DEF PurgeFails, tables
<1>4. ASSUME NEW c \in Clients, Insert(c)
      PROVE  /\ row[req[c].s] = "none" /\ req[c].s \in Sessions
             /\ row' = [row EXCEPT ![req[c].s] = "bot"] /\ created' = [created EXCEPT ![req[c].s] = now]
  BY <1>0, <1>4 DEF IInv, RequestsOK, Insert, At, Requests
<1>5. ASSUME NEW c \in Clients, Close(c)
      PROVE  /\ created' = created
             /\ \/ row' = row
                \/ Exists(req[c].s) /\ row' = [row EXCEPT ![req[c].s] = "closed"]
  BY <1>0, <1>5 DEF Close, Exists
<1>6. ASSUME NEW c \in Clients,
             \/ Arrive(c) \/ MaybePurge(c) \/ Read(c) \/ Rate(c) \/ Ask(c) \/ Record(c) \/ OpenEvent(c)
             \/ CloseEvent(c) \/ Escalation(c) \/ Refusal(c) \/ Reply(c) \/ Refuse(c) \/ Fails(c)
      PROVE  UNCHANGED <<row, created>>
  BY <1>6 DEF Arrive, MaybePurge, Read, Rate, Ask, Record, OpenEvent, CloseEvent, Escalation, Refusal, Event,
              Reply, Refuse, Fails, tables
<1>7. CASE Crash \/ Tick \/ UNCHANGED vars
  BY <1>7 DEF Crash, Tick, vars, tables
<1>8. CASE \E c \in Clients : Insert(c)
  BY <1>0, <1>4, <1>8
<1>9. CASE \E c \in Clients : Close(c)
  BY <1>0, <1>5, <1>9
<1> QED BY <1>1, <1>2, <1>3, <1>6, <1>7, <1>8, <1>9 DEF Next, ClientStep

LEMMA TypedRow ==
  ASSUME IInv PROVE row \in [Sessions -> {"none", "bot", "closed", "gone"}]
BY DEF IInv, Counted

(* Requests stay what RequestsOK says of them. *)
LEMMA RequestsStay ==
  ASSUME IInv, [Next]_vars PROVE RequestsOK'
<1>0. RequestsOK
  BY DEF IInv
<1>1. \A s \in Sessions : row[s] # "none" => row'[s] # "none"
  BY RowSteps DEF Exists
<1>2. CASE UNCHANGED req /\ \A c \in Clients : ~Insert(c)
  <2>1. \A s \in Sessions : row[s] = "none" => row'[s] = "none"
    BY <1>2, RowSteps, TypedRow DEF Exists
  <2> QED BY <1>0, <1>1, <1>2, <2>1 DEF RequestsOK, Requests
<1>3. ASSUME NEW c \in Clients, Arrive(c) PROVE RequestsOK'
  <2>1. row' = row /\ At(c, "idle")
    BY <1>3 DEF Arrive, tables
  <2>2. PICK op \in Ops, s \in Sessions :
          /\ op = "create" <=> row[s] = "none"
          /\ op = "create" => \A d \in Clients : req[d].op = "create" => req[d].s # s
          /\ req' = [req EXCEPT ![c] = [pc |-> IF op = "send" THEN "ask" ELSE "purge", op |-> op,
                                        s |-> s, biz |-> op \in {"create", "send", "read"}]]
    BY <1>3 DEF Arrive
  <2>3. [pc |-> IF op = "send" THEN "ask" ELSE "purge", op |-> op,
         s |-> s, biz |-> op \in {"create", "send", "read"}] \in Requests
    BY OpsAssumption DEF Requests, Places
  <2> QED BY <1>0, <2>1, <2>2, <2>3 DEF RequestsOK
<1>4. ASSUME NEW c \in Clients, GoesOn(c) PROVE RequestsOK'
  <2>1. \A s \in Sessions : row[s] = "none" /\ row'[s] # "none" => \E d \in Clients : Insert(d) /\ req[d].s = s
    BY RowSteps, TypedRow DEF Exists
  <2>2. ASSUME NEW d \in Clients, Insert(d) PROVE d = c /\ req'[c].pc = "opened" /\ req[d].op = "create"
    <3>1. req'[d].pc = "opened" /\ req[d].pc = "insert"
      BY <1>0, <2>2, GoneTo DEF Insert, At, RequestsOK, Places
    <3> QED BY <1>0, <1>4, <3>1 DEF GoesOn, RequestsOK
  <2>3. \A d \in Clients \ {c} : req'[d] = req[d]
    BY <1>4 DEF GoesOn
  <2>4. \A d \in Clients : req[d].s \in Sessions
    BY <1>0 DEF RequestsOK, Requests
  <2>5. ASSUME NEW d \in Clients \ {c}
        PROVE  /\ req'[d].op = "create" /\ req'[d].pc # "opened" => row'[req'[d].s] = "none"
               /\ req'[d].op # "create" /\ req'[d].pc # "idle" => row'[req'[d].s] # "none"
    <3>1. req'[d] = req[d]
      BY <2>3
    <3> QED BY <1>0, <1>1, <2>1, <2>2, <2>4, <3>1 DEF RequestsOK
  <2>6. /\ req'[c].op = "create" /\ req'[c].pc # "opened" => row'[req'[c].s] = "none"
        /\ req'[c].op # "create" /\ req'[c].pc # "idle" => row'[req'[c].s] # "none"
    BY <1>0, <1>1, <1>4, <2>1, <2>2, <2>4 DEF RequestsOK, GoesOn
  <2>7. \A d \in Clients :
          /\ req'[d].pc = "insert" => req'[d].op = "create"
          /\ req'[d].op = "create" => req'[d].pc \in {"purge", "insert", "opened"}
    BY <1>0, <1>4, <2>3 DEF RequestsOK, GoesOn
  <2>8. ASSUME NEW d \in Clients, NEW e \in Clients, d # e, req'[d].op = "create", req'[e].op = "create"
        PROVE  req'[d].s # req'[e].s
    BY <1>0, <1>4, <2>3, <2>8 DEF RequestsOK, GoesOn
  <2> QED BY <1>4, <2>5, <2>6, <2>7, <2>8 DEF RequestsOK, GoesOn
<1>5. CASE req' = [c \in Clients |-> NoRequest]
  BY <1>5, IdleRequest DEF RequestsOK
<1>6. ASSUME NEW c \in Clients, Insert(c) PROVE GoesOn(c)
  BY <1>0, <1>6, OthersGoOn
<1> QED BY <1>0, <1>2, <1>3, <1>4, <1>5, <1>6, RequestSteps

-----------------------------------------------------------------------------
(* The purges.                                                              *)

(* A purge of the next state was there before, is at its next statement, or *)
(* is a new one with the present as its cutoff.                             *)
LEMMA PurgeSteps ==
  ASSUME IInv, [Next]_vars, NEW q \in purges'
  PROVE  /\ q \in Purges
         /\ \/ q \in purges
            \/ q.at = now /\ q.step = 1
            \/ \E p \in purges : /\ PurgeStep(p) \/ PurgeFails(p)
                                 /\ p.step < 4 /\ q.step = p.step + 1
                                 /\ q.tenant = p.tenant /\ q.at = p.at
<1>0. /\ purges \subseteq Purges /\ now \in 0 .. MaxTime /\ req \in [Clients -> Requests]
  BY DEF IInv, ShapesOK, RequestsOK
<1>1. ASSUME NEW p \in purges, Moved(p), q \notin purges
      PROVE  /\ q \in Purges /\ p.step < 4 /\ q.step = p.step + 1
             /\ q.tenant = p.tenant /\ q.at = p.at
  <2>1. p \in Purges /\ p.step # 4 /\ q = [p EXCEPT !.step = @ + 1]
    BY <1>0, <1>1 DEF Moved
  <2> QED BY <2>1 DEF Purges
<1>2. ASSUME NEW p \in purges, PurgeStep(p) \/ PurgeFails(p) PROVE Moved(p)
  BY <1>2 DEF PurgeStep, PurgeFails
<1>3. ASSUME NEW c \in Clients, MaybePurge(c), q \notin purges
      PROVE  q \in Purges /\ q.at = now /\ q.step = 1
  <2>1. TenantOf[req[c].s] \in Tenants
    BY <1>0, OpsAssumption DEF Requests
  <2>2. q = [tenant |-> TenantOf[req[c].s], at |-> now, step |-> 1]
    BY <1>3 DEF MaybePurge
  <2> QED BY <1>0, <2>1, <2>2 DEF Purges
<1>4. ASSUME NEW c \in Clients,
             \/ Arrive(c) \/ Insert(c) \/ Read(c) \/ Close(c) \/ Rate(c) \/ Ask(c) \/ Record(c) \/ OpenEvent(c)
             \/ CloseEvent(c) \/ Escalation(c) \/ Refusal(c) \/ Reply(c) \/ Refuse(c) \/ Fails(c)
      PROVE  UNCHANGED purges
  BY <1>4 DEF Arrive, Insert, Read, Close, Rate, Ask, Record, OpenEvent, CloseEvent, Escalation, Refusal, Event,
              Reply, Refuse, Fails
<1>5. CASE Crash \/ Tick \/ UNCHANGED vars
  BY <1>0, <1>5 DEF Crash, Tick, vars
<1>6. CASE \E p \in purges : PurgeStep(p) \/ PurgeFails(p)
  BY <1>0, <1>1, <1>2, <1>6
<1>7. CASE \E c \in Clients : MaybePurge(c)
  BY <1>0, <1>3, <1>7
<1> QED BY <1>0, <1>4, <1>5, <1>6, <1>7 DEF Next, ClientStep

(* No session joins those a purge takes: one that is created now is not     *)
(* older than a cutoff in the past.                                         *)
LEMMA NoneJoins ==
  ASSUME IInv, [Next]_vars, NEW q \in Purges, q.at <= now, NEW s \in Sessions, Expired(q, s)'
  PROVE  Expired(q, s)
<1>1. now \in 0 .. MaxTime /\ created[s] \in 0 .. now /\ q.at \in Nat /\ Retention \in Nat
  BY TimesAssumption DEF IInv, ShapesOK, Counted, Purges
<1>2. row'[s] \in {"bot", "closed"} /\ TenantOf[s] = q.tenant /\ created'[s] + Retention < q.at
  BY DEF Expired, Exists
<1>3. created'[s] # now
  BY <1>1, <1>2
<1>4. created'[s] = created[s] /\ (row'[s] = row[s] \/ Exists(s))
  BY <1>3, RowSteps
<1> QED BY <1>2, <1>4 DEF Expired, Exists

(* A step empties what belongs to a session further, or it writes for it:   *)
(* then the session is there and no purge takes it, or it is marked.        *)
LEMMA Writes ==
  ASSUME IInv, [Next]_vars, NEW s \in Sessions
  PROVE  /\ stray \subseteq stray' /\ spared \subseteq spared' /\ stray' \subseteq Sessions
         /\ spared' \subseteq Sessions
         /\ \/ /\ feedback'[s] => feedback[s]
               /\ events[s] = {} => events'[s] = {}
               /\ pairs[s] = 0 => pairs'[s] = 0
            \/ /\ row' = row /\ purges' = purges
               /\ s \in stray' \/ (row[s] # "gone" /\ \A p \in purges : ~Expired(p, s))
<1>0. /\ req \in [Clients -> Requests] /\ feedback \in [Sessions -> BOOLEAN] /\ pairs \in [Sessions -> Nat]
      /\ events \in [Sessions -> SUBSET Kinds] /\ stray \subseteq Sessions /\ spared \subseteq Sessions
  BY DEF IInv, ShapesOK, RequestsOK, Counted
<1>1. ASSUME NEW p \in purges, PurgeStep(p)
      PROVE  /\ stray' = stray /\ spared' = spared
             /\ feedback'[s] => feedback[s]
             /\ events[s] = {} => events'[s] = {}
             /\ pairs[s] = 0 => pairs'[s] = 0
  BY <1>1 DEF PurgeStep, history
<1>2. ASSUME NEW p \in purges, PurgeFails(p)
      PROVE  /\ stray' = stray /\ spared \subseteq spared' /\ spared' \subseteq Sessions
             /\ feedback' = feedback /\ events' = events /\ pairs' = pairs
  BY <1>0, <1>2 DEF PurgeFails, tables, Matched
<1>3. ASSUME NEW c \in Clients,
             \/ Arrive(c) \/ MaybePurge(c) \/ Insert(c) \/ Read(c) \/ Close(c) \/ Ask(c) \/ Reply(c) \/ Refuse(c)
             \/ Fails(c)
      PROVE  /\ stray' = stray /\ spared' = spared
             /\ feedback' = feedback /\ events' = events /\ pairs' = pairs
  BY <1>3 DEF Arrive, MaybePurge, Insert, Read, Close, Ask, Reply, Refuse, Fails, tables, history
<1>4. ASSUME NEW c \in Clients,
             \/ Rate(c) \/ Record(c) \/ OpenEvent(c) \/ CloseEvent(c) \/ Escalation(c) \/ Refusal(c)
      PROVE  /\ Stray(req[c].s) /\ spared' = spared /\ row' = row /\ purges' = purges
             /\ s # req[c].s => feedback'[s] = feedback[s] /\ events'[s] = events[s] /\ pairs'[s] = pairs[s]
  BY <1>0, <1>4 DEF Rate, Record, OpenEvent, CloseEvent, Escalation, Refusal, Event
<1>5. CASE Crash \/ Tick \/ UNCHANGED vars
  BY <1>0, <1>5 DEF Crash, Tick, vars, tables, history
<1>6. ASSUME NEW x \in Sessions, Stray(x)
      PROVE  /\ stray \subseteq stray' /\ stray' \subseteq Sessions
             /\ x \in stray' \/ (row[x] # "gone" /\ \A p \in purges : ~Expired(p, x))
  BY <1>0, <1>6 DEF Stray
<1>7. ASSUME NEW c \in Clients,
             \/ Rate(c) \/ Record(c) \/ OpenEvent(c) \/ CloseEvent(c) \/ Escalation(c) \/ Refusal(c)
      PROVE  /\ stray \subseteq stray' /\ spared \subseteq spared' /\ stray' \subseteq Sessions
             /\ spared' \subseteq Sessions
             /\ \/ /\ feedback'[s] => feedback[s]
                   /\ events[s] = {} => events'[s] = {}
                   /\ pairs[s] = 0 => pairs'[s] = 0
                \/ /\ row' = row /\ purges' = purges
                   /\ s \in stray' \/ (row[s] # "gone" /\ \A p \in purges : ~Expired(p, s))
  <2>1. req[c].s \in Sessions
    BY <1>0 DEF Requests
  <2> QED BY <1>0, <1>4, <1>6, <1>7, <2>1
<1> QED BY <1>0, <1>1, <1>2, <1>3, <1>5, <1>7 DEF Next, ClientStep

(* Only its own step moves the clock, and a request or a crash the time of  *)
(* the last purge.                                                          *)
LEMMA ClocksMove ==
  ASSUME [Next]_vars
  PROVE  /\ now' = now \/ Tick
         /\ lastPurge' = lastPurge \/ lastPurge' = now \/ lastPurge' = -1
<1>1. ASSUME NEW c \in Clients, Arrive(c) \/ ClientStep(c) \/ Fails(c)
      PROVE  now' = now /\ (lastPurge' = lastPurge \/ lastPurge' = now)
  <2>1. CASE Arrive(c) \/ Fails(c)
    BY <2>1 DEF Arrive, Fails
  <2>2. CASE MaybePurge(c) \/ Insert(c) \/ Read(c) \/ Close(c) \/ Rate(c) \/ Ask(c) \/ Record(c)
    BY <2>2 DEF MaybePurge, Insert, Read, Close, Rate, Ask, Record
  <2>3. CASE OpenEvent(c) \/ CloseEvent(c) \/ Escalation(c) \/ Refusal(c) \/ Reply(c) \/ Refuse(c)
    BY <2>3 DEF OpenEvent, CloseEvent, Escalation, Refusal, Event, Reply, Refuse
  <2> QED BY <1>1, <2>1, <2>2, <2>3 DEF ClientStep
<1>2. ASSUME NEW p \in purges, PurgeStep(p) \/ PurgeFails(p)
      PROVE  now' = now /\ lastPurge' = lastPurge
  BY <1>2 DEF PurgeStep, PurgeFails
<1>3. Crash \/ UNCHANGED vars => now' = now /\ (lastPurge' = lastPurge \/ lastPurge' = -1)
  BY DEF Crash, vars
<1>4. Tick => lastPurge' = lastPurge
  BY DEF Tick
<1> QED BY <1>1, <1>2, <1>3, <1>4 DEF Next

LEMMA PurgesStay ==
  ASSUME IInv, [Next]_vars PROVE (PurgesBehind /\ NothingLeftBehind)'
<1>0. /\ now \in 0 .. MaxTime /\ purges \subseteq Purges /\ PurgesBehind /\ NothingLeftBehind
      /\ feedback \in [Sessions -> BOOLEAN] /\ pairs \in [Sessions -> Nat]
  BY DEF IInv, ShapesOK, Counted
<1>1. now' \in Nat /\ now <= now'
  <2>1. now' = now \/ Tick
    BY ClocksMove
  <2> QED BY <1>0, <2>1 DEF Tick
<1>2. \A q \in purges' : q.at <= now
  BY <1>0, PurgeSteps DEF PurgesBehind, Purges
<1>3. ASSUME NEW q \in purges', NEW s \in Sessions \ (stray' \cup spared'), Expired(q, s)'
      PROVE  Emptied(s, q.step)'
  <2>0. q \in Purges /\ Expired(q, s)
    BY <1>2, <1>3, PurgeSteps, NoneJoins
  <2>1. s \in Sessions \ (stray \cup spared)
    BY Writes
  <2>2. CASE q \in purges
    <3>1. Emptied(s, q.step)
      BY <1>0, <2>0, <2>1, <2>2 DEF PurgesBehind
    <3>2. /\ feedback'[s] => feedback[s]
          /\ events[s] = {} => events'[s] = {}
          /\ pairs[s] = 0 => pairs'[s] = 0
      BY <2>0, <2>2, Writes
    <3> QED BY <3>1, <3>2 DEF Emptied
  <2>3. CASE q.step = 1
    BY <2>3 DEF Emptied
  <2>4. ASSUME NEW p \in purges, PurgeStep(p) \/ PurgeFails(p), p.step < 4, q.step = p.step + 1,
               q.tenant = p.tenant, q.at = p.at
        PROVE  Emptied(s, q.step)'
    <3>1. Expired(p, s) /\ p \in Purges
      BY <1>0, <2>0, <2>4 DEF Expired
    <3>2. Emptied(s, p.step)
      BY <1>0, <2>1, <3>1 DEF PurgesBehind
    <3>3. PurgeStep(p)
      BY <1>3, <2>4, <3>1 DEF PurgeFails, Matched
    <3>4. /\ feedback'[s] => feedback[s] /\ p.step # 1
          /\ events'[s] = IF p.step = 2 THEN {} ELSE events[s]
          /\ pairs'[s] = IF p.step = 3 THEN 0 ELSE pairs[s]
      BY <3>1, <3>3 DEF PurgeStep
    <3>5. p.step \in 1 .. 4
      BY <3>1 DEF Purges
    <3> QED BY <2>4, <3>2, <3>4, <3>5 DEF Emptied
  <2> QED BY <2>2, <2>3, <2>4, PurgeSteps
<1>4. ASSUME NEW s \in Sessions \ (stray' \cup spared'), row'[s] = "gone"
      PROVE  pairs'[s] = 0 /\ events'[s] = {} /\ ~feedback'[s]
  <2>1. s \in Sessions \ (stray \cup spared)
    BY Writes
  <2>2. CASE row[s] = "gone"
    BY <1>0, <1>4, <2>1, <2>2, Writes DEF NothingLeftBehind
  <2>3. CASE row[s] # "gone"
    <3>1. PICK p \in purges : PurgeStep(p) /\ Expired(p, s)
      BY <1>4, <2>3, RowSteps
    <3>2. p.step = 4
      BY <1>4, <2>3, <3>1 DEF PurgeStep
    <3>3. Emptied(s, 4)
      BY <1>0, <2>1, <3>1, <3>2 DEF PurgesBehind
    <3>4. feedback'[s] = feedback[s] /\ events'[s] = events[s] /\ pairs'[s] = pairs[s]
      BY <1>0, <3>1, <3>2 DEF PurgeStep
    <3> QED BY <3>3, <3>4 DEF Emptied
  <2> QED BY <2>2, <2>3
<1>5. \A q \in purges' : q.at <= now'
  BY <1>0, <1>1, <1>2, PurgeSteps DEF Purges
<1> QED BY <1>3, <1>4, <1>5 DEF PurgesBehind, NothingLeftBehind

(* A session is marked only when a purge about to remove its row is stopped.*)
LEMMA TornSteps ==
  ASSUME IInv, [Next]_vars
  PROVE  /\ torn \subseteq torn'
         /\ \A s \in torn' \ torn : \E p \in purges : p.step = 4 /\ s \in Matched(p)
         /\ \A p \in purges : p.step = 4 => p \in purges' \/ PurgeStep(p) \/ Matched(p) \subseteq torn'
<1>0. purges \subseteq Purges
  BY DEF IInv, ShapesOK
<1>1. ASSUME NEW q \in purges, PurgeStep(q)
      PROVE  torn' = torn /\ \A p \in purges : p \in purges' \/ PurgeStep(p)
  BY <1>1 DEF PurgeStep, history, Moved
<1>2. ASSUME NEW q \in purges, PurgeFails(q)
      PROVE  /\ torn \subseteq torn'
             /\ \A s \in torn' \ torn : q.step = 4 /\ s \in Matched(q)
             /\ \A p \in purges : p.step = 4 => p \in purges' \/ Matched(p) \subseteq torn'
  <2>1. torn' = IF q.step = 4 THEN torn \cup Matched(q) ELSE torn
    BY <1>2 DEF PurgeFails
  <2>2. \A p \in purges \ {q} : p \in purges'
    BY <1>2 DEF PurgeFails, Moved
  <2> QED BY <2>1, <2>2
<1>3. ASSUME NEW c \in Clients,
             \/ Arrive(c) \/ MaybePurge(c) \/ Insert(c) \/ Read(c) \/ Close(c) \/ Rate(c) \/ Ask(c) \/ Record(c)
             \/ OpenEvent(c) \/ CloseEvent(c) \/ Escalation(c) \/ Refusal(c) \/ Reply(c) \/ Refuse(c) \/ Fails(c)
      PROVE  torn' = torn
  BY <1>3 DEF Arrive, MaybePurge, Insert, Read, Close, Rate, Ask, Record, OpenEvent, CloseEvent, Escalation,
              Refusal, Event, Reply, Refuse, Fails, history
<1>4. ASSUME NEW c \in Clients,
             \/ Arrive(c) \/ MaybePurge(c) \/ Insert(c) \/ Read(c) \/ Close(c) \/ Rate(c) \/ Ask(c) \/ Record(c)
             \/ OpenEvent(c) \/ CloseEvent(c) \/ Escalation(c) \/ Refusal(c) \/ Reply(c) \/ Refuse(c) \/ Fails(c)
      PROVE  purges \subseteq purges'
  BY <1>4 DEF Arrive, MaybePurge, Insert, Read, Close, Rate, Ask, Record, OpenEvent, CloseEvent, Escalation,
              Refusal, Event, Reply, Refuse, Fails
<1>5. CASE Crash
  <2>1. torn' = torn \cup UNION {Matched(p) : p \in {q \in purges : q.step = 4}}
    BY <1>5 DEF Crash
  <2> QED BY <2>1
<1>6. CASE Tick \/ UNCHANGED vars
  BY <1>6 DEF Tick, vars, history
<1> QED BY <1>1, <1>2, <1>3, <1>4, <1>5, <1>6 DEF Next, ClientStep

(* Whose messages were taken stays such a session.                          *)
LEMMA HalvedStays ==
  ASSUME IInv, [Next]_vars, NEW s \in Sessions, Halved(s)
  PROVE  Halved(s)'
<1>1. CASE row[s] = "gone"
  BY <1>1, RowSteps DEF Halved, Exists
<1>2. CASE s \in torn
  BY <1>2, TornSteps DEF Halved
<1>3. ASSUME NEW p \in purges, p.step = 4, Expired(p, s)
      PROVE  Halved(s)'
  <2>1. s \in Matched(p)
    BY <1>3 DEF Matched
  <2>2. CASE p \in purges' /\ row'[s] # "gone"
    <3>1. created'[s] = created[s] /\ Exists(s)'
      BY <1>3, <2>2, RowSteps, TypedRow DEF Expired, Exists
    <3> QED BY <1>3, <2>2, <3>1 DEF Halved, Expired
  <2>3. CASE PurgeStep(p)
    BY <1>3, <2>3 DEF PurgeStep, Halved
  <2>4. CASE Matched(p) \subseteq torn'
    BY <2>1, <2>4 DEF Halved
  <2> QED BY <1>3, <2>2, <2>3, <2>4, TornSteps DEF Halved
<1> QED BY <1>1, <1>2, <1>3 DEF Halved

(* And the retention of such a session is over.                             *)
LEMMA HalvedIsOld ==
  ASSUME IInv, [Next]_vars, NEW s \in Sessions, Halved(s)'
  PROVE  row'[s] # "none" /\ created'[s] + Retention < now'
<1>0. /\ now \in Nat /\ Retention \in Nat /\ created[s] \in Nat /\ purges \subseteq Purges
      /\ \A p \in purges : p.at <= now
      /\ Halved(s) => row[s] # "none" /\ created[s] + Retention < now
  BY TimesAssumption DEF IInv, ShapesOK, Counted, PurgesBehind
<1>1. now' \in Nat /\ now <= now'
  <2>1. now' = now \/ Tick
    BY ClocksMove
  <2> QED BY <1>0, <2>1 DEF Tick
<1>2. ASSUME row[s] # "none", created[s] + Retention < now
      PROVE  row'[s] # "none" /\ created'[s] + Retention < now'
  <2>1. row'[s] # "none" /\ created'[s] = created[s]
    BY <1>2, RowSteps
  <2> QED BY <1>0, <1>1, <1>2, <2>1
<1>3. ASSUME NEW p \in Purges, p.at <= now, Expired(p, s)
      PROVE  row[s] # "none" /\ created[s] + Retention < now
  BY <1>0, <1>3 DEF Expired, Exists, Purges
<1>4. CASE row'[s] = "gone" /\ row[s] # "gone"
  <2>1. \E p \in purges : Expired(p, s)
    BY <1>4, RowSteps
  <2> QED BY <1>0, <1>2, <1>3, <2>1
<1>5. CASE row[s] = "gone" \/ s \in torn
  BY <1>0, <1>2, <1>5 DEF Halved
<1>6. CASE s \in torn' \ torn
  BY <1>0, <1>2, <1>3, <1>6, TornSteps DEF Matched
<1>7. ASSUME NEW q \in purges', Expired(q, s)'
      PROVE  row'[s] # "none" /\ created'[s] + Retention < now'
  <2>1. q \in Purges /\ q.at <= now
    BY <1>0, PurgeSteps DEF Purges
  <2>2. Expired(q, s)
    BY <1>7, <2>1, NoneJoins
  <2> QED BY <1>2, <1>3, <2>1, <2>2
<1> QED BY <1>4, <1>5, <1>6, <1>7 DEF Halved

-----------------------------------------------------------------------------
(* Counting requests.                                                       *)

One(b) == IF b THEN 1 ELSE 0

(* The size of a set of which a step changes at most one member. *)
LEMMA OneMoves ==
  ASSUME NEW A \in SUBSET Clients, NEW B \in SUBSET Clients, NEW c, A \ {c} = B \ {c}
  PROVE  /\ Cardinality(A) \in Nat /\ Cardinality(B) \in Nat
         /\ Cardinality(B) = Cardinality(A) + One(c \in B) - One(c \in A)
<1>1. IsFiniteSet(A) /\ IsFiniteSet(B)
  BY SetsAssumption, FS_Subset
<1>2. Cardinality(A) \in Nat /\ Cardinality(B) \in Nat
  BY <1>1, FS_CardinalityType
<1>3. CASE c \in A <=> c \in B
  <2>1. A = B
    BY <1>3
  <2> QED BY <1>2, <1>3, <2>1 DEF One
<1>4. CASE c \in A /\ c \notin B
  <2>1. A = B \cup {c}
    BY <1>4
  <2>2. Cardinality(A) = Cardinality(B) + 1
    BY <1>1, <1>4, <2>1, FS_AddElement
  <2> QED BY <1>2, <1>4, <2>2 DEF One
<1>5. CASE c \notin A /\ c \in B
  <2>1. B = A \cup {c}
    BY <1>5
  <2>2. Cardinality(B) = Cardinality(A) + 1
    BY <1>1, <1>5, <2>1, FS_AddElement
  <2> QED BY <1>2, <1>5, <2>2 DEF One
<1> QED BY <1>3, <1>4, <1>5

(* So the three counts of a session follow the request that moves. *)
LEMMA Tallies ==
  ASSUME NEW s, NEW c \in Clients, \A d \in Clients \ {c} : req'[d] = req[d]
  PROVE  /\ Cardinality(Coming(req, s)) \in Nat /\ Cardinality(Coming(req', s)) \in Nat
         /\ Cardinality(Owed(req, s)) \in Nat /\ Cardinality(Owed(req', s)) \in Nat
         /\ Cardinality(Served(req, s)) \in Nat /\ Cardinality(Served(req', s)) \in Nat
         /\ Cardinality(Coming(req', s)) =
              Cardinality(Coming(req, s)) + One(MayRecord(req'[c], s)) - One(MayRecord(req[c], s))
         /\ Cardinality(Owed(req', s)) =
              Cardinality(Owed(req, s)) + One(Recorded(req'[c], s)) - One(Recorded(req[c], s))
         /\ Cardinality(Served(req', s)) =
              Cardinality(Served(req, s)) + One(Open(req'[c], s)) - One(Open(req[c], s))
<1>1. /\ Coming(req, s) \in SUBSET Clients /\ Coming(req', s) \in SUBSET Clients
      /\ Coming(req, s) \ {c} = Coming(req', s) \ {c}
      /\ c \in Coming(req, s) <=> MayRecord(req[c], s)
      /\ c \in Coming(req', s) <=> MayRecord(req'[c], s)
  BY DEF Coming
<1>2. /\ Owed(req, s) \in SUBSET Clients /\ Owed(req', s) \in SUBSET Clients
      /\ Owed(req, s) \ {c} = Owed(req', s) \ {c}
      /\ c \in Owed(req, s) <=> Recorded(req[c], s)
      /\ c \in Owed(req', s) <=> Recorded(req'[c], s)
  BY DEF Owed
<1>3. /\ Served(req, s) \in SUBSET Clients /\ Served(req', s) \in SUBSET Clients
      /\ Served(req, s) \ {c} = Served(req', s) \ {c}
      /\ c \in Served(req, s) <=> Open(req[c], s)
      /\ c \in Served(req', s) <=> Open(req'[c], s)
  BY DEF Served
<1>4. /\ Cardinality(Coming(req, s)) \in Nat /\ Cardinality(Coming(req', s)) \in Nat
      /\ Cardinality(Coming(req', s)) =
           Cardinality(Coming(req, s)) + One(MayRecord(req'[c], s)) - One(MayRecord(req[c], s))
  BY <1>1, OneMoves DEF One
<1>5. /\ Cardinality(Owed(req, s)) \in Nat /\ Cardinality(Owed(req', s)) \in Nat
      /\ Cardinality(Owed(req', s)) =
           Cardinality(Owed(req, s)) + One(Recorded(req'[c], s)) - One(Recorded(req[c], s))
  BY <1>2, OneMoves DEF One
<1>6. /\ Cardinality(Served(req, s)) \in Nat /\ Cardinality(Served(req', s)) \in Nat
      /\ Cardinality(Served(req', s)) =
           Cardinality(Served(req, s)) + One(Open(req'[c], s)) - One(Open(req[c], s))
  BY <1>3, OneMoves DEF One
<1> QED BY <1>4, <1>5, <1>6

(* What the exchanges of a session become. *)
LEMMA ExchangeSteps ==
  ASSUME IInv, [Next]_vars, NEW s \in Sessions
  PROVE  \/ pairs'[s] = pairs[s] /\ answered'[s] = answered[s]
         \/ /\ pairs'[s] = 0 /\ answered'[s] = answered[s] /\ UNCHANGED <<req, created, now, requests>>
            /\ Halved(s)'
         \/ /\ pairs'[s] = pairs[s] + 1 /\ answered'[s] = answered[s]
            /\ UNCHANGED <<row, created, now, requests>>
            /\ \E c \in Clients : /\ GoesOn(c) /\ req[c].s = s /\ req[c].pc = "record"
                                  /\ req'[c].s = s /\ req'[c].pc \in {"recorded", "reply"}
         \/ /\ pairs'[s] = pairs[s] /\ answered'[s] = answered[s] + 1
            /\ UNCHANGED <<row, created, now, requests>>
            /\ \E c \in Clients : /\ GoesOn(c) /\ req[c].s = s /\ req[c].pc = "reply"
                                  /\ req'[c].pc = "idle"
<1>0. /\ req \in [Clients -> Requests] /\ pairs \in [Sessions -> Nat] /\ answered \in [Sessions -> Nat]
      /\ created \in [Sessions -> 0 .. now] /\ now \in Nat /\ purges \subseteq Purges /\ Retention \in Nat
      /\ RequestsOK /\ \A p \in purges : p.at <= now
  BY TimesAssumption DEF IInv, ShapesOK, RequestsOK, Counted, PurgesBehind
<1>1. ASSUME NEW p \in purges, PurgeStep(p), pairs'[s] # pairs[s]
      PROVE  /\ pairs'[s] = 0 /\ answered'[s] = answered[s] /\ UNCHANGED <<req, created, now, requests>>
             /\ Halved(s)'
  <2>1. /\ pairs'[s] = 0 /\ answered' = answered /\ UNCHANGED <<req, created, now, requests>>
        /\ p.step = 3 /\ Expired(p, s) /\ row'[s] = row[s]
    BY <1>0, <1>1 DEF PurgeStep, history
  <2>2. [p EXCEPT !.step = 4] \in purges'
    BY <1>1, <2>1 DEF PurgeStep, Moved
  <2>3. p \in Purges
    BY <1>0
  <2>4. /\ [p EXCEPT !.step = 4].step = 4 /\ [p EXCEPT !.step = 4].tenant = p.tenant
        /\ [p EXCEPT !.step = 4].at = p.at
    BY <2>3 DEF Purges
  <2>5. Expired([p EXCEPT !.step = 4], s)'
    BY <2>1, <2>4 DEF Expired, Exists
  <2> QED BY <2>1, <2>2, <2>4, <2>5 DEF Halved
<1>2. ASSUME NEW p \in purges, PurgeStep(p) \/ PurgeFails(p)
      PROVE  answered' = answered /\ (PurgeFails(p) => pairs' = pairs)
  BY <1>2 DEF PurgeStep, PurgeFails, history, tables
<1>3. ASSUME NEW c \in Clients,
             \/ Arrive(c) \/ MaybePurge(c) \/ Insert(c) \/ Read(c) \/ Close(c) \/ Rate(c) \/ Ask(c)
             \/ OpenEvent(c) \/ CloseEvent(c) \/ Escalation(c) \/ Refusal(c) \/ Refuse(c) \/ Fails(c)
      PROVE  pairs' = pairs /\ answered' = answered
  BY <1>3 DEF Arrive, MaybePurge, Insert, Read, Close, Rate, Ask, OpenEvent, CloseEvent, Escalation, Refusal,
              Event, Refuse, Fails, tables, history
<1>4. CASE Crash \/ Tick \/ UNCHANGED vars
  BY <1>4 DEF Crash, Tick, vars, tables, history
<1>5. ASSUME NEW c \in Clients, Record(c)
      PROVE  /\ pairs' = [pairs EXCEPT ![req[c].s] = @ + 1] /\ answered' = answered
             /\ UNCHANGED <<row, created, now, requests>>
             /\ GoesOn(c) /\ req[c].pc = "record"
             /\ req'[c].s = req[c].s /\ req'[c].pc \in {"recorded", "reply"}
  BY <1>0, <1>5, OthersGoOn, GoneTo DEF Record, At, Places
<1>6. ASSUME NEW c \in Clients, Reply(c)
      PROVE  /\ pairs' = pairs /\ answered' = [answered EXCEPT ![req[c].s] = @ + 1]
             /\ UNCHANGED <<row, created, now, requests>>
             /\ GoesOn(c) /\ req[c].pc = "reply" /\ req'[c].pc = "idle"
  BY <1>0, <1>6, OthersGoOn, Ended DEF Reply, At, tables
<1>7. CASE \E p \in purges : PurgeStep(p) \/ PurgeFails(p)
  BY <1>1, <1>2, <1>7
<1>8. CASE \E c \in Clients : Record(c)
  BY <1>0, <1>5, <1>8
<1>9. CASE \E c \in Clients : Reply(c)
  BY <1>0, <1>6, <1>9
<1> QED BY <1>3, <1>4, <1>7, <1>8, <1>9 DEF Next, ClientStep

(* Only recording takes a request past it. *)
LEMMA OnlyByRecording ==
  ASSUME IInv, [Next]_vars, NEW d \in Clients, req[d].pc = "record", req'[d].pc \in {"recorded", "reply"}
  PROVE  Record(d)
<1>0. RequestsOK /\ req \in [Clients -> Requests]
  BY DEF IInv, RequestsOK
<1>1. ASSUME NEW c \in Clients, ClientStep(c) \/ Fails(c) PROVE c = d
  <2>1. GoesOn(c)
    BY <1>0, <1>1, PurgeGoesOn, ReadGoesOn, OthersGoOn, FailureGoesOn DEF ClientStep
  <2> QED BY <2>1 DEF GoesOn
<1>2. ~Fails(d)
  <2>1. ASSUME Goto(d, "refused") PROVE FALSE
    BY <1>0, <2>1, GoneTo DEF Places
  <2>2. ASSUME End(d) PROVE FALSE
    BY <1>0, <2>2, Ended
  <2> QED BY <2>1, <2>2 DEF Fails
<1>3. ASSUME NEW c \in Clients PROVE ~Arrive(c)
  BY <1>0 DEF Arrive, At
<1>4. ~UNCHANGED vars /\ ~Tick /\ ~Crash
  BY IdleRequest DEF vars, Tick, Crash
<1>5. ASSUME NEW p \in purges PROVE ~PurgeStep(p) /\ ~PurgeFails(p)
  BY DEF PurgeStep, PurgeFails
<1>6. ClientStep(d)
  BY <1>1, <1>2, <1>3, <1>4, <1>5 DEF Next
<1> QED
  BY <1>6 DEF ClientStep, MaybePurge, Insert, Read, Close, Rate, Ask, OpenEvent, CloseEvent, Escalation, Refusal,
              Reply, Refuse, At

LEMMA Counts ==
  ASSUME NEW s
  PROVE  /\ Cardinality(Coming(req, s)) \in Nat /\ Cardinality(Served(req, s)) \in Nat
         /\ Cardinality(Owed(req, s)) \in Nat
BY FS_CardinalityType, FS_Subset, SetsAssumption DEF Coming, Served, Owed

(* The tables stay functions on the sessions. *)
LEMMA TablesStay ==
  ASSUME IInv, [Next]_vars
  PROVE  /\ row' \in [Sessions -> {"none", "bot", "closed", "gone"}]
         /\ \A T : (\A s \in Sessions : created'[s] \in T) => created' \in [Sessions -> T]
         /\ pairs' \in [Sessions -> Nat] /\ answered' \in [Sessions -> Nat]
<1>0. /\ req \in [Clients -> Requests] /\ created \in [Sessions -> 0 .. now] /\ now \in Nat
      /\ row \in [Sessions -> {"none", "bot", "closed", "gone"}]
      /\ pairs \in [Sessions -> Nat] /\ answered \in [Sessions -> Nat]
  BY DEF IInv, ShapesOK, Counted, RequestsOK
<1>a. created \in [Sessions -> Nat]
  BY <1>0
<1>1. ASSUME NEW p \in purges, PurgeStep(p) PROVE row' \in [Sessions -> {"none", "bot", "closed", "gone"}]
  BY <1>0, <1>1 DEF PurgeStep
<1>2. ASSUME NEW p \in purges, PurgeStep(p) PROVE pairs' \in [Sessions -> Nat]
  BY <1>0, <1>2 DEF PurgeStep
<1>3. ASSUME NEW p \in purges, PurgeStep(p) PROVE created' = created /\ answered' = answered
  BY <1>3 DEF PurgeStep, history
<1>4. ASSUME NEW p \in purges, PurgeFails(p)
      PROVE  row' = row /\ created' = created /\ pairs' = pairs /\ answered' = answered
  BY <1>4 DEF PurgeFails, tables
<1>5. ASSUME NEW c \in Clients, Insert(c)
      PROVE  /\ row' \in [Sessions -> {"none", "bot", "closed", "gone"}]
             /\ created' \in [Sessions -> Nat]
             /\ pairs' = pairs /\ answered' = answered
  BY <1>0, <1>5, <1>a DEF Insert, history
<1>6. ASSUME NEW c \in Clients, Close(c)
      PROVE  /\ row' \in [Sessions -> {"none", "bot", "closed", "gone"}]
             /\ created' = created /\ pairs' = pairs /\ answered' = answered
  BY <1>0, <1>6 DEF Close, history
<1>7. ASSUME NEW c \in Clients, Record(c) \/ Reply(c)
      PROVE  /\ row' = row /\ created' = created
             /\ pairs' \in [Sessions -> Nat] /\ answered' \in [Sessions -> Nat]
  BY <1>0, <1>7 DEF Record, Reply, tables
<1>8. ASSUME NEW c \in Clients,
             \/ Arrive(c) \/ MaybePurge(c) \/ Read(c) \/ Rate(c) \/ Ask(c) \/ OpenEvent(c)
             \/ CloseEvent(c) \/ Escalation(c) \/ Refusal(c) \/ Refuse(c) \/ Fails(c)
      PROVE  row' = row /\ created' = created /\ pairs' = pairs /\ answered' = answered
  BY <1>8 DEF Arrive, MaybePurge, Read, Rate, Ask, OpenEvent, CloseEvent, Escalation, Refusal, Event, Refuse,
              Fails, tables, history
<1>9. CASE Crash \/ Tick \/ UNCHANGED vars
  BY <1>0, <1>9 DEF Crash, Tick, vars, tables, history
<1>10. created' \in [Sessions -> Nat] =>
         \A T : (\A s \in Sessions : created'[s] \in T) => created' \in [Sessions -> T]
  OBVIOUS
<1> QED BY <1>0, <1>1, <1>2, <1>3, <1>4, <1>5, <1>6, <1>7, <1>8, <1>9, <1>10, <1>a DEF Next, ClientStep

LEMMA CountedStays ==
  ASSUME IInv, [Next]_vars PROVE Counted'
<1>0. /\ Counted /\ RequestsOK /\ req \in [Clients -> Requests] /\ now \in Nat
      /\ requests \in Nat /\ Retention \in Nat /\ MaxRequests \in Nat
      /\ row \in [Sessions -> {"none", "bot", "closed", "gone"}] /\ created \in [Sessions -> 0 .. now]
      /\ pairs \in [Sessions -> Nat] /\ answered \in [Sessions -> Nat]
  BY TimesAssumption DEF IInv, ShapesOK, Counted, RequestsOK
<1>1. now' \in Nat /\ now <= now'
  <2>1. now' = now \/ Tick
    BY ClocksMove
  <2> QED BY <1>0, <2>1 DEF Tick
<1>2. requests' = requests \/ \E c \in Clients : Arrive(c)
  BY DEF Next, ClientStep, MaybePurge, Insert, Read, Close, Rate, Ask, Record, OpenEvent, CloseEvent,
         Escalation, Refusal, Event, Reply, Refuse, Fails, PurgeStep, PurgeFails, Crash, Tick, vars
<1>3. requests' \in 0 .. MaxRequests
  BY <1>0, <1>2 DEF Counted, Arrive
<1>4. /\ row' \in [Sessions -> {"none", "bot", "closed", "gone"}] /\ created' \in [Sessions -> 0 .. now']
      /\ pairs' \in [Sessions -> Nat] /\ answered' \in [Sessions -> Nat]
  <2>1. \A s \in Sessions : created'[s] \in 0 .. now'
    BY <1>0, <1>1, RowSteps
  <2> QED BY <2>1, TablesStay
<1>5. ASSUME NEW s \in Sessions
      PROVE  /\ pairs'[s] + Cardinality(Coming(req', s)) <= requests'
             /\ answered'[s] + Cardinality(Served(req', s)) <= requests'
             /\ row'[s] = "none" => answered'[s] = 0
             /\ ~Halved(s)' => pairs'[s] >= answered'[s] + Cardinality(Owed(req', s))
  <2>0. /\ pairs[s] \in Nat /\ answered[s] \in Nat /\ created[s] \in 0 .. now /\ requests' \in Nat
        /\ pairs[s] + Cardinality(Coming(req, s)) <= requests
        /\ answered[s] + Cardinality(Served(req, s)) <= requests
        /\ row[s] = "none" => answered[s] = 0
        /\ ~Halved(s) => pairs[s] >= answered[s] + Cardinality(Owed(req, s))
    BY <1>0, <1>3 DEF Counted
  <2>1. Halved(s) => Halved(s)'
    BY HalvedStays
  <2>2. row'[s] = "none" => row[s] = "none"
    BY RowSteps
  <2>3. CASE \E c \in Clients : Arrive(c)
    <3>1. PICK c \in Clients : Arrive(c)
      BY <2>3
    <3>2. /\ req[c].pc = "idle" /\ requests' = requests + 1 /\ pairs' = pairs /\ answered' = answered
          /\ \A d \in Clients \ {c} : req'[d] = req[d]
          /\ req'[c].pc \in {"ask", "purge"}
      BY <1>0, <3>1 DEF Arrive, At, tables, history
    <3>3. ~MayRecord(req[c], s) /\ ~Open(req[c], s) /\ ~Recorded(req[c], s) /\ ~Recorded(req'[c], s)
      BY <3>2 DEF MayRecord, Open, Recorded
    <3> QED BY <1>0, <2>0, <2>1, <2>2, <3>2, <3>3, Tallies DEF One
  <2>4. CASE requests' = requests /\ UNCHANGED req
    <3>1. \A c \in Clients : req'[c].pc = req[c].pc
      BY <2>4
    <3>2. /\ answered'[s] = answered[s]
          /\ \/ pairs'[s] = pairs[s]
             \/ pairs'[s] = 0 /\ Halved(s)'
      BY <3>1, ExchangeSteps
    <3>3. /\ Coming(req', s) = Coming(req, s) /\ Served(req', s) = Served(req, s)
          /\ Owed(req', s) = Owed(req, s)
      BY <2>4
    <3>4. /\ Cardinality(Coming(req, s)) \in Nat /\ Cardinality(Served(req, s)) \in Nat
          /\ Cardinality(Owed(req, s)) \in Nat
      BY Counts
    <3> QED BY <1>0, <1>1, <2>0, <2>1, <2>2, <2>4, <3>2, <3>3, <3>4
  <2>5. ASSUME pairs'[s] = pairs[s] + 1, answered'[s] = answered[s], requests' = requests,
               NEW c \in Clients, GoesOn(c), req[c].s = s, req[c].pc = "record",
               req'[c].s = s, req'[c].pc \in {"recorded", "reply"}
        PROVE  /\ pairs'[s] + Cardinality(Coming(req', s)) <= requests'
               /\ answered'[s] + Cardinality(Served(req', s)) <= requests'
               /\ row'[s] = "none" => answered'[s] = 0
               /\ ~Halved(s)' => pairs'[s] >= answered'[s] + Cardinality(Owed(req', s))
    <3>1. /\ MayRecord(req[c], s) /\ ~MayRecord(req'[c], s)
          /\ Open(req[c], s)
          /\ ~Recorded(req[c], s) /\ Recorded(req'[c], s)
      BY <2>5 DEF MayRecord, Open, Recorded
    <3>2. \A d \in Clients \ {c} : req'[d] = req[d]
      BY <2>5 DEF GoesOn
    <3> QED BY <1>0, <2>0, <2>1, <2>2, <2>5, <3>1, <3>2, Tallies DEF One
  <2>6. ASSUME pairs'[s] = pairs[s], answered'[s] = answered[s] + 1, requests' = requests,
               NEW c \in Clients, GoesOn(c), req[c].s = s, req[c].pc = "reply", req'[c].pc = "idle"
        PROVE  /\ pairs'[s] + Cardinality(Coming(req', s)) <= requests'
               /\ answered'[s] + Cardinality(Served(req', s)) <= requests'
               /\ row'[s] = "none" => answered'[s] = 0
               /\ ~Halved(s)' => pairs'[s] >= answered'[s] + Cardinality(Owed(req', s))
    <3>1. /\ ~MayRecord(req'[c], s)
          /\ Open(req[c], s) /\ ~Open(req'[c], s)
          /\ Recorded(req[c], s) /\ ~Recorded(req'[c], s)
      BY <2>6 DEF MayRecord, Open, Recorded
    <3>2. \A d \in Clients \ {c} : req'[d] = req[d]
      BY <2>6 DEF GoesOn
    <3>3. row[s] # "none"
      BY <1>0, <2>6 DEF RequestsOK
    <3> QED BY <1>0, <2>0, <2>1, <2>2, <2>6, <3>1, <3>2, <3>3, Tallies DEF One
  <2>7. ASSUME pairs'[s] = pairs[s], answered'[s] = answered[s], requests' = requests,
               NEW c \in Clients, GoesOn(c)
        PROVE  /\ pairs'[s] + Cardinality(Coming(req', s)) <= requests'
               /\ answered'[s] + Cardinality(Served(req', s)) <= requests'
               /\ ~Halved(s)' => pairs'[s] >= answered'[s] + Cardinality(Owed(req', s))
    <3>1. ~(req[c].s = s /\ req[c].pc = "record" /\ req'[c].pc \in {"recorded", "reply"})
      BY <1>0, <2>0, <2>7, OnlyByRecording DEF Record
    <3>2. /\ MayRecord(req'[c], s) => MayRecord(req[c], s)
          /\ Open(req'[c], s) => Open(req[c], s)
          /\ Recorded(req'[c], s) => Recorded(req[c], s)
      BY <2>7, <3>1 DEF GoesOn, MayRecord, Open, Recorded
    <3>3. \A d \in Clients \ {c} : req'[d] = req[d]
      BY <2>7 DEF GoesOn
    <3>4. /\ Cardinality(Coming(req', s)) <= Cardinality(Coming(req, s))
          /\ Cardinality(Served(req', s)) <= Cardinality(Served(req, s))
          /\ Cardinality(Owed(req', s)) <= Cardinality(Owed(req, s))
      BY <3>2, <3>3, Tallies DEF One
    <3>5. /\ Cardinality(Coming(req', s)) \in Nat /\ Cardinality(Coming(req, s)) \in Nat
          /\ Cardinality(Served(req', s)) \in Nat /\ Cardinality(Served(req, s)) \in Nat
          /\ Cardinality(Owed(req', s)) \in Nat /\ Cardinality(Owed(req, s)) \in Nat
      BY <3>3, Tallies
    <3> QED BY <1>0, <2>0, <2>1, <2>7, <3>4, <3>5
  <2>8. CASE /\ pairs'[s] = pairs[s] /\ answered'[s] = answered[s] /\ requests' = requests
             /\ req' = [c \in Clients |-> NoRequest]
    <3>1. Coming(req', s) = {} /\ Served(req', s) = {} /\ Owed(req', s) = {}
      BY <2>8, IdleRequest DEF Coming, Served, Owed, MayRecord, Open, Recorded
    <3>2. /\ Cardinality(Coming(req', s)) = 0 /\ Cardinality(Served(req', s)) = 0
          /\ Cardinality(Owed(req', s)) = 0
      BY <3>1, FS_EmptySet
    <3>3. /\ Cardinality(Coming(req, s)) \in Nat /\ Cardinality(Served(req, s)) \in Nat
          /\ Cardinality(Owed(req, s)) \in Nat
      BY Counts
    <3> QED BY <1>0, <2>0, <2>1, <2>2, <2>8, <3>2, <3>3
  <2>9. CASE requests' = requests /\ ~UNCHANGED req
    <3>1. CASE pairs'[s] = pairs[s] /\ answered'[s] = answered[s]
      BY <1>0, <2>2, <2>3, <2>7, <2>8, <2>9, <3>1, RequestSteps, <2>0
    <3> QED BY <2>5, <2>6, <2>9, <3>1, ExchangeSteps
  <2> QED BY <1>2, <2>3, <2>4, <2>9
<1>6. \A s \in Sessions : Halved(s)' => row'[s] # "none" /\ created'[s] + Retention < now'
  BY HalvedIsOld
<1> QED BY <1>3, <1>4, <1>5, <1>6 DEF Counted

-----------------------------------------------------------------------------
LEMMA ShapesStay ==
  ASSUME IInv, [Next]_vars PROVE ShapesOK'
<1>0. /\ ShapesOK /\ req \in [Clients -> Requests] /\ MaxTime \in Nat
  BY TimesAssumption DEF IInv, RequestsOK
<1>1. now' \in 0 .. MaxTime /\ now <= now'
  <2>1. now' = now \/ Tick
    BY ClocksMove
  <2> QED BY <1>0, <2>1 DEF Tick, ShapesOK
<1>2. lastPurge' \in -1 .. now'
  <2>1. lastPurge' = lastPurge \/ lastPurge' = now \/ lastPurge' = -1
    BY ClocksMove
  <2> QED BY <1>0, <1>1, <2>1 DEF ShapesOK
<1>3. events' \in [Sessions -> SUBSET Kinds] /\ feedback' \in [Sessions -> BOOLEAN]
  <2>1. ASSUME NEW p \in purges, PurgeStep(p) PROVE events' \in [Sessions -> SUBSET Kinds]
    BY <1>0, <2>1 DEF PurgeStep, ShapesOK
  <2>2. ASSUME NEW p \in purges, PurgeStep(p) PROVE feedback' \in [Sessions -> BOOLEAN]
    BY <2>2 DEF PurgeStep
  <2>3. ASSUME NEW c \in Clients, NEW k \in Kinds, Event(c, k)
        PROVE  events' \in [Sessions -> SUBSET Kinds] /\ feedback' = feedback
    BY <1>0, <2>3 DEF Event, ShapesOK
  <2>4. ASSUME NEW c \in Clients, OpenEvent(c) \/ CloseEvent(c) \/ Escalation(c) \/ Refusal(c)
        PROVE  events' \in [Sessions -> SUBSET Kinds] /\ feedback' = feedback
    BY <2>3, <2>4 DEF OpenEvent, CloseEvent, Escalation, Refusal, Kinds
  <2>5. ASSUME NEW c \in Clients, Rate(c)
        PROVE  feedback' \in [Sessions -> BOOLEAN] /\ events' = events
    BY <1>0, <2>5 DEF Rate, ShapesOK
  <2>6. ASSUME NEW c \in Clients,
               \/ Arrive(c) \/ MaybePurge(c) \/ Insert(c) \/ Read(c) \/ Close(c) \/ Ask(c) \/ Record(c)
               \/ Reply(c) \/ Refuse(c) \/ Fails(c)
        PROVE  events' = events /\ feedback' = feedback
    BY <2>6 DEF Arrive, MaybePurge, Insert, Read, Close, Ask, Record, Reply, Refuse, Fails, tables
  <2>7. ASSUME NEW p \in purges, PurgeFails(p) PROVE events' = events /\ feedback' = feedback
    BY <2>7 DEF PurgeFails, tables
  <2>8. CASE Crash \/ Tick \/ UNCHANGED vars
    BY <1>0, <2>8 DEF Crash, Tick, vars, tables, ShapesOK
  <2> QED BY <1>0, <2>1, <2>2, <2>4, <2>5, <2>6, <2>7, <2>8 DEF Next, ClientStep, ShapesOK
<1>4. purges' \subseteq Purges
  BY PurgeSteps
<1>5. stray' \subseteq Sessions /\ spared' \subseteq Sessions
  BY Writes, SetsAssumption
<1>6. torn' \subseteq Sessions
  BY TornSteps, <1>0 DEF ShapesOK, Matched
<1> QED BY <1>1, <1>2, <1>3, <1>4, <1>5, <1>6 DEF ShapesOK

LEMMA InvInit == Init => IInv
<1> SUFFICES ASSUME Init PROVE IInv
  OBVIOUS
<1>1. ShapesOK
  BY TimesAssumption DEF Init, ShapesOK
<1>2. RequestsOK
  BY IdleRequest DEF Init, RequestsOK
<1>3. PurgesBehind /\ NothingLeftBehind
  BY DEF Init, PurgesBehind, NothingLeftBehind
<1>4. Counted
  <2>1. \A s \in Sessions : Coming(req, s) = {} /\ Served(req, s) = {} /\ Owed(req, s) = {}
    BY IdleRequest DEF Init, Coming, Served, Owed, MayRecord, Open, Recorded
  <2>2. \A s \in Sessions : /\ Cardinality(Coming(req, s)) = 0 /\ Cardinality(Served(req, s)) = 0
                            /\ Cardinality(Owed(req, s)) = 0
    BY <2>1, FS_EmptySet
  <2>3. \A s \in Sessions : ~Halved(s)
    BY DEF Init, Halved
  <2> QED BY <2>2, <2>3, TimesAssumption DEF Init, Counted
<1> QED BY <1>1, <1>2, <1>3, <1>4 DEF IInv

LEMMA InvNext == IInv /\ [Next]_vars => IInv'
BY ShapesStay, CountedStays, RequestsStay, PurgesStay DEF IInv

LEMMA Invariance == Spec => []IInv
BY InvInit, InvNext, PTL DEF Spec

(* Every variable has the shape the code gives it; and no session ever has  *)
(* more exchanges, or more answers, than there were requests.               *)
THEOREM TypeCorrect == Spec => []TypeOK
<1>1. IInv => TypeOK
  <2> SUFFICES ASSUME IInv PROVE TypeOK
    OBVIOUS
  <2>1. \A c \in Clients : req[c].op \in AllOps /\ req[c].s \in Sessions /\ req[c].biz \in BOOLEAN
    BY DEF IInv, RequestsOK, Requests
  <2>2. \A s \in Sessions : pairs[s] \in 0 .. MaxRequests /\ answered[s] \in 0 .. MaxRequests
    BY Counts, TimesAssumption DEF IInv, Counted
  <2> QED BY <2>1, <2>2 DEF IInv, ShapesOK, Counted, TypeOK
<1> QED BY <1>1, Invariance, PTL

(* However many purges are at work, wherever each of them stopped, and      *)
(* whatever requests do meanwhile: a session that is gone took its          *)
(* messages, events and feedback with it, unless a request wrote for it     *)
(* behind the purge or a statement of the purge failed.                     *)
THEOREM PurgesLeaveNothing == Spec => []NothingLeftBehind
<1>1. IInv => NothingLeftBehind
  BY DEF IInv
<1> QED BY <1>1, Invariance, PTL

(* A session has every exchange that was answered in it, at any age, but    *)
(* for one whose retention is over and that a purge is about to remove or   *)
(* was stopped before removing.                                             *)
THEOREM AnswersAreKept == Spec => []AnsweredIsKept
<1>1. ASSUME IInv, NEW s \in Sessions, Exists(s), pairs[s] < answered[s]
      PROVE  /\ created[s] + Retention < now
             /\ s \in torn \/ \E p \in purges : p.step = 4 /\ Expired(p, s)
  <2>1. /\ pairs[s] \in Nat /\ answered[s] \in Nat /\ Cardinality(Owed(req, s)) \in Nat
        /\ ~Halved(s) => pairs[s] >= answered[s] + Cardinality(Owed(req, s))
        /\ Halved(s) => created[s] + Retention < now
    BY <1>1, Counts DEF IInv, Counted
  <2>2. Halved(s)
    BY <1>1, <2>1
  <2> QED BY <1>1, <2>1, <2>2 DEF Halved, Exists
<1>2. IInv => AnsweredIsKept
  BY <1>1 DEF AnsweredIsKept
<1> QED BY <1>2, Invariance, PTL

(* A closed session is never opened again, and only a request that read it  *)
(* before it was closed adds an exchange to it.                             *)
THEOREM ClosedStaysClosed == Spec => ClosedForGood
<1>1. ASSUME IInv, [Next]_vars, NEW s \in Sessions, row[s] = "closed"
      PROVE  /\ row'[s] \in {"closed", "gone"}
             /\ pairs'[s] > pairs[s] => \E c \in Clients : req[c].s = s /\ req[c].pc = "record"
  <2>1. row'[s] \in {"closed", "gone"}
    BY <1>1, RowSteps
  <2>2. ASSUME pairs'[s] > pairs[s] PROVE \E c \in Clients : req[c].s = s /\ req[c].pc = "record"
    <3>1. pairs[s] \in Nat
      BY <1>1 DEF IInv, Counted
    <3> QED BY <1>1, <2>2, <3>1, ExchangeSteps
  <2> QED BY <2>1, <2>2
<1>2. IInv /\ [Next]_vars =>
        [\A s \in Sessions :
           row[s] = "closed" =>
             /\ row'[s] \in {"closed", "gone"}
             /\ pairs'[s] > pairs[s] => \E c \in Clients : req[c].s = s /\ req[c].pc = "record"]_vars
  BY <1>1
<1>3. QED
  BY <1>2, Invariance, PTL DEF Spec, ClosedForGood
=============================================================================
