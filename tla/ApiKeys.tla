------------------------------ MODULE ApiKeys ------------------------------
(***************************************************************************)
(* One API key of a tenant (internal/apimgmt/biz, internal/apimgmt/data):  *)
(* the console creates, updates, rotates, revokes and deletes it; callers  *)
(* present it, or its public chat id, and pass the counters in Redis.      *)
(* Every statement sent to MySQL and every command sent to Redis is one    *)
(* step, so two administrators and several callers interleave between      *)
(* them.                                                                   *)
(*                                                                         *)
(* A raw key is a number, in the order generateAPIKey made them; its hash  *)
(* is the same number.  The clock ticks in seconds.                        *)
(***************************************************************************)
EXTENDS Naturals, FiniteSets, Functions

CONSTANTS
  Admins,       \* console requests at work at the same time
  Callers,      \* calls at work at the same time
  NoRow, Nobody,
  Limits,       \* values of qps_limit and quota_daily; 0 is no limit
  Scopes,       \* operations a key can be allowed
  NewKeys,      \* settings a key is created with
  Patches,      \* the fields an update sends: functions from names to values
  TenantQps, TenantQuota,     \* options of the process, 0 is no limit
  Grace,        \* rotation grace
  Day,          \* seconds of a day
  QpsTtl, QuotaTtl,           \* lives of the counters
  MaxTime, MaxKeys, MaxOps, MaxCalls, MaxFaults   \* bounds

Statuses == {"active", "revoked"}
Settings == [status : Statuses, qps : Limits, quota : Limits, chat : BOOLEAN, scopes : SUBSET Scopes]

(* f with v at x, and the fields that p sets put in the places of s. *)
With(f, x, v)  == [y \in DOMAIN f \cup {x} |-> IF y = x THEN v ELSE f[y]]
Overlaid(p, s) == [f \in DOMAIN s |-> IF f \in DOMAIN p THEN p[f] ELSE s[f]]

ASSUME CallersAssumption == IsFiniteSet(Callers)
ASSUME LimitsAssumption == Limits \subseteq Nat /\ TenantQps \in Nat /\ TenantQuota \in Nat
ASSUME PatchesAssumption ==
  /\ NewKeys \subseteq Settings
  /\ \A p \in Patches, s \in Settings : Overlaid(p, s) \in Settings
ASSUME TimesAssumption ==
  /\ Grace \in Nat /\ Day \in Nat \ {0} /\ QpsTtl \in Nat \ {0} /\ QuotaTtl \in Nat \ {0}
  /\ MaxTime \in Nat /\ MaxKeys \in Nat /\ MaxOps \in Nat /\ MaxCalls \in Nat /\ MaxFaults \in Nat
ASSUME NobodyAssumption == Nobody \notin Admins

VARIABLES
  now,      \* the clock
  row,      \* the api_key row, or NoRow
  lock,     \* the administrator whose transaction holds the row, or Nobody
  adm,      \* console requests: where they are and what they have read
  made,     \* raw keys generated
  chats,    \* public chat ids generated
  held,     \* raw keys that reached the tenant in an answer
  retired,  \* history: the end of each replaced key's grace and its successor
  call,     \* calls: where they are and the row they resolved
  redis,    \* the counters, by name and window
  passed,   \* history: who passed which counter in its window
  ops, calls, faults  \* used up so far

keyVars   == <<row, lock, adm, made, chats, held, retired, ops>>
callVars  == <<call, redis, passed, calls>>
vars      == <<now, keyVars, callVars, faults>>

RawKeys == 0 .. MaxKeys      \* 0: none
Times   == 0 .. MaxTime + Grace

NoSettings == [status |-> "revoked", qps |-> 0, quota |-> 0, chat |-> FALSE, scopes |-> {}]
IdleAdmin  == [pc |-> "idle", settings |-> NoSettings, patch |-> <<>>, key |-> 0, prev |-> 0, until |-> 0]
IdleCall   == [pc |-> "idle", settings |-> NoSettings, scope |-> "none", at |-> 0, counter |-> 0]

Init ==
  /\ now = 0 /\ row = NoRow /\ lock = Nobody
  /\ adm = [a \in Admins |-> IdleAdmin]
  /\ made = 0 /\ chats = 0 /\ held = {} /\ retired = <<>>
  /\ call = [c \in Callers |-> IdleCall]
  /\ redis = <<>> /\ passed = <<>>
  /\ ops = 0 /\ calls = 0 /\ faults = 0

-----------------------------------------------------------------------------
(* The console, biz/apimgmt.go.                                             *)

(* A request begins; MaxOps bounds how many there are. *)
NewOp(a) == adm[a].pc = "idle" /\ ops < MaxOps /\ ops' = ops + 1

(* A write statement waits while a transaction holds the row. *)
RowFree == lock = Nobody

(* The settings of a new key are the request's or the defaults; the answer  *)
(* with the raw key may be lost.                                            *)
Create(a) ==
  \E s \in NewKeys, answered \in BOOLEAN :
    /\ NewOp(a) /\ made = 0 /\ made < MaxKeys
    /\ made' = 1 /\ chats' = 1
    /\ row' = [settings |-> s, hash |-> 1, prev |-> 0, until |-> 0, chatId |-> 1]
    /\ held' = IF answered THEN {1} ELSE {}
    /\ UNCHANGED <<now, lock, adm, retired, callVars, faults>>

(* UpdateAPIKey reads the row ... *)
UpdateReads(a) ==
  \E p \in Patches :
    /\ NewOp(a) /\ row # NoRow
    /\ adm' = [adm EXCEPT ![a].pc = "write", ![a].patch = p, ![a].settings = row.settings]
    /\ UNCHANGED <<now, row, lock, made, chats, held, retired, callVars, faults>>

(* A plausible slip: a status that was not sent counts as active. *)
PatchedActive(a) == Overlaid(adm[a].patch, [adm[a].settings EXCEPT !.status = "active"])

(* ... puts the fields the request sent in their places ... *)
Patched(a) == Overlaid(adm[a].patch, adm[a].settings)

(* ... and writes all of them back; a row that is gone is answered 404. *)
UpdateWrites(a) ==
  /\ adm[a].pc = "write" /\ RowFree
  /\ row' = IF row = NoRow THEN NoRow ELSE [row EXCEPT !.settings = Patched(a)]
  /\ adm' = [adm EXCEPT ![a] = IdleAdmin]
  /\ UNCHANGED <<now, lock, made, chats, held, retired, callVars, faults, ops>>

Delete(a) ==
  /\ NewOp(a) /\ RowFree /\ row # NoRow
  /\ row' = NoRow
  /\ UNCHANGED <<now, lock, adm, made, chats, held, retired, callVars, faults>>

RegeneratePublicChatID(a) ==
  /\ NewOp(a) /\ RowFree /\ row # NoRow
  /\ chats' = chats + 1
  /\ row' = [row EXCEPT !.chatId = chats + 1]
  /\ UNCHANGED <<now, lock, adm, made, held, retired, callVars, faults>>

(* RotateAPIKey makes the key and fixes the end of the grace period ... *)
RotateBegins(a) ==
  /\ NewOp(a) /\ made \in 1 .. MaxKeys - 1
  /\ made' = made + 1
  /\ adm' = [adm EXCEPT ![a].pc = "lock", ![a].key = made + 1, ![a].until = now + Grace]
  /\ UNCHANGED <<now, row, lock, chats, held, retired, callVars, faults>>

(* A plausible slip: the hash is read without FOR UPDATE. *)
RotateLocksNothing(a) ==
  /\ adm[a].pc = "lock"
  /\ IF row = NoRow
     THEN adm' = [adm EXCEPT ![a] = IdleAdmin]
     ELSE adm' = [adm EXCEPT ![a].pc = "commit", ![a].prev = row.hash]
  /\ UNCHANGED <<now, row, lock, made, chats, held, retired, callVars, faults, ops>>

(* ... SELECT key_hash ... FOR UPDATE ... *)
RotateLocks(a) ==
  /\ adm[a].pc = "lock" /\ RowFree
  /\ IF row = NoRow
     THEN adm' = [adm EXCEPT ![a] = IdleAdmin] /\ UNCHANGED lock
     ELSE adm' = [adm EXCEPT ![a].pc = "commit", ![a].prev = row.hash] /\ lock' = a
  /\ UNCHANGED <<now, row, made, chats, held, retired, callVars, faults, ops>>

(* ... UPDATE and COMMIT: the key before stays for the grace period, the    *)
(* one before that goes, the status becomes active ...                      *)
RotateCommits(a) ==
  /\ adm[a].pc = "commit" /\ row # NoRow
  /\ row' = [settings |-> [row.settings EXCEPT !.status = "active"], hash |-> adm[a].key,
             prev |-> adm[a].prev, until |-> adm[a].until, chatId |-> row.chatId]
  /\ retired' = With(retired, row.hash, [until |-> adm[a].until, by |-> adm[a].key])
  /\ lock' = Nobody
  /\ adm' = [adm EXCEPT ![a].pc = "answer"]
  /\ UNCHANGED <<now, made, chats, held, callVars, faults, ops>>

(* ... and the row is read once more for the answer that carries the key.   *)
RotateAnswers(a) ==
  /\ adm[a].pc = "answer"
  /\ held' = IF row = NoRow THEN held ELSE held \cup {adm[a].key}
  /\ adm' = [adm EXCEPT ![a] = IdleAdmin]
  /\ UNCHANGED <<now, row, lock, made, chats, retired, callVars, faults, ops>>

(* A statement fails, or the process dies: the transaction is rolled back   *)
(* and the answer, the new key with it, is lost.                            *)
OpFails(a) ==
  /\ adm[a].pc # "idle" /\ faults < MaxFaults
  /\ faults' = faults + 1
  /\ lock' = IF lock = a THEN Nobody ELSE lock
  /\ adm' = [adm EXCEPT ![a] = IdleAdmin]
  /\ UNCHANGED <<now, row, made, chats, held, retired, callVars, ops>>

-----------------------------------------------------------------------------
(* A call: ResolveAPIKey or the public chat id, then rateLimiter.Check.     *)

Current(k) == row # NoRow /\ row.hash = k
InGrace(k) == row # NoRow /\ row.prev = k /\ now < row.until

(* GetAPIKeyByHash finds the row, and the key is active. *)
Opens(k)      == k # 0 /\ (Current(k) \/ InGrace(k)) /\ row.settings.status = "active"
ChatOpens(id) == row # NoRow /\ row.chatId = id /\ row.settings.status = "active" /\ row.settings.chat

(* The counters in the order Check takes them; a window, a second or a day, *)
(* is known by its beginning.                                               *)
Counters == <<"key qps", "tenant qps", "key quota", "tenant quota">>
Places   == DOMAIN Counters

LimitOf(settings, i) ==
  CASE i = 1 -> settings.qps [] i = 2 -> TenantQps [] i = 3 -> settings.quota [] i = 4 -> TenantQuota
Window(i, t) == IF i \in {1, 2} THEN t ELSE t - (t % Day)
Ttl(i)       == IF i \in {1, 2} THEN QpsTtl ELSE QuotaTtl

(* The first counter from place i on that has a limit, or 5. *)
NextCounter(settings, i) ==
  LET limited == {j \in Places : j >= i /\ LimitOf(settings, j) > 0}
  IN IF limited = {} THEN 5 ELSE CHOOSE j \in limited : \A k \in limited : j <= k

(* What the caller presented is good: the row it found travels with the     *)
(* call from here on.                                                       *)
Resolved(c, scope) ==
  /\ call[c].pc = "idle" /\ calls < MaxCalls
  /\ calls' = calls + 1
  /\ call' = [call EXCEPT ![c] = [IdleCall EXCEPT !.pc = "resolved", !.settings = row.settings,
                                                  !.scope = scope]]
  /\ UNCHANGED <<now, keyVars, redis, passed, faults>>

(* Anything else is answered 401, or 403 when the public chat is off. *)
PresentKey(c)  == \E k \in 1 .. made, s \in Scopes : Opens(k) /\ Resolved(c, s)
PresentChat(c) == \E id \in 1 .. chats, s \in Scopes : ChatOpens(id) /\ Resolved(c, s)

(* Check takes the time once; the windows of all counters follow from it.   *)
CheckBegins(c) ==
  /\ call[c].pc = "resolved"
  /\ call' = [call EXCEPT ![c].pc = "check", ![c].at = now,
                          ![c].counter = NextCounter(call[c].settings, 1)]
  /\ UNCHANGED <<now, keyVars, redis, passed, calls, faults>>

(* The counter a call is at. *)
Name(c) == <<call[c].counter, Window(call[c].counter, call[c].at)>>
Count(name) == IF name \in DOMAIN redis THEN redis[name].n ELSE 0

(* INCR, and EXPIRE when it was the first. *)
Incremented(c) ==
  With(redis, Name(c),
       [n     |-> Count(Name(c)) + 1,
        until |-> IF Count(Name(c)) = 0 THEN now + Ttl(call[c].counter) ELSE redis[Name(c)].until])

(* On to the next counter. *)
Pass(c) ==
  call' = [call EXCEPT ![c].counter = NextCounter(call[c].settings, @ + 1)]

(* The history keeps the calls that came before the counter of their window *)
(* can have expired, with the highest limit any of them knew.               *)
Recorded(c) ==
  IF now >= Name(c)[2] + Ttl(call[c].counter) THEN passed ELSE
  LET limit == LimitOf(call[c].settings, call[c].counter)
      old   == IF Name(c) \in DOMAIN passed THEN passed[Name(c)] ELSE [n |-> 0, top |-> 0]
  IN With(passed, Name(c), [n |-> old.n + 1, top |-> IF limit > old.top THEN limit ELSE old.top])

(* A plausible slip: the count before the increment is compared. *)
CountsOffByOne(c) ==
  /\ call[c].pc = "check" /\ call[c].counter \in Places
  /\ redis' = Incremented(c)
  /\ IF Count(Name(c)) > LimitOf(call[c].settings, call[c].counter)
     THEN call' = [call EXCEPT ![c] = IdleCall] /\ UNCHANGED passed
     ELSE Pass(c) /\ passed' = Recorded(c)
  /\ UNCHANGED <<now, keyVars, calls, faults>>

(* checkLimit: over the limit the call is answered 429, and what it has     *)
(* counted stays counted.                                                   *)
Counts(c) ==
  /\ call[c].pc = "check" /\ call[c].counter \in Places
  /\ redis' = Incremented(c)
  /\ IF Count(Name(c)) + 1 > LimitOf(call[c].settings, call[c].counter)
     THEN call' = [call EXCEPT ![c] = IdleCall] /\ UNCHANGED passed
     ELSE Pass(c) /\ passed' = Recorded(c)
  /\ UNCHANGED <<now, keyVars, calls, faults>>

(* The increment fails, with or without its effect: the call goes on. *)
CountFails(c) ==
  /\ call[c].pc = "check" /\ call[c].counter \in Places /\ faults < MaxFaults
  /\ faults' = faults + 1
  /\ redis' \in {redis, Incremented(c)}
  /\ Pass(c)
  /\ UNCHANGED <<now, keyVars, passed, calls>>

(* All counters passed: last_used_at is written, whatever comes of it, and  *)
(* the scopes of the row the call resolved decide.                          *)
Authorized(c) ==
  /\ call[c].pc = "check" /\ call[c].counter = 5
  /\ call' = [call EXCEPT ![c] = IF call[c].scope \in call[c].settings.scopes
                                 THEN [@ EXCEPT !.pc = "served"] ELSE IdleCall]
  /\ UNCHANGED <<now, keyVars, redis, passed, calls, faults>>

Leaves(c) ==
  /\ call[c].pc = "served"
  /\ call' = [call EXCEPT ![c] = IdleCall]
  /\ UNCHANGED <<now, keyVars, redis, passed, calls, faults>>

(* A call with another key of the same tenant uses the tenant's counters.   *)
OtherKeyCalls ==
  /\ calls < MaxCalls /\ calls' = calls + 1
  /\ \E i \in {2, 4} :
       LET name == <<i, Window(i, now)>> IN
       /\ LimitOf(NoSettings, i) > 0
       /\ redis' = With(redis, name,
                        [n     |-> Count(name) + 1,
                         until |-> IF Count(name) = 0 THEN now + Ttl(i) ELSE redis[name].until])
  /\ UNCHANGED <<now, keyVars, call, passed, faults>>

-----------------------------------------------------------------------------
(* A second passes; Redis drops what has expired. *)
Tick ==
  /\ now < MaxTime
  /\ now' = now + 1
  /\ redis' = Restrict(redis, {name \in DOMAIN redis : redis[name].until > now + 1})
  /\ UNCHANGED <<keyVars, call, passed, calls, faults>>

AdminStep(a) ==
  \/ Create(a) \/ UpdateReads(a) \/ UpdateWrites(a) \/ Delete(a) \/ RegeneratePublicChatID(a)
  \/ RotateBegins(a) \/ RotateLocks(a) \/ RotateCommits(a) \/ RotateAnswers(a) \/ OpFails(a)
CallStep(c) ==
  \/ PresentKey(c) \/ PresentChat(c) \/ CheckBegins(c) \/ Counts(c) \/ CountFails(c)
  \/ Authorized(c) \/ Leaves(c)

Next ==
  \/ \E a \in Admins : AdminStep(a)
  \/ \E c \in Callers : CallStep(c)
  \/ OtherKeyCalls
  \/ Tick

Spec == Init /\ [][Next]_vars

-----------------------------------------------------------------------------
Rows == [settings : Settings, hash : 1 .. MaxKeys, prev : RawKeys, until : Times, chatId : 1 .. 1 + MaxOps]

(* Every variable has the shape the code gives it: the row, what requests   *)
(* in the console and calls have read of it, the counters of Redis.         *)
TypeOK ==
  /\ now \in 0 .. MaxTime
  /\ row = NoRow \/ row \in Rows
  /\ lock \in Admins \cup {Nobody}
  /\ made \in RawKeys /\ chats \in 0 .. 1 + MaxOps /\ held \subseteq 1 .. made
  /\ \A a \in Admins :
       /\ adm[a].pc \in {"idle", "write", "lock", "commit", "answer"}
       /\ adm[a].settings \in Settings \cup {NoSettings}
       /\ adm[a].key \in RawKeys /\ adm[a].prev \in RawKeys /\ adm[a].until \in Times
       /\ lock = a => adm[a].pc = "commit"
  /\ \A c \in Callers :
       /\ call[c].pc \in {"idle", "resolved", "check", "served"}
       /\ call[c].settings \in Settings \cup {NoSettings}
       /\ call[c].at \in 0 .. now /\ call[c].counter \in 0 .. 5
  /\ \A name \in DOMAIN redis : redis[name].n \in 1 .. MaxCalls

(* A key that a rotation replaced opens until the end of the grace period   *)
(* that rotation gave it and no longer, provided its successor has not been *)
(* replaced too; the newest key opens for ever; no other key opens.  Two    *)
(* rotations at once must not lose the key of the first (SELECT ... FOR     *)
(* UPDATE in RotateKey), and an update that writes the row back must not    *)
(* disturb the hashes.                                                      *)
KeysInForce ==
  row # NoRow /\ row.settings.status = "active" =>
    \A k \in held :
      Opens(k) <=> (k \in DOMAIN retired => /\ now < retired[k].until
                                            /\ retired[k].by \notin DOMAIN retired)

(* Once the key is revoked, and no request under way rotates it or will     *)
(* write back a status that is active, no step opens it again.              *)
Reopening(a) ==
  \/ adm[a].pc \in {"lock", "commit"}
  \/ adm[a].pc = "write" /\ IF "status" \in DOMAIN adm[a].patch
                            THEN adm[a].patch.status = "active"
                            ELSE adm[a].settings.status = "active"
Shut == row # NoRow /\ row.settings.status = "revoked" /\ \A a \in Admins : ~Reopening(a)
RevokedStaysShut ==
  [][Shut => row' = NoRow \/ row'.settings.status = "revoked"]_vars

(* In a window no more calls pass a counter, by key or by public chat id,   *)
(* than the highest limit any of them was held to, whatever limits updates  *)
(* set meanwhile and however the calls interleave; increments that failed   *)
(* and calls that reach a counter after its life are not counted.           *)
AdmittedWithinLimit ==
  \A name \in DOMAIN passed : passed[name].n <= passed[name].top

=============================================================================
