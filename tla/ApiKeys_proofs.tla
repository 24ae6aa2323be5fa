--------------------------- MODULE ApiKeys_proofs ---------------------------
(***************************************************************************)
(* Proofs about ApiKeys: which raw keys open, that a revoked key stays     *)
(* shut, and that the counters hold, for any number of administrators,     *)
(* callers, rotations, updates and faults.                                 *)
(***************************************************************************)
EXTENDS ApiKeys, FiniteSetTheorems, TLAPS

(* The places a console request is at, and what it has read there.  The     *)
(* transaction that has the row read its hash, and nobody changed it since. *)
AdminsOK ==
  /\ DOMAIN adm = Admins /\ lock \in Admins \cup {Nobody}
  /\ \A a \in Admins :
       /\ adm[a].pc \in {"idle", "write", "lock", "commit", "answer"}
       /\ adm[a].settings \in Settings \cup {NoSettings}
       /\ adm[a].key \in RawKeys /\ adm[a].prev \in RawKeys /\ adm[a].until \in Times
       /\ adm[a].pc = "write" => adm[a].patch \in Patches /\ adm[a].settings \in Settings
       /\ lock = a <=> adm[a].pc = "commit"
       /\ adm[a].pc = "commit" => row # NoRow /\ adm[a].prev = row.hash

(* The row, and the counts of what was generated. *)
RowOK ==
  /\ now \in 0 .. MaxTime /\ made \in RawKeys /\ ops \in 0 .. MaxOps /\ chats \in 0 .. ops
  /\ row = NoRow \/ (row \in Rows /\ row.hash <= made)
  /\ held \subseteq 1 .. made /\ DOMAIN retired \subseteq 1 .. made

(* A key is made once: until its rotation is committed nobody knows it and  *)
(* it has replaced none.                                                    *)
Pending(a) == adm[a].pc \in {"lock", "commit"}
KeysFresh ==
  /\ \A a \in Admins :
       /\ Pending(a) \/ adm[a].pc = "answer" => adm[a].key \in 1 .. made
       /\ Pending(a) => /\ adm[a].key \notin DOMAIN retired \cup held
                        /\ row # NoRow => row.hash # adm[a].key
  /\ \A a, b \in Admins : a # b /\ Pending(a) /\ Pending(b) => adm[a].key # adm[b].key

(* The rotations form a chain that ends in the row: its hash was replaced   *)
(* by nobody, its previous hash by its hash, with the grace it still        *)
(* carries, and every earlier key by one that was replaced as well.  A key  *)
(* that reached the tenant is on the chain.                                 *)
Chained ==
  /\ row # NoRow =>
       /\ row.hash \notin DOMAIN retired
       /\ row.prev # 0 => row.prev \in DOMAIN retired /\ retired[row.prev] = [until |-> row.until, by |-> row.hash]
       /\ \A k \in DOMAIN retired \ {row.prev} : retired[k].by \in DOMAIN retired
       /\ held \subseteq DOMAIN retired \cup {row.hash}
  /\ \A a \in Admins : adm[a].pc = "answer" /\ row # NoRow => adm[a].key \in DOMAIN retired \cup {row.hash}

KeyInv == AdminsOK /\ RowOK /\ KeysFresh /\ Chained

(* What a call carries. *)
CallsOK ==
  /\ DOMAIN call = Callers
  /\ \A c \in Callers :
       /\ call[c].pc \in {"idle", "resolved", "check", "served"}
       /\ call[c].settings \in Settings \cup {NoSettings}
       /\ call[c].at \in 0 .. now /\ call[c].counter \in 0 .. 5

(* A counter outlives its window by the whole of its life, and until then   *)
(* it has counted every call that the history has passing it.               *)
Names == Places \X Nat
CountersLive ==
  /\ DOMAIN redis \subseteq Names
  /\ \A name \in DOMAIN redis :
       redis[name].n \in Nat /\ redis[name].until \in Nat /\ redis[name].until >= name[2] + Ttl(name[1])
PassesCounted ==
  /\ DOMAIN passed \subseteq Names
  /\ \A name \in DOMAIN passed :
       /\ passed[name].n \in Nat /\ passed[name].top \in Nat /\ passed[name].n <= passed[name].top
       /\ now < name[2] + Ttl(name[1]) => passed[name].n <= Count(name)

(* A call counts at a place once, so no counter exceeds the calls there     *)
(* were.                                                                    *)
Before(r, i)  == r.pc = "resolved" \/ (r.pc = "check" /\ r.counter <= i)
Coming(q, i)  == {c \in Callers : Before(q[c], i)}
CountsBounded ==
  /\ calls \in 0 .. MaxCalls
  /\ \A i \in Places : Cardinality(Coming(call, i)) <= calls
  /\ \A name \in DOMAIN redis :
       redis[name].n # 0 /\ redis[name].n + Cardinality(Coming(call, name[1])) <= calls

IInv == KeyInv /\ CallsOK /\ CountersLive /\ PassesCounted /\ CountsBounded

-----------------------------------------------------------------------------
(* Steps of the console.                                                    *)

LEMMA RowSettings ==
  ASSUME NEW r \in Rows
  PROVE  /\ r.settings \in Settings /\ r.hash \in Nat \ {0} /\ r.prev \in RawKeys /\ r.until \in Times
         /\ r.settings.status \in Statuses
BY TimesAssumption DEF Rows, Settings

LEMMA CommitRow ==
  ASSUME NEW r \in Rows, NEW k \in 1 .. MaxKeys, NEW p \in RawKeys, NEW u \in Times
  PROVE  [settings |-> [r.settings EXCEPT !.status = "active"], hash |-> k, prev |-> p, until |-> u,
          chatId |-> r.chatId] \in Rows
<1>1. r.settings \in Settings /\ r.chatId \in 1 .. 1 + MaxOps
  BY DEF Rows
<1>2. [r.settings EXCEPT !.status = "active"] \in Settings
  BY <1>1 DEF Settings, Statuses
<1> QED BY <1>1, <1>2 DEF Rows

(* The settings an update writes are those of a key. *)
LEMMA PatchedSettings ==
  ASSUME NEW a, adm[a].patch \in Patches, adm[a].settings \in Settings
  PROVE  Patched(a) \in Settings
BY PatchesAssumption DEF Patched

LEMMA IdleTypes ==
  /\ IdleAdmin.pc = "idle" /\ IdleAdmin.settings = NoSettings
  /\ IdleAdmin.key \in RawKeys /\ IdleAdmin.prev \in RawKeys /\ IdleAdmin.until \in Times
BY TimesAssumption DEF IdleAdmin, RawKeys, Times

(* Calls and the clock leave the keys alone. *)
LEMMA KeysElsewhere ==
  ASSUME [Next]_vars, \A a \in Admins : ~AdminStep(a)
  PROVE  UNCHANGED keyVars
BY DEF Next, CallStep, PresentKey, PresentChat, Resolved, CheckBegins, Counts, CountFails, Authorized, Leaves,
       OtherKeyCalls, Tick, vars

LEMMA ClockSteps ==
  ASSUME [Next]_vars PROVE now' = now \/ Tick
BY DEF Next, AdminStep, Create, UpdateReads, UpdateWrites, Delete, RegeneratePublicChatID, RotateBegins,
       RotateLocks, RotateCommits, RotateAnswers, OpFails, CallStep, PresentKey, PresentChat, Resolved,
       CheckBegins, Counts, CountFails, Authorized, Leaves, OtherKeyCalls, vars

LEMMA AdminsStay ==
  ASSUME KeyInv, [Next]_vars
  PROVE  AdminsOK' /\ RowOK'
<1> USE DEF KeyInv
<1>0. /\ now \in Nat /\ MaxTime \in Nat /\ MaxKeys \in Nat /\ MaxOps \in Nat /\ Grace \in Nat
      /\ Nobody \notin Admins
  BY TimesAssumption, NobodyAssumption DEF RowOK
<1>1. now' \in 0 .. MaxTime
  BY <1>0, ClockSteps DEF Tick, RowOK
<1>2. ASSUME NEW a \in Admins, Create(a) PROVE AdminsOK' /\ RowOK'
  <2>1. PICK s \in NewKeys, answered \in BOOLEAN :
          /\ ops' = ops + 1 /\ ops < MaxOps /\ made = 0 /\ made < MaxKeys
          /\ made' = 1 /\ chats' = 1
          /\ row' = [settings |-> s, hash |-> 1, prev |-> 0, until |-> 0, chatId |-> 1]
          /\ held' = IF answered THEN {1} ELSE {}
          /\ UNCHANGED <<lock, adm, retired>>
    BY <1>2 DEF Create, NewOp
  <2>2. row = NoRow
    BY <2>1, RowSettings DEF RowOK
  <2>3. row' \in Rows /\ row'.hash = 1
    BY <1>0, <2>1, PatchesAssumption DEF Rows, RawKeys, Times
  <2>4. \A b \in Admins : adm[b].pc # "commit"
    BY <2>2 DEF AdminsOK
  <2> QED BY <1>0, <1>1, <2>1, <2>3, <2>4 DEF AdminsOK, RowOK, RawKeys
<1>3. ASSUME NEW a \in Admins, UpdateReads(a) PROVE AdminsOK' /\ RowOK'
  <2>1. PICK p \in Patches :
          /\ adm[a].pc = "idle" /\ ops' = ops + 1 /\ ops < MaxOps /\ row # NoRow
          /\ adm' = [adm EXCEPT ![a].pc = "write", ![a].patch = p, ![a].settings = row.settings]
          /\ UNCHANGED <<row, lock, made, chats, held, retired>>
    BY <1>3 DEF UpdateReads, NewOp
  <2>2. row.settings \in Settings
    BY <2>1, RowSettings DEF RowOK
  <2>3. /\ adm'[a].pc = "write" /\ adm'[a].patch = p /\ adm'[a].settings = row.settings
        /\ adm'[a].key = adm[a].key /\ adm'[a].prev = adm[a].prev /\ adm'[a].until = adm[a].until
        /\ DOMAIN adm' = Admins /\ \A b \in Admins \ {a} : adm'[b] = adm[b]
    BY <2>1 DEF AdminsOK
  <2> QED BY <1>0, <1>1, <2>1, <2>2, <2>3 DEF AdminsOK, RowOK
<1>4. ASSUME NEW a \in Admins, UpdateWrites(a) PROVE AdminsOK' /\ RowOK'
  <2>1. /\ adm[a].pc = "write" /\ lock = Nobody
        /\ row' = IF row = NoRow THEN NoRow ELSE [row EXCEPT !.settings = Patched(a)]
        /\ UNCHANGED <<lock, made, chats, held, retired, ops>>
        /\ adm' = [adm EXCEPT ![a] = IdleAdmin]
    BY <1>4 DEF UpdateWrites, RowFree
  <2>2. Patched(a) \in Settings
    BY <2>1, PatchedSettings DEF AdminsOK
  <2>3. row' = NoRow \/ (row' \in Rows /\ row'.hash <= made)
    BY <2>1, <2>2 DEF Rows, RowOK
  <2>4. \A b \in Admins : adm[b].pc # "commit"
    BY <1>0, <2>1 DEF AdminsOK
  <2> QED BY <1>0, <1>1, <2>1, <2>3, <2>4, IdleTypes DEF AdminsOK, RowOK
<1>5. ASSUME NEW a \in Admins, Delete(a) \/ RegeneratePublicChatID(a) PROVE AdminsOK' /\ RowOK'
  <2>1. /\ lock = Nobody /\ row # NoRow /\ ops' = ops + 1 /\ ops < MaxOps
        /\ UNCHANGED <<lock, adm, made, held, retired>>
        /\ \/ row' = NoRow /\ chats' = chats
           \/ row' = [row EXCEPT !.chatId = chats + 1] /\ chats' = chats + 1
    BY <1>5 DEF Delete, RegeneratePublicChatID, NewOp, RowFree
  <2>2. row' = NoRow \/ (row' \in Rows /\ row'.hash <= made)
    BY <1>0, <2>1 DEF Rows, RowOK
  <2>3. \A b \in Admins : adm[b].pc # "commit"
    BY <1>0, <2>1 DEF AdminsOK
  <2> QED BY <1>0, <1>1, <2>1, <2>2, <2>3 DEF AdminsOK, RowOK
<1>6. ASSUME NEW a \in Admins, RotateBegins(a) PROVE AdminsOK' /\ RowOK'
  <2>1. /\ adm[a].pc = "idle" /\ ops' = ops + 1 /\ ops < MaxOps /\ made \in 1 .. MaxKeys - 1 /\ made' = made + 1
        /\ adm' = [adm EXCEPT ![a].pc = "lock", ![a].key = made + 1, ![a].until = now + Grace]
        /\ UNCHANGED <<row, lock, chats, held, retired>>
    BY <1>6 DEF RotateBegins, NewOp
  <2>2. /\ adm'[a].pc = "lock" /\ adm'[a].key = made + 1 /\ adm'[a].until = now + Grace
        /\ adm'[a].settings = adm[a].settings /\ adm'[a].prev = adm[a].prev
        /\ DOMAIN adm' = Admins /\ \A b \in Admins \ {a} : adm'[b] = adm[b]
    BY <2>1 DEF AdminsOK
  <2>3. now + Grace \in Times /\ made + 1 \in RawKeys
    BY <1>0, <2>1 DEF Times, RawKeys, RowOK
  <2>4. AdminsOK'
    BY <1>0, <2>1, <2>2, <2>3 DEF AdminsOK
  <2>5. RowOK'
    BY <1>0, <1>1, <2>1, <2>3, RowSettings DEF RowOK, RawKeys
  <2> QED BY <2>4, <2>5
<1>7. ASSUME NEW a \in Admins, RotateLocks(a) PROVE AdminsOK' /\ RowOK'
  <2>1. /\ adm[a].pc = "lock" /\ lock = Nobody
        /\ UNCHANGED <<row, made, chats, held, retired, ops>>
        /\ row = NoRow => adm' = [adm EXCEPT ![a] = IdleAdmin] /\ lock' = lock
        /\ row # NoRow => adm' = [adm EXCEPT ![a].pc = "commit", ![a].prev = row.hash] /\ lock' = a
    BY <1>7 DEF RotateLocks, RowFree
  <2>2. CASE row = NoRow
    BY <1>0, <1>1, <2>1, <2>2, IdleTypes DEF AdminsOK, RowOK
  <2>3. CASE row # NoRow
    <3>1. /\ adm'[a].pc = "commit" /\ adm'[a].prev = row.hash /\ adm'[a].key = adm[a].key
          /\ adm'[a].settings = adm[a].settings /\ adm'[a].until = adm[a].until
          /\ DOMAIN adm' = Admins /\ \A b \in Admins \ {a} : adm'[b] = adm[b]
      <4>1. a \in DOMAIN adm /\ DOMAIN adm = Admins
        BY DEF AdminsOK
      <4>2. adm' = [adm EXCEPT ![a].pc = "commit", ![a].prev = row.hash]
        BY <2>1, <2>3
      <4> HIDE DEF KeyInv
      <4> QED BY <4>1, <4>2
    <3>2. row.hash \in RawKeys
      BY <1>0, <2>3 DEF RowOK, Rows, RawKeys
    <3> QED BY <1>0, <1>1, <2>1, <2>3, <3>1, <3>2 DEF AdminsOK, RowOK
  <2> QED BY <2>2, <2>3
<1>8. ASSUME NEW a \in Admins, RotateCommits(a) PROVE AdminsOK' /\ RowOK'
  <2>1. /\ adm[a].pc = "commit" /\ row # NoRow /\ lock' = Nobody
        /\ row' = [settings |-> [row.settings EXCEPT !.status = "active"], hash |-> adm[a].key,
                   prev |-> adm[a].prev, until |-> adm[a].until, chatId |-> row.chatId]
        /\ adm' = [adm EXCEPT ![a].pc = "answer"]
        /\ DOMAIN retired' = {row.hash} \cup DOMAIN retired
        /\ UNCHANGED <<made, chats, held, ops>>
    BY <1>8 DEF RotateCommits, With
  <2>2. adm[a].key \in 1 .. made /\ made \in RawKeys
    BY <2>1 DEF KeysFresh, Pending, RowOK
  <2>3. row' \in Rows /\ row'.hash <= made
    BY <1>0, <2>1, <2>2, CommitRow DEF AdminsOK, RowOK, RawKeys
  <2>4. row.hash \in 1 .. made
    BY <1>0, <2>1, RowSettings DEF RowOK, RawKeys
  <2>5. RowOK'
    BY <1>1, <2>1, <2>3, <2>4 DEF RowOK
  <2>6. AdminsOK'
    BY <1>0, <2>1 DEF AdminsOK
  <2> QED BY <2>5, <2>6
<1>9. ASSUME NEW a \in Admins, RotateAnswers(a) \/ OpFails(a) PROVE AdminsOK' /\ RowOK'
  <2>1. /\ UNCHANGED <<row, made, chats, retired, ops>>
        /\ adm' = [adm EXCEPT ![a] = IdleAdmin]
        /\ lock' = IF lock = a THEN Nobody ELSE lock
    BY <1>9 DEF RotateAnswers, OpFails, AdminsOK
  <2>2. held' \subseteq 1 .. made
    <3>1. row # NoRow => row.hash \in 1 .. made
      BY <1>0, RowSettings DEF RowOK, RawKeys
    <3>2. held' = held \/ (adm[a].pc = "answer" /\ row # NoRow /\ held' = held \cup {adm[a].key})
      BY <1>9 DEF RotateAnswers, OpFails
    <3> QED BY <3>1, <3>2 DEF RowOK, Chained
  <2> QED BY <1>0, <1>1, <2>1, <2>2, IdleTypes DEF AdminsOK, RowOK
<1>10. CASE UNCHANGED keyVars
  BY <1>1, <1>10 DEF keyVars, AdminsOK, RowOK
<1> QED BY <1>2, <1>3, <1>4, <1>5, <1>6, <1>7, <1>8, <1>9, <1>10, KeysElsewhere DEF AdminStep

(* What the keys of a step depend on: the row's hashes, and the requests    *)
(* that may still commit one.                                               *)
LEMMA KeysStay ==
  ASSUME KeyInv, [Next]_vars
  PROVE  KeysFresh' /\ Chained'
<1>0. /\ AdminsOK /\ RowOK /\ KeysFresh /\ Chained /\ DOMAIN adm = Admins /\ made \in Nat
      /\ row # NoRow => row \in Rows /\ row.hash \in 1 .. made /\ row.prev \in Nat
  BY RowSettings DEF KeyInv, AdminsOK, RowOK, RawKeys
<1>1. ASSUME NEW a \in Admins, Create(a) PROVE KeysFresh' /\ Chained'
  <2>1. PICK s \in NewKeys, answered \in BOOLEAN :
          /\ made = 0 /\ made' = 1
          /\ row' = [settings |-> s, hash |-> 1, prev |-> 0, until |-> 0, chatId |-> 1]
          /\ held' = IF answered THEN {1} ELSE {}
          /\ UNCHANGED <<adm, retired>>
    BY <1>1 DEF Create
  <2>2. DOMAIN retired = {}
    BY <1>0, <2>1 DEF RowOK
  <2>3. \A b \in Admins : ~Pending(b) /\ adm[b].pc # "answer"
    BY <1>0, <2>1 DEF KeysFresh
  <2> QED BY <2>1, <2>2, <2>3 DEF KeysFresh, Chained, Pending
<1>2. ASSUME NEW a \in Admins, UpdateReads(a) PROVE KeysFresh' /\ Chained'
  <2>1. PICK p \in Patches :
          /\ adm' = [adm EXCEPT ![a].pc = "write", ![a].patch = p, ![a].settings = row.settings]
          /\ UNCHANGED <<row, made, held, retired>>
    BY <1>2 DEF UpdateReads
  <2>2. adm'[a].pc = "write" /\ \A b \in Admins \ {a} : adm'[b] = adm[b]
    BY <1>0, <2>1
  <2> QED BY <1>0, <2>1, <2>2 DEF KeysFresh, Chained, Pending
<1>3. ASSUME NEW a \in Admins, UpdateWrites(a) \/ Delete(a) \/ RegeneratePublicChatID(a)
      PROVE  KeysFresh' /\ Chained'
  <2>1. /\ row' # NoRow => /\ row # NoRow
                           /\ row'.hash = row.hash /\ row'.prev = row.prev /\ row'.until = row.until
        /\ UNCHANGED <<made, held, retired>>
    BY <1>0, <1>3 DEF UpdateWrites, Delete, RegeneratePublicChatID, Rows
  <2>2. \A b \in Admins : \/ adm'[b] = adm[b]
                          \/ adm'[b].pc = "idle"
    BY <1>0, <1>3, IdleTypes DEF UpdateWrites, Delete, RegeneratePublicChatID
  <2> QED BY <1>0, <2>1, <2>2 DEF KeysFresh, Chained, Pending
<1>4. ASSUME NEW a \in Admins, RotateBegins(a) PROVE KeysFresh' /\ Chained'
  <2>1. /\ made' = made + 1
        /\ adm' = [adm EXCEPT ![a].pc = "lock", ![a].key = made + 1, ![a].until = now + Grace]
        /\ UNCHANGED <<row, held, retired>>
    BY <1>4 DEF RotateBegins
  <2>2. adm'[a].pc = "lock" /\ adm'[a].key = made + 1 /\ \A b \in Admins \ {a} : adm'[b] = adm[b]
    BY <1>0, <2>1
  <2>3. made + 1 \notin DOMAIN retired \cup held /\ (row # NoRow => row.hash # made + 1)
    BY <1>0 DEF RowOK
  <2> QED BY <1>0, <2>1, <2>2, <2>3 DEF KeysFresh, Chained, Pending
<1>5. ASSUME NEW a \in Admins, RotateLocks(a) PROVE KeysFresh' /\ Chained'
  <2>1. /\ adm[a].pc = "lock" /\ UNCHANGED <<row, made, held, retired>>
        /\ \/ adm' = [adm EXCEPT ![a] = IdleAdmin]
           \/ adm' = [adm EXCEPT ![a].pc = "commit", ![a].prev = row.hash]
    BY <1>5 DEF RotateLocks
  <2>2. /\ \/ adm'[a].pc = "idle"
           \/ adm'[a].pc = "commit" /\ adm'[a].key = adm[a].key
        /\ \A b \in Admins \ {a} : adm'[b] = adm[b]
    <3>1. a \in DOMAIN adm /\ DOMAIN adm = Admins
      BY <1>0
    <3>2. CASE adm' = [adm EXCEPT ![a] = IdleAdmin]
      BY <3>1, <3>2, IdleTypes
    <3>3. CASE adm' = [adm EXCEPT ![a].pc = "commit", ![a].prev = row.hash]
      BY <3>1, <3>3
    <3> QED BY <2>1, <3>2, <3>3
  <2> QED BY <1>0, <2>1, <2>2 DEF KeysFresh, Chained, Pending
<1>6. ASSUME NEW a \in Admins, RotateCommits(a) PROVE KeysFresh' /\ Chained'
  <2> DEFINE k == adm[a].key
             end == [until |-> adm[a].until, by |-> k]
  <2>1. /\ adm[a].pc = "commit" /\ row # NoRow
        /\ row'.hash = k /\ row'.prev = adm[a].prev /\ row'.until = adm[a].until
        /\ adm' = [adm EXCEPT ![a].pc = "answer"]
        /\ retired' = With(retired, row.hash, end)
        /\ UNCHANGED <<made, held>>
    BY <1>6 DEF RotateCommits
  <2>2. /\ k \in 1 .. made /\ k \notin DOMAIN retired \cup held /\ k # row.hash /\ adm[a].prev = row.hash
    BY <1>0, <2>1 DEF KeysFresh, Pending, AdminsOK
  <2>3. /\ DOMAIN retired' = DOMAIN retired \cup {row.hash} /\ retired'[row.hash] = end
        /\ \A x \in DOMAIN retired : retired'[x] = retired[x]
    BY <1>0, <2>1 DEF With, Chained
  <2>4. /\ adm'[a].pc = "answer" /\ adm'[a].key = k
        /\ \A b \in Admins \ {a} : adm'[b] = adm[b]
    BY <1>0, <2>1
  <2>5. \A x \in DOMAIN retired : x = row.prev \/ retired[x].by \in DOMAIN retired
    BY <1>0, <2>1 DEF Chained
  <2>6. row.prev \in DOMAIN retired => retired[row.prev].by = row.hash
    BY <1>0, <2>1 DEF Chained, RowOK
  <2>7. \A x \in DOMAIN retired' \ {row'.prev} : retired'[x].by \in DOMAIN retired'
    BY <2>1, <2>2, <2>3, <2>5, <2>6
  <2>8. held \subseteq DOMAIN retired \cup {row.hash}
    BY <1>0, <2>1 DEF Chained
  <2>9. row'.hash \notin DOMAIN retired' /\ row'.prev \in DOMAIN retired'
        /\ retired'[row'.prev] = [until |-> row'.until, by |-> row'.hash]
    BY <2>1, <2>2, <2>3
  <2>10. \A b \in Admins : adm'[b].pc = "answer" => adm'[b].key \in DOMAIN retired' \cup {row'.hash}
    BY <1>0, <2>1, <2>3, <2>4 DEF Chained
  <2>11. Chained'
    BY <2>1, <2>3, <2>7, <2>8, <2>9, <2>10 DEF Chained
  <2>12. KeysFresh'
    BY <1>0, <2>1, <2>2, <2>3, <2>4 DEF KeysFresh, Pending
  <2> QED BY <2>11, <2>12
<1>7. ASSUME NEW a \in Admins, RotateAnswers(a) \/ OpFails(a) PROVE KeysFresh' /\ Chained'
  <2>1. /\ UNCHANGED <<row, made, retired>>
        /\ adm' = [adm EXCEPT ![a] = IdleAdmin]
        /\ held' = held \/ (adm[a].pc = "answer" /\ row # NoRow /\ held' = held \cup {adm[a].key})
    BY <1>7 DEF RotateAnswers, OpFails
  <2>2. adm'[a].pc = "idle" /\ \A b \in Admins \ {a} : adm'[b] = adm[b]
    BY <1>0, <2>1, IdleTypes
  <2>3. row # NoRow /\ adm[a].pc = "answer" => adm[a].key \in DOMAIN retired \cup {row.hash}
    BY <1>0 DEF Chained
  <2> QED BY <1>0, <2>1, <2>2, <2>3 DEF KeysFresh, Chained, Pending
<1>8. CASE UNCHANGED keyVars
  BY <1>0, <1>8 DEF keyVars, KeysFresh, Chained, Pending
<1> QED BY <1>1, <1>2, <1>3, <1>4, <1>5, <1>6, <1>7, <1>8, KeysElsewhere DEF AdminStep

LEMMA KeysInvariant ==
  ASSUME KeyInv, [Next]_vars PROVE KeyInv'
BY AdminsStay, KeysStay DEF KeyInv

-----------------------------------------------------------------------------
(* Steps of the calls.                                                      *)

LEMMA WindowBegins ==
  ASSUME NEW i, NEW t \in Nat PROVE Window(i, t) \in Nat /\ Window(i, t) <= t
<1>1. Day \in Nat /\ Day > 0
  BY TimesAssumption
<1>2. t % Day \in Nat /\ t % Day <= t
  BY <1>1
<1> QED BY <1>2 DEF Window

LEMMA TtlType == \A i : Ttl(i) \in Nat
BY TimesAssumption DEF Ttl

LEMMA PlacesAre == Places = 1 .. 4
BY DEF Places, Counters

(* The place a call goes to next lies behind the one it is at. *)
LEMMA GoesForward ==
  ASSUME NEW s, NEW i \in 1 .. 5 PROVE NextCounter(s, i) \in i .. 5
<1> DEFINE L == {j \in Places : j >= i /\ LimitOf(s, j) > 0}
<1>1. CASE L = {}
  BY <1>1 DEF NextCounter
<1>2. CASE L # {}
  <2>1. L \subseteq 1 .. 4 /\ \A j \in L : j >= i
    BY PlacesAre
  <2>2. \E j \in L : \A k \in L : j <= k
    <3> HIDE DEF L
    <3>1. CASE 1 \in L
      BY <2>1, <3>1
    <3>2. CASE 1 \notin L /\ 2 \in L
      BY <2>1, <3>2
    <3>3. CASE 1 \notin L /\ 2 \notin L /\ 3 \in L
      BY <2>1, <3>3
    <3>4. CASE 1 \notin L /\ 2 \notin L /\ 3 \notin L
      <4>1. \A j \in L : j = 4
        BY <2>1, <3>4
      <4>2. \E j : j \in L
        BY <1>2
      <4> QED BY <4>1, <4>2
    <3> QED BY <3>1, <3>2, <3>3, <3>4
  <2>3. NextCounter(s, i) \in L
    BY <1>2, <2>2 DEF NextCounter
  <2> QED BY <2>1, <2>3
<1> QED BY <1>1, <1>2

LEMMA IdleCallTypes == IdleCall.pc = "idle" /\ IdleCall.settings = NoSettings /\ IdleCall.at = 0 /\ IdleCall.counter = 0
BY DEF IdleCall

(* What a step does to the calls: one of them moves and the others stay. *)
Keeps(c) ==
  /\ DOMAIN call' = Callers
  /\ \A d \in Callers \ {c} : call'[d] = call[d]

LEMMA Passes ==
  ASSUME CallsOK, NEW c \in Callers, call[c].counter \in Places, Pass(c)
  PROVE  /\ Keeps(c)
         /\ call'[c].pc = call[c].pc /\ call'[c].settings = call[c].settings /\ call'[c].at = call[c].at
         /\ call'[c].counter \in call[c].counter + 1 .. 5
<1>1. call[c].counter + 1 \in 1 .. 5
  BY PlacesAre
<1>2. DOMAIN call = Callers
  BY DEF CallsOK
<1>3. call' = [call EXCEPT ![c].counter = NextCounter(call[c].settings, @ + 1)]
  BY DEF Pass
<1>4. call'[c].counter = NextCounter(call[c].settings, call[c].counter + 1)
  BY <1>2, <1>3
<1>5. /\ Keeps(c)
      /\ call'[c].pc = call[c].pc /\ call'[c].settings = call[c].settings /\ call'[c].at = call[c].at
  BY <1>2, <1>3 DEF Keeps
<1> QED BY <1>1, <1>4, <1>5, GoesForward

LEMMA Resolves ==
  ASSUME KeyInv, CallsOK, NEW c \in Callers, PresentKey(c) \/ PresentChat(c)
  PROVE  /\ Keeps(c) /\ call[c].pc = "idle"
         /\ call'[c].pc = "resolved" /\ call'[c].settings \in Settings /\ call'[c].at = 0 /\ call'[c].counter = 0
         /\ calls < MaxCalls /\ calls' = calls + 1 /\ UNCHANGED <<now, redis, passed>>
<1>1. PICK s \in Scopes : row # NoRow /\ Resolved(c, s)
  BY DEF PresentKey, PresentChat, Opens, ChatOpens, Current, InGrace
<1>2. row.settings \in Settings
  BY <1>1, RowSettings DEF KeyInv, RowOK
<1>3. /\ call' = [call EXCEPT ![c] = [IdleCall EXCEPT !.pc = "resolved", !.settings = row.settings, !.scope = s]]
      /\ call[c].pc = "idle" /\ calls < MaxCalls /\ calls' = calls + 1 /\ UNCHANGED <<now, redis, passed>>
  BY <1>1 DEF Resolved
<1>4. Keeps(c) /\ call'[c] = [IdleCall EXCEPT !.pc = "resolved", !.settings = row.settings, !.scope = s]
  BY <1>3 DEF CallsOK, Keeps
<1>5. ASSUME NEW r, r = [IdleCall EXCEPT !.pc = "resolved", !.settings = row.settings, !.scope = s]
      PROVE  r.pc = "resolved" /\ r.settings = row.settings /\ r.at = 0 /\ r.counter = 0
  BY <1>5 DEF IdleCall
<1>6. /\ call'[c].pc = "resolved" /\ call'[c].settings = row.settings
      /\ call'[c].at = 0 /\ call'[c].counter = 0
  BY <1>4, <1>5
<1> QED BY <1>2, <1>3, <1>4, <1>6

LEMMA Begins ==
  ASSUME CallsOK, NEW c \in Callers, CheckBegins(c)
  PROVE  /\ Keeps(c) /\ call[c].pc = "resolved"
         /\ call'[c].pc = "check" /\ call'[c].settings = call[c].settings /\ call'[c].at = now
         /\ call'[c].counter \in 1 .. 5
         /\ UNCHANGED <<now, redis, passed, calls>>
<1>1. /\ call' = [call EXCEPT ![c].pc = "check", ![c].at = now,
                              ![c].counter = NextCounter(call[c].settings, 1)]
      /\ call[c].pc = "resolved" /\ UNCHANGED <<now, redis, passed, calls>>
  BY DEF CheckBegins
<1>2. DOMAIN call = Callers
  BY DEF CallsOK
<1>3. /\ Keeps(c) /\ call'[c].pc = "check" /\ call'[c].settings = call[c].settings /\ call'[c].at = now
      /\ call'[c].counter = NextCounter(call[c].settings, 1)
  BY <1>1, <1>2 DEF Keeps
<1> QED BY <1>1, <1>3, GoesForward

LEMMA Ends ==
  ASSUME CallsOK, NEW c \in Callers, Authorized(c) \/ Leaves(c)
  PROVE  /\ Keeps(c) /\ UNCHANGED <<now, redis, passed, calls>>
         /\ \/ call'[c] = IdleCall
            \/ /\ call'[c].pc = "served" /\ call'[c].settings = call[c].settings
               /\ call'[c].at = call[c].at /\ call'[c].counter = call[c].counter
<1>1. DOMAIN call = Callers
  BY DEF CallsOK
<1>2. /\ UNCHANGED <<now, redis, passed, calls>>
      /\ \/ call' = [call EXCEPT ![c] = IdleCall]
         \/ call' = [call EXCEPT ![c] = [call[c] EXCEPT !.pc = "served"]]
  BY <1>1 DEF Authorized, Leaves
<1>3. CASE call' = [call EXCEPT ![c] = IdleCall]
  BY <1>1, <1>2, <1>3 DEF Keeps
<1>4. CASE call' = [call EXCEPT ![c] = [call[c] EXCEPT !.pc = "served"]]
  BY <1>1, <1>2, <1>4 DEF Keeps
<1> QED BY <1>2, <1>3, <1>4

LEMMA CountsAt ==
  ASSUME CallsOK, NEW c \in Callers, Counts(c) \/ CountFails(c)
  PROVE  /\ Keeps(c) /\ call[c].pc = "check" /\ call[c].counter \in Places /\ UNCHANGED <<now, calls>>
         /\ \/ call'[c] = IdleCall
            \/ /\ call'[c].pc = "check" /\ call'[c].settings = call[c].settings /\ call'[c].at = call[c].at
               /\ call'[c].counter \in call[c].counter + 1 .. 5
         /\ redis' = redis \/ redis' = Incremented(c)
<1>1. /\ call[c].pc = "check" /\ call[c].counter \in Places /\ UNCHANGED <<now, calls>>
      /\ redis' = redis \/ redis' = Incremented(c)
      /\ call' = [call EXCEPT ![c] = IdleCall] \/ Pass(c)
  BY DEF Counts, CountFails
<1>2. CASE call' = [call EXCEPT ![c] = IdleCall]
  BY <1>1, <1>2 DEF CallsOK, Keeps
<1>3. CASE Pass(c)
  BY <1>1, <1>3, Passes
<1> QED BY <1>1, <1>2, <1>3

(* Whatever else happens, the calls are where they were. *)
LEMMA CallsElsewhere ==
  ASSUME [Next]_vars, \A c \in Callers : ~CallStep(c), ~OtherKeyCalls, ~Tick
  PROVE  UNCHANGED <<now, call, redis, passed, calls>>
BY DEF Next, AdminStep, Create, UpdateReads, UpdateWrites, Delete, RegeneratePublicChatID, RotateBegins,
       RotateLocks, RotateCommits, RotateAnswers, OpFails, callVars, vars

LEMMA CallsStay ==
  ASSUME KeyInv, CallsOK, [Next]_vars PROVE CallsOK'
<1>0. DOMAIN call = Callers /\ now \in Nat
  BY DEF CallsOK, KeyInv, RowOK
<1>1. ASSUME NEW c \in Callers, CallStep(c) PROVE CallsOK'
  <2>1. Keeps(c) /\ now' = now
    BY <1>1, Resolves, Begins, Ends, CountsAt DEF CallStep
  <2>2. /\ call'[c].pc \in {"idle", "resolved", "check", "served"}
        /\ call'[c].settings \in Settings \cup {NoSettings}
        /\ call'[c].at \in 0 .. now /\ call'[c].counter \in 0 .. 5
    BY <1>0, <1>1, Resolves, Begins, Ends, CountsAt, IdleCallTypes, PlacesAre DEF CallStep, CallsOK
  <2> QED BY <2>1, <2>2 DEF CallsOK, Keeps
<1>2. CASE Tick
  BY <1>0, <1>2 DEF Tick, CallsOK
<1>3. CASE OtherKeyCalls
  BY <1>3 DEF OtherKeyCalls, CallsOK
<1>4. CASE UNCHANGED <<now, call>>
  BY <1>4 DEF CallsOK
<1> QED BY <1>1, <1>2, <1>3, <1>4, CallsElsewhere

-----------------------------------------------------------------------------
(* The counters.                                                            *)

(* One more call counted under a name. *)
CountedUnder(name) ==
  redis' = With(redis, name, [n     |-> Count(name) + 1,
                              until |-> IF Count(name) = 0 THEN now + Ttl(name[1]) ELSE redis[name].until])

LEMMA CountTypes ==
  ASSUME CountersLive, NEW name PROVE Count(name) \in Nat
BY DEF CountersLive, Count

LEMMA CountUnder ==
  ASSUME CountersLive, now \in Nat, NEW name \in Names, name[2] <= now, CountedUnder(name)
  PROVE  /\ DOMAIN redis' = DOMAIN redis \cup {name} /\ DOMAIN redis' \subseteq Names
         /\ redis'[name].n = Count(name) + 1
         /\ redis'[name].until \in Nat /\ redis'[name].until >= name[2] + Ttl(name[1])
         /\ \A x \in DOMAIN redis \ {name} : redis'[x] = redis[x]
         /\ Count(name)' = Count(name) + 1 /\ \A x : x # name => Count(x)' = Count(x)
<1> DEFINE r == [n     |-> Count(name) + 1,
                 until |-> IF Count(name) = 0 THEN now + Ttl(name[1]) ELSE redis[name].until]
<1>1. r.n = Count(name) + 1 /\ r.until = IF Count(name) = 0 THEN now + Ttl(name[1]) ELSE redis[name].until
  OBVIOUS
<1>2. name[2] \in Nat /\ Ttl(name[1]) \in Nat
  BY TtlType DEF Names
<1>3. Count(name) # 0 => name \in DOMAIN redis
  BY DEF Count
<1>4. r.until \in Nat /\ r.until >= name[2] + Ttl(name[1])
  BY <1>1, <1>2, <1>3 DEF CountersLive
<1>5. redis' = With(redis, name, r)
  BY DEF CountedUnder
<1> HIDE DEF r
<1>6. /\ DOMAIN redis' = DOMAIN redis \cup {name} /\ redis'[name] = r
      /\ \A x \in DOMAIN redis \ {name} : redis'[x] = redis[x]
  BY <1>5 DEF With
<1>7. Count(name)' = Count(name) + 1 /\ \A x : x # name => Count(x)' = Count(x)
  BY <1>1, <1>6 DEF Count
<1> QED BY <1>1, <1>4, <1>6, <1>7 DEF CountersLive

LEMMA NamesAt ==
  ASSUME KeyInv, CallsOK, NEW c \in Callers, call[c].counter \in Places
  PROVE  /\ Name(c) \in Names /\ Name(c)[1] = call[c].counter /\ Name(c)[2] <= now
         /\ redis' = Incremented(c) => CountedUnder(Name(c))
<1>1. now \in Nat /\ call[c].at \in Nat /\ call[c].at <= now
  BY DEF KeyInv, RowOK, CallsOK
<1>2. Window(call[c].counter, call[c].at) \in Nat /\ Window(call[c].counter, call[c].at) <= now
  BY <1>1, WindowBegins
<1> QED BY <1>1, <1>2 DEF Name, Names, Incremented, CountedUnder

LEMMA OthersCount ==
  ASSUME KeyInv, OtherKeyCalls
  PROVE  /\ UNCHANGED <<now, call, passed>> /\ calls < MaxCalls /\ calls' = calls + 1
         /\ \E name \in Names : name[2] <= now /\ CountedUnder(name)
<1>1. now \in Nat
  BY DEF KeyInv, RowOK
<1>2. PICK i \in {2, 4} :
        redis' = With(redis, <<i, Window(i, now)>>,
                      [n     |-> Count(<<i, Window(i, now)>>) + 1,
                       until |-> IF Count(<<i, Window(i, now)>>) = 0 THEN now + Ttl(i)
                                 ELSE redis[<<i, Window(i, now)>>].until])
  BY DEF OtherKeyCalls
<1>3. <<i, Window(i, now)>> \in Names /\ <<i, Window(i, now)>>[1] = i /\ <<i, Window(i, now)>>[2] <= now
  BY <1>1, WindowBegins, PlacesAre DEF Names
<1>4. CountedUnder(<<i, Window(i, now)>>)
  BY <1>2, <1>3 DEF CountedUnder
<1> QED BY <1>3, <1>4 DEF OtherKeyCalls

(* What Redis has in the next state: the same, one more call counted under  *)
(* a name whose window has begun, or what the next second leaves of it.     *)
LEMMA RedisSteps ==
  ASSUME KeyInv, CallsOK, [Next]_vars
  PROVE  \/ redis' = redis /\ now' = now
         \/ now' = now /\ \E name \in Names : name[2] <= now /\ CountedUnder(name)
         \/ now' = now + 1 /\ redis' = Restrict(redis, {name \in DOMAIN redis : redis[name].until > now + 1})
<1>1. ASSUME NEW c \in Callers, CallStep(c)
      PROVE  /\ now' = now
             /\ redis' = redis \/ \E name \in Names : name[2] <= now /\ CountedUnder(name)
  <2>1. CASE Counts(c) \/ CountFails(c)
    BY <2>1, CountsAt, NamesAt
  <2> QED BY <1>1, <2>1, Resolves, Begins, Ends DEF CallStep
<1>2. CASE Tick
  BY <1>2 DEF Tick
<1> QED BY <1>1, <1>2, OthersCount, CallsElsewhere

LEMMA CountersLiveStay ==
  ASSUME KeyInv, CallsOK, CountersLive, [Next]_vars PROVE CountersLive'
<1>0. now \in Nat
  BY DEF KeyInv, RowOK
<1>1. CASE redis' = redis
  BY <1>1 DEF CountersLive, Ttl
<1>2. ASSUME NEW name \in Names, name[2] <= now, CountedUnder(name) PROVE CountersLive'
  <2>1. /\ DOMAIN redis' = DOMAIN redis \cup {name} /\ DOMAIN redis' \subseteq Names
        /\ redis'[name].n = Count(name) + 1 /\ Count(name) \in Nat
        /\ redis'[name].until \in Nat /\ redis'[name].until >= name[2] + Ttl(name[1])
        /\ \A x \in DOMAIN redis \ {name} : redis'[x] = redis[x]
    BY <1>0, <1>2, CountUnder, CountTypes
  <2>2. ASSUME NEW x \in DOMAIN redis'
        PROVE  redis'[x].n \in Nat /\ redis'[x].until \in Nat /\ redis'[x].until >= x[2] + Ttl(x[1])
    BY <2>1 DEF CountersLive
  <2> QED BY <2>1, <2>2 DEF CountersLive, Ttl
<1>3. CASE redis' = Restrict(redis, {name \in DOMAIN redis : redis[name].until > now + 1})
  <2>1. DOMAIN redis' \subseteq DOMAIN redis /\ \A x \in DOMAIN redis' : redis'[x] = redis[x]
    BY <1>3 DEF Restrict
  <2> QED BY <2>1 DEF CountersLive, Ttl
<1> QED BY <1>1, <1>2, <1>3, RedisSteps

(* The limits a call can be held to. *)
LEMMA LimitType ==
  ASSUME NEW s \in Settings \cup {NoSettings}, NEW i \in Places PROVE LimitOf(s, i) \in Nat
<1>1. s.qps \in Nat /\ s.quota \in Nat
  <2>1. CASE s \in Settings
    BY <2>1, LimitsAssumption DEF Settings
  <2>2. CASE s = NoSettings
    BY <2>2 DEF NoSettings
  <2> QED BY <2>1, <2>2
<1> QED BY <1>1, LimitsAssumption, PlacesAre DEF LimitOf

(* The history changes only where a call passes its counter. *)
LEMMA PassedSteps ==
  ASSUME [Next]_vars, passed' # passed
  PROVE  \E c \in Callers : /\ Counts(c) /\ call[c].counter \in Places
                            /\ redis' = Incremented(c) /\ passed' = Recorded(c)
                            /\ ~(Count(Name(c)) + 1 > LimitOf(call[c].settings, call[c].counter))
<1>1. \A c \in Callers : CallStep(c) => Counts(c)
  BY DEF CallStep, PresentKey, PresentChat, Resolved, CheckBegins, CountFails, Authorized, Leaves
<1>2. ~OtherKeyCalls /\ ~Tick
  BY DEF OtherKeyCalls, Tick
<1>3. PICK c \in Callers : Counts(c)
  BY <1>1, <1>2, CallsElsewhere
<1> QED BY <1>3 DEF Counts

LEMMA PassesStay ==
  ASSUME KeyInv, CallsOK, CountersLive, PassesCounted, [Next]_vars PROVE PassesCounted'
<1>0. now \in Nat /\ \A x : Count(x) \in Nat
  BY CountTypes DEF KeyInv, RowOK
<1>1. ASSUME NEW x \in Names, now' < x[2] + Ttl(x[1])
      PROVE  now < x[2] + Ttl(x[1]) /\ Count(x)' >= Count(x) /\ Count(x)' \in Nat
  <2>0. x[2] \in Nat /\ Ttl(x[1]) \in Nat
    BY TtlType DEF Names
  <2>1. CASE redis' = redis /\ now' = now
    BY <1>0, <1>1, <2>1 DEF Count
  <2>2. ASSUME now' = now, NEW name \in Names, name[2] <= now, CountedUnder(name)
        PROVE  now < x[2] + Ttl(x[1]) /\ Count(x)' >= Count(x) /\ Count(x)' \in Nat
    <3>1. Count(name)' = Count(name) + 1 /\ \A y : y # name => Count(y)' = Count(y)
      BY <1>0, <2>2, CountUnder
    <3>2. Count(x)' = Count(x) \/ Count(x)' = Count(x) + 1
      BY <3>1
    <3> QED BY <1>0, <1>1, <2>2, <3>2
  <2>3. CASE now' = now + 1 /\ redis' = Restrict(redis, {name \in DOMAIN redis : redis[name].until > now + 1})
    <3>1. now + 1 < x[2] + Ttl(x[1])
      BY <1>1, <2>3
    <3>2. x \in DOMAIN redis => x \in DOMAIN redis' /\ redis'[x] = redis[x]
      BY <1>0, <2>0, <2>3, <3>1 DEF CountersLive, Restrict
    <3>3. x \notin DOMAIN redis => x \notin DOMAIN redis'
      BY <2>3 DEF Restrict
    <3>4. Count(x)' = Count(x)
      BY <3>2, <3>3 DEF Count
    <3> QED BY <1>0, <2>0, <3>1, <3>4
  <2> QED BY <2>1, <2>2, <2>3, RedisSteps
<1>2. CASE passed' = passed
  <2>1. DOMAIN passed' \subseteq Names
    BY <1>2 DEF PassesCounted
  <2>2. ASSUME NEW x \in DOMAIN passed'
        PROVE  /\ passed'[x].n \in Nat /\ passed'[x].top \in Nat /\ passed'[x].n <= passed'[x].top
               /\ now' < x[2] + Ttl(x[1]) => passed'[x].n <= Count(x)'
    BY <1>0, <1>1, <1>2 DEF PassesCounted
  <2> QED BY <2>1, <2>2 DEF PassesCounted, Ttl
<1>3. CASE passed' # passed
  <2>1. PICK c \in Callers : /\ Counts(c) /\ call[c].counter \in Places
                             /\ redis' = Incremented(c) /\ passed' = Recorded(c)
                             /\ ~(Count(Name(c)) + 1 > LimitOf(call[c].settings, call[c].counter))
    BY <1>3, PassedSteps
  <2>a. PICK x : x = Name(c)
    OBVIOUS
  <2> DEFINE limit == LimitOf(call[c].settings, call[c].counter)
             old == IF x \in DOMAIN passed THEN passed[x] ELSE [n |-> 0, top |-> 0]
             new == [n |-> old.n + 1, top |-> IF limit > old.top THEN limit ELSE old.top]
  <2>2. x \in Names /\ x[1] = call[c].counter /\ x[2] <= now /\ CountedUnder(x)
    BY <2>1, <2>a, NamesAt
  <2>3. limit \in Nat /\ Count(x) + 1 <= limit
    <3>1. call[c].settings \in Settings \cup {NoSettings}
      BY DEF CallsOK
    <3>2. limit \in Nat
      BY <2>1, <3>1, LimitType
    <3> QED BY <1>0, <2>1, <2>a, <3>2
  <2>4. now < x[2] + Ttl(x[1]) /\ passed' = With(passed, x, new)
    <3>1. x[2] \in Nat /\ Ttl(x[1]) \in Nat
      BY <2>2, TtlType DEF Names
    <3>2. ~(now >= x[2] + Ttl(x[1]))
      BY <1>3, <2>1, <2>2, <2>a DEF Recorded
    <3> QED BY <1>0, <2>1, <2>2, <2>a, <3>1, <3>2 DEF Recorded
  <2>5. old.n \in Nat /\ old.top \in Nat /\ old.n <= Count(x)
    BY <1>0, <2>4 DEF PassesCounted
  <2>6. new.n = old.n + 1 /\ new.top \in Nat /\ new.top >= limit
    BY <2>3, <2>5
  <2>7. now' = now /\ Count(x)' = Count(x) + 1
    BY <1>0, <2>1, <2>2, CountUnder, CountsAt
  <2> HIDE DEF limit, old, new
  <2>8. /\ DOMAIN passed' = DOMAIN passed \cup {x} /\ passed'[x] = new
        /\ \A y \in DOMAIN passed \ {x} : passed'[y] = passed[y]
    BY <2>4 DEF With
  <2>9. new.n \in Nat /\ new.n <= new.top /\ new.n <= Count(x)'
    BY <1>0, <2>3, <2>5, <2>6, <2>7
  <2>10. ASSUME NEW y \in DOMAIN passed'
         PROVE  /\ passed'[y].n \in Nat /\ passed'[y].top \in Nat /\ passed'[y].n <= passed'[y].top
                /\ now' < y[2] + Ttl(y[1]) => passed'[y].n <= Count(y)'
    <3>1. CASE y = x
      BY <2>6, <2>8, <2>9, <3>1
    <3>2. CASE y # x
      BY <1>0, <1>1, <2>8, <3>2 DEF PassesCounted
    <3> QED BY <3>1, <3>2
  <2>11. DOMAIN passed' \subseteq Names
    BY <2>2, <2>8 DEF PassesCounted
  <2> QED BY <2>10, <2>11 DEF PassesCounted, Ttl
<1> QED BY <1>2, <1>3

-----------------------------------------------------------------------------
(* Counting calls.                                                          *)

One(b) == IF b THEN 1 ELSE 0

(* The calls still to come to a place, when one of them moves. *)
LEMMA Tally ==
  ASSUME NEW i, NEW c \in Callers, Keeps(c)
  PROVE  /\ Cardinality(Coming(call, i)) \in Nat /\ Cardinality(Coming(call', i)) \in Nat
         /\ Cardinality(Coming(call', i)) =
              Cardinality(Coming(call, i)) + One(Before(call'[c], i)) - One(Before(call[c], i))
<1> DEFINE A == Coming(call, i)
           B == Coming(call', i)
<1>1. IsFiniteSet(A) /\ IsFiniteSet(B)
  BY CallersAssumption, FS_Subset DEF Coming
<1>2. Cardinality(A) \in Nat /\ Cardinality(B) \in Nat
  BY <1>1, FS_CardinalityType
<1>3. A \ {c} = B \ {c} /\ (c \in A <=> Before(call[c], i)) /\ (c \in B <=> Before(call'[c], i))
  BY DEF Coming, Keeps
<1> HIDE DEF A, B
<1>4. CASE c \in A <=> c \in B
  <2>1. A = B
    BY <1>3, <1>4
  <2> QED BY <1>2, <1>3, <1>4, <2>1 DEF One, A, B
<1>5. CASE c \in A /\ c \notin B
  <2>1. A = B \cup {c}
    BY <1>3, <1>5
  <2>2. Cardinality(A) = Cardinality(B) + 1
    BY <1>1, <1>5, <2>1, FS_AddElement
  <2> QED BY <1>2, <1>3, <1>5, <2>2 DEF One, A, B
<1>6. CASE c \notin A /\ c \in B
  <2>1. B = A \cup {c}
    BY <1>3, <1>6
  <2>2. Cardinality(B) = Cardinality(A) + 1
    BY <1>1, <1>6, <2>1, FS_AddElement
  <2> QED BY <1>2, <1>3, <1>6, <2>2 DEF One, A, B
<1> QED BY <1>4, <1>5, <1>6

LEMMA ComingType == \A i : Cardinality(Coming(call, i)) \in Nat
BY CallersAssumption, FS_Subset, FS_CardinalityType DEF Coming

LEMMA CountsStay ==
  ASSUME KeyInv, CallsOK, CountersLive, CountsBounded, [Next]_vars PROVE CountsBounded'
<1>0. /\ now \in Nat /\ calls \in Nat /\ MaxCalls \in Nat
      /\ \A x \in DOMAIN redis : x[1] \in Places /\ redis[x].n \in Nat
      /\ \A x : Count(x) \in Nat
      /\ \A x \in Names : x[1] \in Places
  BY TimesAssumption, CountTypes DEF KeyInv, RowOK, CountsBounded, CountersLive, Names
<1>1. calls' \in 0 .. MaxCalls /\ calls <= calls' /\ (calls' = calls \/ calls' = calls + 1)
  BY <1>0, Resolves, Begins, Ends, CountsAt, OthersCount, CallsElsewhere DEF CallStep, Tick, CountsBounded
<1>2. ASSUME NEW i \in Places
      PROVE  Cardinality(Coming(call', i)) \in Nat /\ Cardinality(Coming(call', i)) <= calls'
             /\ Cardinality(Coming(call', i)) - calls' <= Cardinality(Coming(call, i)) - calls
  <2>1. i \in 1 .. 4 /\ Cardinality(Coming(call, i)) \in Nat /\ Cardinality(Coming(call, i)) <= calls
    BY ComingType, PlacesAre DEF CountsBounded
  <2>2. ASSUME NEW c \in Callers, PresentKey(c) \/ PresentChat(c)
        PROVE  Keeps(c) /\ calls' = calls + 1
    BY <2>2, Resolves
  <2>3. ASSUME NEW c \in Callers, CheckBegins(c) \/ Counts(c) \/ CountFails(c) \/ Authorized(c) \/ Leaves(c)
        PROVE  Keeps(c) /\ (Before(call'[c], i) => Before(call[c], i))
    <3>1. CASE CheckBegins(c)
      BY <3>1, Begins DEF Before
    <3>2. CASE Counts(c) \/ CountFails(c)
      BY <2>1, <3>2, CountsAt, IdleCallTypes, PlacesAre DEF Before
    <3>3. CASE Authorized(c) \/ Leaves(c)
      BY <3>3, Ends, IdleCallTypes DEF Before
    <3> QED BY <2>3, <3>1, <3>2, <3>3
  <2>4. ASSUME NEW c \in Callers, CallStep(c)
        PROVE  Cardinality(Coming(call', i)) \in Nat
               /\ Cardinality(Coming(call', i)) - calls' <= Cardinality(Coming(call, i)) - calls
    BY <1>0, <1>1, <2>1, <2>2, <2>3, <2>4, Tally DEF CallStep, One
  <2>5. ASSUME call' = call
        PROVE  Cardinality(Coming(call', i)) \in Nat
               /\ Cardinality(Coming(call', i)) - calls' <= Cardinality(Coming(call, i)) - calls
    BY <1>0, <1>1, <2>1, <2>5
  <2>6. Cardinality(Coming(call', i)) \in Nat
        /\ Cardinality(Coming(call', i)) - calls' <= Cardinality(Coming(call, i)) - calls
    BY <2>4, <2>5, OthersCount, CallsElsewhere DEF Tick
  <2> QED BY <1>0, <1>1, <2>1, <2>6
<1>3. ASSUME NEW name \in Names, CountedUnder(name), name[2] <= now,
             Cardinality(Coming(call', name[1])) - calls' < Cardinality(Coming(call, name[1])) - calls
      PROVE  \A x \in DOMAIN redis' :
               redis'[x].n # 0 /\ redis'[x].n + Cardinality(Coming(call', x[1])) <= calls'
  <2>1. /\ DOMAIN redis' = DOMAIN redis \cup {name} /\ redis'[name].n = Count(name) + 1
        /\ \A x \in DOMAIN redis \ {name} : redis'[x] = redis[x]
    BY <1>0, <1>3, CountUnder
  <2>2. /\ name[1] \in Places /\ Cardinality(Coming(call', name[1])) \in Nat
        /\ Cardinality(Coming(call, name[1])) \in Nat /\ Cardinality(Coming(call, name[1])) <= calls
    BY <1>0, <1>2, ComingType DEF CountsBounded
  <2>3. Count(name) + Cardinality(Coming(call, name[1])) <= calls
    BY <1>0, <2>2 DEF Count, CountsBounded
  <2>4. redis'[name].n # 0 /\ redis'[name].n + Cardinality(Coming(call', name[1])) <= calls'
    BY <1>0, <1>1, <1>3, <2>1, <2>2, <2>3
  <2>5. ASSUME NEW x \in DOMAIN redis \ {name}
        PROVE  redis'[x].n # 0 /\ redis'[x].n + Cardinality(Coming(call', x[1])) <= calls'
    <3>1. /\ redis'[x] = redis[x] /\ redis[x].n \in Nat /\ redis[x].n # 0 /\ x[1] \in Places
          /\ redis[x].n + Cardinality(Coming(call, x[1])) <= calls
      BY <1>0, <2>1 DEF CountsBounded
    <3>2. /\ Cardinality(Coming(call', x[1])) \in Nat /\ Cardinality(Coming(call, x[1])) \in Nat
          /\ Cardinality(Coming(call', x[1])) - calls' <= Cardinality(Coming(call, x[1])) - calls
      BY <1>2, <3>1, ComingType
    <3> QED BY <1>0, <1>1, <3>1, <3>2
  <2> QED BY <2>1, <2>4, <2>5
<1>4. ASSUME DOMAIN redis' \subseteq DOMAIN redis, \A x \in DOMAIN redis' : redis'[x] = redis[x]
      PROVE  \A x \in DOMAIN redis' :
               redis'[x].n # 0 /\ redis'[x].n + Cardinality(Coming(call', x[1])) <= calls'
  <2> SUFFICES ASSUME NEW x \in DOMAIN redis'
               PROVE  redis'[x].n # 0 /\ redis'[x].n + Cardinality(Coming(call', x[1])) <= calls'
    OBVIOUS
  <2>1. /\ redis'[x] = redis[x] /\ redis[x].n \in Nat /\ redis[x].n # 0 /\ x[1] \in Places
        /\ redis[x].n + Cardinality(Coming(call, x[1])) <= calls
    BY <1>0, <1>4 DEF CountsBounded
  <2>2. /\ Cardinality(Coming(call', x[1])) \in Nat /\ Cardinality(Coming(call, x[1])) \in Nat
        /\ Cardinality(Coming(call', x[1])) - calls' <= Cardinality(Coming(call, x[1])) - calls
    BY <1>2, <2>1, ComingType
  <2> QED BY <1>0, <1>1, <2>1, <2>2
<1>5. ASSUME NEW c \in Callers, Counts(c) \/ CountFails(c), redis' # redis
      PROVE  \A x \in DOMAIN redis' :
               redis'[x].n # 0 /\ redis'[x].n + Cardinality(Coming(call', x[1])) <= calls'
  <2>1. /\ Keeps(c) /\ call[c].counter \in 1 .. 4 /\ calls' = calls /\ call[c].pc = "check"
        /\ \/ call'[c] = IdleCall
           \/ call'[c].pc = "check" /\ call'[c].counter \in call[c].counter + 1 .. 5
        /\ redis' = Incremented(c)
    BY <1>5, CountsAt, PlacesAre
  <2>2. Name(c) \in Names /\ Name(c)[1] = call[c].counter /\ Name(c)[2] <= now /\ CountedUnder(Name(c))
    BY <2>1, NamesAt, PlacesAre
  <2>3. Before(call[c], call[c].counter) /\ ~Before(call'[c], call[c].counter)
    BY <2>1, IdleCallTypes DEF Before
  <2>4. PICK i : i = call[c].counter
    OBVIOUS
  <2>5. PICK x : x = Name(c)
    OBVIOUS
  <2>6. Cardinality(Coming(call', i)) - calls' < Cardinality(Coming(call, i)) - calls
    BY <1>0, <2>1, <2>3, <2>4, Tally DEF One
  <2> QED BY <1>3, <2>2, <2>4, <2>5, <2>6
<1>6. CASE OtherKeyCalls
  <2>1. call' = call /\ calls' = calls + 1 /\ \E name \in Names : name[2] <= now /\ CountedUnder(name)
    BY <1>6, OthersCount
  <2>2. \A i : Cardinality(Coming(call', i)) - calls' < Cardinality(Coming(call, i)) - calls
    BY <1>0, <2>1, ComingType
  <2>3. \A x \in DOMAIN redis' :
          redis'[x].n # 0 /\ redis'[x].n + Cardinality(Coming(call', x[1])) <= calls'
    BY <1>3, <2>1, <2>2
  <2> QED BY <1>1, <1>2, <2>3 DEF CountsBounded
<1>7. CASE Tick
  <2>1. DOMAIN redis' \subseteq DOMAIN redis /\ \A x \in DOMAIN redis' : redis'[x] = redis[x]
    BY <1>7 DEF Tick, Restrict
  <2> QED BY <1>1, <1>2, <1>4, <2>1 DEF CountsBounded
<1>8. CASE redis' = redis
  BY <1>1, <1>2, <1>4, <1>8 DEF CountsBounded
<1>9. ASSUME NEW c \in Callers, CallStep(c), redis' # redis PROVE Counts(c) \/ CountFails(c)
  BY <1>9, Resolves, Begins, Ends DEF CallStep
<1> QED BY <1>1, <1>2, <1>5, <1>6, <1>7, <1>8, <1>9, CallsElsewhere DEF CountsBounded

-----------------------------------------------------------------------------
LEMMA InvInit == Init => IInv
<1> SUFFICES ASSUME Init PROVE IInv
  OBVIOUS
<1>1. AdminsOK
  BY IdleTypes, NobodyAssumption DEF Init, AdminsOK
<1>2. RowOK /\ KeysFresh /\ Chained
  BY IdleTypes, TimesAssumption DEF Init, RowOK, RawKeys, KeysFresh, Pending, Chained
<1>3. CallsOK
  BY IdleCallTypes DEF Init, CallsOK
<1>4. CountersLive /\ PassesCounted
  BY DEF Init, CountersLive, PassesCounted
<1>5. CountsBounded
  <2>1. \A i : Coming(call, i) = {}
    BY IdleCallTypes DEF Init, Coming, Before
  <2>2. \A i : Cardinality(Coming(call, i)) = 0
    BY <2>1, FS_EmptySet
  <2> QED BY <2>2, TimesAssumption DEF Init, CountsBounded
<1> QED BY <1>1, <1>2, <1>3, <1>4, <1>5 DEF IInv, KeyInv

LEMMA InvNext == IInv /\ [Next]_vars => IInv'
BY KeysInvariant, CallsStay, CountersLiveStay, PassesStay, CountsStay DEF IInv

LEMMA Invariance == Spec => []IInv
BY InvInit, InvNext, PTL DEF Spec

(* Every variable has the shape the code gives it, and no counter of Redis  *)
(* exceeds the number of calls.                                             *)
THEOREM TypeCorrect == Spec => []TypeOK
<1>1. IInv => TypeOK
  <2> SUFFICES ASSUME IInv PROVE TypeOK
    OBVIOUS
  <2>1. \A name \in DOMAIN redis : redis[name].n \in 1 .. MaxCalls
    <3> SUFFICES ASSUME NEW x \in DOMAIN redis PROVE redis[x].n \in 1 .. MaxCalls
      OBVIOUS
    <3>1. redis[x].n \in Nat /\ redis[x].n # 0 /\ redis[x].n + Cardinality(Coming(call, x[1])) <= calls
      BY DEF IInv, CountersLive, CountsBounded
    <3>2. Cardinality(Coming(call, x[1])) \in Nat /\ calls \in Nat /\ calls <= MaxCalls /\ MaxCalls \in Nat
      BY ComingType, TimesAssumption DEF IInv, CountsBounded
    <3> QED BY <3>1, <3>2
  <2>2. chats \in 0 .. 1 + MaxOps
    BY TimesAssumption DEF IInv, KeyInv, RowOK
  <2> QED BY <2>1, <2>2 DEF IInv, KeyInv, AdminsOK, RowOK, CallsOK, TypeOK
<1> QED BY <1>1, Invariance, PTL

(* While the key is active, of the raw keys that reached the tenant the     *)
(* newest opens, one that was replaced opens until its grace is over (not   *)
(* less long, unless its successor is replaced too), and no other does:     *)
(* however rotations, updates, lost answers and failures interleave.        *)
THEOREM OnlyKeysInForce == Spec => []KeysInForce
<1>1. IInv => KeysInForce
  <2> SUFFICES ASSUME IInv, row # NoRow, row.settings.status = "active", NEW k \in held
               PROVE  Opens(k) <=> (k \in DOMAIN retired => /\ now < retired[k].until
                                                            /\ retired[k].by \notin DOMAIN retired)
    BY DEF KeysInForce
  <2>1. /\ row.hash \notin DOMAIN retired /\ k \in DOMAIN retired \cup {row.hash} /\ k # 0
        /\ row.prev # 0 => row.prev \in DOMAIN retired /\ retired[row.prev] = [until |-> row.until, by |-> row.hash]
        /\ \A x \in DOMAIN retired \ {row.prev} : retired[x].by \in DOMAIN retired
    BY DEF IInv, KeyInv, Chained, RowOK
  <2>2. CASE k = row.hash
    BY <2>1, <2>2 DEF Opens, Current
  <2>3. CASE k # row.hash /\ k = row.prev
    <3>1. retired[k].until = row.until /\ retired[k].by = row.hash /\ k \in DOMAIN retired
      BY <2>1, <2>3
    <3> QED BY <2>1, <2>3, <3>1 DEF Opens, Current, InGrace
  <2>4. CASE k # row.hash /\ k # row.prev
    BY <2>1, <2>4 DEF Opens, Current, InGrace
  <2> QED BY <2>2, <2>3, <2>4
<1> QED BY <1>1, Invariance, PTL

(* A revoked key that no request under way rotates or writes back as active *)
(* stays revoked whatever the next step is.                                 *)
THEOREM RevokedKeysStayShut == Spec => RevokedStaysShut
<1>1. ASSUME IInv, [Next]_vars, Shut PROVE row' = NoRow \/ row'.settings.status = "revoked"
  <2>1. /\ row # NoRow /\ row \in Rows /\ row.settings.status = "revoked" /\ made # 0
        /\ \A a \in Admins : ~Reopening(a)
    BY <1>1, RowSettings DEF Shut, IInv, KeyInv, RowOK, RawKeys
  <2>2. ASSUME NEW a \in Admins, UpdateWrites(a) PROVE row'.settings.status = "revoked"
    <3>1. adm[a].pc = "write" /\ adm[a].patch \in Patches /\ adm[a].settings \in Settings
      BY <1>1, <2>2 DEF UpdateWrites, IInv, KeyInv, AdminsOK
    <3>2. row'.settings = Patched(a)
      BY <2>1, <2>2 DEF UpdateWrites, Rows
    <3>3. Patched(a).status \in Statuses /\ adm[a].settings.status \in Statuses /\ "status" \in DOMAIN adm[a].settings
      BY <3>1, PatchedSettings DEF Settings
    <3>4. Patched(a).status = IF "status" \in DOMAIN adm[a].patch THEN adm[a].patch.status ELSE adm[a].settings.status
      BY <3>3 DEF Patched, Overlaid
    <3>5. Patched(a).status # "active"
      BY <2>1, <3>1, <3>4 DEF Reopening
    <3> QED BY <3>2, <3>3, <3>5 DEF Statuses
  <2>3. ASSUME NEW a \in Admins, RegeneratePublicChatID(a) PROVE row'.settings.status = "revoked"
    BY <2>1, <2>3 DEF RegeneratePublicChatID, Rows
  <2>4. ASSUME NEW a \in Admins, Delete(a) PROVE row' = NoRow
    BY <2>4 DEF Delete
  <2>5. ASSUME NEW a \in Admins PROVE ~Create(a) /\ ~RotateCommits(a)
    BY <2>1 DEF Create, RotateCommits, Reopening
  <2>6. ASSUME NEW a \in Admins,
               UpdateReads(a) \/ RotateBegins(a) \/ RotateLocks(a) \/ RotateAnswers(a) \/ OpFails(a)
        PROVE  row' = row
    BY <2>6 DEF UpdateReads, RotateBegins, RotateLocks, RotateAnswers, OpFails
  <2>7. CASE UNCHANGED keyVars
    BY <2>1, <2>7 DEF keyVars
  <2> QED BY <1>1, <2>1, <2>2, <2>3, <2>4, <2>5, <2>6, <2>7, KeysElsewhere DEF AdminStep
<1>2. IInv /\ [Next]_vars => [Shut => row' = NoRow \/ row'.settings.status = "revoked"]_vars
  BY <1>1
<1>3. QED
  BY <1>2, Invariance, PTL DEF Spec, RevokedStaysShut

(* No window admits more calls than the highest limit one of them was held  *)
(* to.                                                                      *)
THEOREM LimitsHold == Spec => []AdmittedWithinLimit
<1>1. IInv => AdmittedWithinLimit
  BY DEF IInv, PassesCounted, AdmittedWithinLimit
<1> QED BY <1>1, Invariance, PTL
=============================================================================
