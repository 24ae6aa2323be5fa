----------------------- MODULE SchemaMigration_proofs -----------------------
(***************************************************************************)
(* Whatever races, timeouts and late ALTERs there are, a process that      *)
(* serves finds the whole schema.  The invariant behind it: what the       *)
(* statements before the one a process is at are for is there, because no  *)
(* step of anybody undoes what another process's statement has done.       *)
(*                                                                         *)
(* The second half is about a process that nobody comes between: none of   *)
(* its statements fails, because its look-up is still true when it writes  *)
(* and the columns it gives a unique index were filled just before.        *)
(***************************************************************************)
EXTENDS SchemaMigration, TLAPS

Passed(p, i) == pc[p] = "serving" \/ (Starting(p) /\ i < at[p])
Progress     == \A p \in Procs : \A i \in DOMAIN Plan : Passed(p, i) => Complete(Plan[i])
IInv         == TypeOK /\ Progress

(* Len and DOMAIN of the plan, for the steps that count statements. *)
LEMMA PlanShape ==
  /\ DOMAIN Plan = 1 .. Len(Plan) /\ Len(Plan) \in Nat \ {0}
  /\ \A i \in DOMAIN Plan : Plan[i] \in Statements
BY PlanAssumption DEF Statements

(* A statement that is neither a drop nor a backfill is not about a column  *)
(* that is dropped.                                                         *)
LEMMA KeptItems ==
  ASSUME NEW st \in Statements, st.op \notin {"drop", "fill"}
  PROVE  Item(st) \notin Dropped /\ Item(st) \in Items
BY PlanAssumption DEF Items

LEMMA BringsKept ==
  ASSUME NEW t
  PROVE  Brings(t) \cap Dropped = {} /\ Brings(t) \subseteq Items
<1>1. ASSUME NEW i \in Brings(t) PROVE i \notin Dropped /\ i \in Items
  <2>1. PICK st \in Statements : i = Item(st) /\ st.op \in {"table", "column", "index", "unique"}
    BY <1>1 DEF Brings
  <2> QED BY <2>1, KeptItems
<1> QED BY <1>1

LEMMA DropItems ==
  ASSUME NEW st \in Statements, st.op = "drop"
  PROVE  Item(st) \in Dropped /\ Item(st) \in Items
BY DEF Dropped, Items

(* No step takes away anything but a dropped column, nor brings one back.   *)
OnlyDrops == (schema \ Dropped) \subseteq schema' /\ (schema' \cap Dropped) \subseteq schema

LEMMA AlteredOnlyDrops ==
  ASSUME NEW st \in Statements, st.op \in Checked, Altered(st)
  PROVE  OnlyDrops
<1>1. CASE st.op = "drop"
  BY <1>1, DropItems DEF Altered, OnlyDrops
<1>2. CASE st.op # "drop"
  <2>1. st.op \notin {"drop", "fill"} BY <1>2 DEF Checked
  <2> QED BY <1>2, <2>1, KeptItems DEF Altered, OnlyDrops
<1> QED BY <1>1, <1>2

LEMMA StepOnlyDrops == TypeOK /\ [Next]_vars => OnlyDrops
<1> SUFFICES ASSUME TypeOK, [Next]_vars PROVE OnlyDrops
  OBVIOUS
<1>0. \A p \in Procs : Here(p) \in Statements
  BY PlanShape DEF TypeOK, Here
<1>1. CASE UNCHANGED vars
  BY <1>1 DEF vars, OnlyDrops
<1>2. ASSUME NEW p \in Procs, Create(p) PROVE OnlyDrops
  <2>1. schema' = schema \/ schema' = schema \cup Brings(Here(p).t)
    BY <1>2 DEF Create
  <2> QED BY <2>1, BringsKept DEF OnlyDrops
<1>3. ASSUME NEW p \in Procs, Seed(p) PROVE OnlyDrops
  <2>1. Here(p).op \notin {"drop", "fill"} BY <1>3 DEF Seed
  <2>2. schema' = schema \cup {Item(Here(p))} BY <1>3 DEF Seed
  <2> QED BY <1>0, <2>1, <2>2, KeptItems DEF OnlyDrops
<1>4. ASSUME NEW p \in Procs, Alter(p) PROVE OnlyDrops
  <2>1. Here(p).op \in Checked BY <1>4 DEF TypeOK, Alter
  <2>2. UNCHANGED schema \/ Altered(Here(p)) BY <1>4 DEF Alter, Fail
  <2>3. CASE UNCHANGED schema BY <2>3 DEF OnlyDrops
  <2>4. CASE Altered(Here(p)) BY <1>0, <2>1, <2>4, AlteredOnlyDrops
  <2> QED BY <2>2, <2>3, <2>4
<1>5. ASSUME NEW st \in late, LateAlter(st) PROVE OnlyDrops
  <2>1. st \in Statements /\ st.op \in Checked BY DEF TypeOK
  <2>2. UNCHANGED schema \/ Altered(st) BY <1>5 DEF LateAlter
  <2>3. CASE UNCHANGED schema BY <2>3 DEF OnlyDrops
  <2>4. CASE Altered(st) BY <2>1, <2>4, AlteredOnlyDrops
  <2> QED BY <2>2, <2>3, <2>4
<1>6. ASSUME NEW p \in Procs, Start(p) \/ Fill(p) \/ Check(p) \/ Cut(p) PROVE OnlyDrops
  BY <1>6 DEF Start, Fill, Check, Cut, OnlyDrops
<1>7. ASSUME NEW st \in late, LateLost(st) PROVE OnlyDrops
  BY <1>7 DEF LateLost, OnlyDrops
<1>8. ASSUME NEW st \in Statements, OldWrite(st) PROVE OnlyDrops
  BY <1>8 DEF OldWrite, OnlyDrops
<1> QED BY <1>1, <1>2, <1>3, <1>4, <1>5, <1>6, <1>7, <1>8 DEF Next, Run

(* So what a statement is for stays done. *)
LEMMA CompleteStays ==
  ASSUME TypeOK, [Next]_vars, NEW st \in Statements, Complete(st)
  PROVE  Complete(st)'
<1>0. OnlyDrops BY StepOnlyDrops
<1>1. CASE st.op \in {"fill", "safe"} BY <1>1 DEF Complete
<1>2. CASE st.op = "drop"
  BY <1>0, <1>2, DropItems DEF Complete, Done, OnlyDrops
<1>3. CASE st.op \notin {"fill", "safe", "drop"}
  BY <1>0, <1>3, KeptItems DEF Complete, Done, OnlyDrops
<1> QED BY <1>1, <1>2, <1>3

(* A process passes a statement only when it is done. *)
LEMMA PassedIsComplete ==
  ASSUME TypeOK, NEW p \in Procs, NEW st, st = Here(p), Run(p), Pass(p)
  PROVE  st \in Statements /\ Complete(st)'
<1>0. st \in Statements BY PlanShape DEF TypeOK, Here
<1> SUFFICES Complete(st)'
  BY <1>0
<1>1. CASE Create(p)
  <2>1. st.op = "table" BY <1>1 DEF Create
  <2>2. Item(st) \in Brings(st.t)
    BY <1>0, <2>1, PlanAssumption DEF Brings
  <2>3. Item(st) \in schema' BY <1>1, <2>2 DEF Create
  <2> QED BY <2>1, <2>3 DEF Complete, Done
<1>2. CASE Fill(p) BY <1>2 DEF Fill, Complete
<1>3. CASE Seed(p)
  <2>1. st.op = "seed" /\ Item(st) \in schema' BY <1>3 DEF Seed
  <2> QED BY <2>1 DEF Complete, Done
<1>4. CASE Check(p)
  <2>1. Done(st) \/ pc' = [pc EXCEPT ![p] = "alter"] BY <1>4 DEF Check
  <2>2. pc'[p] # "alter" BY DEF Pass, TypeOK
  <2>3. pc' # [pc EXCEPT ![p] = "alter"] BY <2>2 DEF TypeOK
  <2>4. Done(st) /\ schema' = schema BY <1>4, <2>1, <2>3 DEF Check
  <2> QED BY <2>4 DEF Complete, Done
<1>5. CASE Alter(p)
  <2>1. pc'[p] # "down" BY DEF Pass, TypeOK
  <2>2. ~Fail(p) BY <2>1 DEF Fail, TypeOK
  <2>3. Altered(st) \/ st.op = "safe" BY <1>5, <2>2 DEF Alter
  <2> QED BY <2>3 DEF Altered, Complete, Done
<1> QED BY <1>0, <1>1, <1>2, <1>3, <1>4, <1>5 DEF Run

(* Every step of a process other than p leaves p where it is; p itself      *)
(* passes its statement, or stays before it.                                *)
LEMMA PositionStep ==
  ASSUME TypeOK, [Next]_vars, NEW p \in Procs
  PROVE  \/ pc'[p] = "down"
         \/ pc'[p] = "run" /\ at'[p] = 1
         \/ (pc'[p] = pc[p] \/ (pc[p] = "run" /\ pc'[p] = "alter")) /\ at'[p] = at[p]
         \/ Run(p) /\ Pass(p)
<1>1. CASE UNCHANGED vars BY <1>1 DEF vars
<1>2. ASSUME NEW q \in Procs, Start(q)
      PROVE  (pc'[p] = pc[p] /\ at'[p] = at[p]) \/ (pc'[p] = "run" /\ at'[p] = 1)
  BY <1>2 DEF Start, TypeOK
<1>3. ASSUME NEW q \in Procs, Cut(q)
      PROVE  pc'[p] = "down" \/ (pc'[p] = pc[p] /\ at'[p] = at[p])
  BY <1>3 DEF Cut, TypeOK, Starting
<1>4. ASSUME NEW q \in Procs, Pass(q), q # p PROVE pc'[p] = pc[p] /\ at'[p] = at[p]
  BY <1>4 DEF Pass, TypeOK
<1>5. ASSUME NEW q \in Procs, Fail(q)
      PROVE  pc'[p] = "down" \/ (pc'[p] = pc[p] /\ at'[p] = at[p])
  BY <1>5 DEF Fail, TypeOK
<1>6. ASSUME NEW q \in Procs, Check(q), ~Pass(q)
      PROVE  (pc'[p] = pc[p] \/ (pc[p] = "run" /\ pc'[p] = "alter")) /\ at'[p] = at[p]
  BY <1>6 DEF Check, TypeOK
<1>7. ASSUME NEW q \in Procs, Run(q) PROVE Pass(q) \/ Fail(q) \/ (Check(q) /\ ~Pass(q))
  BY <1>7 DEF Run, Create, Fill, Seed, Check, Alter
<1>8. ASSUME NEW st \in late, LateAlter(st) \/ LateLost(st)
      PROVE  pc'[p] = pc[p] /\ at'[p] = at[p]
  BY <1>8 DEF LateAlter, LateLost
<1>9. ASSUME NEW st \in Statements, OldWrite(st) PROVE pc'[p] = pc[p] /\ at'[p] = at[p]
  BY <1>9 DEF OldWrite
<1>10. CASE \E q \in Procs : Run(q)
  BY <1>3, <1>4, <1>5, <1>6, <1>7, <1>10
<1> QED
  BY <1>1, <1>2, <1>3, <1>8, <1>9, <1>10 DEF Next

LEMMA ProgressStep == TypeOK /\ Progress /\ [Next]_vars => Progress'
<1> SUFFICES ASSUME TypeOK, Progress, [Next]_vars, NEW p \in Procs, NEW i \in DOMAIN Plan,
                    Passed(p, i)'
             PROVE  Complete(Plan[i])'
  BY PlanShape DEF Progress
<1>1. Plan[i] \in Statements /\ i \in Nat BY PlanShape
<1>2. CASE Passed(p, i)
  <2>1. Complete(Plan[i]) BY <1>2 DEF Progress
  <2> QED BY <1>1, <2>1, CompleteStays
<1>3. CASE ~Passed(p, i)
  <2>1. Run(p) /\ Pass(p)
    <3>1. ~(pc'[p] = "down") BY DEF Passed, Starting
    <3>2. ~(pc'[p] = "run" /\ at'[p] = 1) BY PlanShape DEF Passed, Starting
    <3>3. ~((pc'[p] = pc[p] \/ (pc[p] = "run" /\ pc'[p] = "alter")) /\ at'[p] = at[p])
      BY <1>3 DEF Passed, Starting
    <3> QED BY <3>1, <3>2, <3>3, PositionStep
  <2>2. i = at[p]
    <3>1. at[p] \in 1 .. Len(Plan) /\ i \in 1 .. Len(Plan) /\ Len(Plan) \in Nat
      BY PlanShape DEF TypeOK
    <3>2. Starting(p) BY <2>1 DEF Run, Create, Fill, Seed, Check, Alter, Starting
    <3>3. ~(i < at[p]) BY <1>3, <3>2 DEF Passed
    <3>4. CASE at[p] = Len(Plan) BY <3>1, <3>3, <3>4
    <3>5. CASE at[p] # Len(Plan)
      <4>1. at'[p] = at[p] + 1 /\ pc'[p] = "run" BY <2>1, <3>5 DEF Pass, TypeOK
      <4>2. i < at'[p] BY <4>1 DEF Passed, Starting
      <4> QED BY <3>1, <3>3, <4>1, <4>2
    <3> QED BY <3>4, <3>5
  <2> QED BY <2>1, <2>2, PassedIsComplete DEF Here
<1> QED BY <1>2, <1>3

LEMMA TypeStep == TypeOK /\ [Next]_vars => TypeOK'
<1> SUFFICES ASSUME TypeOK, [Next]_vars PROVE TypeOK'
  OBVIOUS
<1>0. \A p \in Procs : Here(p) \in Statements BY PlanShape DEF TypeOK, Here
<1>a. \A st \in Statements : Column(st) \in Items BY DEF Items
<1>b. ASSUME NEW st \in Statements, Altered(st) PROVE schema' \subseteq Items /\ blank' \subseteq Items
  BY <1>a, <1>b DEF Altered, TypeOK, Items
<1>c. ASSUME NEW p \in Procs, Pass(p)
      PROVE  pc' \in [Procs -> {"down", "run", "alter", "serving"}] /\ at' \in [Procs -> DOMAIN Plan]
             /\ \A q \in Procs : pc'[q] = "alter" => at'[q] = at[q] /\ pc[q] = "alter"
  BY <1>c, PlanShape DEF Pass, TypeOK
<1>d. ASSUME NEW p \in Procs, Fail(p)
      PROVE  pc' \in [Procs -> {"down", "run", "alter", "serving"}] /\ at' \in [Procs -> DOMAIN Plan]
             /\ schema' = schema /\ blank' = blank
             /\ \A q \in Procs : pc'[q] = "alter" => at'[q] = at[q] /\ pc[q] = "alter"
  BY <1>d DEF Fail, TypeOK
<1>1. CASE UNCHANGED vars
  BY <1>1 DEF vars, TypeOK, Here
<1>2. ASSUME NEW p \in Procs, Start(p) PROVE TypeOK'
  BY <1>2, PlanShape DEF Start, TypeOK, Here
<1>3. ASSUME NEW p \in Procs, Create(p) PROVE TypeOK'
  <2>1. schema' \subseteq Items BY <1>3, BringsKept DEF Create, TypeOK
  <2> QED BY <1>3, <1>c, <2>1 DEF Create, Disturbs, TypeOK, Here
<1>4. ASSUME NEW p \in Procs, Fill(p) PROVE TypeOK'
  BY <1>4, <1>c DEF Fill, TypeOK, Here
<1>5. ASSUME NEW p \in Procs, Seed(p) PROVE TypeOK'
  <2>1. Item(Here(p)) \in Items BY <1>0 DEF Items
  <2> QED BY <1>5, <1>c, <2>1 DEF Seed, TypeOK, Here
<1>6. ASSUME NEW p \in Procs, Check(p) PROVE TypeOK'
  <2>1. CASE Pass(p) BY <1>6, <2>1, <1>c DEF Check, TypeOK, Here
  <2>2. CASE pc' = [pc EXCEPT ![p] = "alter"] /\ UNCHANGED at
    BY <1>6, <2>2 DEF Check, TypeOK, Here
  <2> QED BY <1>6, <2>1, <2>2 DEF Check
<1>7. ASSUME NEW p \in Procs, Alter(p) PROVE TypeOK'
  <2>1. CASE Fail(p) BY <1>7, <2>1, <1>d DEF Alter, Disturbs, TypeOK, Here
  <2>2. CASE Pass(p)
    <3>1. schema' \subseteq Items /\ blank' \subseteq Items
      BY <1>0, <1>7, <1>b, <2>2 DEF Alter, Fail, TypeOK
    <3> QED BY <1>7, <2>2, <1>c, <3>1 DEF Alter, Disturbs, TypeOK, Here
  <2> QED BY <1>7, <2>1, <2>2 DEF Alter
<1>8. ASSUME NEW p \in Procs, Cut(p) PROVE TypeOK'
  <2>1. faults' \in 0 .. MaxFaults BY <1>8, BoundsAssumption DEF Cut, TypeOK
  <2>2. \A st \in late' : st \in Statements /\ st.op \in Checked BY <1>0, <1>8 DEF Cut, TypeOK
  <2>3. pc' \in [Procs -> {"down", "run", "alter", "serving"}] /\ at' = at
        /\ \A q \in Procs : pc'[q] = "alter" => pc[q] = "alter"
    BY <1>8 DEF Cut, TypeOK
  <2> QED BY <1>8, <2>1, <2>2, <2>3 DEF Cut, TypeOK, Here
<1>9. ASSUME NEW st \in late, LateAlter(st) PROVE TypeOK'
  <2>1. schema' \subseteq Items /\ blank' \subseteq Items
    BY <1>9, <1>b DEF LateAlter, TypeOK
  <2> QED BY <1>9, <2>1 DEF LateAlter, Disturbs, TypeOK, Here
<1>10. ASSUME NEW st \in late, LateLost(st) PROVE TypeOK'
  BY <1>10 DEF LateLost, TypeOK, Here
<1>11. ASSUME NEW st \in Statements, OldWrite(st) PROVE TypeOK'
  <2>1. oldWrites' \in 0 .. MaxOldWrites BY <1>11, BoundsAssumption DEF OldWrite, TypeOK
  <2> QED BY <1>11, <1>a, <2>1 DEF OldWrite, Disturbs, TypeOK, Here
<1> QED
  BY <1>1, <1>2, <1>3, <1>4, <1>5, <1>6, <1>7, <1>8, <1>9, <1>10, <1>11 DEF Next, Run

LEMMA InvInit == Init => IInv
<1> SUFFICES ASSUME Init PROVE IInv
  OBVIOUS
<1>1. TypeOK
  BY PlanShape, DatabasesAssumption, BoundsAssumption DEF Init, TypeOK, Here
<1>2. Progress
  BY DEF Init, Progress, Passed, Starting
<1> QED BY <1>1, <1>2 DEF IInv

(* At any time, the plan, the databases, the number of processes and of     *)
(* faults being what they may, the statements a process has passed are done.*)
LEMMA Invariance == Spec => []IInv
<1>1. IInv /\ [Next]_vars => IInv'
  BY TypeStep, ProgressStep DEF IInv
<1> QED BY InvInit, <1>1, PTL DEF Spec

(* Every variable keeps the shape the code gives it. *)
THEOREM TypeCorrect == Spec => []TypeOK
<1>1. IInv => TypeOK BY DEF IInv
<1> QED BY Invariance, <1>1, PTL

(* A process that serves finds the whole schema, whoever else is starting,  *)
(* stopping or altering: no step of ensureSchemaAndSeed undoes another's.   *)
THEOREM ServesWholeSchema == Spec => []ServingIsComplete
<1>1. IInv => ServingIsComplete
  <2> SUFFICES ASSUME IInv, NEW p \in Procs, pc[p] = "serving", NEW st \in Statements
               PROVE  Complete(st)
    BY DEF ServingIsComplete
  <2>1. PICK i \in DOMAIN Plan : st = Plan[i] BY DEF Statements
  <2> QED BY <2>1 DEF IInv, Progress, Passed
<1> QED BY Invariance, <1>1, PTL


(* After the statement at j nothing in the plan leaves its column blank any *)
(* more: the backfills of ensureSchemaAndSeed come after the ALTER that     *)
(* adds the column with the default ''.                                     *)
LastFill(j) ==
  /\ Plan[j].op = "fill"
  /\ \A k \in DOMAIN Plan : k > j => ~(StartsBlank(Plan[k]) /\ Column(Plan[k]) = Column(Plan[j]))

(* A unique index that may not be passed over is made after its column was  *)
(* filled, and no earlier version left that column with shared values: it   *)
(* came with its index.                                                     *)
FilledFirst ==
  \A i \in DOMAIN Plan : Plan[i].op = "unique" =>
    \E j \in DOMAIN Plan : j < i /\ LastFill(j) /\ Column(Plan[j]) = Column(Plan[i])
NeverShared ==
  \A d \in Databases : \A st \in Statements : st.op = "unique" => Column(st) \notin d.doubled

(* What a process that nobody came between can rely on: the look-up it made *)
(* is still true, and the columns it filled have no blanks.                 *)
Undisturbed(p) == Starting(p) /\ p \notin disturbed
LookupHolds    == \A p \in Procs : Undisturbed(p) /\ pc[p] = "alter" => ~Done(Here(p))
FillsHold      ==
  \A p \in Procs : Undisturbed(p) =>
    \A j \in DOMAIN Plan : j < at[p] /\ LastFill(j) => Column(Plan[j]) \notin blank
Unshared       == \A st \in Statements : st.op = "unique" => Column(st) \notin doubled
AloneInv       == LookupHolds /\ FillsHold /\ Unshared

(* A step that p does not take and that does not count as coming between    *)
(* leaves p where it is, its look-up true and no new blanks.                *)
Unmoved(p) ==
  /\ pc'[p] = pc[p] /\ at'[p] = at[p] /\ p \notin disturbed
  /\ blank' \subseteq blank
  /\ pc[p] = "alter" => (Done(Here(p))' <=> Done(Here(p)))

LEMMA RowsAreApart ==
  ASSUME NEW st \in Statements, st.op \in Checked, NEW x \in Statements, x.op = "seed"
  PROVE  Item(st) # Item(x)
BY DEF Item, Kind, Checked

LEMMA OthersLeaveAlone ==
  ASSUME TypeOK, NEW p \in Procs, NEW q \in Procs, q # p, Starting(p)', p \notin disturbed',
         Start(q) \/ Run(q) \/ Cut(q)
  PROVE  Unmoved(p)
<1>0. Here(p) \in Statements /\ Here(q) \in Statements BY PlanShape DEF TypeOK, Here
<1>1. CASE Start(q)
  BY <1>1 DEF Start, Unmoved, TypeOK, Done, Here
<1>2. CASE Cut(q)
  BY <1>2 DEF Cut, Unmoved, TypeOK, Done, Here
<1>3. ASSUME Pass(q) \/ Fail(q) PROVE pc'[p] = pc[p] /\ at'[p] = at[p]
  BY <1>3 DEF Pass, Fail, TypeOK
<1>4. ASSUME Disturbs(Procs \ {q}), pc'[p] = pc[p] PROVE FALSE
  BY <1>4 DEF Disturbs, Starting
<1>5. CASE Create(q)
  BY <1>3, <1>4, <1>5 DEF Create
<1>6. CASE Fill(q)
  BY <1>3, <1>6 DEF Fill, Unmoved, Done, Here
<1>7. CASE Seed(q)
  <2>1. pc'[p] = pc[p] /\ at'[p] = at[p] BY <1>3, <1>7 DEF Seed
  <2>2. schema' = schema \cup {Item(Here(q))} /\ Here(q).op = "seed" /\ blank' = blank /\ disturbed' = disturbed
    BY <1>7 DEF Seed
  <2>3. ASSUME pc[p] = "alter" PROVE Item(Here(p)) \in schema' <=> Item(Here(p)) \in schema
    <3>1. Here(p).op \in Checked BY <2>3 DEF TypeOK
    <3> QED BY <1>0, <2>2, <3>1, RowsAreApart
  <2>4. Here(p)' = Here(p) BY <2>1 DEF Here
  <2>5. ASSUME pc[p] = "alter" PROVE Done(Here(p))' <=> Done(Here(p))
    BY <2>3, <2>4, <2>5 DEF Done
  <2> QED BY <2>1, <2>2, <2>5 DEF Unmoved
<1>8. CASE Check(q)
  <2>1. pc'[p] = pc[p] /\ at'[p] = at[p]
    BY <1>3, <1>8 DEF Check, TypeOK
  <2> QED BY <1>8, <2>1 DEF Check, Unmoved, Done, Here
<1>9. CASE Alter(q)
  <2>1. Pass(q) \/ Fail(q) BY <1>9 DEF Alter
  <2> QED BY <1>3, <1>4, <1>9, <2>1 DEF Alter
<1> QED BY <1>1, <1>2, <1>5, <1>6, <1>7, <1>8, <1>9 DEF Run

LEMMA SurroundingsLeaveAlone ==
  ASSUME TypeOK, NEW p \in Procs, Starting(p)', p \notin disturbed',
         \/ UNCHANGED vars
         \/ \E st \in late : LateAlter(st) \/ LateLost(st)
         \/ \E st \in Statements : OldWrite(st)
  PROVE  Unmoved(p)
<1>1. CASE UNCHANGED vars BY <1>1 DEF vars, Unmoved, Done, Here
<1>2. ASSUME NEW st \in late, LateAlter(st) PROVE FALSE
  BY <1>2 DEF LateAlter, Disturbs, Starting
<1>3. ASSUME NEW st \in late, LateLost(st) PROVE Unmoved(p)
  BY <1>3 DEF LateLost, Unmoved, Done, Here
<1>4. ASSUME NEW st \in Statements, OldWrite(st) PROVE FALSE
  BY <1>4 DEF OldWrite, Disturbs, Starting
<1> QED BY <1>1, <1>2, <1>3, <1>4

(* What is unmoved keeps what it relied on. *)
LEMMA UnmovedKeeps ==
  ASSUME TypeOK, AloneInv, NEW p \in Procs, Unmoved(p), Undisturbed(p)'
  PROVE  /\ pc'[p] = "alter" => ~Done(Here(p))'
         /\ \A j \in DOMAIN Plan : j < at'[p] /\ LastFill(j) => Column(Plan[j]) \notin blank'
<1>1. Undisturbed(p) BY DEF Undisturbed, Starting, Unmoved
<1>2. ASSUME pc'[p] = "alter" PROVE ~Done(Here(p))'
  BY <1>1, <1>2 DEF Unmoved, AloneInv, LookupHolds
<1>3. ASSUME NEW j \in DOMAIN Plan, j < at'[p], LastFill(j) PROVE Column(Plan[j]) \notin blank'
  BY <1>1, <1>3 DEF Unmoved, AloneInv, FillsHold
<1> QED BY <1>2, <1>3

(* A step of p itself: a statement that is passed, a look-up, or an end.    *)
LEMMA OwnStepKeeps ==
  ASSUME TypeOK, AloneInv, NEW p \in Procs, Start(p) \/ Run(p) \/ Cut(p), Undisturbed(p)'
  PROVE  /\ pc'[p] = "alter" => ~Done(Here(p))'
         /\ \A j \in DOMAIN Plan : j < at'[p] /\ LastFill(j) => Column(Plan[j]) \notin blank'
<1>0. at[p] \in 1 .. Len(Plan) /\ Len(Plan) \in Nat /\ DOMAIN Plan \subseteq Nat
      /\ Here(p) = Plan[at[p]]
  BY PlanShape DEF TypeOK, Here
<1>1. CASE Start(p)
  <2>1. pc'[p] = "run" /\ at'[p] = 1 BY <1>1 DEF Start, TypeOK
  <2> QED BY <2>1, PlanShape
<1>2. CASE Cut(p)
  BY <1>2 DEF Cut, Undisturbed, Starting, TypeOK
<1>a. ASSUME Run(p) PROVE (p \in disturbed => p \in disturbed') /\ Starting(p)
  BY <1>a DEF Run, Create, Fill, Seed, Check, Alter, Disturbs, Starting
<1>b. ASSUME Run(p) PROVE Undisturbed(p)
  BY <1>a, <1>b DEF Undisturbed
<1>c. ASSUME Pass(p) PROVE pc'[p] = "run" /\ at'[p] = at[p] + 1
  <2>1. pc'[p] # "serving" BY DEF Undisturbed, Starting
  <2> QED BY <1>c, <2>1 DEF Pass, TypeOK
<1>d. ASSUME Run(p), Pass(p), blank' \subseteq blank, Here(p).op # "fill"
      PROVE  \A j \in DOMAIN Plan : j < at'[p] /\ LastFill(j) => Column(Plan[j]) \notin blank'
  <2>1. SUFFICES ASSUME NEW j \in DOMAIN Plan, j < at'[p], LastFill(j)
                 PROVE  Column(Plan[j]) \notin blank
    BY <1>d
  <2>2. j # at[p] BY <1>0, <1>d, <2>1 DEF LastFill
  <2>3. j < at[p] BY <1>0, <1>c, <1>d, <2>1, <2>2
  <2> QED BY <1>b, <1>d, <2>1, <2>3 DEF AloneInv, FillsHold
<1>3. CASE Create(p) \/ Seed(p)
  <2>1. Run(p) /\ Pass(p) /\ blank' = blank /\ Here(p).op # "fill"
    BY <1>3 DEF Create, Seed, Run
  <2> QED BY <1>c, <1>d, <2>1
<1>4. CASE Fill(p)
  <2>1. Run(p) /\ Pass(p) /\ blank' = blank \ {Column(Here(p))} BY <1>4 DEF Fill, Run
  <2>2. ASSUME NEW j \in DOMAIN Plan, j < at'[p], LastFill(j) PROVE Column(Plan[j]) \notin blank'
    <3>1. CASE j = at[p] BY <1>0, <2>1, <3>1
    <3>2. CASE j # at[p]
      <4>1. j < at[p] BY <1>0, <1>c, <2>1, <2>2, <3>2
      <4> QED BY <1>b, <2>1, <2>2, <4>1 DEF AloneInv, FillsHold
    <3> QED BY <3>1, <3>2
  <2> QED BY <1>c, <2>1, <2>2
<1>5. CASE Check(p)
  <2>1. CASE Done(Here(p))
    <3>1. Run(p) /\ Pass(p) /\ blank' = blank /\ Here(p).op # "fill"
      BY <1>5, <2>1 DEF Check, Run, Checked
    <3> QED BY <1>c, <1>d, <3>1
  <2>2. CASE ~Done(Here(p))
    <3>1. at'[p] = at[p] /\ blank' = blank /\ schema' = schema /\ Run(p)
      BY <1>5, <2>2 DEF Check, Run
    <3>2. ~Done(Here(p))' BY <2>2, <3>1 DEF Done, Here
    <3> QED BY <1>b, <3>1, <3>2 DEF AloneInv, FillsHold
  <2> QED BY <2>1, <2>2
<1>6. CASE Alter(p)
  <2>1. Run(p) /\ Here(p).op \in Checked BY <1>6 DEF Run, Alter, TypeOK
  <2>2. ~Fail(p) BY DEF Fail, Undisturbed, Starting, TypeOK
  <2>3. Pass(p) /\ (blank' = blank \/ Altered(Here(p))) BY <1>6, <2>2 DEF Alter
  <2>4. Here(p).op # "fill" BY <2>1 DEF Checked
  <2>5. CASE blank' = blank BY <1>c, <1>d, <2>1, <2>3, <2>4, <2>5
  <2>6. CASE Altered(Here(p)) /\ blank' # blank
    <3>1. StartsBlank(Here(p)) /\ blank' = blank \cup {Column(Here(p))} BY <2>6 DEF Altered
    <3>2. ASSUME NEW j \in DOMAIN Plan, j < at'[p], LastFill(j) PROVE Column(Plan[j]) \notin blank'
      <4>1. j # at[p] BY <1>0, <2>4, <3>2 DEF LastFill
      <4>2. j < at[p] BY <1>0, <1>c, <2>3, <3>2, <4>1
      <4>3. Column(Plan[j]) \notin blank BY <1>b, <2>1, <3>2, <4>2 DEF AloneInv, FillsHold
      <4>4. at[p] \in DOMAIN Plan /\ at[p] > j BY <1>0, <4>2, PlanShape
      <4>5. Column(Here(p)) # Column(Plan[j]) BY <1>0, <3>1, <3>2, <4>4 DEF LastFill
      <4> QED BY <3>1, <4>3, <4>5
    <3> QED BY <1>c, <2>3, <3>2
  <2> QED BY <2>3, <2>5, <2>6
<1> QED BY <1>1, <1>2, <1>3, <1>4, <1>5, <1>6 DEF Run

LEMMA DoubledStays == [Next]_vars => doubled' = doubled
BY DEF Next, vars, Start, Run, Create, Fill, Seed, Check, Alter, Cut, LateAlter, LateLost, OldWrite

LEMMA AloneStep == TypeOK /\ AloneInv /\ [Next]_vars => AloneInv'
<1> SUFFICES ASSUME TypeOK, AloneInv, [Next]_vars PROVE AloneInv'
  OBVIOUS
<1>1. Unshared' BY DoubledStays DEF AloneInv, Unshared
<1>2. ASSUME NEW p \in Procs, Undisturbed(p)'
      PROVE  /\ pc'[p] = "alter" => ~Done(Here(p))'
             /\ \A j \in DOMAIN Plan : j < at'[p] /\ LastFill(j) => Column(Plan[j]) \notin blank'
  <2>0. Starting(p)' /\ p \notin disturbed' BY <1>2 DEF Undisturbed
  <2>1. CASE Start(p) \/ Run(p) \/ Cut(p) BY <1>2, <2>1, OwnStepKeeps
  <2>2. ASSUME NEW q \in Procs, q # p, Start(q) \/ Run(q) \/ Cut(q)
        PROVE  Unmoved(p)
    BY <2>0, <2>2, OthersLeaveAlone
  <2>3. ASSUME \/ UNCHANGED vars
               \/ \E st \in late : LateAlter(st) \/ LateLost(st)
               \/ \E st \in Statements : OldWrite(st)
        PROVE  Unmoved(p)
    BY <2>0, <2>3, SurroundingsLeaveAlone
  <2>4. CASE Unmoved(p) BY <1>2, <2>4, UnmovedKeeps
  <2> QED BY <2>1, <2>2, <2>3, <2>4 DEF Next
<1>3. LookupHolds' BY <1>2 DEF LookupHolds
<1>4. FillsHold' BY <1>2 DEF FillsHold, LastFill
<1> QED BY <1>1, <1>3, <1>4 DEF AloneInv

(* A start that nobody comes between never fails: what it looked up is      *)
(* still so when it alters, and the column of a unique index has been       *)
(* filled.  The two hypotheses are what ensureSchemaAndSeed owes to the     *)
(* order of its statements, and to public_chat_id having come with its      *)
(* index.                                                                   *)
THEOREM AloneIsSafe ==
  ASSUME FilledFirst, NeverShared
  PROVE  Spec => AloneNeverFails
<1>1. Init => AloneInv
  <2> SUFFICES ASSUME Init PROVE AloneInv
    OBVIOUS
  <2>1. \A p \in Procs : ~Starting(p) BY DEF Init, Starting
  <2>2. Unshared BY NeverShared DEF Init, Unshared, NeverShared
  <2> QED BY <2>1, <2>2 DEF AloneInv, LookupHolds, FillsHold, Undisturbed
<1>2. TypeOK /\ AloneInv /\ [Next]_vars
      => [\A p \in Procs : pc[p] = "alter" /\ pc'[p] = "down" /\ faults' = faults => p \in disturbed]_vars
  <2> SUFFICES ASSUME TypeOK, AloneInv, [Next]_vars, NEW p \in Procs, pc[p] = "alter",
                      pc'[p] = "down", faults' = faults, p \notin disturbed
               PROVE  FALSE
    OBVIOUS
  <2>0. Here(p) = Plan[at[p]] /\ at[p] \in DOMAIN Plan /\ Here(p) \in Statements
    BY PlanShape DEF TypeOK, Here
  <2>1. Alter(p)
    <3>1. ~ UNCHANGED vars BY DEF vars
    <3>2. ASSUME NEW q \in Procs, Start(q) PROVE FALSE BY <3>2 DEF Start, TypeOK
    <3>3. ASSUME NEW q \in Procs, Cut(q) PROVE FALSE
      BY <3>3 DEF Cut, TypeOK
    <3>4. ASSUME NEW q \in Procs, Create(q) \/ Fill(q) \/ Seed(q) PROVE FALSE
      BY <3>4 DEF Create, Fill, Seed, Pass, TypeOK
    <3>5. ASSUME NEW q \in Procs, Check(q) PROVE FALSE
      BY <3>5 DEF Check, Pass, TypeOK
    <3>6. ASSUME NEW q \in Procs, q # p, Alter(q) PROVE FALSE
      BY <3>6 DEF Alter, Pass, Fail, TypeOK
    <3>7. ASSUME NEW st \in late, LateAlter(st) \/ LateLost(st) PROVE FALSE
      BY <3>7 DEF LateAlter, LateLost
    <3>8. ASSUME NEW st \in Statements, OldWrite(st) PROVE FALSE BY <3>8 DEF OldWrite
    <3> QED BY <3>1, <3>2, <3>3, <3>4, <3>5, <3>6, <3>7, <3>8 DEF Next, Run
  <2>2. Undisturbed(p) BY DEF Undisturbed, Starting
  <2>3. ~Done(Here(p)) BY <2>2 DEF AloneInv, LookupHolds
  <2>4. ~Pass(p) BY DEF Pass, TypeOK
  <2>5. Clash(Here(p)) /\ Here(p).op # "safe" BY <2>1, <2>3, <2>4 DEF Alter
  <2>6. Here(p).op = "unique" /\ Column(Here(p)) \in blank \cup doubled BY <2>5 DEF Clash
  <2>7. Column(Here(p)) \notin doubled BY <2>0, <2>6 DEF AloneInv, Unshared
  <2>8. PICK j \in DOMAIN Plan : j < at[p] /\ LastFill(j) /\ Column(Plan[j]) = Column(Here(p))
    BY <2>0, <2>6, FilledFirst DEF FilledFirst
  <2>9. Column(Plan[j]) \notin blank BY <2>2, <2>8 DEF AloneInv, FillsHold
  <2> QED BY <2>6, <2>7, <2>8, <2>9
<1>3. Spec => []TypeOK BY TypeCorrect
<1> QED BY <1>1, <1>2, <1>3, AloneStep, PTL DEF Spec, AloneNeverFails
=============================================================================
