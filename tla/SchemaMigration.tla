-------------------------- MODULE SchemaMigration --------------------------
(***************************************************************************)
(* What every process does to the database before it serves: NewData and   *)
(* ensureSchemaAndSeed (internal/data/data.go).  The plan is a sequence of *)
(* statements.  A table is created IF NOT EXISTS and a row is inserted     *)
(* with IGNORE, in one statement; a column or an index is looked up first  *)
(* and altered after, and nothing keeps a second process from doing the    *)
(* same in between.  The first error ends the process.                     *)
(***************************************************************************)
EXTENDS Integers, Sequences, FiniteSets

CONSTANTS
  Procs,      \* API servers and ingesters on one database
  Plan,       \* the statements, in order
  NotInTable, \* items that CREATE TABLE leaves to a later statement
  Databases,  \* what earlier versions may have left: [schema, blank, doubled]
  MaxFaults, MaxOldWrites \* bounds

Checked == {"column", "drop", "index", "unique", "safe"}
OpKinds == {"table", "fill", "seed"} \cup Checked

Kind(op) == CASE op \in {"index", "unique", "safe"} -> "index"
              [] op = "seed" -> "row"
              [] op = "table" -> "table"
              [] OTHER -> "column"
Item(st) == <<st.t, st.n, Kind(st.op)>>
Column(st) == <<st.t, st.n, "column">>

Statements == {Plan[i] : i \in DOMAIN Plan}
Dropped    == {Item(st) : st \in {x \in Statements : x.op = "drop"}}
Items      == {Item(st) : st \in Statements} \cup {Column(st) : st \in Statements}

(* CREATE TABLE names every column and index of today's version.            *)
Brings(t) ==
  {Item(st) : st \in {x \in Statements : x.t = t /\ x.op \in {"table", "column", "index", "unique"}}}
    \ NotInTable

ASSUME PlanAssumption ==
  /\ Plan \in Seq([op : OpKinds, t : STRING, n : STRING]) /\ Plan # <<>>
  /\ \A st \in Statements : st.op \notin {"drop", "fill"} => Item(st) \notin Dropped
  /\ \A st \in Statements : st.op = "table" => Item(st) \notin NotInTable
ASSUME DatabasesAssumption ==
  \A d \in Databases : d.schema \subseteq Items /\ d.blank \subseteq Items /\ d.doubled \subseteq Items
ASSUME BoundsAssumption == MaxFaults \in Nat /\ MaxOldWrites \in Nat

VARIABLES
  schema,     \* tables, columns, indexes and catalogue rows that there are
  blank,      \* columns in which two rows or more are blank
  doubled,    \* columns in which two rows share another value
  pc, at,     \* of a process, and the statement it is at
  late,       \* ALTERs the server still has under way for nobody
  disturbed,  \* history: processes whose start somebody else came between
  faults, oldWrites

vars == <<schema, blank, doubled, pc, at, late, disturbed, faults, oldWrites>>

Init ==
  /\ \E d \in Databases : schema = d.schema /\ blank = d.blank /\ doubled = d.doubled
  /\ pc = [p \in Procs |-> "down"] /\ at = [p \in Procs |-> 1]
  /\ late = {} /\ disturbed = {} /\ faults = 0 /\ oldWrites = 0

-----------------------------------------------------------------------------
Starting(p) == pc[p] \in {"run", "alter"}
Here(p)     == Plan[at[p]]

(* Everyone else who is starting has had the database changed under them.   *)
Disturbs(P) == disturbed' = disturbed \cup {p \in P : Starting(p)}

Start(p) ==
  /\ pc[p] = "down"
  /\ pc' = [pc EXCEPT ![p] = "run"] /\ at' = [at EXCEPT ![p] = 1]
  /\ disturbed' = IF late = {} THEN disturbed \ {p} ELSE disturbed \cup {p}
  /\ UNCHANGED <<schema, blank, doubled, late, faults, oldWrites>>

(* A plausible slip: one statement too many. *)
PassOnePast(p) ==
  IF at[p] = Len(Plan) + 1 THEN pc' = [pc EXCEPT ![p] = "serving"] /\ UNCHANGED at
                           ELSE pc' = [pc EXCEPT ![p] = "run"] /\ at' = [at EXCEPT ![p] = @ + 1]

(* The statement is done: the next one, or ready to serve. *)
Pass(p) ==
  IF at[p] = Len(Plan) THEN pc' = [pc EXCEPT ![p] = "serving"] /\ UNCHANGED at
                       ELSE pc' = [pc EXCEPT ![p] = "run"] /\ at' = [at EXCEPT ![p] = @ + 1]

(* An error: the process ends. *)
Fail(p) == pc' = [pc EXCEPT ![p] = "down"] /\ UNCHANGED <<schema, blank, at>>

Create(p) ==
  /\ pc[p] = "run" /\ Here(p).op = "table"
  /\ schema' = IF Item(Here(p)) \in schema THEN schema ELSE schema \cup Brings(Here(p).t)
  /\ Disturbs(Procs \ {p})
  /\ Pass(p)
  /\ UNCHANGED <<blank, doubled, late, faults, oldWrites>>

(* UPDATE ... WHERE the column is blank. *)
Fill(p) ==
  /\ pc[p] = "run" /\ Here(p).op = "fill"
  /\ blank' = blank \ {Column(Here(p))}
  /\ Pass(p)
  /\ UNCHANGED <<schema, doubled, late, disturbed, faults, oldWrites>>

(* INSERT IGNORE of the permission catalogue. *)
Seed(p) ==
  /\ pc[p] = "run" /\ Here(p).op = "seed"
  /\ schema' = schema \cup {Item(Here(p))}
  /\ Pass(p)
  /\ UNCHANGED <<blank, doubled, late, disturbed, faults, oldWrites>>

(* What the SELECT COUNT on INFORMATION_SCHEMA finds nothing left to do in. *)
Done(st) == IF st.op = "drop" THEN Item(st) \notin schema ELSE Item(st) \in schema

(* A plausible slip: the lookup fails to tell, and the ALTER is left out.   *)
CheckSkips(p) ==
  /\ pc[p] = "run" /\ Here(p).op \in Checked
  /\ Pass(p)
  /\ UNCHANGED <<schema, blank, doubled, late, disturbed, faults, oldWrites>>

Check(p) ==
  /\ pc[p] = "run" /\ Here(p).op \in Checked
  /\ IF Done(Here(p)) THEN Pass(p) ELSE pc' = [pc EXCEPT ![p] = "alter"] /\ UNCHANGED at
  /\ UNCHANGED <<schema, blank, doubled, late, disturbed, faults, oldWrites>>

(* MySQL's error 1062 when the index is to be unique. *)
Clash(st) == st.op \in {"unique", "safe"} /\ Column(st) \in blank \cup doubled

(* The column public_chat_id is added with the default '', the others with  *)
(* NULL or a value that is not blank.                                       *)
StartsBlank(st) == st.op = "column" /\ st.n = "public_chat_id"

Altered(st) ==
  /\ schema' = IF st.op = "drop" THEN schema \ {Item(st)} ELSE schema \cup {Item(st)}
  /\ blank' = IF StartsBlank(st) THEN blank \cup {Column(st)} ELSE blank

(* A plausible slip: a clash is an error for ensureUniqueIndexSafe too. *)
AlterForgivesNothing(p) ==
  /\ pc[p] = "alter"
  /\ IF Done(Here(p)) \/ Clash(Here(p)) THEN Fail(p) ELSE Altered(Here(p)) /\ Pass(p)
  /\ Disturbs(Procs \ {p})
  /\ UNCHANGED <<doubled, late, faults, oldWrites>>

(* ALTER TABLE or CREATE INDEX fails when somebody else was faster (1060,   *)
(* 1061, 1091), and on a clash, which only ensureUniqueIndexSafe passes     *)
(* over.                                                                    *)
Alter(p) ==
  /\ pc[p] = "alter"
  /\ IF Done(Here(p)) THEN Fail(p)
     ELSE IF ~Clash(Here(p)) THEN Altered(Here(p)) /\ Pass(p)
     ELSE IF Here(p).op = "safe" THEN Pass(p) /\ UNCHANGED <<schema, blank>>
     ELSE Fail(p)
  /\ Disturbs(Procs \ {p})
  /\ UNCHANGED <<doubled, late, faults, oldWrites>>

-----------------------------------------------------------------------------
(* Faults: the ten seconds are over, the connection is lost, the process is *)
(* killed.  The server does not know: an ALTER that was under way may still *)
(* be carried out.                                                          *)
Cut(p) ==
  /\ pc[p] # "down" /\ faults < MaxFaults
  /\ faults' = faults + 1
  /\ pc' = [pc EXCEPT ![p] = "down"]
  /\ late' = IF pc[p] = "alter" THEN late \cup {Here(p)} ELSE late
  /\ UNCHANGED <<schema, blank, doubled, at, disturbed, oldWrites>>

LateAlter(st) ==
  /\ st \in late /\ late' = late \ {st}
  /\ IF Done(st) \/ Clash(st) THEN UNCHANGED <<schema, blank>> ELSE Altered(st)
  /\ Disturbs(Procs)
  /\ UNCHANGED <<doubled, pc, at, faults, oldWrites>>

LateLost(st) ==
  /\ st \in late /\ late' = late \ {st}
  /\ UNCHANGED <<schema, blank, doubled, pc, at, disturbed, faults, oldWrites>>

(* An instance of the version before still serves and writes blanks, which  *)
(* a unique index refuses.                                                  *)
OldWrite(st) ==
  /\ st.op \in {"unique", "safe"} /\ oldWrites < MaxOldWrites
  /\ Column(st) \in schema /\ Item(st) \notin schema
  /\ oldWrites' = oldWrites + 1
  /\ blank' = blank \cup {Column(st)}
  /\ Disturbs(Procs)
  /\ UNCHANGED <<schema, doubled, pc, at, late, faults>>

Run(p) == Create(p) \/ Fill(p) \/ Seed(p) \/ Check(p) \/ Alter(p)

Next ==
  \/ \E p \in Procs : Start(p) \/ Run(p) \/ Cut(p)
  \/ \E st \in late : LateAlter(st) \/ LateLost(st)
  \/ \E st \in Statements : OldWrite(st)

(* A process that runs goes on; one that is down is started again.          *)
Fairness == \A p \in Procs : WF_vars(Start(p) \/ Run(p))

Spec == Init /\ [][Next]_vars /\ Fairness

-----------------------------------------------------------------------------
(* Every variable has the shape the code gives it. *)
TypeOK ==
  /\ schema \subseteq Items /\ blank \subseteq Items /\ doubled \subseteq Items
  /\ pc \in [Procs -> {"down", "run", "alter", "serving"}]
  /\ at \in [Procs -> DOMAIN Plan]
  /\ \A p \in Procs : pc[p] = "alter" => Here(p).op \in Checked
  /\ \A st \in late : st \in Statements /\ st.op \in Checked
  /\ disturbed \subseteq Procs
  /\ faults \in 0 .. MaxFaults /\ oldWrites \in 0 .. MaxOldWrites

(* Whatever the database was, however the other processes, timeouts and     *)
(* late ALTERs came between: a process that serves finds everything its     *)
(* statements are for, except a unique index that ensureUniqueIndexSafe may *)
(* have passed over.                                                        *)
Complete(st) == st.op \in {"fill", "safe"} \/ Done(st)
ServingIsComplete ==
  (\E p \in Procs : pc[p] = "serving") => \A st \in Statements : Complete(st)

(* A start that nobody comes between never fails, on a fresh database and   *)
(* on every one an earlier version left behind: an error is the sign of a   *)
(* race, so that starting again is the right answer to it.                  *)
AloneNeverFails ==
  [][\A p \in Procs : pc[p] = "alter" /\ pc'[p] = "down" /\ faults' = faults => p \in disturbed]_vars

(* Processes that start together do not keep failing each other: in the end *)
(* all of them serve.                                                       *)
AllServe == <>[](\A p \in Procs : pc[p] = "serving")
=============================================================================
