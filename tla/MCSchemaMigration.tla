------------------------- MODULE MCSchemaMigration -------------------------
(***************************************************************************)
(* The statements of the plan about the tables Chosen, on a fresh database *)
(* and on one that an earlier version left: without the newest columns,    *)
(* with one that was dropped since, with blank phone numbers and an e-mail *)
(* address that two users share.                                           *)
(***************************************************************************)
EXTENDS SchemaMigration, DatabaseSchema

CONSTANT Chosen

InChosen(st) == st.t \in Chosen
MCPlan       == SelectSeq(FullPlan, InChosen)

TablesOf(ts) == {<<t, "", "table">> : t \in ts}
Cols(t, cs)  == {<<t, c, "column">> : c \in cs}

OldTables == TablesOf({"user", "permission", "api_key", "bot_kb"} \cap Chosen)
Email     == <<"user", "email", "column">>
Phone     == <<"user", "phone", "column">>

Fresh  == [schema |-> {}, blank |-> {}, doubled |-> {}]
Older  == [schema |-> OldTables \cup {Email, Phone} \cup Cols("bot_kb", {"priority"})
                        \cup Cols("api_key", {"bot_id", "key_hash", "status", "quota_daily", "qps_limit",
                                              "scopes", "api_versions", "last_used_at"}),
           blank |-> {Phone}, doubled |-> {Email}]

MCDatabases == {Fresh, Older}
=============================================================================
