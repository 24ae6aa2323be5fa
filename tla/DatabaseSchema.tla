--------------------------- MODULE DatabaseSchema ---------------------------
(***************************************************************************)
(* The statements of ensureSchemaAndSeed (internal/data/data.go), one      *)
(* sequence per function, in its order.  Types, defaults and the columns   *)
(* no statement but CREATE TABLE names are left out.                       *)
(***************************************************************************)
EXTENDS Sequences

Tables(ts)     == [i \in DOMAIN ts |-> [op |-> "table", t |-> ts[i], n |-> ""]]
Columns(t, cs) == [i \in DOMAIN cs |-> [op |-> "column", t |-> t, n |-> cs[i]]]
One(op, t, n)  == <<[op |-> op, t |-> t, n |-> n]>>

IAM ==
  Tables(<<"tenant", "user", "role", "permission", "user_role", "role_permission", "platform_admin",
           "platform_role", "platform_admin_role", "platform_role_permission">>)
  \o One("column", "tenant", "type") \o One("column", "user", "password_hash")
  \o One("fill", "tenant", "type")
  \o One("column", "permission", "scope") \o One("fill", "permission", "scope")
  \o One("fill", "user", "email") \o One("fill", "user", "phone")
  \o One("safe", "user", "email") \o One("safe", "user", "phone")

Bot == Tables(<<"bot">>)

KeyColumns == <<"bot_id", "key_hash", "public_chat_id", "public_chat_enabled", "scopes",
                "api_versions", "prev_key_hash", "prev_expires_at", "status", "quota_daily",
                "qps_limit", "last_used_at">>
UsageColumns == <<"tenant_id", "bot_id", "api_version", "model", "prompt_tokens",
                  "completion_tokens", "total_tokens", "client_ip", "user_agent">>

(* A plausible slip: the unique index before the chat ids are filled in. *)
APIMgmtIndexFirst ==
  Tables(<<"api_key", "api_usage_log">>)
  \o Columns("api_key", KeyColumns)
  \o One("unique", "api_key", "public_chat_id") \o One("fill", "api_key", "public_chat_id")
  \o Columns("api_usage_log", UsageColumns)

APIMgmt ==
  Tables(<<"api_key", "api_usage_log">>)
  \o Columns("api_key", KeyColumns)
  \o One("fill", "api_key", "public_chat_id") \o One("unique", "api_key", "public_chat_id")
  \o Columns("api_usage_log", UsageColumns)

Knowledge ==
  Tables(<<"knowledge_base", "document", "document_version", "doc_chunk", "embedding", "bot_kb">>)
  \o One("drop", "document_version", "raw_text") \o One("drop", "bot_kb", "priority")
  \o Columns("document_version", <<"raw_uri", "index_config_hash">>)
  \o Columns("doc_chunk", <<"section", "page_no", "source_uri">>)

Conversation == Tables(<<"chat_session", "chat_message", "session_event", "message_feedback">>)

Analytics ==
  Tables(<<"analytics_event", "analytics_daily">>)
  \o Columns("analytics_event", <<"query", "query_hash", "hit", "confidence", "latency_ms",
                                  "status_code", "rating">>)
  \o One("index", "analytics_event", "query_hash")
  \o Columns("analytics_daily", <<"total_queries", "hit_queries", "hit_rate", "avg_latency_ms",
                                  "p95_latency_ms">>)

(* The catalogue, by scope. *)
Permissions == One("seed", "permission", "platform") \o One("seed", "permission", "tenant")

FullPlan == IAM \o Bot \o APIMgmt \o Knowledge \o Conversation \o Analytics \o Permissions

LeftToLater == {<<"user", "password_hash", "column">>}
=============================================================================
