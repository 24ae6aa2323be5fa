# A verification development for RagoDesk

RagoDesk is a multi-tenant customer-service backend: tenants upload documents,
a pipeline turns them into vectors, and bots answer questions from them. This
directory holds TLA+ models of its code, TLC configurations that check them on
small instances, and TLAPS proofs of what matters most for every instance.

All paths below are relative to `src/apps/server/internal/` unless they start
with `src/` or `docs/`.

## 1. The system

### Inventory

| Part | State it keeps | Operations | What is hard about it |
|---|---|---|---|
| ingestion queue on RabbitMQ, `knowledge/data/queue.go` | work, retry and dead-letter queues; the unacknowledged message of each consumer | `Enqueue`, `consume`, `publish` | redelivery, crash between publish and ack, lost connections, retry counts |
| ingestion queue on Redis, same file | one list, a dead-letter list, timers in the process | `Enqueue`, `consume`, `requeueWithDelay`, `pushDLQ` | the only copy of a job is in process memory; the client sends a push again whose reply is lost |
| documents and versions, `knowledge/biz/knowledge.go`, `knowledge/data/*.go` | MySQL `document`, `document_version`, `doc_chunk`; Qdrant points; stored objects | upload, reindex, rollback, delete, `processIngestion` | four stores and no common transaction; requests and workers interleave call by call; every call may fail; jobs run more than once |
| knowledge bases, bots and bindings, same files and `bot/*` | `bot`, `knowledge_base`, `bot_kb`, `document.kb_id`, the `kb_id` in point payloads | create, update, delete, bind, unbind, move a document | the payload and the row disagree; deletions and clean-ups that stop half-way; checks before inserts; updates write back what they read |
| parsing and chunking, `knowledge/biz/parsing.go`, `chunking.go` | none | text to blocks, segments and chunks | overlap against chunk size, headings and pages carried along |
| answer pipeline, `rag/biz/*.go`, `rag/service/rag.go` | one request's context | resolve, embed, search, load, rerank, assess, generate | concurrent searches, stores read at different times, partial failure |
| API keys, `apimgmt/*` | `api_key` row with its previous hash; Redis window counters | create, update, rotate, delete, authorize | read-modify-write, grace period, counters that fail open |
| usage log and export, `apimgmt/*` | `api_usage_log` | record, list, export | a goroutine on a pipe |
| conversations, `conversation/*` | `chat_session`, `chat_message`, `session_event`, `message_feedback`, `lastPurge` | start, close, record an exchange, feedback, purge | a purge of four statements beside the requests; check then act |
| analytics, `analytics/*` | `analytics_event`, daily aggregates | record, query | best effort by design |
| login, tenants and roles, `auth/*`, `iam/*`, `platform/*` | `tenant`, `user`, `role`, `permission` and the tables that tie them, the same for the platform; JWTs | register, login, invite, roles, grants, permission check | checks before inserts; roles in a token that outlive the tables |
| database schema, `data/data.go` | the schema itself | `NewData`, `ensureSchemaAndSeed` | several processes alter the same tables at start-up, without a lock |
| servers, middleware, wiring, `server/*`, `middleware/*`, `src/apps/server/cmd/*` | the processes | start and stop | when consumers start and connections close |
| model providers, store clients, `ai/provider/*`, `knowledge/data/qdrant.go`, `storage.go` | none | HTTP calls | fail or succeed |
| dashboard (`src/apps/dashboard`), generated code (`src/apps/server/api`) | none of interest | | |

### How the parts interact

A console request (`KnowledgeUsecase.UploadDocument`, `ReindexDocument`, ...)
writes MySQL rows, then calls `enqueueIngestion`. With a queue the job goes to
RabbitMQ, or to Redis when RabbitMQ could not be dialled when the process
started; without one, or when the queue refuses, the request runs
`processIngestion` itself. A worker goroutine of the API process or of
`cmd/ingester` takes the job and runs the same `processIngestion`: load the
version and the document, fetch and chunk the content, embed, upsert the points
to Qdrant, commit the rows to MySQL, mark the version and the document ready,
clean up the index of the version it replaced. Nothing locks a document: what
keeps two builds of it apart is only that `document_version` has a unique key on
(document, version). The answer pipeline later reads Qdrant and MySQL, in that
order and without a snapshot.

### What makes the core correct

* The queue: an accepted job is never forgotten, is retried exactly as often as
  configured, and is settled in the end.
* The documents: a document points to a version that exists; that version is
  served by both stores; after the work on a document has settled nothing else
  of it is indexed; two versions are never built at once; no document stays in
  `processing`. Its chunks cover its text, fit the embedding model and say truly
  where they come from.
* The answers: "I do not know" is never the echo of a failed search, and what is
  cited was there.
* The keys: a tenant can rotate a key without an outage and revoke one for good;
  limits limit.
* The conversations: what was answered is kept until its retention is over, and
  then nothing of it is left.
* The accounts: an account leads to one user, roles stay within their tenant, and
  what is done was permitted, where it was done.
* The schema: whoever serves has all of it.

The places where these can go wrong, with their lines and the properties that
watch them, are listed under `hazards` in `PROJECT.json`.

## 2. The modules

| Module | Models |
|---|---|
| `JobDelivery` | the abstract promise of a queue: unknown, pending, done or dead, per job |
| `IngestionQueue` | `rabbitQueue` and the broker it relies on |
| `RedisIngestionQueue` | `redisQueue` |
| `KnowledgeIngestion` | the document handlers and `processIngestion`; contains an instance of `IngestionQueue` whose handler is the real pipeline |
| `DocumentText` | from the lines of a text to its chunks |
| `KnowledgeBases` | bots, knowledge bases, bindings, the filing and moving of documents, and what a bot finds |
| `AnswerPipeline` | one question: the steps of the `rag` pipeline and of its service, over the stores ingestion writes |
| `ApiKeys` | one API key: the console's requests, the calls that present it, the counters in Redis |
| `Conversations` | chat sessions, what is recorded in them, and the purge |
| `Accounts` | registration, login, users, roles, grants and the permission check, of tenants and of the platform |
| `SchemaMigration`, `DatabaseSchema` | processes that bring the schema up to date when they start; the statements they do it with |
| `Ingestion_proofs` (the chunks, and both queues), `KnowledgeIngestion_proofs`, `AnswerPipeline_proofs`, `SchemaMigration_proofs`, `Accounts_proofs`, `KnowledgeBases_proofs`, `Conversations_proofs`, `ApiKeys_proofs` | TLAPS proofs |
| `MC*` | instances for TLC: symmetry sets, small corpora, texts, catalogues and old databases; `MCDocuments` puts `KnowledgeIngestion` and `DocumentText` together |

Definitions whose comment begins "A plausible slip" (or "Plausible slips") are not used by the
specifications: each is a wrong version of its neighbour, with which the run named
in `PROJECT.json`, `mutants`, finds its property violated.

### `IngestionQueue` and the code

The three queues are bags (functions from messages to a number of copies): with
several consumers and redeliveries the broker's order says nothing about the
order of handling. A worker is one goroutine in `consume`; `phase` is its place
in the loop body: waiting, in the handler, after the handler returned nil or an
error, after the retry or dead-letter copy was published. The steps between are
separate because a crash or a lost connection between any two of them is what
the acknowledgement protocol is about: `Crash` and `ConnectionLost` put an
unacknowledged message back. A worker whose channel closed returns and is never
started again (`consume` returns at queue.go:171), so `link` goes up again only
with `Restart`, a restart of the process. `Crash` is a death of the process with
another started in its place; what starts it is outside the repository, whose compose
file (`src/deploy/docker-compose.yml`) has the infrastructure only. `PublishFails` is the `Nack` with
requeue. `EnqueueLost` is the publish that the client library accepted and the
broker never saw, since the channel does not use confirms; jobs lost so are kept
in `unconfirmed`.

The refinement mapping to `JobDelivery` (`JobStatus`) reads a job as done when
some run of the handler succeeded, dead when a copy is parked, pending when a copy
waits or is in hand. `JobDelivery` has no step to "forgotten", so an
implementation that loses a job does not refine it.

### `RedisIngestionQueue` and the code

`list` is a sequence: RPUSH appends and BRPOP takes from the same end. `timers`
are the `time.AfterFunc` calls of a worker's process. The base delay is chosen in
`Init` from `Backoffs`, because the code branches on it (`requeueWithDelay`
pushes at once when it is not positive). A push may take several steps: the client is
created with its default retries (queue.go:297-309), so it sends an RPUSH again when the
reply is lost (`SentAgain`), though Redis has taken it, and gives up in the end, the
last one taken or not (`GivenUp`). Disruptions are a lost reply of a push or a BRPOP, a
push given up, the death of a process. The model does not count to three: any number of
repetitions the bound leaves room for.

### `KnowledgeIngestion` and the code

Every repository call is one step. `docs`, `versions`, `rows`, `points` and
`objects` are the stores; `client` holds each console request with the point it
has reached in its handler and what it has read; `pipe` holds each run of
`processIngestion`, of a worker or of a request that runs inline. Requests read
once and act later, as the code does: `StartReindex` reads `current_version`,
`ReadCurrent` the version row, `CreateVersion` inserts under the unique key.

Abstractions: a version id is the pair (document, number), which the unique key
justifies while the document lives; a deleted number is not reused. Content is the
number of chunks it yields; a stored file always yields the same, a url is fetched
anew by every run. `config` stands for the index configuration hash of the API
process, changed by `Redeploy`. Parsing, chunking and embedding are one step that
succeeds or fails. `StepFails` is the error of any repository call, with or without
its effect having happened, and `OnError` says where the code goes then, dropped
errors included. `Abort` ends a request with what it has done so far: an error
answer or the death of the process. `Modes` says what the API processes do with
jobs: `TRUE` queues them, `FALSE` runs them inline, because the queue is off or could not be
reached when that process started; with both, different processes differ.

The worker of the queue is coupled to the pipeline: `WorkerTakes` is `Deliver`
together with the start of a run, `WorkerReturns` is `HandlerOk` or `HandlerErr`
when the run has ended, `WorkerDies` drops the run.

### `AnswerPipeline` and the code

`rc` is the `ragContext` of one request, with the place `pc` it has reached in
`pipeline.go` and in `SendMessage`. Each call to a store or a model is one step, and
`World` changes the stores and the bindings between them, one write at a time in
the order of `IndexDocumentVersion` (points, then rows) and
`DeleteDocumentVersionIndex` (rows, then points). `touched` remembers that something
changed since the question was asked, or was half done then; properties about
the evidence as a whole speak of requests for which it is false.

`Search(k)` is the goroutine of one knowledge base. The searches end in any order;
their results are merged through a map, so only the set counts, and a search that
fails is only counted. `BestFirst` lists every answer a limited search or a sort of
a map may give: ties go either way. `Gather` is the merge with the weights of the
bindings and the decision what a failed search means. `Sorted` is
the stable sort by combined score. `Reordered` is
`applyRerankOrder`; `Orders` are the lists of ids the model may answer. `Shown` is
`selectContext`: the one set of places in which a place is exactly when it `Fits` with those
before it. All three are written without recursion, through the place an element takes
(`ByRank`, `Keeping`), so that one can reason about them for lists of any length.

Abstractions: scores, weights and confidence are whole percentages and division
truncates, where the code has floats; `Similarity` is never negative. `Overlap` stands for the
words a chunk shares with the question, the bonus for its section included. `TopKs`
and `Thresholds` are what requests ask for, after the defaults. A text is its
fingerprint. `CutInCharacter` are the chunks whose snippet, cut at 200 bytes, ends
inside a character; `Encodable` is the (external) encoder of the reply, which
refuses strings that are not UTF-8. The session check of `RecordRAGExchange` is in
`Conversations`.

### `DocumentText` and the code

A text is a sequence of lines, a line of sentences, a sentence of tokens that all
differ, so that a property can ask of every token where it went. `LineBlocks` is
`splitTextBlocks` or `parseMarkdownBlocks`, `PageBlocks` the pages of a PDF;
`Segments` is `splitBlockSegments` with the cut of a sentence that is longer than a
chunk; `BuildChunks` is `buildChunksFromBlocks` with the clamp of the options, the
overlap carried over and the boundaries that nothing is carried over. Each loop of the
code is a function from the turns it has made to its local state (`section` and the
gathered lines in `AfterLines`, the open chunk in `AfterBlocks`), so that the proofs can
speak of the state between two turns. `DocumentsAssumption` says what a document is: of
the four kinds of lines, with a name for every heading, because `detectHeading` takes no
line for one where nothing is left of it, and with no token twice. Left out: how
bytes become lines, which lines are headings, white space, and the section names
of HTML and DOCX. `MCDocuments` runs it beside the ingestion that calls it.

### `KnowledgeBases` and the code

Every request is its reading and its writing statement. `row` holds bots and
knowledge bases alike, because both have a unique name in their tenant and the same
update: read, fill in what was not sent, write everything back. `links` is
`bot_kb`. `doc` is the row of a document with its current version and its last version row;
`points` are in the collection, each with the `kb_id` of the job that wrote it. `Reach`
is what `steps_resolve.go` and the search filter make of it: neither the row of the
bot nor that of the base or the document is read. A deletion of a document is two steps,
the rows and the points. A job is run by any worker, never, once or often, twice at
the same time too: `RunBegins` (load), `Upsert`, `MarkReady`, `CleansUp`, each of which may
fail (`RunFails`, `CleanUpFails`, whose error the code only logs); nothing stops a run whose
document is deleted meanwhile. That is more than the queue allows, so what holds here holds
whatever the queue does. `left` names the versions whose points nobody will remove any
more. Weights are in `AnswerPipeline`, the rows and the queue in `KnowledgeIngestion`.

### `ApiKeys` and the code

Each statement to MySQL and each command to Redis is one step. A raw key is a number and
its own hash. `adm` holds what a console request has read: `UpdateReads` and
`UpdateWrites` are the two halves of `UpdateAPIKey`; the `Rotate...` actions are the
transaction of `RotateKey`, with `lock` for its `SELECT ... FOR UPDATE`, and the read
that follows it. `Counts` is one `checkLimit`: `INCR`, `EXPIRE` when it is the first,
and the comparison. The clock gives the windows and the lives of the counters; a call fixes its
windows when `Check` begins. `OtherKeyCalls` uses the tenant's counters from outside.
A window is named by the second it begins with.
The histories `held`, `retired` and `passed` say which raw keys reached the tenant,
until when a replaced one was promised to work, and how many calls came through; a call that comes to its counter when the
counter of its window must have expired is not held against the limit.

### `Conversations` and the code

`req` has the place of a request among the statements of its handler; `purges` are
the goroutines of `maybePurge`, each with its cut-off and the next of the four
statements of `PurgeExpired`. A request may find the row of its session closed or
gone at any step. `stray` and `spared` name the sessions to which the code gives no
guarantee: those that got a row while a purge was at them or later, and those a failed
statement passed over. `torn` names those that lost their messages to a purge that was
stopped at its last statement.

### `Accounts` and the code

A request arrives with a token and its input, passes `ensureTenantScope` (`InScope`) and the
permission check, then the check of its handler, then writes; others come between. The
tenant of `POST /console/v1/tenants/{id}/users` is that of its path, whatever it names; the other
operations of the console go by the token. `Register` is one step
because it is one transaction; the look-up before it is another step, as in the
code. `Bound`, `Clashes` and `Finds` are the queries on e-mail address and phone number;
`Scans` is `database/sql`, which refuses to read a NULL into a string: of the e-mail address, the
phone number or the name. Addresses and numbers are strings of any form, so the sets may
overlap. `Covers` stands for the
wildcards of permission codes. A token keeps the roles of its user when it was issued; one
that has expired is one that no request comes with any more. `CreateTenant` is the platform's:
a tenant without users. `promised` keeps what permissions tenants had when a registration
arrived. `overtaken` names requests under way when an administrator lost a role.

### `SchemaMigration` and the code

`Plan` is the sequence of statements of `ensureSchemaAndSeed`; `DatabaseSchema` writes it
down function by function. A statement that looks up first is two steps,
`Check` and `Alter`, between which another process may do the same. `Cut` is the
deadline of ten seconds, a lost connection or a killed process; an `ALTER` already
sent may still be carried out (`LateAlter`). `OldWrite` is a process of the version
before, which is still serving and writes a blank. `Databases` are what earlier
versions left.

## 3. What is checked

### Runs that pass

| Run | Instance | Properties |
|---|---|---|
| `queue` | 2 jobs, 2 workers, 1 retry, 2 disruptions, 1 unconfirmed publish | `TypeOK`, `NoJobLost`, `DeadLetterEarned`, `DeliversAtLeastOnce` (refinement of `JobDelivery`), `JobsSettle` |
| `redis_queue` | 2 jobs, 2 workers, 1 retry, 3 disruptions, with and without a backoff | `CopiesArePaidFor`, `SettlesInPeace` |
| `documents_index` | 1 document, 3 versions, 2 clients, 1 worker, 2 faults, file and url, queued and inline | `SingleFlight`, `RowsHavePoints`, `CurrentMonotone`, `OnlyLatestUntilFault` |
| `documents_chaos` | 1 document, 2 versions, 2 clients, 1 worker, every request, queued, 1 fault, 1 disruption, 1 unconfirmed publish | `TypeOK`, `CurrentVersionExists`, `ServedUntilFault`, `StrandedByLoss` |
| `documents_settle` | 1 document, 2 versions, 1 client, 2 workers, 1 disruption; texts of up to 4 lines, PDFs of up to 3 pages, chunk sizes 1, 3, 9 clamped to 2..4, overlaps 0, 1, 9 | `ChunksFit`, `ChunksCoverTheText`, `ChunksKeepTheirPlace`, `DocumentSettles` |
| `knowledge_bases` | 1 bot, 2 bases, 1 document, 2 names, 2 clients, 2 workers, 5 requests | `FoundWhereFiled`, `BindingsResolve`, `UnsentFieldsKept` |
| `answers` | 2 knowledge bases of different weights, 4 chunks, 2 limits, 2 thresholds, every list of ids without repetition, 1 change, 1 failure | `NothingFoundIsNothingThere`, `BestEvidenceKept`, `RerankingNeverRescues`, `GroundedAtRest` |
| `api_keys` | 3 raw keys, 2 administrators, 2 callers, 3 console requests, 2 calls, 1 fault, 2 seconds | `KeysInForce`, `AdmittedWithinLimit`, `RevokedStaysShut` |
| `conversations` | 1 session, 2 clients, 3 requests, 5 points in time, 1 fault | `NothingLeftBehind`, `AnsweredIsKept`, `ClosedForGood` |
| `accounts` | 2 tenants, 2 users with 1 address and 2 numbers to share, one of which is the same string, 2 role names, 1 administrator, 2 clients, 5 requests | `LogInFinds`, `RegistrationIsWhole`, `RolesStayApart`, `DoneIsPermitted` |
| `startup` | 2 processes, the statements of 4 tables, a fresh and an older database, 1 cut, 1 old write | `TypeOK`, `ServingIsComplete`, `AloneNeverFails`, `AllServe` |

`SingleFlight` is the one that says why the code gets away without locks: through
retries, failed calls and concurrent reindexes, a document never has two versions
under construction, because the number of the new version is derived from the
version it replaces and is unique. `CurrentMonotone` and the two `...UntilFault`
properties follow the consequences. `CurrentVersionExists` survives everything the
model can do, rollbacks and deletions that race a redelivered job included.

`StrandedByLoss` is about the state `processing`, which blocks every further reindex: a version
is in it with nobody at work only if a publish of it got lost, a call of its run failed or
the request for it died. Each such loss strands one version. The queue's own troubles strand none:
whatever dies, is cut off, retried, parked, delivered twice or overtaken by a rollback or a
deletion, the run that begins again either comes through or says `failed`.

`CopiesArePaidFor` is an account book for the Redis queue. It promises no more than the code
can keep: a push is repeated by the client when its reply is lost, and each repetition may be
one copy more, so a job may be run twice. But nothing else adds a copy, and
a copy that was handled is gone.

`NothingFoundIsNothingThere` says that "I do not know" is never the echo of a search
that failed. `BestEvidenceKept` justifies the design of the retrieval: searching each
knowledge base by similarity and weighting afterwards loses nothing, because the
limit of every search is the limit of the answer. `RerankingNeverRescues` is a
surprise of the code rather than a promise of its documents: the model is asked to
rerank a doubtful answer, at the price of one more call, and the result is refused all
the same, because confidence is the average of three scores that were the best three
before. It holds when the model does not repeat an id; when it does,
`applyRerankOrder` keeps the repetition, the best score counts twice, and an answer
may pass that should not.

The three chunk properties say of every text and every setting, the silly ones
included (an overlap longer than a chunk), that nothing of the text is lost, that
nothing comes twice but the overlap, and that a citation names the section and page of
all of its text. They hold by an interplay of four rules that are easy to break one
at a time: what is carried over is given up when the next segment would not fit
with it, a sentence longer than a chunk is cut, and a new section or page starts afresh.

`FoundWhereFiled` is about the one datum that three places keep, the row, the points
and the job. It says which points a bot can find that it should not, and that there are no
others: those of a version ordered before a move, those that a failed or cut off clean-up
or deletion left, and those that a late run writes behind one. Apart from these a moved
document follows its row at the next reindex, however often the jobs run, because the
unique version number lets no second job fall back to the version that one is to
replace. `BindingsResolve` and `UnsentFieldsKept` say exactly which damage the
read-then-write requests can do and that there is no other.

`KeysInForce` gives, second by second, the keys of a tenant that open, no fewer and no more; it rests on the
`FOR UPDATE` of the rotation and on the update leaving the hashes alone.
`RevokedStaysShut` excludes the requests under way that were going to write
`active`: the code has no defence against those. `AdmittedWithinLimit` survives a
change of limits between two calls of one window, because each call carries the limit
it resolved.

`NothingLeftBehind` is the reason for the order of the four statements of a purge:
the sessions go last, so that what is left of an interrupted purge is found again.
`AnsweredIsKept` is the price of it: a session of which only the row is left can be seen when
a purge was stopped there, and in no other way does an answered exchange go before its session.
`AloneNeverFails` and `AllServe` together justify a start-up without a lock: processes
do trip over each other, but only over each other, and not for ever.
`ServingIsComplete` leaves out exactly the indexes that `ensureUniqueIndexSafe` gives up.
`LogInFinds` shows that the unique indexes on address and number carry the promise
of one account, the look-up before the transaction being too early; it leaves out a
string that is one user's address and another's number (`Crossed`), which no index catches.
`RegistrationIsWhole` speaks of registrations: tenants that the platform creates have nobody in
them. `DoneIsPermitted` compares what a token allowed with what the tables allow at the
moment of the write, and asks where it writes: in another tenant only for a user whose
roles are called `tenant_admin` and `platform_admin` or `super_admin` (`Roams`), which
`CreateRole` does not prevent. A token with the second role alone gets past
`ensureTenantScope` and then no further, because `ListUserPermissions` asks the other tenant.

### The run that fails, and what it shows

`accounts_login` violates `RegisteredCanLogIn`: a blank phone number (address, name) is stored as NULL and
read into a Go string, which `database/sql` refuses, so whoever registers with an
e-mail address alone, as the example of `docs/API.md` does, can never log in. The
quotations are in `PROJECT.json`, `findings`.

### Observations that are not runs

Met while modelling; each follows from the lines named and none is checked.

Queues and documents:

* On Redis a job is lost when its consumer dies (`knowledge/data/queue.go:354`), where
  `docs/RAG.md:159` promises at-least-once delivery; and one push may leave several copies.
* With `RAGODESK_INGESTION_BACKOFF_MS=0` the RabbitMQ queue sets no expiration on
  a retry, and the retry queue has none of its own: the job waits for ever. In the
  model, `Expire` is disabled.
* A job whose acknowledgement was lost runs again after a later reindex and makes
  the old version current (`knowledge/biz/knowledge.go:664`; `docs/RAG.md:109`).
* A rollback goes back to a version whose index was removed, and nothing rebuilds it
  (`knowledge/biz/knowledge.go:530`; `docs/RAG.md:97`, `:108`). `ServedUntilFault` excludes it.
* A job that loaded its document before the deletion writes chunks and points
  after it; a storage error in the middle of a deletion leaves the points
  (`knowledge/data/knowledge.go:805`, `:811`; `docs/RAG.md:67`).
* After a reindex that failed, or after a rollback, the next version number is
  taken and every further reindex answers 409.
* A retry of a url document that yields fewer chunks than the failed attempt
  leaves the surplus points in Qdrant.
* A document that was moved (`docs/API.md:313`) is found under its old base, and the
  reindex that would help is refused while the index configuration is unchanged. When the
  clean-up after it fails, which is logged (`knowledge/biz/knowledge.go:675`), it stays there.
* Deleting a knowledge base leaves its documents and points, and a binding made at
  the same moment still finds them. Deleting a bot leaves its bindings, keys and sessions.
* `isAllCapsHeading` (`knowledge/biz/parsing.go:556`) takes every line of 3 to 80
  characters without a lower-case letter for a heading, so most short lines of a
  Chinese text become a section, and are in no chunk if nothing follows them. Of two
  headings in a row the first is lost. A `#` comment in a fenced code block is a
  heading too. A markdown file of headings only is refused as empty when a blank line
  ends it, and indexed as it stands when none does.
* Punctuation between the pieces of an over-long sentence is dropped, and text
  without a letter or digit at the end of a document.

Answers:

* A snippet is cut at byte 200 (`prompt.go:52`), inside a character if need be, and the
  encoder refuses the answer that was already recorded (`docs/PRD.md:157`).
* An id the model repeats is ranked, cited and recorded twice (`rag/biz/steps_rerank.go:193`;
  `docs/RAG.md:123`, `:129`).
* A chunk whose row is removed between the search and the load stays in the
  ranking with an empty text: it counts for the confidence and is cited, but is not
  shown to the model. `GroundedAtRest` is therefore stated for stores at rest.
* When one knowledge base answers and another fails, the answer is given from what
  there is and nothing tells the caller. A failed answer logs no tokens (`docs/PRD.md:140`).
* The bots of a disabled or deleted row go on answering: nothing reads it.

Keys, sessions and accounts:

* A second rotation ends the grace period of the first (`docs/API.md:371`), and a
  rotation makes a revoked key active. Fields an update did not send are overwritten
  with what it had read (`docs/API.md:362`).
* One `lastPurge` serves all tenants: the one that comes first takes the interval.
* A second closing within a second, or a repeated move of a document, changes no row
  and is answered 404.
* Invited users can never log in, and nothing makes them active.
* A tenant may call a role `platform_admin`: whoever holds it and `tenant_admin` can create users
  in every tenant (`iam/service/iam.go:493`).
* A string that is one user's e-mail address and another's phone number finds neither when
  the tenant is not named (`auth/data/auth.go:76`). `CreateUser` does not ask whether the tenant
  of its path exists.
* A registration that was committed and not answered is answered
  `ACCOUNT_ALREADY_BOUND` when it is tried again.
* A blank code in `permissionCodes` inserts a grant of the permission `''`.
  `CreatePermission` with a code that exists answers the scope of the other row; a
  row older than the column `scope` stays `platform`.
* The returns with `TENANT_MISMATCH` leave their transaction open until the context ends.
* The goroutine of the CSV export blocks for ever when the exporter fails.

### Bounds, and why they are enough

One document: documents share nothing but the queue, and `queue` has two jobs.
Three versions let a reindex race the clean-up of the one before. Two clients are
the least that can race; a worker and an inline client run pipelines side by side,
and two workers are kept where redelivery matters. One retry is enough for the
three kinds of delivery there are: first, repeated, last. A fault may hit any call, so one
covers each single failure and two cover a failure during the handling of a
failure. `MaxVersion`, `MaxChunks`, `MaxConfig`, `MaxFaults`, `MaxDisruptions` and
`MaxUnconfirmed` appear only in guards and types.

Texts of four lines have room for a heading between two paragraphs, for a blank
line, and for a heading with nothing under it. Sentences of no, one, two and five tokens are empty,
short, of a chunk's size and longer than the longest chunk (4). The sizes lie below,
inside and above the clamp, and the longest overlap above every chunk.

Two knowledge bases are the least whose searches can race and whose weights can turn
the order of the similarities round; two chunks in each make a limit of two bite in
the search, in the merge, or in neither (limit 4). The two thresholds let the same corpus be accepted and
doubted. One change lands between any two steps, and one failure on any call.
`MaxChanges` and `MaxFailures` appear only in guards and types.

Two bases let a document move and come back; five requests are a base, a binding, a document
and two more on it: a move and a reindex, two reindexes at once, a reindex and a
deletion beside its job. Two workers run the same job at once, or one version beside the
next, and a run may stop at any step. Three disruptions on Redis are a push repeated, its repetition
repeated, and a crash. Three keys are two rotations,
the least for a key to lose its grace; a grace of one second and a clock of two
values let it begin and end. Five points in time let a session of retention 1 expire,
be purged, and a second purge follow after the interval of 2. Two tenants and two users are
the least for a role to cross, for an account to have two owners and for a write to land
in another tenant; a tenant that nobody has is in the paths too. Two processes
are the least that alter the same table; the four tables chosen have every
kind of statement of the plan between them. `MaxTime`, `MaxKeys`, `MaxOps`, `MaxCalls`,
`MaxRequests` and `MaxOldWrites` bound what comes from outside.

`CHECK_DEADLOCK FALSE` in all runs: when no request is left and the bounded
environment is spent, the system rests. Clients, workers, administrators, callers and ids are
interchangeable, so runs without liveness use symmetry.

### Fairness

`IngestionQueue` and `RedisIngestionQueue`: the goroutine of a worker is not
stopped half-way (weak fairness of its loop), and the broker or the timer delivers
what is due (weak fairness of `Expire`, `TimerFires`). Nothing is assumed of
clients, crashes, connection losses or restarts; `JobsSettle` asks that some worker
keeps its connection from some time on, because the code has no way back.
`KnowledgeIngestion`: a request that was accepted runs to its end or is aborted,
and the queue's assumptions. `SchemaMigration`: a process that is starting goes on,
and one that ended with an error is started again. The second half is the
operator's or a supervisor's part and not the code's: the compose files of the
repository restart only the infrastructure. The other modules state safety only and
assume no fairness.

## 4. What is proved

TLAPS checks the theorems below for every value of the constants that satisfies the
named assumptions of the modules. None of these limits a set to a size: they say what
shapes the constants have (`AccountsAssumption`, `KnowledgeBasesAssumption`,
`ChunksAssumption`, `DocumentsAssumption`, `OrdersAssumption`, `SourcesAssumption`, `OpsAssumption`,
`SetsAssumption`, `CallersAssumption`, `PatchesAssumption`, `LimitsAssumption`,
`DatabasesAssumption`, `QueueAssumption`), that bounds, sizes, times and
options are numbers (`RetriesAssumption`, `BackoffAssumption`, `BackoffsAssumption`,
`BoundsAssumption`, `SizesAssumption`, `FaultsAssumption`, `TimesAssumption`,
`OptionsAssumption`, which also has the limits positive, as `options.go` and the constants
of `prompt.go` have them), that nothing stands for two things (`NoMessageAssumption`,
`NoVersionAssumption`, `ActorsAssumption`, `NoneIsNoRow`, `IdsAssumption`,
`NobodyAssumption`), and of a schema that it does not drop what it also creates
(`PlanAssumption`). TLC evaluates each on the runs of its module. Where a theorem needs more, it
says so itself, and the list below names it.

Every safety property that a passing run checks is proved. Each proof follows one pattern: an inductive invariant that contains or
implies the property, one lemma for the initial states, one lemma for the steps with
one case per action, and a temporal step that puts them together. The
interesting part is what the property lacks to be inductive.

### The chunks (`Ingestion_proofs`)

The three theorems hold for texts of any length, with any headings, pages, sentences and
tokens, and for every chunk size and overlap that can be set.

* `ChunksAlwaysFit`: `TextSpec => []ChunksFit`.
* `ChunksCoverEveryText`: `TextSpec => []ChunksCoverTheText`.
* `ChunksTellTheirPlace`: `TextSpec => []ChunksKeepTheirPlace`.

The text is cut in one step, so the invariant is `AllCut` (what is in `built` was cut from
a document with a configuration), and the work is in what the loops compute. The
induction theorems of the library take an operator, which no prover here can supply. `LoopExists` replaces
them: with sets of states as parameters it shows, by the least-number principle, that the
recursive function of a loop is there, and `LoopInduction` that what one turn keeps is
true after every turn. From the lines to the chunks there are four loops, each with
a lemma that says what its state is worth between two turns:

* `LinesAreGathered`: after i lines, the blocks and the lines gathered are the text of these
  lines, every token in the section it stands in (`Gathered`). `BlocksAreGood` draws from
  it that the blocks are the text (`GoodBlocks`), with one more thing the chunker
  relies on and nobody wrote down (`Ordered`): a block that has a section is never followed by one without.
  Otherwise `isStructureBoundary`, which does not look at a block without a section, would
  let such a block into a chunk of the section before.
* `SegmentsAreGood`: segments are not empty, fit, and joined they are the block.
* `AddSegmentKeeps`: after d tokens of the text, the chunks, the open one included, are
  windows on it that end at d (`Windows`), and say of each token where it is (`AllPlaced`).
  Here the overlap is: what is carried over is the end of the chunk before.
* `AddBlockKeeps` and `AllIsPacked`: the same from block to block. A chunk that goes on
  from one block to the next is from the same section and page (`OrderedContinues`).

`WindowIsWhere` turns the windows into the positions the property speaks of, for
which no token may come twice (`TextInjective`, from `DocumentsAssumption`).

### The queues (`Ingestion_proofs`)

* `TypeCorrect`: `Spec => []TypeOK`.
* `NeverForgotten`: `Spec => []NoJobLost`. Inductive with `TypeOK`: every action
  that takes a copy away has first put another somewhere, or ends in `handled` or
  in the dead-letter queue. The lemmas `PutGrows` and `MainKeeps` say that once for
  all queues.
* `DeadLettersEarned`: `Spec => []DeadLetterEarned`. The property speaks of parked
  messages only; the strengthening `RetriesPaid` says of every copy, waiting or
  in hand, that its retry count is covered by failed runs of its job.
* `ImplementsDelivery`: `Spec => DeliversAtLeastOnce`, the refinement of
  `JobDelivery`, step by step. `DeliveryInv` adds `CopiesReceived` (what is in a queue
  or in hand was accepted) to `NoJobLost`; with it a step changes the status of at
  most the one job it is about, and only as `JobDelivery` allows.
* `RedisAccountsForCopies`: `CopiesArePaidFor` of `RedisIngestionQueue`, of which the module
  has an instance. `Squared` counts the places that hold copies of one job: calls that are to
  push one, the list, hands, timers, dead letters. A step moves one copy from one place to
  another, or drops it, or turns it into a successful run, or adds one with a push sent
  again; and there is none before the job is offered.

### Documents (`KnowledgeIngestion_proofs`)

* `TypeCorrect`, from `TypeInv`, which adds `Named`: a running pipeline has a job, a
  request past its first step has a document, a busy worker has a message. Without
  it the assignments that use `pipe[a].job` cannot be typed.
* `OnlyLossesStrand`: `Spec => []StrandedByLoss`, for any bounds. `LossInv` names who is answerable
  for a version: a copy that waits, a request that has not handed it over, a run before its
  marking whose worker the broker has not given up (`Cares`). `PaidFor` is the count over the
  versions nobody is answerable for. Every step is one of three kinds: it leaves none more
  (`Harmless`), or one at the price of a failed call (`Failing`) or of an unconfirmed
  publish (`Losing`). That a worker which dies or loses its connection leaves its message to
  the queue is what makes most steps harmless.
* `CurrentIsThere`: `Spec => []CurrentVersionExists`, whatever fails, whatever is delivered
  twice. `FiledInv` says which version rows the requests, the runs and the copies in
  the queue still refer to, that version rows have no gaps, and that the row a
  document points to is one of them.
* `BuildsOneAtATime`: `SingleFlight`, and `NeverGoesBack`: `CurrentMonotone`, both for
  `MaxDisruptions = 0` and `"rollback" \notin Ops`. `CalmInv` is about who has
  a version, a request, an error to be reported, a run, or a copy in the queue: one of these
  and one only (`OneCopy`), and none at all once a version above it exists, it is
  current, or its run is past the point where it names it (`Undisturbed`). That is
  the argument why the unique key does for a lock. A redelivered job breaks it, and
  so does a rollback, which makes an old version current again.
* `RowsCanBeFound`: `RowsHavePoints`, for `MaxDisruptions = 0` and `"delete" \notin Ops`.
  `IndexInv` adds what a run has upserted when it commits and what it has removed
  when it removes points; `OldIsNotInWork` shows that a clean-up never meets a run that
  is still indexing the version cleaned up.
* `CurrentIsServed`: `ServedUntilFault`, without a hypothesis: uploads, reindexings,
  rollbacks and deletions side by side. `ServeInv` says how much of a version is in
  the stores at each place of its run (`Brought`) and who will still need it
  (`Findable`).
* `OnlyLatestIsFound`: `OnlyLatestUntilFault`, for `Ops` without `"rollback"` and `"delete"`.
  `LatestInv` adds that a version that exists is at most one above the current
  (`Forward`) and that points belong to the current version, or to one that is being
  built, or to one that is being cleaned up (`Placed`).

The hypotheses are those under which the runs check the properties: `documents_index`
has no disruption, rollback or deletion, for which the observations above name the
counterexamples. `CurrentVersionExists`, `ServedUntilFault` and the queue need none.

### Answers (`AnswerPipeline_proofs`)

* `TypeCorrect`: `Spec => []TypeOK`, with the confidence always a percentage.
* `IgnoranceIsHonest`: `Spec => []NothingFoundIsNothingThere`. The property looks at the
  end of a request only; `SearchInv` says of the searches under way that, with
  nothing found and no error, the knowledge bases already searched hold no
  candidate (`SearchedSoFar`), and carries the conclusion through the later steps.
  `EmptyAnswer` is the lemma about a limited search: one that returns nothing had
  nothing to return, because the limit is positive.
* `MergeLosesNothing`: `Spec => []BestEvidenceKept`. Each search that ended has the best of
  its base (`BestSoFar`); `BestOfAll` is the lemma about the merge, a count: whoever is
  among the best of all is among the best of its own base, whatever the weights.
* `RescueIsImpossible`: under `NoIdTwice`, `Spec => []RerankingNeverRescues`. `Reordered` is shown to
  permute the ranking (`ReorderedPermutes`), sorting to be descending
  (`SortedIsDescending`), and the three scores at the head of a permutation to be at most
  those at the head of the sorted list (`NoMoreConfidence`). `NoIdTwice` is the
  precondition the property is stated under: a model that repeats an id does rescue.
* `AnswersAreGrounded`: `Spec => []GroundedAtRest`. `GroundInv` follows what was found from the
  points through the rows to the context. What is shown to the model is a chosen
  set and not a fold, so that the first block is in it by the least-number principle
  (`LeastNumber`, from `WellFoundedInduction`), without induction over the list.

### Schema (`SchemaMigration_proofs`)

* `TypeCorrect`: `Spec => []TypeOK`.
* `ServesWholeSchema`: `Spec => []ServingIsComplete`. The property speaks of processes that
  serve; `Progress` says of a process that is still starting that every statement
  before its own is in effect. It is kept because no step of anybody takes anything
  away except columns the plan drops, and none brings such a column back
  (`StepOnlyDrops`): here `PlanAssumption` is used.
* `AloneIsSafe`: `Spec => []AloneNeverFails`, for a plan that fills a column before it makes
  the column unique (`FilledFirst`) and databases whose unfilled columns came with
  their index (`NeverShared`). Both hold of `FullPlan` and of the databases of the
  run. They are hypotheses and not assumptions of the module because they are facts
  about the contents of `data.go`, and it is worth knowing that exactly these two
  are needed. `AloneInv`: the look-up of an undisturbed process is still true when it
  alters, and what it filled has no blank.

### Accounts (`Accounts_proofs`)

All rest on `TypeInv`: the tables refer to rows that exist, requests have the form their
operation needs, tokens say nothing that the tables do not (`TokensHonest`, because
accounts and roles only grow), and the ids a request will insert are its own.

* `TypeCorrect`; `RolesNeverMix`: `RolesStayApart`.
* `RegistrationsAreWhole`: `RegistrationIsWhole`. `KeptPromises`: the catalogue has all that was
  promised when a registration arrived, the tenant is created by that registration alone
  (`RegisteredBy`), and nothing takes away what its transaction wrote.
* `OnlyPermittedIsDone`: `Spec => DoneIsPermitted`, an action property. `Cleared` says
  of a request between check and write that its bearer may still do what it asked,
  unless an administrator lost a role meanwhile, and that it stays at home or its bearer
  `Roams` (`AtHome`). `PermittedMayNow` is where the two checks meet: past the scope
  check with a role that is called like the platform's, only `tenant_admin` gets past the other.
* `OneUserToAnAccount`: `LogInFinds`, for `UniqueIndexes = {"email", "phone"}`. `OneUserEach`: no two
  users share an address or a number. Nothing is assumed of the strings: what an address
  and a number have in common is in the property, as `Crossed`.

### Knowledge bases, conversations, keys

* `KnowledgeBases_proofs`: `TypeCorrect`; `FoundIsFiled`: `FoundWhereFiled`;
  `BindingsGoWithTheirBase`: `BindingsResolve`; `UnsentFieldsStay`: `UnsentFieldsKept`. In the
  strengthening `LibraryInv`, `JobsFit` says that a job falls back to the version just before
  its own, which had been built, with the `kb_id` of the row or of a version in `moved`;
  `PointsFit` that points outlive their version only where a clean-up is left or to come. So as
  soon as a version is built the one before has its clean-up, by the run that built it, and
  an older one had it before; a run that writes later than that is `left`.
* `Conversations_proofs`: `TypeCorrect`; `PurgesLeaveNothing`: `NothingLeftBehind`;
  `AnswersAreKept`: `AnsweredIsKept`; `ClosedStaysClosed`: `ClosedForGood`. `PurgesBehind` says
  which of its four statements a purge has behind it, for every session that it takes;
  `Counted` compares the exchanges of a session with its answers and the requests that
  recorded one and have not answered yet, until a purge takes the messages (`Halved`).
* `ApiKeys_proofs`: `TypeCorrect`; `OnlyKeysInForce`: `KeysInForce`; `RevokedKeysStayShut`:
  `RevokedStaysShut`; `LimitsHold`: `AdmittedWithinLimit`. `Chained` says that the
  rotations form a chain that ends in the row; it needs that a key whose rotation is
  not committed is known to nobody (`KeysFresh`) and that the transaction with the
  lock has read the hash that is there (`AdminsOK`). `PassesCounted` says that a counter
  has counted whoever passed it for as long as its window can be asked for, which
  rests on the counter outliving its window (`CountersLive`).

### Only model-checked

* Liveness: `JobsSettle`, `SettlesInPeace`, `DocumentSettles`, `AllServe`. Liveness under
  fairness is out of the prover's reach.
* `RegisteredCanLogIn`, which is false.

Three properties are theorems with hypotheses on the operations and disruptions
(see above); what lies outside of these is either false or not claimed.
`TypeOK` of `AnswerPipeline`, `ApiKeys`, `Conversations`, `Accounts` and `KnowledgeBases` is in no
run, since the theorems establish it; `TypeOK` of `RedisIngestionQueue` documents the
types, of which `RedisTypes` is the part that is proved.

## 5. What is not modelled, and the plan

Next, in this order:

1. Models: the CSV export with its pipe; the lifetime of a process, from its consumers
   to the closing of its connections. The pipe and the one
   `lastPurge` of all tenants are the hazards that no property covers yet.
2. Proofs: what `IngestionQueue` proves carried over to the versions
   of `KnowledgeIngestion` in their own words; `RowsHavePoints` beside deletions, for the
   documents that live.

Left out for good: HTTP routing and request encoding, the clients of model
providers (a call succeeds or fails), byte-level parsing of HTML, DOCX and PDF,
prompts, password hashing and the signing of tokens, lists and searches of the
console, analytics and usage records, which are best effort and have no
protocol of their own. Of the 33 300 lines of Go about 17 700 are generated
protobuf and wire code, and of the other 15 600 more than a third is mapped; what is
not mapped of these is mostly conversion between layers, lists, options and
clients. The share of the lines that the map covers is to be read against that:
most of the code that keeps state and has an order of steps is modelled.

## 6. Running

```
tlc -workers 2 -config MCIngestionQueue.cfg MCIngestionQueue.tla
tlapm Ingestion_proofs.tla
```

Each run of `PROJECT.json` names its module and configuration.
