------------------------- MODULE KnowledgeIngestion -------------------------
(***************************************************************************)
(* The life of a document: the console handlers that create, reindex, roll *)
(* back and delete it, and the pipeline that indexes one version of it     *)
(* (internal/knowledge/biz/knowledge.go, internal/knowledge/data).         *)
(*                                                                         *)
(* Four stores take part and no transaction spans two of them: MySQL       *)
(* (document, document_version, doc_chunk), Qdrant (points), the object    *)
(* storage, and the ingestion queue (module IngestionQueue).  Every call   *)
(* of the repository is one step; handlers and workers interleave between  *)
(* their steps.                                                            *)
(*                                                                         *)
(* The row id of a version is abstracted to the pair <<document, number>>: *)
(* the unique key uniq_doc_version makes that pair as good as the id while *)
(* the document lives, and document ids are fresh UUIDs.                   *)
(***************************************************************************)
EXTENDS Naturals, FiniteSets

CONSTANTS
  Docs,            \* document ids
  Clients,         \* concurrent console requests
  Workers,         \* queue consumers
  NoMessage,       \* held by an idle worker, processed by an idle pipeline
  MaxVersion,      \* bound on the versions of a document
  MaxChunks,       \* bound on the chunks of a version
  MaxConfig,       \* bound on the changes of the chunking/embedding options
  MaxRetries, BackoffBase, MaxDisruptions, MaxUnconfirmed, \* see IngestionQueue
  MaxFaults,       \* bound on failed repository calls and aborted requests
  Modes,           \* of the API processes: TRUE, jobs are queued; FALSE, the
                   \* queue is off (RAGODESK_INGESTION_ASYNC) or was not
                   \* reachable when the process started
  Sources,         \* kinds of documents uploaded: a subset of {"file", "url"}
  Ops              \* requests made: of "upload", "reindex", "rollback", "delete"

Versions == Docs \X (1 .. MaxVersion)
DocOf(v) == v[1]
NumOf(v) == v[2]

ASSUME SizesAssumption  == MaxVersion \in Nat \ {0} /\ MaxChunks \in Nat /\ MaxConfig \in Nat
ASSUME FaultsAssumption == MaxFaults \in Nat /\ Modes \subseteq BOOLEAN
ASSUME SourcesAssumption == Sources \subseteq {"file", "url"}
ASSUME NoVersionAssumption == NoMessage \notin Versions \cup Docs
ASSUME ActorsAssumption == Clients \cap Workers = {}

VARIABLES
  docs,      \* the document table
  versions,  \* the document_version table
  rows,      \* the doc_chunk table (each row with its embedding row)
  points,    \* the points of the Qdrant collection
  objects,   \* the object storage: <<document, chunks its content yields>>
  config,    \* index_config_hash of the running API process
  client,    \* the console requests
  pipe,      \* one run of processIngestion per actor
  faults     \* faults so far
VARIABLES main, retryq, dlq, phase, msg, link, disruptions,
          accepted, handled, failures, unconfirmed

Q == INSTANCE IngestionQueue WITH Jobs <- Versions

ASSUME QueueAssumption ==
  /\ MaxRetries \in Nat /\ MaxDisruptions \in Nat
  /\ NoMessage \notin [job : Versions, retry : 0 .. MaxRetries]

mysql  == <<docs, versions, rows>>
stores == <<docs, versions, rows, points, objects>>
queue  == <<main, retryq, dlq, phase, msg, link, disruptions,
            accepted, handled, failures, unconfirmed>>
vars   == <<docs, versions, rows, points, objects, config, client, pipe, faults,
            main, retryq, dlq, phase, msg, link, disruptions,
            accepted, handled, failures, unconfirmed>>

Actors == Clients \cup Workers

Absent == [status |-> "none", config |-> 0]
Idle   == [pc |-> "idle", doc |-> NoMessage, num |-> 0, source |-> "none"]
Unborn == [state |-> "unborn", status |-> "none", current |-> 0, source |-> "none"]
NoRun  == [pc |-> "idle", job |-> NoMessage, size |-> 0]

Init ==
  /\ docs = [d \in Docs |-> Unborn]
  /\ versions = [v \in Versions |-> Absent]
  /\ rows = {} /\ points = {} /\ objects = {}
  /\ config = 1
  /\ client = [c \in Clients |-> Idle]
  /\ pipe = [a \in Actors |-> NoRun]
  /\ faults = 0
  /\ Q!Init

Live(d)   == docs[d].state = "live"
Exists(v) == versions[v].status \notin {"none", "deleted"}

(* The chunks of a version have deterministic ids: version and chunk index. *)
ChunksOf(v, n)  == {v} \X (1 .. n)
OfVersion(s, v) == {x \in s : x[1] = v}
OfDoc(s, d)     == {x \in s : DocOf(x[1]) = d}

(* UpdateDocumentIndexState and RollbackDocument: an UPDATE by id that does *)
(* not ask whether it found a row.                                          *)
SetIndexState(d, s, n) ==
  docs' = IF Live(d) THEN [docs EXCEPT ![d].status = s, ![d].current = n] ELSE docs

(* UpdateDocumentVersionStatus *)
SetVersionStatus(v, s) ==
  versions' = IF Exists(v) THEN [versions EXCEPT ![v].status = s] ELSE versions

Fault == faults < MaxFaults /\ faults' = faults + 1

-----------------------------------------------------------------------------
(* processIngestion, run by a worker for a delivered job or by a request    *)
(* that could not enqueue.                                                  *)

At(a, l)   == pipe[a].pc = l
Goto(a, l) == pipe' = [pipe EXCEPT ![a].pc = l]
Start(a, v) == pipe' = [pipe EXCEPT ![a] = [pc |-> "load_version", job |-> v, size |-> 0]]
Finish(a)  == pipe' = [pipe EXCEPT ![a] = NoRun]

(* A plausible slip: the number before the one the job replaces. *)
FallbackTooOld(v) == NumOf(v) - 2

(* The version current when the job was made: reindex numbers the new       *)
(* version current + 1, an upload has no fallback.                          *)
Fallback(v) == NumOf(v) - 1

LoadVersion(a) ==
  /\ At(a, "load_version")
  /\ Goto(a, IF Exists(pipe[a].job) THEN "load_doc" ELSE "fail_doc")
  /\ UNCHANGED <<stores, faults>>

LoadDoc(a) ==
  /\ At(a, "load_doc")
  /\ Goto(a, IF Live(DocOf(pipe[a].job)) THEN "parse" ELSE "fail_version")
  /\ UNCHANGED <<stores, faults>>

(* LoadDocumentContent, parseAndChunk, embedChunks.  A stored file always   *)
(* yields the same chunks (none when it is unreadable or gone); a url is    *)
(* fetched anew by every run.                                               *)
Stored(d)   == {o \in objects : o[1] = d}
Contents(d) == CASE docs[d].source = "url"                    -> 0 .. MaxChunks
                 [] docs[d].source # "url" /\ Stored(d) = {}  -> {0}
                 [] OTHER                                     -> {o[2] : o \in Stored(d)}
(* A plausible slip: a document without text ends the run unmarked. *)
ParseUnmarked(a) ==
  /\ At(a, "parse")
  /\ \E n \in Contents(DocOf(pipe[a].job)) :
       pipe' = [pipe EXCEPT ![a].pc = IF n = 0 THEN "failed" ELSE "upsert", ![a].size = n]
  /\ UNCHANGED <<stores, faults>>

Parse(a) ==
  /\ At(a, "parse")
  /\ \E n \in Contents(DocOf(pipe[a].job)) :
       pipe' = [pipe EXCEPT ![a].pc = IF n = 0 THEN "fail_version" ELSE "upsert",
                            ![a].size = n]
  /\ UNCHANGED <<stores, faults>>

Indexed(a) == ChunksOf(pipe[a].job, pipe[a].size)

(* IndexDocumentVersion: the points first, ... *)
Upsert(a) ==
  /\ At(a, "upsert")
  /\ points' = points \cup Indexed(a)
  /\ Goto(a, "commit")
  /\ UNCHANGED <<mysql, objects, faults>>

(* ... then the rows, in one transaction. *)
Commit(a) ==
  /\ At(a, "commit")
  /\ rows' = rows \cup Indexed(a)
  /\ Goto(a, "ready_version")
  /\ UNCHANGED <<docs, versions, points, objects, faults>>

(* markIngestionReady *)
ReadyVersion(a) ==
  /\ At(a, "ready_version")
  /\ SetVersionStatus(pipe[a].job, "ready")
  /\ Goto(a, "ready_doc")
  /\ UNCHANGED <<docs, rows, points, objects, faults>>

(* A plausible slip: the first version is never cleaned up. *)
AfterReadyKeepsFirst(v) == IF Fallback(v) > 1 THEN "lookup_old" ELSE "done"

AfterReady(v) == IF Fallback(v) > 0 THEN "lookup_old" ELSE "done"
ReadyDoc(a) ==
  /\ At(a, "ready_doc")
  /\ SetIndexState(DocOf(pipe[a].job), "ready", NumOf(pipe[a].job))
  /\ Goto(a, AfterReady(pipe[a].job))
  /\ UNCHANGED <<versions, rows, points, objects, faults>>

Old(a) == <<DocOf(pipe[a].job), Fallback(pipe[a].job)>>
LookupOld(a) ==
  /\ At(a, "lookup_old")
  /\ Goto(a, IF Exists(Old(a)) THEN "clean_rows" ELSE "done")
  /\ UNCHANGED <<stores, faults>>

(* DeleteDocumentVersionIndex: the rows first, then the points. *)
CleanRows(a) ==
  /\ At(a, "clean_rows")
  /\ rows' = rows \ OfVersion(rows, Old(a))
  /\ Goto(a, "clean_points")
  /\ UNCHANGED <<docs, versions, points, objects, faults>>

CleanPoints(a) ==
  /\ At(a, "clean_points")
  /\ points' = points \ OfVersion(points, Old(a))
  /\ Goto(a, "done")
  /\ UNCHANGED <<mysql, objects, faults>>

(* markIngestionFailed; without a version row only the document is marked. *)
FailVersion(a) ==
  /\ At(a, "fail_version")
  /\ SetVersionStatus(pipe[a].job, "failed")
  /\ Goto(a, "fail_doc")
  /\ UNCHANGED <<docs, rows, points, objects, faults>>

(* Plausible slips: a failed run moves the document on, or back to nothing. *)
FailDocForward(a) ==
  /\ At(a, "fail_doc")
  /\ SetIndexState(DocOf(pipe[a].job), "failed", NumOf(pipe[a].job))
  /\ Goto(a, "failed")
  /\ UNCHANGED <<versions, rows, points, objects, faults>>
FailDocReset(a) ==
  /\ At(a, "fail_doc")
  /\ SetIndexState(DocOf(pipe[a].job), "failed", 0)
  /\ Goto(a, "failed")
  /\ UNCHANGED <<versions, rows, points, objects, faults>>

FailDoc(a) ==
  /\ At(a, "fail_doc")
  /\ SetIndexState(DocOf(pipe[a].job), "failed", Fallback(pipe[a].job))
  /\ Goto(a, "failed")
  /\ UNCHANGED <<versions, rows, points, objects, faults>>

(* A plausible slip: the error of the upsert is dropped. *)
OnErrorDroppingUpsert(a) ==
  CASE At(a, "load_version") -> "fail_doc"
    [] At(a, "upsert") -> "commit"
    [] pipe[a].pc \in {"load_doc", "parse", "commit"} -> "fail_version"
    [] At(a, "ready_version") -> "ready_doc"
    [] At(a, "ready_doc") -> AfterReady(pipe[a].job)
    [] pipe[a].pc \in {"lookup_old", "clean_rows", "clean_points"} -> "done"
    [] At(a, "fail_version") -> "fail_doc"
    [] At(a, "fail_doc") -> "failed"

(* A repository call returns an error, with or without having had its       *)
(* effect.  The errors of the marking and cleaning calls are dropped.       *)
OnError(a) ==
  CASE At(a, "load_version") -> "fail_doc"
    [] pipe[a].pc \in {"load_doc", "parse", "upsert", "commit"} -> "fail_version"
    [] At(a, "ready_version") -> "ready_doc"
    [] At(a, "ready_doc") -> AfterReady(pipe[a].job)
    [] pipe[a].pc \in {"lookup_old", "clean_rows", "clean_points"} -> "done"
    [] At(a, "fail_version") -> "fail_doc"
    [] At(a, "fail_doc") -> "failed"

StepFails(a) ==
  /\ pipe[a].pc \notin {"idle", "done", "failed"}
  /\ Fault
  /\ Goto(a, OnError(a))
  /\ \/ UNCHANGED stores
     \/ /\ At(a, "upsert")
        /\ points' = points \cup Indexed(a)
        /\ UNCHANGED <<mysql, objects>>
     \/ /\ At(a, "commit")
        /\ rows' = rows \cup Indexed(a)
        /\ UNCHANGED <<docs, versions, points, objects>>
     \/ /\ At(a, "clean_rows")
        /\ rows' = rows \ OfVersion(rows, Old(a))
        /\ UNCHANGED <<docs, versions, points, objects>>

PipelineStep(a) ==
  \/ LoadVersion(a) \/ LoadDoc(a) \/ Parse(a) \/ Upsert(a) \/ Commit(a)
  \/ ReadyVersion(a) \/ ReadyDoc(a) \/ LookupOld(a) \/ CleanRows(a) \/ CleanPoints(a)
  \/ FailVersion(a) \/ FailDoc(a)

Ingest(a) ==
  /\ PipelineStep(a) \/ StepFails(a)
  /\ UNCHANGED <<config, client, queue>>

-----------------------------------------------------------------------------
(* The console requests.  A request is answered when its client is idle     *)
(* again; num is the version it is about.                                   *)

Asked(c, l)  == client[c].pc = l
Doc(c)       == client[c].doc
Job(c)       == <<client[c].doc, client[c].num>>
Proceed(c, l) == client' = [client EXCEPT ![c].pc = l]
Answer(c)    == client' = [client EXCEPT ![c] = Idle]
Accept(c, l, d, n, s) ==
  /\ Asked(c, "idle")
  /\ client' = [client EXCEPT ![c] = [pc |-> l, doc |-> d, num |-> n, source |-> s]]
  /\ UNCHANGED <<stores, config, pipe, faults, queue>>

(* UploadDocumentFile stores the file first; UploadDocument takes a uri. *)
StartUpload(c, d, s) ==
  /\ "upload" \in Ops
  /\ docs[d] = Unborn /\ Stored(d) = {} /\ \A o \in Clients : Doc(o) # d
  /\ Accept(c, IF s = "file" THEN "put_object" ELSE "create_doc", d, 1, s)

PutObject(c) ==
  /\ Asked(c, "put_object")
  /\ \E n \in {0, MaxChunks} : objects' = objects \cup {<<Doc(c), n>>}
  /\ Proceed(c, "create_doc")
  /\ UNCHANGED <<mysql, points, config, pipe, faults, queue>>

CreateDoc(c) ==
  /\ Asked(c, "create_doc")
  /\ docs' = [docs EXCEPT ![Doc(c)] = [state |-> "live", status |-> "processing",
                                       current |-> 0, source |-> client[c].source]]
  /\ Proceed(c, "create_version")
  /\ UNCHANGED <<versions, rows, points, objects, config, pipe, faults, queue>>

(* INSERT under uniq_doc_version: a duplicate answers 409.  No foreign key  *)
(* ties the row to a living document.  (A number whose row a deletion       *)
(* removed is not used again: it would be an orphan of a deleted document.) *)
Duplicate(v) == versions[v].status # "none"
CreateVersion(c) ==
  /\ Asked(c, "create_version")
  /\ IF Duplicate(Job(c))
       THEN Answer(c) /\ UNCHANGED versions
       ELSE /\ versions' = [versions EXCEPT ![Job(c)] = [status |-> "processing", config |-> config]]
            /\ Proceed(c, IF client[c].num = 1 THEN "enqueue" ELSE "mark_processing")
  /\ UNCHANGED <<docs, rows, points, objects, config, pipe, faults, queue>>

(* ReindexDocument reads the document, then its current version. *)
StartReindex(c, d) ==
  /\ "reindex" \in Ops
  /\ Live(d) /\ docs[d].current \in 1 .. MaxVersion - 1
  /\ Accept(c, "read_current", d, docs[d].current + 1, "none")

ReadCurrent(c) ==
  /\ Asked(c, "read_current")
  /\ LET v == <<Doc(c), client[c].num - 1>>
     IN IF Exists(v) /\ versions[v].config # config THEN Proceed(c, "create_version") ELSE Answer(c)
  /\ UNCHANGED <<stores, config, pipe, faults, queue>>

(* The result of this call is dropped, an error changes nothing. *)
MarkProcessing(c) ==
  /\ Asked(c, "mark_processing")
  /\ \/ SetIndexState(Doc(c), "processing", client[c].num - 1) /\ UNCHANGED faults
     \/ Fault /\ UNCHANGED docs
  /\ Proceed(c, "enqueue")
  /\ UNCHANGED <<versions, rows, points, objects, config, pipe, queue>>

(* enqueueIngestion: when the process has no queue, or the queue refuses,   *)
(* the request runs the pipeline itself.                                    *)
Enqueue(c) ==
  /\ Asked(c, "enqueue")
  /\ \/ /\ TRUE \in Modes /\ (Q!Enqueue(Job(c)) \/ Q!EnqueueLost(Job(c)))
        /\ Answer(c) /\ UNCHANGED pipe
     \/ /\ \/ TRUE \in Modes /\ Q!EnqueueFails(Job(c))
           \/ FALSE \in Modes /\ UNCHANGED queue
        /\ Proceed(c, "ingest") /\ Start(c, Job(c))
  /\ UNCHANGED <<stores, config, faults>>

Ingested(c) ==
  /\ Asked(c, "ingest") /\ pipe[c].pc \in {"done", "failed"}
  /\ Answer(c) /\ Finish(c)
  /\ UNCHANGED <<stores, config, faults, queue>>

(* A plausible slip: any version that has a row can be gone back to. *)
RollbackToAny(c, v) ==
  /\ "rollback" \in Ops
  /\ Exists(v)
  /\ Accept(c, "rollback", DocOf(v), NumOf(v), "none")

StartRollback(c, v) ==
  /\ "rollback" \in Ops
  /\ versions[v].status = "ready"
  /\ Accept(c, "rollback", DocOf(v), NumOf(v), "none")

RollbackDocument(c) ==
  /\ Asked(c, "rollback")
  /\ SetIndexState(Doc(c), "ready", client[c].num)
  /\ Answer(c)
  /\ UNCHANGED <<versions, rows, points, objects, config, pipe, faults, queue>>

(* DeleteDocument: the uris of the versions, the rows in one transaction,   *)
(* the objects, the points.  num tells whether a version row had a uri.     *)
StartDelete(c, d) ==
  /\ "delete" \in Ops
  /\ Live(d)
  /\ Accept(c, "delete_rows", d, IF \E v \in Versions : DocOf(v) = d /\ Exists(v) THEN 1 ELSE 0, "none")

(* A plausible slip: outside a transaction the document row can survive. *)
DeleteRowsOfVersions(c) ==
  /\ Asked(c, "delete_rows")
  /\ versions' = [v \in Versions |-> IF DocOf(v) = Doc(c) /\ Exists(v)
                                     THEN [Absent EXCEPT !.status = "deleted"]
                                     ELSE versions[v]]
  /\ rows' = rows \ OfDoc(rows, Doc(c))
  /\ Proceed(c, "delete_points")
  /\ UNCHANGED <<docs, points, objects, config, pipe, faults, queue>>

DeleteRows(c) ==
  /\ Asked(c, "delete_rows")
  /\ IF Live(Doc(c))
       THEN /\ docs' = [docs EXCEPT ![Doc(c)] =
                         [state |-> "dead", status |-> "none", current |-> 0, source |-> @.source]]
            /\ versions' = [v \in Versions |-> IF DocOf(v) = Doc(c) /\ Exists(v)
                                               THEN [Absent EXCEPT !.status = "deleted"]
                                               ELSE versions[v]]
            /\ rows' = rows \ OfDoc(rows, Doc(c))
            /\ Proceed(c, IF client[c].num = 1 THEN "delete_object" ELSE "delete_points")
       ELSE Answer(c) /\ UNCHANGED mysql
  /\ UNCHANGED <<points, objects, config, pipe, faults, queue>>

(* The storage refuses a uri that is not an object of its own: the request  *)
(* of a url document ends here.                                             *)
DeleteObject(c) ==
  /\ Asked(c, "delete_object")
  /\ IF docs[Doc(c)].source = "file" THEN Proceed(c, "delete_points") ELSE Answer(c)
  /\ objects' = objects \ Stored(Doc(c))
  /\ UNCHANGED <<mysql, points, config, pipe, faults, queue>>

DeletePoints(c) ==
  /\ Asked(c, "delete_points")
  /\ points' = points \ OfDoc(points, Doc(c))
  /\ Answer(c)
  /\ UNCHANGED <<mysql, objects, config, pipe, faults, queue>>

(* A call of the request fails, or its process dies: what was done stays. *)
Abort(c) ==
  /\ ~ Asked(c, "idle")
  /\ Fault
  /\ Answer(c) /\ Finish(c)
  /\ UNCHANGED <<stores, config, queue>>

(* The API is redeployed with other chunking or embedding options. *)
Redeploy ==
  /\ config < MaxConfig /\ \A c \in Clients : Asked(c, "idle")
  /\ config' = config + 1
  /\ UNCHANGED <<stores, client, pipe, faults, queue>>

Request(c) ==
  \/ \E d \in Docs, s \in Sources : StartUpload(c, d, s)
  \/ \E d \in Docs : StartReindex(c, d) \/ StartDelete(c, d)
  \/ \E v \in Versions : StartRollback(c, v)

Handle(c) ==
  \/ PutObject(c) \/ CreateDoc(c) \/ CreateVersion(c) \/ ReadCurrent(c) \/ MarkProcessing(c)
  \/ Enqueue(c) \/ Ingested(c) \/ RollbackDocument(c)
  \/ DeleteRows(c) \/ DeleteObject(c) \/ DeletePoints(c)

-----------------------------------------------------------------------------
(* The workers of the queue: the handler of a delivered message is one run  *)
(* of the pipeline.                                                         *)

Local == <<stores, config, client, faults>>

WorkerTakes(w) ==
  /\ \E m \in Q!Message : Q!Deliver(w, m) /\ Start(w, m.job)
  /\ UNCHANGED Local

WorkerReturns(w) ==
  /\ \/ At(w, "done") /\ Q!HandlerOk(w)
     \/ At(w, "failed") /\ Q!HandlerErr(w)
  /\ Finish(w)
  /\ UNCHANGED Local

WorkerDisposes(w) ==
  /\ Q!PublishRetry(w) \/ Q!PublishDLQ(w) \/ Q!Ack(w) \/ Q!GiveUp(w)
  /\ UNCHANGED <<Local, pipe>>

WorkerDies(w) == Q!Crash(w) /\ Finish(w) /\ UNCHANGED Local

LinkChanges(w) ==
  /\ Q!PublishFails(w) \/ Q!ConnectionLost(w) \/ Q!Restart(w)
  /\ UNCHANGED <<Local, pipe>>

RetryDue == (\E m \in Q!Message : Q!Expire(m)) /\ UNCHANGED <<Local, pipe>>

Work(w) == WorkerTakes(w) \/ Ingest(w) \/ WorkerReturns(w) \/ WorkerDisposes(w)

Next ==
  \/ \E c \in Clients : Request(c) \/ Handle(c) \/ Ingest(c) \/ Abort(c)
  \/ \E w \in Workers : Work(w) \/ WorkerDies(w) \/ LinkChanges(w)
  \/ RetryDue \/ Redeploy

Spec == Init /\ [][Next]_vars

(* A request that was accepted runs to its end or is aborted, a worker       *)
(* never stops half-way, the broker expires what is due.                    *)
Fairness ==
  /\ \A c \in Clients : WF_vars(Handle(c) \/ Ingest(c))
  /\ \A w \in Workers : WF_vars(Work(w))
  /\ WF_vars(RetryDue)

FairSpec == Spec /\ Fairness

-----------------------------------------------------------------------------
Steps == {"idle", "load_version", "load_doc", "parse", "upsert", "commit", "ready_version",
          "ready_doc", "lookup_old", "clean_rows", "clean_points", "fail_version", "fail_doc",
          "done", "failed"}
Stages == {"idle", "put_object", "create_doc", "create_version", "read_current",
           "mark_processing", "enqueue", "ingest", "rollback", "delete_rows",
           "delete_object", "delete_points"}
Chunks == Versions \X (1 .. MaxChunks)

TypeOK ==
  /\ docs \in [Docs -> [state : {"unborn", "live", "dead"}, current : 0 .. MaxVersion,
                        status : {"none", "processing", "ready", "failed"},
                        source : {"none", "file", "url"}]]
  /\ versions \in [Versions -> [status : {"none", "processing", "ready", "failed", "deleted"},
                                config : 0 .. MaxConfig + 1]]
  /\ rows \subseteq Chunks /\ points \subseteq Chunks
  /\ objects \subseteq Docs \X (0 .. MaxChunks)
  /\ config \in 1 .. MaxConfig + 1
  /\ client \in [Clients -> [pc : Stages, doc : Docs \cup {NoMessage}, num : 0 .. MaxVersion,
                             source : {"none", "file", "url"}]]
  /\ pipe \in [Actors -> [pc : Steps, job : Versions \cup {NoMessage}, size : 0 .. MaxChunks]]
  /\ faults \in 0 .. MaxFaults

(* The document never points to a version that is not in document_version,  *)
(* through any crash, redelivery, rollback and failed call.                 *)
CurrentVersionExists ==
  \A d \in Docs : Live(d) /\ docs[d].current > 0 => Exists(<<d, docs[d].current>>)

(* Something is still at work on the document. *)
InFlight(v) == Q!Waiting(v) \/ Q!InHand(v) \/ \E a \in Actors : pipe[a].job = v
Busy(d) == \/ \E c \in Clients : Doc(c) = d
           \/ \E v \in Versions : DocOf(v) = d /\ InFlight(v)

(* A later version was ready: only a rollback goes back behind one.         *)
RolledBack(d) ==
  \E v \in Versions : DocOf(v) = d /\ versions[v].status = "ready" /\ NumOf(v) > docs[d].current

(* The current version of a document is served by both stores, chunk rows   *)
(* and points being there and in agreement: as long as no repository call   *)
(* failed, no request was aborted and no job came a second time (the        *)
(* marking and cleaning calls of markIngestionReady drop their errors), and *)
(* unless a rollback went back to a version whose index is gone.            *)
ServedUntilFault ==
  faults = 0 /\ disruptions = 0 =>
    \A d \in Docs : Live(d) /\ docs[d].current > 0 /\ ~ RolledBack(d) =>
      LET v == <<d, docs[d].current>>
      IN OfVersion(rows, v) # {} /\ OfVersion(rows, v) = OfVersion(points, v)

(* Once the work on a document has settled, retrieval can only hit its      *)
(* current version: no points of older or failed ones are left.  Without    *)
(* rollbacks and deletions, and as long as nothing failed.                  *)
OnlyLatestUntilFault ==
  faults = 0 /\ disruptions = 0 =>
    \A d \in Docs : ~ Busy(d) =>
      \A p \in OfDoc(points, d) : Live(d) /\ NumOf(p[1]) = docs[d].current

(* A version nobody works on any more though it is still "processing": its  *)
(* number is taken, so that the document cannot be indexed anew.            *)
Stranded(v) ==
  /\ versions[v].status = "processing" /\ ~ InFlight(v)
  /\ ~ \E c \in Clients : client[c].pc \in {"mark_processing", "enqueue"} /\ Job(c) = v

(* Each stranded version is paid for by a loss of its own: a publish the    *)
(* broker never confirmed, a call that failed or a request that died.       *)
(* Crashes of workers, lost connections, retries and dead letters, requests *)
(* on one document side by side strand none.                                *)
StrandedByLoss ==
  Cardinality({v \in Versions : Stranded(v)}) <= faults + Cardinality(unconfirmed)

(* Every chunk row can be found by a vector search. *)
RowsHavePoints == rows \subseteq points

(* No two versions of a document are ever being built at once, though       *)
(* nothing locks the document: the unique version number is the lock.  (A   *)
(* version is built until its document points to it; what remains then is   *)
(* to clean up its predecessor.)                                            *)
Tidying == {"lookup_old", "clean_rows", "clean_points", "done"}
Building(v) ==
  \/ Q!Waiting(v)
  \/ \E w \in Workers : phase[w] = "erred" /\ msg[w].job = v
  \/ \E a \in Actors : pipe[a].job = v /\ pipe[a].pc \notin Tidying
SingleFlight ==
  \A v, u \in Versions : DocOf(v) = DocOf(u) /\ Building(v) /\ Building(u) => v = u

(* Without rollbacks a document never falls back to an older version. *)
CurrentMonotone == [][\A d \in Docs : Live(d)' => docs'[d].current >= docs[d].current]_vars

(* No document stays in processing for ever. *)
DocumentSettles ==
  \A d \in Docs : docs[d].status = "processing" ~> docs[d].status # "processing"
=============================================================================
