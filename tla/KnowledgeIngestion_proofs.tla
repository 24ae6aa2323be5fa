--------------------- MODULE KnowledgeIngestion_proofs ---------------------
(***************************************************************************)
(* Proofs about the requests and the pipeline.  They are well typed.       *)
(* Whatever fails, the current version of a document exists, and a version *)
(* is left "processing" with nobody at work on it only by a loss of its    *)
(* own.  Until the queue or a worker fails, no two versions of a document  *)
(* are being built, a document does not go back and every chunk row has    *)
(* its points; until any call fails, the current version can be found, and *)
(* once the work has settled nothing else can.                             *)
(***************************************************************************)
EXTENDS KnowledgeIngestion, FiniteSetTheorems, TLAPS

(* A request under way names a document and, unless it deletes, a version   *)
(* number; a run of the pipeline names a version.                           *)
Deleting == {"delete_rows", "delete_object", "delete_points"}
Named ==
  /\ \A c \in Clients : client[c].pc # "idle" =>
       /\ client[c].doc \in Docs
       /\ client[c].pc \notin Deleting => client[c].num > 0
       /\ client[c].pc \in {"put_object", "create_doc"} => client[c].source \in {"file", "url"}
  /\ \A a \in Actors : pipe[a].pc # "idle" => pipe[a].job \in Versions

TypeInv == TypeOK /\ Named

LEMMA VersionNumbers ==
  ASSUME NEW v \in Versions
  PROVE  DocOf(v) \in Docs /\ NumOf(v) \in 1 .. MaxVersion /\ Fallback(v) \in 0 .. MaxVersion
BY SizesAssumption DEF Versions, DocOf, NumOf, Fallback

LEMMA ChunksAreChunks ==
  ASSUME NEW v \in Versions, NEW n \in 0 .. MaxChunks
  PROVE  ChunksOf(v, n) \subseteq Chunks
BY SizesAssumption DEF ChunksOf, Chunks

LEMMA TypeInit == Init => TypeInv
<1> SUFFICES ASSUME Init PROVE TypeInv
  OBVIOUS
<1> USE SizesAssumption, FaultsAssumption DEF Init
<1>1. TypeOK
  BY DEF TypeOK, Unborn, Absent, Idle, NoRun, Steps, Stages
<1>2. Named
  BY DEF Named, Idle, NoRun
<1> QED
  BY <1>1, <1>2 DEF TypeInv

(* The typed records, in the form the steps use them. *)
DocRec == [state : {"unborn", "live", "dead"}, current : 0 .. MaxVersion,
           status : {"none", "processing", "ready", "failed"}, source : {"none", "file", "url"}]

LEMMA IndexStateTyped ==
  ASSUME docs \in [Docs -> DocRec],
         NEW d \in Docs, NEW s \in {"processing", "ready", "failed"}, NEW n \in 0 .. MaxVersion,
         SetIndexState(d, s, n)
  PROVE  docs' \in [Docs -> DocRec]
BY ZenonT(60) DEF SetIndexState, DocRec

VersionRec == [status : {"none", "processing", "ready", "failed", "deleted"},
               config : 0 .. MaxConfig + 1]

LEMMA VersionStatusTyped ==
  ASSUME versions \in [Versions -> VersionRec],
         NEW v \in Versions, NEW s \in {"ready", "failed"}, SetVersionStatus(v, s)
  PROVE  versions' \in [Versions -> VersionRec]
BY DEF SetVersionStatus, VersionRec

RunRec == [pc : Steps, job : Versions \cup {NoMessage}, size : 0 .. MaxChunks]

LEMMA GotoTyped ==
  ASSUME TypeInv, NEW a \in Actors, pipe[a].pc # "idle", NEW l \in Steps, Goto(a, l)
  PROVE  /\ pipe' \in [Actors -> RunRec]
         /\ \A b \in Actors : pipe'[b].pc # "idle" => pipe'[b].job \in Versions
BY DEF TypeInv, TypeOK, Named, Goto, RunRec

LEMMA FinishTyped ==
  ASSUME TypeInv, NEW a \in Actors, Finish(a)
  PROVE  /\ pipe' \in [Actors -> RunRec]
         /\ \A b \in Actors : pipe'[b].pc # "idle" => pipe'[b].job \in Versions
BY SizesAssumption DEF TypeInv, TypeOK, Named, Finish, NoRun, RunRec, Steps

LEMMA StartTyped ==
  ASSUME TypeInv, NEW a \in Actors, NEW v \in Versions, Start(a, v)
  PROVE  /\ pipe' \in [Actors -> RunRec]
         /\ \A b \in Actors : pipe'[b].pc # "idle" => pipe'[b].job \in Versions
BY SizesAssumption DEF TypeInv, TypeOK, Named, Start, RunRec, Steps

(* What the type invariant says of the stores, and of the runs. *)
StoresTyped ==
  /\ docs \in [Docs -> DocRec] /\ versions \in [Versions -> VersionRec]
  /\ rows \subseteq Chunks /\ points \subseteq Chunks /\ objects \subseteq Docs \X (0 .. MaxChunks)
RunsTyped ==
  /\ pipe \in [Actors -> RunRec]
  /\ \A a \in Actors : pipe[a].pc # "idle" => pipe[a].job \in Versions
ClientRec == [pc : Stages, doc : Docs \cup {NoMessage}, num : 0 .. MaxVersion,
              source : {"none", "file", "url"}]
ClientsTyped ==
  /\ client \in [Clients -> ClientRec]
  /\ \A c \in Clients : client[c].pc # "idle" =>
       /\ client[c].doc \in Docs
       /\ client[c].pc \notin Deleting => client[c].num > 0
       /\ client[c].pc \in {"put_object", "create_doc"} => client[c].source \in {"file", "url"}
CountersTyped == config \in 1 .. MaxConfig + 1 /\ faults \in 0 .. MaxFaults

LEMMA TypeParts == TypeInv <=> StoresTyped /\ RunsTyped /\ ClientsTyped /\ CountersTyped
BY DEF TypeInv, TypeOK, Named, StoresTyped, RunsTyped, ClientsTyped, CountersTyped,
   DocRec, VersionRec, RunRec, ClientRec

LEMMA TypePartsNext ==
  TypeInv' <=> StoresTyped' /\ RunsTyped' /\ ClientsTyped' /\ CountersTyped'
BY DEF TypeInv, TypeOK, Named, StoresTyped, RunsTyped, ClientsTyped, CountersTyped,
   DocRec, VersionRec, RunRec, ClientRec

LEMMA PipelineTyped ==
  ASSUME TypeInv, NEW a \in Actors, PipelineStep(a)
  PROVE  StoresTyped' /\ RunsTyped' /\ faults' = faults
<1> USE DEF At
<1> DEFINE v == pipe[a].job
<1>1. pipe[a].pc # "idle" /\ v \in Versions /\ pipe[a].size \in 0 .. MaxChunks
  BY DEF TypeInv, TypeOK, Named, PipelineStep, LoadVersion, LoadDoc, Parse, Upsert, Commit,
     ReadyVersion, ReadyDoc, LookupOld, CleanRows, CleanPoints, FailVersion, FailDoc
<1>2. DocOf(v) \in Docs /\ NumOf(v) \in 0 .. MaxVersion /\ Fallback(v) \in 0 .. MaxVersion
  BY <1>1, VersionNumbers
<1>3. Indexed(a) \subseteq Chunks
  BY <1>1, ChunksAreChunks DEF Indexed
<1>4. StoresTyped
  BY TypeParts
<1>5. ASSUME NEW l \in Steps, Goto(a, l) PROVE RunsTyped'
  BY <1>1, <1>5, GotoTyped DEF RunsTyped
<1>6. CASE LoadVersion(a)
  BY <1>4, <1>5, <1>6 DEF LoadVersion, StoresTyped, stores, Steps
<1>7. CASE LoadDoc(a)
  BY <1>4, <1>5, <1>7 DEF LoadDoc, StoresTyped, stores, Steps
<1>8. CASE Parse(a)
  <2>1. PICK n \in Contents(DocOf(v)) :
          pipe' = [pipe EXCEPT ![a].pc = IF n = 0 THEN "fail_version" ELSE "upsert", ![a].size = n]
    BY <1>8 DEF Parse
  <2>2. n \in 0 .. MaxChunks
    BY <1>2, <1>4, SizesAssumption DEF Contents, Stored, StoresTyped
  <2>3. RunsTyped'
    BY <1>1, <2>1, <2>2, TypeParts, ZenonT(60) DEF RunsTyped, RunRec, Steps
  <2> QED
    BY <1>4, <1>8, <2>3 DEF Parse, StoresTyped, stores
<1>9. CASE Upsert(a)
  BY <1>3, <1>4, <1>5, <1>9 DEF Upsert, StoresTyped, mysql, Steps
<1>10. CASE Commit(a)
  BY <1>3, <1>4, <1>5, <1>10 DEF Commit, StoresTyped, Steps
<1>11. CASE ReadyVersion(a)
  BY <1>1, <1>4, <1>5, <1>11, VersionStatusTyped DEF ReadyVersion, StoresTyped, Steps
<1>12. CASE ReadyDoc(a)
  <2>1. docs' \in [Docs -> DocRec]
    BY <1>2, <1>4, <1>12, IndexStateTyped DEF ReadyDoc, StoresTyped
  <2> QED
    BY <1>4, <1>5, <1>12, <2>1 DEF ReadyDoc, AfterReady, StoresTyped, Steps
<1>13. CASE LookupOld(a)
  BY <1>4, <1>5, <1>13 DEF LookupOld, StoresTyped, stores, Steps
<1>14. CASE CleanRows(a)
  BY <1>4, <1>5, <1>14 DEF CleanRows, StoresTyped, Steps
<1>15. CASE CleanPoints(a)
  BY <1>4, <1>5, <1>15 DEF CleanPoints, StoresTyped, mysql, Steps
<1>16. CASE FailVersion(a)
  BY <1>1, <1>4, <1>5, <1>16, VersionStatusTyped DEF FailVersion, StoresTyped, Steps
<1>17. CASE FailDoc(a)
  <2>1. docs' \in [Docs -> DocRec]
    BY <1>2, <1>4, <1>17, IndexStateTyped DEF FailDoc, StoresTyped
  <2> QED
    BY <1>4, <1>5, <1>17, <2>1 DEF FailDoc, StoresTyped, Steps
<1> QED
  BY <1>6, <1>7, <1>8, <1>9, <1>10, <1>11, <1>12, <1>13, <1>14, <1>15, <1>16, <1>17 DEF PipelineStep

LEMMA FailureTyped ==
  ASSUME TypeInv, NEW a \in Actors, StepFails(a)
  PROVE  StoresTyped' /\ RunsTyped' /\ faults' \in 0 .. MaxFaults
<1>1. pipe[a].pc \in Steps \ {"idle", "done", "failed"} /\ pipe[a].job \in Versions
  BY DEF StepFails, TypeInv, TypeOK, Named
<1>2. OnError(a) \in Steps
  BY <1>1 DEF OnError, AfterReady, At, Steps
<1>3. RunsTyped'
  BY <1>1, <1>2, GotoTyped DEF StepFails, RunsTyped
<1>4. faults' \in 0 .. MaxFaults
  BY FaultsAssumption DEF StepFails, Fault, TypeInv, TypeOK
<1>5. Indexed(a) \subseteq Chunks
  BY <1>1, ChunksAreChunks DEF Indexed, TypeInv, TypeOK
<1>6. StoresTyped'
  BY <1>5, TypeParts DEF StepFails, StoresTyped, stores, mysql
<1> QED
  BY <1>3, <1>4, <1>6

LEMMA IngestTyped ==
  ASSUME TypeInv, NEW a \in Actors, Ingest(a)
  PROVE  TypeInv'
<1>1. StoresTyped' /\ RunsTyped' /\ faults' \in 0 .. MaxFaults
  BY TypeParts, PipelineTyped, FailureTyped DEF Ingest, CountersTyped
<1>2. ClientsTyped' /\ CountersTyped'
  BY <1>1, TypeParts DEF Ingest, ClientsTyped, CountersTyped
<1> QED
  BY <1>1, <1>2, TypePartsNext

(* The requests. *)
LEMMA ProceedTyped ==
  ASSUME ClientsTyped, NEW c \in Clients, client[c].pc # "idle",
         NEW l \in Stages \ {"put_object"}, Proceed(c, l),
         \/ l \in Deleting
         \/ client[c].pc \notin Deleting /\ (l = "create_doc" => client[c].pc = "put_object")
  PROVE  ClientsTyped'
BY DEF ClientsTyped, ClientRec, Proceed, Deleting, Stages

LEMMA AnswerTyped ==
  ASSUME ClientsTyped, NEW c \in Clients, Answer(c)
  PROVE  ClientsTyped'
BY SizesAssumption DEF ClientsTyped, ClientRec, Answer, Idle, Stages

LEMMA RequestTyped ==
  ASSUME TypeInv, NEW c \in Clients, Request(c)
  PROVE  TypeInv'
<1>1. StoresTyped' /\ RunsTyped' /\ CountersTyped'
  BY TypeParts DEF Request, StartUpload, StartReindex, StartDelete, StartRollback, Accept,
     stores, StoresTyped, RunsTyped, CountersTyped
<1>2. ASSUME NEW l \in Stages \ {"idle"}, NEW d \in Docs, NEW n \in 0 .. MaxVersion,
             NEW s \in {"none", "file", "url"}, Accept(c, l, d, n, s),
             l \notin Deleting => n > 0,
             l \in {"put_object", "create_doc"} => s # "none"
      PROVE  ClientsTyped'
  BY <1>2, TypeParts DEF Accept, ClientsTyped, ClientRec
<1>3. ClientsTyped'
  <2>1. ASSUME NEW d \in Docs, NEW s \in Sources, StartUpload(c, d, s) PROVE ClientsTyped'
    BY <1>2, <2>1, SizesAssumption, SourcesAssumption DEF StartUpload, Stages, Deleting
  <2>2. ASSUME NEW d \in Docs, StartReindex(c, d) PROVE ClientsTyped'
    BY <1>2, <2>2, SizesAssumption DEF StartReindex, Stages, Deleting
  <2>3. ASSUME NEW d \in Docs, StartDelete(c, d) PROVE ClientsTyped'
    BY <1>2, <2>3, SizesAssumption DEF StartDelete, Stages, Deleting
  <2>4. ASSUME NEW v \in Versions, StartRollback(c, v) PROVE ClientsTyped'
    BY <1>2, <2>4, SizesAssumption, VersionNumbers DEF StartRollback, Stages, Deleting
  <2> QED
    BY <2>1, <2>2, <2>3, <2>4 DEF Request
<1> QED
  BY <1>1, <1>3, TypePartsNext

LEMMA HandleTyped ==
  ASSUME TypeInv, NEW c \in Clients, Handle(c)
  PROVE  TypeInv'
<1> USE DEF Asked
<1>1. /\ StoresTyped /\ RunsTyped /\ ClientsTyped /\ CountersTyped
      /\ client[c] \in ClientRec /\ client[c].pc # "idle" /\ Doc(c) \in Docs
  BY TypeParts DEF ClientsTyped, Doc, Handle, PutObject, CreateDoc, CreateVersion, ReadCurrent,
     MarkProcessing, Enqueue, Ingested, RollbackDocument, DeleteRows, DeleteObject, DeletePoints
<1>2. client[c].pc \notin Deleting => client[c].num \in 1 .. MaxVersion /\ Job(c) \in Versions
  BY <1>1, SizesAssumption DEF ClientsTyped, ClientRec, Job, Doc, Versions
<1>3. CASE PutObject(c)
  <2>1. StoresTyped'
    BY <1>1, <1>3, SizesAssumption DEF PutObject, StoresTyped, mysql
  <2>2. ClientsTyped'
    BY <1>1, <1>3, ProceedTyped DEF PutObject, Stages, Deleting
  <2> QED
    BY <1>1, <1>3, <2>1, <2>2, TypePartsNext DEF PutObject, RunsTyped, CountersTyped
<1>4. CASE CreateDoc(c)
  <2>1. docs' \in [Docs -> DocRec]
    BY <1>1, <1>4, SizesAssumption DEF CreateDoc, StoresTyped, DocRec, ClientsTyped, ClientRec, Doc
  <2>2. ClientsTyped'
    BY <1>1, <1>4, ProceedTyped DEF CreateDoc, Stages, Deleting
  <2> QED
    BY <1>1, <1>4, <2>1, <2>2, TypePartsNext DEF CreateDoc, StoresTyped, RunsTyped, CountersTyped
<1>5. CASE CreateVersion(c)
  <2>1. versions' \in [Versions -> VersionRec]
    BY <1>1, <1>5, SizesAssumption DEF CreateVersion, StoresTyped, VersionRec, CountersTyped
  <2>2. ClientsTyped'
    <3>1. CASE Answer(c)
      BY <1>1, <3>1, AnswerTyped
    <3>2. CASE Proceed(c, "enqueue") \/ Proceed(c, "mark_processing")
      BY <1>1, <1>5, <3>2, ProceedTyped DEF CreateVersion, Stages, Deleting
    <3> QED
      BY <1>5, <3>1, <3>2 DEF CreateVersion
  <2> QED
    BY <1>1, <1>5, <2>1, <2>2, TypePartsNext DEF CreateVersion, StoresTyped, RunsTyped, CountersTyped
<1>6. CASE ReadCurrent(c)
  <2>1. ClientsTyped'
    <3>1. CASE Answer(c)
      BY <1>1, <3>1, AnswerTyped
    <3>2. CASE Proceed(c, "create_version")
      BY <1>1, <1>6, <3>2, ProceedTyped DEF ReadCurrent, Stages, Deleting
    <3> QED
      BY <1>6, <3>1, <3>2 DEF ReadCurrent
  <2> QED
    BY <1>1, <1>6, <2>1, TypePartsNext DEF ReadCurrent, stores, StoresTyped, RunsTyped, CountersTyped
<1>7. CASE MarkProcessing(c)
  <2>1. docs' \in [Docs -> DocRec]
    <3>1. client[c].num - 1 \in 0 .. MaxVersion
      BY <1>2, <1>7, SizesAssumption DEF MarkProcessing, Deleting
    <3> QED
      BY <1>1, <1>7, <3>1, IndexStateTyped DEF MarkProcessing, StoresTyped
  <2>2. faults' \in 0 .. MaxFaults
    BY <1>1, <1>7, FaultsAssumption DEF MarkProcessing, Fault, CountersTyped
  <2>3. ClientsTyped'
    BY <1>1, <1>7, ProceedTyped DEF MarkProcessing, Stages, Deleting
  <2> QED
    BY <1>1, <1>7, <2>1, <2>2, <2>3, TypePartsNext
    DEF MarkProcessing, StoresTyped, RunsTyped, CountersTyped
<1>8. CASE Enqueue(c)
  <2>1. ClientsTyped'
    BY <1>1, <1>8, AnswerTyped, ProceedTyped DEF Enqueue, Stages, Deleting
  <2>2. RunsTyped'
    BY <1>1, <1>2, <1>8, StartTyped DEF Enqueue, RunsTyped, Actors, Deleting
  <2> QED
    BY <1>1, <1>8, <2>1, <2>2, TypePartsNext DEF Enqueue, stores, StoresTyped, CountersTyped
<1>9. CASE Ingested(c)
  BY <1>1, <1>9, AnswerTyped, FinishTyped, TypePartsNext
  DEF Ingested, stores, StoresTyped, RunsTyped, CountersTyped, Actors
<1>10. CASE RollbackDocument(c)
  <2>1. docs' \in [Docs -> DocRec]
    BY <1>1, <1>10, IndexStateTyped DEF RollbackDocument, StoresTyped, ClientRec
  <2> QED
    BY <1>1, <1>10, <2>1, AnswerTyped, TypePartsNext
    DEF RollbackDocument, StoresTyped, RunsTyped, CountersTyped
<1>11. CASE DeleteRows(c)
  <2>1. docs' \in [Docs -> DocRec] /\ versions' \in [Versions -> VersionRec] /\ rows' \subseteq Chunks
    <3>1. CASE Live(Doc(c))
      <4>1. docs' \in [Docs -> DocRec]
        BY <1>1, <1>11, <3>1, SizesAssumption DEF DeleteRows, StoresTyped, DocRec
      <4>2. versions' \in [Versions -> VersionRec]
        <5>1. [Absent EXCEPT !.status = "deleted"] \in VersionRec
          BY SizesAssumption DEF Absent, VersionRec
        <5> QED
          BY <1>1, <1>11, <3>1, <5>1 DEF DeleteRows, StoresTyped
      <4> QED
        BY <1>1, <1>11, <3>1, <4>1, <4>2 DEF DeleteRows, StoresTyped
    <3>2. CASE ~ Live(Doc(c))
      BY <1>1, <1>11, <3>2 DEF DeleteRows, mysql, StoresTyped
    <3> QED
      BY <3>1, <3>2
  <2>2. ClientsTyped'
    <3>1. CASE Answer(c)
      BY <1>1, <3>1, AnswerTyped
    <3>2. CASE Proceed(c, "delete_object") \/ Proceed(c, "delete_points")
      BY <1>1, <3>2, ProceedTyped DEF Stages, Deleting
    <3> QED
      BY <1>11, <3>1, <3>2 DEF DeleteRows
  <2> QED
    BY <1>1, <1>11, <2>1, <2>2, TypePartsNext DEF DeleteRows, StoresTyped, RunsTyped, CountersTyped
<1>12. CASE DeleteObject(c)
  <2>1. ClientsTyped'
    <3>1. CASE Answer(c)
      BY <1>1, <3>1, AnswerTyped
    <3>2. CASE Proceed(c, "delete_points")
      BY <1>1, <3>2, ProceedTyped DEF Stages, Deleting
    <3> QED
      BY <1>12, <3>1, <3>2 DEF DeleteObject
  <2> QED
    BY <1>1, <1>12, <2>1, TypePartsNext
    DEF DeleteObject, mysql, StoresTyped, RunsTyped, CountersTyped
<1>13. CASE DeletePoints(c)
  BY <1>1, <1>13, AnswerTyped, TypePartsNext
  DEF DeletePoints, mysql, StoresTyped, RunsTyped, CountersTyped
<1> QED
  BY <1>3, <1>4, <1>5, <1>6, <1>7, <1>8, <1>9, <1>10, <1>11, <1>12, <1>13 DEF Handle

LEMMA WorkTyped ==
  ASSUME TypeInv, NEW w \in Workers,
         \/ WorkerTakes(w) \/ WorkerReturns(w) \/ WorkerDisposes(w)
         \/ WorkerDies(w) \/ LinkChanges(w) \/ RetryDue
  PROVE  TypeInv'
<1>1. StoresTyped' /\ ClientsTyped' /\ CountersTyped'
  BY TypeParts DEF WorkerTakes, WorkerReturns, WorkerDisposes, WorkerDies, LinkChanges, RetryDue,
     Local, stores, StoresTyped, ClientsTyped, CountersTyped
<1>2. RunsTyped'
  <2>1. CASE WorkerTakes(w)
    <3>1. PICK m \in Q!Message : Start(w, m.job)
      BY <2>1 DEF WorkerTakes
    <3>2. m.job \in Versions
      BY DEF Q!Message
    <3> QED
      BY <3>1, <3>2, StartTyped DEF RunsTyped, Actors
  <2>2. CASE WorkerReturns(w) \/ WorkerDies(w)
    BY <2>2, FinishTyped DEF WorkerReturns, WorkerDies, RunsTyped, Actors
  <2>3. CASE WorkerDisposes(w) \/ LinkChanges(w) \/ RetryDue
    BY <2>3, TypeParts DEF WorkerDisposes, LinkChanges, RetryDue, RunsTyped
  <2> QED
    BY <2>1, <2>2, <2>3
<1> QED
  BY <1>1, <1>2, TypePartsNext

LEMMA OtherTyped ==
  ASSUME TypeInv, (\E c \in Clients : Abort(c)) \/ Redeploy \/ RetryDue \/ UNCHANGED vars
  PROVE  TypeInv'
<1>1. CASE \E c \in Clients : Abort(c)
  <2>1. PICK c \in Clients : Abort(c)
    BY <1>1
  <2>2. RunsTyped' /\ ClientsTyped'
    BY <2>1, TypeParts, AnswerTyped, FinishTyped DEF Abort, RunsTyped, Actors
  <2>3. StoresTyped' /\ CountersTyped'
    BY <2>1, TypeParts, FaultsAssumption DEF Abort, Fault, stores, StoresTyped, CountersTyped
  <2> QED
    BY <2>2, <2>3, TypePartsNext
<1>2. CASE Redeploy
  BY <1>2, TypeParts, TypePartsNext, SizesAssumption
  DEF Redeploy, stores, StoresTyped, RunsTyped, ClientsTyped, CountersTyped
<1>3. CASE RetryDue \/ UNCHANGED vars
  BY <1>3, TypeParts, TypePartsNext
  DEF RetryDue, Local, vars, stores, StoresTyped, RunsTyped, ClientsTyped, CountersTyped
<1> QED
  BY <1>1, <1>2, <1>3

LEMMA TypeStep == TypeInv /\ [Next]_vars => TypeInv'
<1> SUFFICES ASSUME TypeInv, [Next]_vars PROVE TypeInv'
  OBVIOUS
<1>1. ASSUME NEW c \in Clients, Request(c) \/ Handle(c) \/ Ingest(c) \/ Abort(c) PROVE TypeInv'
  BY <1>1, RequestTyped, HandleTyped, IngestTyped, OtherTyped DEF Actors
<1>2. ASSUME NEW w \in Workers, Work(w) \/ WorkerDies(w) \/ LinkChanges(w) PROVE TypeInv'
  BY <1>2, WorkTyped, IngestTyped DEF Work, Actors
<1>3. CASE RetryDue \/ Redeploy \/ UNCHANGED vars
  BY <1>3, OtherTyped
<1> QED
  BY <1>1, <1>2, <1>3 DEF Next

(* The tables, the stores, the requests and the runs are always well typed, *)
(* for any number of documents, requests, workers, versions and failures.   *)
THEOREM TypeCorrect == Spec => []TypeOK
<1>1. TypeInv => TypeOK
  BY DEF TypeInv
<1> QED
  BY <1>1, TypeInit, TypeStep, PTL DEF Spec

-----------------------------------------------------------------------------
(* Every step of the system is a step of the queue, or leaves it alone, so  *)
(* that what is shown of the steps of the queue can be used here.           *)

LEMMA HandleRefines ==
  ASSUME TypeInv, NEW c \in Clients, Handle(c)
  PROVE  Q!Next \/ UNCHANGED queue
<1>1. CASE Enqueue(c)
  <2>1. Job(c) \in Versions
    BY <1>1, TypeParts, SizesAssumption
    DEF Enqueue, Asked, ClientsTyped, ClientRec, Deleting, Job, Versions
  <2> QED
    BY <1>1, <2>1 DEF Enqueue, Q!Next, Q!Offer
<1>2. CASE ~ Enqueue(c)
  BY <1>2 DEF Handle, PutObject, CreateDoc, CreateVersion, ReadCurrent, MarkProcessing,
     Ingested, RollbackDocument, DeleteRows, DeleteObject, DeletePoints
<1> QED
  BY <1>1, <1>2

LEMMA WorkRefines ==
  ASSUME NEW w \in Workers,
         \/ WorkerTakes(w) \/ WorkerReturns(w) \/ WorkerDisposes(w)
         \/ WorkerDies(w) \/ LinkChanges(w)
  PROVE  Q!Next
<1>1. Q!Consume(w) \/ Q!Disrupt(w)
  BY DEF WorkerTakes, WorkerReturns, WorkerDisposes, WorkerDies, LinkChanges, Q!Consume, Q!Disrupt
<1> QED
  BY <1>1 DEF Q!Next

LEMMA NextRefines ==
  ASSUME TypeInv, [Next]_vars
  PROVE  [Q!Next]_(Q!vars)
<1>1. ASSUME NEW c \in Clients, Request(c) \/ Handle(c) \/ Ingest(c) \/ Abort(c)
      PROVE  Q!Next \/ UNCHANGED queue
  BY <1>1, HandleRefines DEF Request, StartUpload, StartReindex, StartDelete, StartRollback,
     Accept, Ingest, Abort
<1>2. ASSUME NEW w \in Workers, Work(w) \/ WorkerDies(w) \/ LinkChanges(w)
      PROVE  Q!Next \/ UNCHANGED queue
  BY <1>2, WorkRefines DEF Work, Ingest
<1>3. ASSUME RetryDue \/ Redeploy \/ UNCHANGED vars
      PROVE  Q!Next \/ UNCHANGED queue
  BY <1>3 DEF RetryDue, Redeploy, vars, queue, Q!Next
<1>4. UNCHANGED queue => UNCHANGED Q!vars
  BY DEF queue, Q!vars
<1> QED
  BY <1>1, <1>2, <1>3, <1>4 DEF Next

-----------------------------------------------------------------------------
(* The queue, as the documents use it: the queues are bags, and a worker    *)
(* has a message exactly while it is busy.                                  *)
QueueTyped ==
  /\ main \in [Q!Message -> Nat] /\ retryq \in [Q!Message -> Nat]
  /\ phase \in [Workers -> Q!Phases]
  /\ msg \in [Workers -> Q!Message \cup {NoMessage}]
  /\ \A w \in Workers : (phase[w] = "idle") <=> (msg[w] = NoMessage)
  /\ disruptions \in 0 .. MaxDisruptions

LEMMA NoMessageIsNone == NoMessage \notin Q!Message
BY QueueAssumption DEF Q!Message

LEMMA PutTake ==
  ASSUME NEW q \in [Q!Message -> Nat], NEW m \in Q!Message
  PROVE  /\ Q!Put(q, m) \in [Q!Message -> Nat] /\ Q!Put(q, m)[m] = q[m] + 1
         /\ \A k \in Q!Message : k # m => Q!Put(q, m)[k] = q[k]
         /\ q[m] > 0 => Q!Take(q, m) \in [Q!Message -> Nat]
         /\ Q!Take(q, m)[m] = q[m] - 1
         /\ \A k \in Q!Message : k # m => Q!Take(q, m)[k] = q[k]
BY DEF Q!Put, Q!Take

LEMMA BusyHolds ==
  ASSUME QueueTyped, NEW w \in Workers, phase[w] # "idle"
  PROVE  msg[w] \in Q!Message /\ msg[w].job \in Versions
BY NoMessageIsNone DEF QueueTyped, Q!Message

LEMMA NextCopy ==
  ASSUME NEW m \in Q!Message, Q!CanRetry(m)
  PROVE  Q!RetryCopy(m) \in Q!Message /\ Q!RetryCopy(m).job = m.job
BY QueueAssumption DEF Q!Message, Q!CanRetry, Q!RetryCopy

LEMMA FirstCopyOf ==
  ASSUME NEW v \in Versions
  PROVE  Q!FirstCopy(v) \in Q!Message /\ Q!FirstCopy(v).job = v
BY QueueAssumption DEF Q!Message, Q!FirstCopy

LEMMA QueueTypeInit == Init => QueueTyped
BY QueueAssumption DEF Init, Q!Init, QueueTyped, Q!Phases

LEMMA ConsumeTyped ==
  ASSUME QueueTyped, NEW w \in Workers, Q!Consume(w)
  PROVE  QueueTyped'
<1>1. ASSUME NEW m \in Q!Message, Q!Deliver(w, m) PROVE QueueTyped'
  <2>1. main' \in [Q!Message -> Nat]
    BY <1>1, PutTake DEF Q!Deliver, QueueTyped
  <2> QED
    BY <1>1, <2>1, NoMessageIsNone DEF Q!Deliver, QueueTyped, Q!Phases
<1>2. CASE Q!HandlerOk(w)
  BY <1>2, BusyHolds, NoMessageIsNone DEF Q!HandlerOk, QueueTyped, Q!Phases, Q!broker
<1>3. CASE Q!HandlerErr(w)
  BY <1>3, BusyHolds, NoMessageIsNone DEF Q!HandlerErr, QueueTyped, Q!Phases, Q!broker
<1>4. CASE Q!PublishRetry(w)
  <2>1. retryq' \in [Q!Message -> Nat]
    BY <1>4, BusyHolds, NextCopy, PutTake DEF Q!PublishRetry, QueueTyped
  <2> QED
    BY <1>4, <2>1, BusyHolds, NoMessageIsNone DEF Q!PublishRetry, QueueTyped, Q!Phases
<1>5. CASE Q!PublishDLQ(w)
  BY <1>5, BusyHolds, NoMessageIsNone DEF Q!PublishDLQ, QueueTyped, Q!Phases
<1>6. CASE Q!Ack(w)
  BY <1>6 DEF Q!Ack, Q!BackToIdle, QueueTyped, Q!Phases, Q!broker
<1>7. CASE Q!GiveUp(w)
  BY <1>7 DEF Q!GiveUp, Q!BackToIdle, QueueTyped, Q!Phases, Q!broker
<1> QED
  BY <1>1, <1>2, <1>3, <1>4, <1>5, <1>6, <1>7 DEF Q!Consume

LEMMA DisruptTyped ==
  ASSUME QueueTyped, NEW w \in Workers, Q!Disrupt(w)
  PROVE  QueueTyped'
<1>1. CASE Q!PublishFails(w)
  <2>1. main' \in [Q!Message -> Nat]
    BY <1>1, BusyHolds, PutTake DEF Q!PublishFails, QueueTyped
  <2> QED
    BY QueueAssumption, <1>1, <2>1 DEF Q!PublishFails, Q!BackToIdle, QueueTyped, Q!Phases
<1>2. CASE Q!Crash(w)
  <2>1. main' \in [Q!Message -> Nat]
    BY <1>2, BusyHolds, PutTake DEF Q!Crash, Q!Requeued, QueueTyped
  <2> QED
    BY QueueAssumption, <1>2, <2>1 DEF Q!Crash, Q!BackToIdle, QueueTyped, Q!Phases
<1>3. CASE Q!ConnectionLost(w)
  <2>1. main' \in [Q!Message -> Nat]
    BY <1>3, BusyHolds, PutTake DEF Q!ConnectionLost, Q!Requeued, QueueTyped
  <2> QED
    BY QueueAssumption, <1>3, <2>1 DEF Q!ConnectionLost, QueueTyped
<1>4. CASE Q!Restart(w)
  BY <1>4 DEF Q!Restart, QueueTyped, Q!broker
<1> QED
  BY <1>1, <1>2, <1>3, <1>4 DEF Q!Disrupt

LEMMA QueueTypeStep ==
  ASSUME QueueTyped, [Q!Next]_(Q!vars)
  PROVE  QueueTyped'
<1>1. ASSUME NEW v \in Versions, Q!Offer(v) PROVE QueueTyped'
  <2>1. CASE Q!Enqueue(v)
    BY <2>1, FirstCopyOf, PutTake DEF Q!Enqueue, QueueTyped, Q!consumer
  <2>2. CASE Q!EnqueueFails(v)
    BY QueueAssumption, <2>2 DEF Q!EnqueueFails, QueueTyped, Q!broker, Q!consumer
  <2>3. CASE Q!EnqueueLost(v)
    BY <2>3 DEF Q!EnqueueLost, QueueTyped, Q!broker, Q!consumer
  <2> QED
    BY <1>1, <2>1, <2>2, <2>3 DEF Q!Offer
<1>2. ASSUME NEW w \in Workers, Q!Consume(w) \/ Q!Disrupt(w) PROVE QueueTyped'
  BY <1>2, ConsumeTyped, DisruptTyped
<1>3. ASSUME NEW m \in Q!Message, Q!Expire(m) PROVE QueueTyped'
  <2>1. main' \in [Q!Message -> Nat] /\ retryq' \in [Q!Message -> Nat]
    BY <1>3, PutTake DEF Q!Expire, QueueTyped
  <2> QED
    BY <1>3, <2>1 DEF Q!Expire, QueueTyped, Q!consumer
<1>4. CASE UNCHANGED Q!vars
  BY <1>4 DEF QueueTyped, Q!vars
<1> QED
  BY <1>1, <1>2, <1>3, <1>4 DEF Q!Next

-----------------------------------------------------------------------------
(* What refers to a version refers to one that is, or was, in               *)
(* document_version: rows are deleted with their document only, and a       *)
(* number is given out only after the numbers before it.                    *)
Known(v)    == versions[v].status # "none"
Below(u, v) == DocOf(u) = DocOf(v) /\ NumOf(u) < NumOf(v)
Born(d)     == docs[d].state # "unborn"
Dead(d)     == docs[d].state = "dead"

StoresFiled ==
  /\ \A v \in Versions : Known(v) => Born(DocOf(v))
  /\ \A v \in Versions : versions[v].status = "deleted" => Dead(DocOf(v))
  /\ \A u, v \in Versions : Below(u, v) /\ Known(v) => Known(u)
  /\ \A v \in Versions : NumOf(v) <= docs[DocOf(v)].current => Known(v)
  /\ \A d \in Docs : ~ Live(d) => docs[d].current = 0
  /\ \A d \in Docs : Dead(d) => "delete" \in Ops

(* The stages at which a request has a version that exists. *)
Holding  == {"mark_processing", "enqueue", "ingest", "rollback"}
Creating == {"put_object", "create_doc"}
Reading  == {"read_current", "create_version"}

RequestFiled(c) ==
  /\ client[c].pc \in Creating =>
       /\ ~ Born(Doc(c)) /\ client[c].num = 1
       /\ \A o \in Clients : Doc(o) = Doc(c) => o = c
  /\ client[c].pc \notin Creating \cup {"idle"} => Born(Doc(c))
  /\ client[c].pc \in Reading =>
       \A v \in Versions : DocOf(v) = Doc(c) /\ NumOf(v) < client[c].num => Known(v)
  /\ client[c].pc \in Holding => Known(Job(c))
  /\ client[c].pc = "rollback" => "rollback" \in Ops
  /\ client[c].pc \in Deleting => "delete" \in Ops
  /\ client[c].pc \in Deleting \ {"delete_rows"} => Dead(Doc(c))

(* The jobs in the queue and in hand are among some versions. *)
JobsAmong(K) ==
  /\ \A m \in Q!Message : main[m] > 0 \/ retryq[m] > 0 => m.job \in K
  /\ \A w \in Workers : phase[w] # "idle" => msg[w].job \in K

RunsFiled == \A a \in Actors : pipe[a].pc # "idle" => Known(pipe[a].job)

AllKnown == {v \in Versions : Known(v)}
Filed ==
  /\ StoresFiled
  /\ \A c \in Clients : RequestFiled(c)
  /\ RunsFiled
  /\ JobsAmong(AllKnown)

FiledInv == TypeInv /\ QueueTyped /\ Filed

LEMMA FiledInit == Init => FiledInv
<1> SUFFICES ASSUME Init PROVE FiledInv
  OBVIOUS
<1>1. TypeInv /\ QueueTyped
  BY TypeInit, QueueTypeInit
<1>2. StoresFiled
  <2>1. \A v \in Versions : ~ Known(v) /\ versions[v].status # "deleted"
    BY DEF Init, Known, Absent
  <2>2. \A d \in Docs : docs[d].current = 0 /\ ~ Dead(d)
    BY DEF Init, Dead, Unborn
  <2>3. \A v \in Versions : ~ (NumOf(v) <= docs[DocOf(v)].current)
    BY <2>2, VersionNumbers, SizesAssumption
  <2> QED
    BY <2>1, <2>2, <2>3 DEF StoresFiled
<1>3. \A c \in Clients : RequestFiled(c)
  BY DEF Init, RequestFiled, Idle, Creating, Reading, Holding, Deleting
<1>4. RunsFiled
  BY DEF Init, RunsFiled, NoRun
<1>5. JobsAmong(AllKnown)
  BY DEF Init, Q!Init, JobsAmong
<1> QED
  BY <1>1, <1>2, <1>3, <1>4, <1>5 DEF FiledInv, Filed

LEMMA PutTakeFrom ==
  ASSUME NEW q \in [Q!Message -> Nat], NEW m \in Q!Message, NEW k \in Q!Message
  PROVE  /\ Q!Put(q, m)[k] > 0 => k = m \/ q[k] > 0
         /\ Q!Take(q, m)[k] > 0 => q[k] > 0
<1>1. CASE k = m
  BY <1>1, PutTake
<1>2. CASE k # m
  BY <1>2, PutTake
<1> QED
  BY <1>1, <1>2

(* A step of the queue takes its jobs from where it had them. *)
LEMMA JobsStay ==
  ASSUME QueueTyped, NEW K, JobsAmong(K), [Q!Next]_(Q!vars),
         \A v \in Versions : v \in accepted' \ accepted => v \in K
  PROVE  JobsAmong(K)'
<1> USE DEF JobsAmong
<1>1. /\ main \in [Q!Message -> Nat] /\ retryq \in [Q!Message -> Nat]
      /\ phase \in [Workers -> Q!Phases] /\ msg \in [Workers -> Q!Message \cup {NoMessage}]
  BY DEF QueueTyped
<1>2. ASSUME NEW w \in Workers, phase[w] # "idle" PROVE msg[w] \in Q!Message /\ msg[w].job \in K
  BY <1>2, BusyHolds
<1>3. ASSUME NEW m \in Q!Message, main' = Q!Put(main, m), m.job \in K
      PROVE  \A k \in Q!Message : main'[k] > 0 => k.job \in K
  BY <1>1, <1>3, PutTakeFrom
<1>4. ASSUME NEW m \in Q!Message, retryq' = Q!Put(retryq, m), m.job \in K
      PROVE  \A k \in Q!Message : retryq'[k] > 0 => k.job \in K
  BY <1>1, <1>4, PutTakeFrom
<1>5. ASSUME NEW v \in Versions, Q!Offer(v) PROVE JobsAmong(K)'
  <2>1. CASE Q!Enqueue(v)
    BY <2>1, <1>3, FirstCopyOf DEF Q!Enqueue, Q!consumer
  <2>2. CASE Q!EnqueueFails(v) \/ Q!EnqueueLost(v)
    BY <2>2 DEF Q!EnqueueFails, Q!EnqueueLost, Q!broker, Q!consumer
  <2> QED
    BY <1>5, <2>1, <2>2 DEF Q!Offer
<1>6. ASSUME NEW w \in Workers, Q!Consume(w) PROVE JobsAmong(K)'
  <2>1. ASSUME NEW m \in Q!Message, Q!Deliver(w, m) PROVE JobsAmong(K)'
    <3>1. \A k \in Q!Message : main'[k] > 0 => main[k] > 0
      BY <1>1, <2>1, PutTakeFrom DEF Q!Deliver
    <3>2. \A x \in Workers : phase'[x] # "idle" => msg'[x].job \in K
      BY <1>1, <2>1 DEF Q!Deliver
    <3> QED
      BY <2>1, <3>1, <3>2 DEF Q!Deliver
  <2>2. CASE Q!HandlerOk(w) \/ Q!HandlerErr(w)
    BY <1>1, <2>2 DEF Q!HandlerOk, Q!HandlerErr, Q!broker
  <2>3. CASE Q!PublishRetry(w)
    <3>1. \A k \in Q!Message : retryq'[k] > 0 => k.job \in K
      BY <1>2, <1>4, <2>3, NextCopy DEF Q!PublishRetry
    <3> QED
      BY <1>1, <2>3, <3>1 DEF Q!PublishRetry
  <2>4. CASE Q!PublishDLQ(w)
    BY <1>1, <2>4 DEF Q!PublishDLQ
  <2>5. CASE Q!Ack(w) \/ Q!GiveUp(w)
    BY <1>1, <2>5 DEF Q!Ack, Q!GiveUp, Q!BackToIdle, Q!broker
  <2> QED
    BY <1>6, <2>1, <2>2, <2>3, <2>4, <2>5 DEF Q!Consume
<1>7. ASSUME NEW w \in Workers, Q!Disrupt(w) PROVE JobsAmong(K)'
  <2>1. CASE Q!PublishFails(w)
    <3>1. \A k \in Q!Message : main'[k] > 0 => k.job \in K
      BY <1>2, <1>3, <2>1 DEF Q!PublishFails
    <3> QED
      BY <1>1, <2>1, <3>1 DEF Q!PublishFails, Q!BackToIdle
  <2>2. CASE Q!Crash(w)
    <3>1. \A k \in Q!Message : main'[k] > 0 => k.job \in K
      BY <1>2, <1>3, <2>2 DEF Q!Crash, Q!Requeued
    <3> QED
      BY <1>1, <2>2, <3>1 DEF Q!Crash, Q!BackToIdle
  <2>3. CASE Q!ConnectionLost(w)
    <3>1. \A k \in Q!Message : main'[k] > 0 => k.job \in K
      BY <1>2, <1>3, <2>3 DEF Q!ConnectionLost, Q!Requeued
    <3> QED
      BY <2>3, <3>1 DEF Q!ConnectionLost
  <2>4. CASE Q!Restart(w)
    BY <2>4 DEF Q!Restart, Q!broker
  <2> QED
    BY <1>7, <2>1, <2>2, <2>3, <2>4 DEF Q!Disrupt
<1>8. ASSUME NEW m \in Q!Message, Q!Expire(m) PROVE JobsAmong(K)'
  <2>1. m.job \in K
    BY <1>8 DEF Q!Expire
  <2>2. \A k \in Q!Message : main'[k] > 0 => k.job \in K
    BY <1>3, <1>8, <2>1 DEF Q!Expire
  <2>3. \A k \in Q!Message : retryq'[k] > 0 => retryq[k] > 0
    BY <1>1, <1>8, PutTakeFrom DEF Q!Expire
  <2> QED
    BY <1>8, <2>2, <2>3 DEF Q!Expire, Q!consumer
<1>9. CASE UNCHANGED Q!vars
  BY <1>9 DEF Q!vars
<1> QED
  BY <1>5, <1>6, <1>7, <1>8, <1>9 DEF Q!Next

(* What a step does to the tables. *)
SameStatus(v) == versions'[v].status = versions[v].status
Marks(a) ==
  /\ Ingest(a) /\ pipe[a].pc \in {"ready_version", "fail_version"} /\ pipe[a].job \in Versions
  /\ Exists(pipe[a].job)
  /\ versions'[pipe[a].job].status = IF At(a, "ready_version") THEN "ready" ELSE "failed"
  /\ \A v \in Versions \ {pipe[a].job} : SameStatus(v)
  /\ docs' = docs
Inserts(c) ==
  /\ client[c].pc = "create_version" /\ Job(c) \in Versions /\ ~ Known(Job(c))
  /\ versions'[Job(c)].status = "processing"
  /\ \A v \in Versions \ {Job(c)} : SameStatus(v)
  /\ docs' = docs
Creates(c) ==
  /\ client[c].pc = "create_doc" /\ Doc(c) \in Docs /\ client'[c].pc = "create_version"
  /\ docs'[Doc(c)].state = "live" /\ docs'[Doc(c)].current = 0
  /\ \A d \in Docs \ {Doc(c)} : docs'[d] = docs[d]
  /\ versions' = versions
Deletes(c) ==
  /\ client[c].pc = "delete_rows" /\ Doc(c) \in Docs /\ Live(Doc(c))
  /\ docs'[Doc(c)].state = "dead" /\ docs'[Doc(c)].current = 0
  /\ \A d \in Docs \ {Doc(c)} : docs'[d] = docs[d]
  /\ \A v \in Versions : IF DocOf(v) = Doc(c) /\ Exists(v)
                         THEN versions'[v].status = "deleted" ELSE SameStatus(v)
(* The document d comes to point to number n. *)
PointsTo(d, n) ==
  /\ d \in Docs
  /\ \A e \in Docs : /\ docs'[e].state = docs[e].state /\ docs'[e].source = docs[e].source
                     /\ docs'[e].current = IF e = d /\ Live(d) THEN n ELSE docs[e].current
  /\ versions' = versions
PointsBy(a) ==
  /\ Ingest(a) /\ pipe[a].pc \in {"ready_doc", "fail_doc"} /\ pipe[a].job \in Versions
  /\ PointsTo(DocOf(pipe[a].job), IF At(a, "ready_doc") THEN NumOf(pipe[a].job) ELSE Fallback(pipe[a].job))
PointsFor(c) ==
  /\ client[c].pc \in {"mark_processing", "rollback"} /\ Job(c) \in Versions
  /\ PointsTo(Doc(c), IF client[c].pc = "rollback" THEN client[c].num ELSE client[c].num - 1)

StoresMove ==
  \/ docs' = docs /\ versions' = versions
  \/ \E a \in Actors : Marks(a) \/ PointsBy(a)
  \/ \E c \in Clients : Inserts(c) \/ Creates(c) \/ Deletes(c) \/ PointsFor(c)

LEMMA MarkMoves ==
  ASSUME TypeInv, NEW a \in Actors, NEW v \in Versions, NEW s, SetVersionStatus(v, s)
  PROVE  \/ versions' = versions
         \/ /\ Exists(v) /\ versions'[v].status = s
            /\ \A u \in Versions \ {v} : SameStatus(u)
BY DEF SetVersionStatus, TypeInv, TypeOK, SameStatus

LEMMA PointMoves ==
  ASSUME TypeInv, NEW d \in Docs, NEW s, NEW n, SetIndexState(d, s, n), versions' = versions
  PROVE  PointsTo(d, n)
<1>1. docs \in [Docs -> DocRec]
  BY DEF TypeInv, TypeOK, DocRec
<1>2. CASE Live(d)
  <2>1. docs' = [docs EXCEPT ![d].status = s, ![d].current = n]
    BY <1>2 DEF SetIndexState
  <2>2. \A e \in Docs : e # d => docs'[e] = docs[e]
    BY <1>1, <2>1
  <2>3. docs'[d].state = docs[d].state /\ docs'[d].source = docs[d].source /\ docs'[d].current = n
    BY <1>1, <2>1 DEF DocRec
  <2> QED
    BY <1>2, <2>2, <2>3 DEF PointsTo
<1>3. CASE ~ Live(d)
  BY <1>3 DEF SetIndexState, PointsTo
<1> QED
  BY <1>2, <1>3

LEMMA JobIsVersion ==
  ASSUME TypeInv, NEW c \in Clients, client[c].pc \notin Deleting \cup {"idle"}
  PROVE  /\ Job(c) \in Versions /\ Doc(c) \in Docs
         /\ DocOf(Job(c)) = Doc(c) /\ NumOf(Job(c)) = client[c].num /\ client[c].num \in 1 .. MaxVersion
BY SizesAssumption, TypeParts DEF ClientsTyped, ClientRec, Job, Doc, Versions, DocOf, NumOf, Deleting

LEMMA RunIsOfVersion ==
  ASSUME TypeInv, NEW a \in Actors, pipe[a].pc # "idle"
  PROVE  pipe[a].job \in Versions
BY DEF TypeInv, Named

LEMMA StoresMoveByRun ==
  ASSUME TypeInv, NEW a \in Actors, Ingest(a)
  PROVE  (docs' = docs /\ versions' = versions) \/ Marks(a) \/ PointsBy(a)
<1>1. CASE ReadyVersion(a) \/ FailVersion(a)
  <2>1. pipe[a].job \in Versions
    BY <1>1, RunIsOfVersion DEF ReadyVersion, FailVersion, At
  <2> QED
    BY <1>1, <2>1, MarkMoves DEF ReadyVersion, FailVersion, Marks, At
<1>2. CASE ReadyDoc(a) \/ FailDoc(a)
  <2>1. pipe[a].job \in Versions
    BY <1>2, RunIsOfVersion DEF ReadyDoc, FailDoc, At
  <2>2. DocOf(pipe[a].job) \in Docs
    BY <2>1, VersionNumbers
  <2> QED
    BY <1>2, <2>1, <2>2, PointMoves DEF ReadyDoc, FailDoc, PointsBy, At
<1>3. CASE ~ (ReadyVersion(a) \/ FailVersion(a) \/ ReadyDoc(a) \/ FailDoc(a))
  BY <1>3 DEF Ingest, PipelineStep, StepFails, LoadVersion, LoadDoc, Parse, Upsert, Commit,
     LookupOld, CleanRows, CleanPoints, stores, mysql
<1> QED
  BY <1>1, <1>2, <1>3

LEMMA StoresMoveByRequest ==
  ASSUME TypeInv, NEW c \in Clients, Handle(c)
  PROVE  \/ docs' = docs /\ versions' = versions
         \/ Inserts(c) \/ Creates(c) \/ Deletes(c) \/ PointsFor(c)
<1> USE DEF Asked
<1>1. docs \in [Docs -> DocRec] /\ versions \in [Versions -> VersionRec]
  BY TypeParts DEF StoresTyped
<1>2. CASE CreateDoc(c)
  <2>1. client'[c].pc = "create_version"
    BY <1>2, TypeParts DEF CreateDoc, Proceed, ClientsTyped
  <2> QED
    BY <1>1, <1>2, <2>1, JobIsVersion DEF CreateDoc, Creates, Deleting
<1>3. CASE CreateVersion(c)
  BY <1>1, <1>3, JobIsVersion DEF CreateVersion, Duplicate, Inserts, Known, SameStatus, Deleting
<1>4. CASE MarkProcessing(c) \/ RollbackDocument(c)
  <2>1. Job(c) \in Versions /\ Doc(c) \in Docs
    BY <1>4, JobIsVersion DEF MarkProcessing, RollbackDocument, Deleting
  <2> QED
    BY <1>4, <2>1, PointMoves DEF MarkProcessing, RollbackDocument, PointsFor
<1>5. CASE DeleteRows(c)
  <2>1. Doc(c) \in Docs
    BY <1>5, TypeParts DEF DeleteRows, ClientsTyped, Doc
  <2>2. CASE Live(Doc(c))
    <3>1. docs'[Doc(c)].state = "dead" /\ docs'[Doc(c)].current = 0
      BY <1>1, <1>5, <2>1, <2>2 DEF DeleteRows
    <3>2. \A d \in Docs \ {Doc(c)} : docs'[d] = docs[d]
      BY <1>1, <1>5, <2>1, <2>2 DEF DeleteRows
    <3>3. \A v \in Versions : versions'[v] = IF DocOf(v) = Doc(c) /\ Exists(v)
                                             THEN [Absent EXCEPT !.status = "deleted"] ELSE versions[v]
      BY <1>5, <2>2 DEF DeleteRows
    <3>4. [Absent EXCEPT !.status = "deleted"].status = "deleted"
      BY DEF Absent
    <3> QED
      BY <1>5, <2>1, <2>2, <3>1, <3>2, <3>3, <3>4 DEF DeleteRows, Deletes, SameStatus
  <2>3. CASE ~ Live(Doc(c))
    BY <1>5, <2>3 DEF DeleteRows, mysql
  <2> QED
    BY <2>2, <2>3
<1>6. CASE ~ (CreateDoc(c) \/ CreateVersion(c) \/ MarkProcessing(c) \/ RollbackDocument(c) \/ DeleteRows(c))
  BY <1>6 DEF Handle, PutObject, ReadCurrent, Enqueue, Ingested, DeleteObject, DeletePoints,
     stores, mysql
<1> QED
  BY <1>2, <1>3, <1>4, <1>5, <1>6

LEMMA StoresMoves ==
  ASSUME TypeInv, [Next]_vars
  PROVE  StoresMove
<1>1. ASSUME NEW c \in Clients, Request(c) \/ Abort(c) PROVE docs' = docs /\ versions' = versions
  BY <1>1 DEF Request, StartUpload, StartReindex, StartDelete, StartRollback, Accept, Abort, stores
<1>2. ASSUME NEW w \in Workers,
             WorkerTakes(w) \/ WorkerReturns(w) \/ WorkerDisposes(w) \/ WorkerDies(w) \/ LinkChanges(w)
      PROVE  docs' = docs /\ versions' = versions
  BY <1>2 DEF WorkerTakes, WorkerReturns, WorkerDisposes, WorkerDies, LinkChanges, Local, stores
<1>3. RetryDue \/ Redeploy \/ UNCHANGED vars => docs' = docs /\ versions' = versions
  BY DEF RetryDue, Redeploy, vars, Local, stores
<1> QED
  BY <1>1, <1>2, <1>3, StoresMoveByRun, StoresMoveByRequest DEF Next, Work, StoresMove, Actors

LEMMA FiledGrows ==
  ASSUME FiledInv, StoresMove
  PROVE  /\ \A v \in Versions : Known(v) => Known(v)'
         /\ \A d \in Docs : (Born(d) => Born(d)') /\ (Dead(d) => Dead(d)')
         /\ \A d \in Docs : ~ Born(d) /\ Born(d)' => \E c \in Clients : client[c].pc = "create_doc" /\ Doc(c) = d
<1> USE DEF Known, Born, Dead, SameStatus
<1>1. CASE docs' = docs /\ versions' = versions
  BY <1>1
<1>2. ASSUME NEW a \in Actors, Marks(a) \/ PointsBy(a)
      PROVE  /\ \A v \in Versions : Known(v) => Known(v)'
             /\ \A d \in Docs : docs'[d].state = docs[d].state
  BY <1>2 DEF Marks, PointsBy, PointsTo
<1>3. ASSUME NEW c \in Clients, Inserts(c) \/ PointsFor(c)
      PROVE  /\ \A v \in Versions : Known(v) => Known(v)'
             /\ \A d \in Docs : docs'[d].state = docs[d].state
  BY <1>3 DEF Inserts, PointsFor, PointsTo
<1>4. ASSUME NEW c \in Clients, Creates(c)
      PROVE  /\ versions' = versions /\ ~ Born(Doc(c)) /\ docs'[Doc(c)].state = "live"
             /\ client[c].pc = "create_doc" /\ \A d \in Docs \ {Doc(c)} : docs'[d] = docs[d]
  BY <1>4 DEF Creates, FiledInv, Filed, RequestFiled, Creating
<1>5. ASSUME NEW c \in Clients, Deletes(c)
      PROVE  /\ \A v \in Versions : Known(v) => Known(v)'
             /\ \A d \in Docs : d = Doc(c) \/ docs'[d] = docs[d]
             /\ docs'[Doc(c)].state = "dead" /\ docs[Doc(c)].state = "live"
  <2>1. \A v \in Versions : Known(v) => Known(v)'
    BY <1>5 DEF Deletes, Exists
  <2> QED
    BY <1>5, <2>1 DEF Deletes, Live
<1> QED
  BY <1>1, <1>2, <1>3, <1>4, <1>5 DEF StoresMove

LEMMA RunsAreKnown ==
  ASSUME FiledInv, NEW a \in Actors, pipe[a].pc # "idle"
  PROVE  pipe[a].job \in Versions /\ Known(pipe[a].job)
BY RunIsOfVersion DEF FiledInv, Filed, RunsFiled

LEMMA DocsTyped ==
  ASSUME TypeInv, NEW d \in Docs
  PROVE  docs[d].current \in Nat /\ docs[d].state \in {"unborn", "live", "dead"}
BY SizesAssumption DEF TypeInv, TypeOK

(* Pointing a document to a known version, or to the one before it. *)
LEMMA PointsFiled ==
  ASSUME FiledInv, NEW v \in Versions, Known(v), NEW n \in Nat, n <= NumOf(v), PointsTo(DocOf(v), n)
  PROVE  StoresFiled'
<1> DEFINE d == DocOf(v)
<1>1. \A e \in Docs : docs'[e].state = docs[e].state
  BY DEF PointsTo
<1>2. \A u \in Versions : versions'[u] = versions[u]
  BY DEF PointsTo
<1>3. ASSUME NEW u \in Versions, NumOf(u) <= docs'[DocOf(u)].current PROVE Known(u)
  <2>1. CASE DocOf(u) = d /\ Live(d)
    <3>1. NumOf(u) <= NumOf(v)
      BY <1>3, <2>1, VersionNumbers, SizesAssumption DEF PointsTo
    <3>2. NumOf(u) = NumOf(v) => u = v
      BY <2>1 DEF Versions, DocOf, NumOf
    <3> QED
      BY <2>1, <3>1, <3>2, VersionNumbers, SizesAssumption DEF FiledInv, Filed, StoresFiled, Below
  <2>2. CASE ~ (DocOf(u) = d /\ Live(d))
    BY <1>3, <2>2, VersionNumbers DEF FiledInv, Filed, StoresFiled, PointsTo
  <2> QED
    BY <2>1, <2>2
<1>4. \A e \in Docs : ~ Live(e) => docs'[e].current = 0
  BY DEF FiledInv, Filed, StoresFiled, PointsTo
<1>5. /\ \A u \in Versions : Known(u) => Born(DocOf(u))
      /\ \A u \in Versions : versions[u].status = "deleted" => Dead(DocOf(u))
      /\ \A u, w \in Versions : Below(u, w) /\ Known(w) => Known(u)
      /\ \A e \in Docs : Dead(e) => "delete" \in Ops
  BY DEF FiledInv, Filed, StoresFiled
<1> QED
  BY <1>1, <1>2, <1>3, <1>4, <1>5, VersionNumbers DEF StoresFiled, Known, Born, Dead, Live

LEMMA StoresStayFiled ==
  ASSUME FiledInv, StoresMove
  PROVE  StoresFiled'
<1>1. /\ \A v \in Versions : Known(v) => Born(DocOf(v))
      /\ \A v \in Versions : versions[v].status = "deleted" => Dead(DocOf(v))
      /\ \A u, v \in Versions : Below(u, v) /\ Known(v) => Known(u)
      /\ \A v \in Versions : NumOf(v) <= docs[DocOf(v)].current => Known(v)
      /\ \A d \in Docs : ~ Live(d) => docs[d].current = 0
      /\ \A d \in Docs : Dead(d) => "delete" \in Ops
  BY DEF FiledInv, Filed, StoresFiled
<1>2. CASE docs' = docs /\ versions' = versions
  BY <1>1, <1>2 DEF StoresFiled, Known, Born, Dead, Live
<1>3. ASSUME NEW a \in Actors, Marks(a) PROVE StoresFiled'
  <2>1. \A v \in Versions : Known(v) <=> Known(v)'
    BY <1>3 DEF Marks, Known, SameStatus, Exists
  <2>2. \A v \in Versions : versions'[v].status = "deleted" => versions[v].status = "deleted"
    BY <1>3 DEF Marks, SameStatus
  <2> QED
    BY <1>1, <1>3, <2>1, <2>2 DEF Marks, StoresFiled, Born, Dead, Live
<1>4. ASSUME NEW a \in Actors, PointsBy(a) PROVE StoresFiled'
  BY <1>4, RunsAreKnown, PointsFiled, VersionNumbers, SizesAssumption DEF PointsBy, Fallback
<1>5. ASSUME NEW c \in Clients, PointsFor(c) PROVE StoresFiled'
  <2>1. /\ Job(c) \in Versions /\ DocOf(Job(c)) = Doc(c) /\ NumOf(Job(c)) = client[c].num
        /\ client[c].num \in 1 .. MaxVersion
    BY <1>5, JobIsVersion DEF PointsFor, Deleting, FiledInv
  <2>2. Known(Job(c))
    BY <1>5 DEF PointsFor, FiledInv, Filed, RequestFiled, Holding
  <2> QED
    BY <1>5, <2>1, <2>2, PointsFiled, SizesAssumption DEF PointsFor
<1>6. ASSUME NEW c \in Clients, Inserts(c) PROVE StoresFiled'
  <2>1. /\ Job(c) \in Versions /\ DocOf(Job(c)) = Doc(c) /\ NumOf(Job(c)) = client[c].num
    BY <1>6, JobIsVersion DEF Inserts, Deleting, FiledInv
  <2>2. /\ Born(Doc(c))
        /\ \A v \in Versions : DocOf(v) = Doc(c) /\ NumOf(v) < client[c].num => Known(v)
    BY <1>6 DEF Inserts, FiledInv, Filed, RequestFiled, Creating, Reading
  <2>3. \A v \in Versions : Known(v)' <=> Known(v) \/ v = Job(c)
    BY <1>6 DEF Inserts, Known, SameStatus
  <2>4. \A v \in Versions : versions'[v].status = "deleted" => versions[v].status = "deleted"
    BY <1>6 DEF Inserts, SameStatus
  <2>5. \A u, v \in Versions : Below(u, v) /\ Known(v)' => Known(u)
    BY <1>1, <2>1, <2>2, <2>3 DEF Below
  <2>6. docs' = docs
    BY <1>6 DEF Inserts
  <2>7. \A v \in Versions : Known(v)' => Born(DocOf(v))
    BY <1>1, <2>1, <2>2, <2>3
  <2> QED
    BY <1>1, <2>3, <2>4, <2>5, <2>6, <2>7 DEF StoresFiled, Born, Dead, Live
<1>7. ASSUME NEW c \in Clients, Creates(c) PROVE StoresFiled'
  <2>1. ~ Born(Doc(c)) /\ Doc(c) \in Docs
    BY <1>7 DEF Creates, FiledInv, Filed, RequestFiled, Creating
  <2>2. \A d \in Docs : d = Doc(c) \/ docs'[d] = docs[d]
    BY <1>7 DEF Creates
  <2>3. docs'[Doc(c)].state = "live" /\ docs'[Doc(c)].current = 0
    BY <1>7 DEF Creates
  <2>4. \A v \in Versions : DocOf(v) # Doc(c) \/ ~ Known(v)
    BY <1>1, <2>1
  <2>5. \A v \in Versions : NumOf(v) <= docs'[DocOf(v)].current => Known(v)
    BY <1>1, <2>2, <2>3, VersionNumbers, SizesAssumption
  <2>6. \A d \in Docs : Dead(d)' => Dead(d)
    BY <2>2, <2>3 DEF Dead
  <2>7. \A d \in Docs : ~ Live(d)' => docs'[d].current = 0
    BY <1>1, <2>2, <2>3 DEF Live
  <2>8. \A d \in Docs : d # Doc(c) => (Born(d)' <=> Born(d)) /\ (Dead(d)' <=> Dead(d))
    BY <2>2 DEF Born, Dead
  <2>9. versions' = versions
    BY <1>7 DEF Creates
  <2>10. \A v \in Versions : versions[v].status = "deleted" => Known(v)
    BY DEF Known
  <2> QED
    BY <1>1, <2>4, <2>5, <2>6, <2>7, <2>8, <2>9, <2>10, VersionNumbers DEF StoresFiled, Known
<1>8. ASSUME NEW c \in Clients, Deletes(c) PROVE StoresFiled'
  <2>1. \A d \in Docs : d = Doc(c) \/ docs'[d] = docs[d]
    BY <1>8 DEF Deletes
  <2>2. docs'[Doc(c)].state = "dead" /\ docs'[Doc(c)].current = 0 /\ docs[Doc(c)].state = "live"
    BY <1>8 DEF Deletes, Live
  <2>3. \A v \in Versions : Known(v)' <=> Known(v)
    BY <1>8 DEF Deletes, Known, Exists, SameStatus
  <2>4. \A v \in Versions : versions'[v].status = "deleted" =>
          versions[v].status = "deleted" \/ DocOf(v) = Doc(c)
    BY <1>8 DEF Deletes, SameStatus
  <2>5. "delete" \in Ops
    BY <1>8 DEF Deletes, FiledInv, Filed, RequestFiled, Deleting
  <2>6. \A v \in Versions : NumOf(v) <= docs'[DocOf(v)].current => Known(v)
    BY <1>1, <2>1, <2>2, VersionNumbers, SizesAssumption
  <2>7. \A d \in Docs : (Born(d) => Born(d)') /\ (Dead(d) => Dead(d)') /\ (~ Live(d)' => docs'[d].current = 0)
    BY <1>1, <2>1, <2>2 DEF Born, Dead, Live
  <2>8. \A v \in Versions : versions'[v].status = "deleted" => Dead(DocOf(v))'
    BY <1>1, <2>2, <2>4, <2>7, VersionNumbers DEF Dead
  <2> QED
    BY <1>1, <2>3, <2>5, <2>6, <2>7, <2>8, VersionNumbers DEF StoresFiled
<1> QED
  BY <1>2, <1>3, <1>4, <1>5, <1>6, <1>7, <1>8 DEF StoresMove

(* What a step does to the requests: it leaves x alone, answers it, begins  *)
(* it or takes it on.                                                       *)
Begins(x) ==
  LET d == client'[x].doc  n == client'[x].num
  IN /\ client[x].pc = "idle" /\ d \in Docs
     /\ \A y \in Clients \ {x} : client'[y] = client[y]
     /\ \/ /\ client'[x].pc \in Creating /\ ~ Born(d) /\ n = 1
           /\ \A y \in Clients : Doc(y) # d
        \/ /\ client'[x].pc = "read_current" /\ Live(d) /\ n = docs[d].current + 1
        \/ /\ client'[x].pc = "rollback" /\ "rollback" \in Ops
           /\ <<d, n>> \in Versions /\ versions[<<d, n>>].status = "ready"
        \/ /\ client'[x].pc = "delete_rows" /\ "delete" \in Ops /\ Live(d)
GoesOn(x) ==
  LET l == client[x].pc  k == client'[x].pc
  IN /\ client'[x].doc = client[x].doc /\ client'[x].num = client[x].num
     /\ \/ l = "put_object" /\ k = "create_doc"
        \/ l = "create_doc" /\ k = "create_version" /\ docs'[Doc(x)].state = "live"
        \/ l = "read_current" /\ k = "create_version"
        \/ l = "create_version" /\ k \in {"mark_processing", "enqueue"} /\ Inserts(x)
        \/ l = "mark_processing" /\ k = "enqueue"
        \/ l = "enqueue" /\ k = "ingest"
        \/ l = "delete_rows" /\ k \in {"delete_object", "delete_points"} /\ docs'[Doc(x)].state = "dead"
        \/ l = "delete_object" /\ k = "delete_points"
RequestMove(x) == client'[x] = client[x] \/ client'[x] = Idle \/ Begins(x) \/ GoesOn(x)

LEMMA Beginning ==
  ASSUME TypeInv, NEW c \in Clients, Request(c)
  PROVE  Begins(c)
<1>1. client \in [Clients -> ClientRec]
  BY TypeParts DEF ClientsTyped
<1>2. ASSUME NEW l, NEW d \in Docs, NEW n, NEW s, Accept(c, l, d, n, s)
      PROVE  /\ client[c].pc = "idle" /\ client'[c].pc = l /\ client'[c].doc = d /\ client'[c].num = n
             /\ \A y \in Clients \ {c} : client'[y] = client[y]
  BY <1>1, <1>2 DEF Accept, Asked
<1>3. ASSUME NEW d \in Docs, NEW s \in Sources, StartUpload(c, d, s) PROVE Begins(c)
  <2>1. client'[c].pc \in Creating /\ client'[c].doc = d /\ client'[c].num = 1 /\ client[c].pc = "idle"
        /\ \A y \in Clients \ {c} : client'[y] = client[y]
    BY <1>2, <1>3 DEF StartUpload, Creating
  <2>2. ~ Born(d) /\ \A y \in Clients : Doc(y) # d
    BY <1>3 DEF StartUpload, Born, Unborn
  <2> QED
    BY <2>1, <2>2 DEF Begins
<1>4. ASSUME NEW d \in Docs, StartReindex(c, d) PROVE Begins(c)
  BY <1>2, <1>4 DEF StartReindex, Begins
<1>5. ASSUME NEW d \in Docs, StartDelete(c, d) PROVE Begins(c)
  BY <1>2, <1>5 DEF StartDelete, Begins
<1>6. ASSUME NEW v \in Versions, StartRollback(c, v) PROVE Begins(c)
  <2>1. v = <<DocOf(v), NumOf(v)>> /\ DocOf(v) \in Docs
    BY DEF Versions, DocOf, NumOf
  <2>2. /\ client'[c].pc = "rollback" /\ client'[c].doc = DocOf(v) /\ client'[c].num = NumOf(v)
        /\ client[c].pc = "idle" /\ \A y \in Clients \ {c} : client'[y] = client[y]
    BY <1>2, <1>6, <2>1 DEF StartRollback
  <2> QED
    BY <1>6, <2>1, <2>2 DEF StartRollback, Begins
<1> QED
  BY <1>3, <1>4, <1>5, <1>6 DEF Request

LEMMA GoingOn ==
  ASSUME TypeInv, NEW c \in Clients, Handle(c)
  PROVE  /\ \A y \in Clients \ {c} : client'[y] = client[y]
         /\ client'[c] = Idle \/ GoesOn(c)
<1> USE DEF Asked
<1>1. client \in [Clients -> ClientRec]
  BY TypeParts DEF ClientsTyped
<1>2. ASSUME NEW l, Proceed(c, l)
      PROVE  /\ client'[c].pc = l /\ client'[c].doc = client[c].doc /\ client'[c].num = client[c].num
             /\ \A y \in Clients \ {c} : client'[y] = client[y]
  BY <1>1, <1>2 DEF Proceed, ClientRec
<1>3. ASSUME Answer(c) PROVE client'[c] = Idle /\ \A y \in Clients \ {c} : client'[y] = client[y]
  BY <1>1, <1>3 DEF Answer
<1>4. CASE PutObject(c)
  BY <1>2, <1>4 DEF PutObject, GoesOn
<1>5. CASE CreateDoc(c)
  <2>1. docs'[Doc(c)].state = "live"
    BY <1>5, TypeParts, JobIsVersion DEF CreateDoc, StoresTyped, Deleting
  <2> QED
    BY <1>2, <1>5, <2>1 DEF CreateDoc, GoesOn
<1>6. CASE CreateVersion(c)
  <2>1. CASE Duplicate(Job(c))
    BY <1>3, <1>6, <2>1 DEF CreateVersion
  <2>2. CASE ~ Duplicate(Job(c))
    <3>1. Inserts(c)
      BY <1>6, <2>2, JobIsVersion, TypeParts
      DEF CreateVersion, Duplicate, Inserts, Known, SameStatus, Deleting, StoresTyped
    <3>2. Proceed(c, "enqueue") \/ Proceed(c, "mark_processing")
      BY <1>6, <2>2 DEF CreateVersion
    <3> QED
      BY <1>2, <1>6, <3>1, <3>2 DEF CreateVersion, GoesOn
  <2> QED
    BY <2>1, <2>2
<1>7. CASE ReadCurrent(c)
  <2>1. Proceed(c, "create_version") \/ Answer(c)
    BY <1>7 DEF ReadCurrent
  <2> QED
    BY <1>2, <1>3, <1>7, <2>1 DEF ReadCurrent, GoesOn
<1>8. CASE MarkProcessing(c)
  BY <1>2, <1>8 DEF MarkProcessing, GoesOn
<1>9. CASE Enqueue(c)
  <2>1. Proceed(c, "ingest") \/ Answer(c)
    BY <1>9 DEF Enqueue
  <2> QED
    BY <1>2, <1>3, <1>9, <2>1 DEF Enqueue, GoesOn
<1>10. CASE Ingested(c) \/ RollbackDocument(c) \/ DeletePoints(c)
  BY <1>3, <1>10 DEF Ingested, RollbackDocument, DeletePoints
<1>11. CASE DeleteRows(c)
  <2>1. CASE Live(Doc(c))
    <3>1. docs'[Doc(c)].state = "dead"
      <4>1. Doc(c) \in Docs
        BY <1>11, TypeParts DEF DeleteRows, ClientsTyped, Doc
      <4> QED
        BY <1>11, <2>1, <4>1, TypeParts DEF DeleteRows, StoresTyped
    <3>2. Proceed(c, "delete_object") \/ Proceed(c, "delete_points")
      BY <1>11, <2>1 DEF DeleteRows
    <3> QED
      BY <1>2, <1>11, <3>1, <3>2 DEF DeleteRows, GoesOn
  <2>2. CASE ~ Live(Doc(c))
    BY <1>3, <1>11, <2>2 DEF DeleteRows
  <2> QED
    BY <2>1, <2>2
<1>12. CASE DeleteObject(c)
  <2>1. Proceed(c, "delete_points") \/ Answer(c)
    BY <1>12 DEF DeleteObject
  <2> QED
    BY <1>2, <1>3, <1>12, <2>1 DEF DeleteObject, GoesOn
<1> QED
  BY <1>4, <1>5, <1>6, <1>7, <1>8, <1>9, <1>10, <1>11, <1>12 DEF Handle

LEMMA RequestsMove ==
  ASSUME TypeInv, [Next]_vars, NEW x \in Clients
  PROVE  RequestMove(x)
<1>1. ASSUME NEW c \in Clients, Request(c) \/ Handle(c) \/ Abort(c) PROVE RequestMove(x)
  <2>1. CASE Request(c)
    <3>1. Begins(c)
      BY <2>1, Beginning
    <3>2. x = c \/ client'[x] = client[x]
      BY <3>1 DEF Begins
    <3> QED
      BY <3>1, <3>2 DEF RequestMove
  <2>2. CASE Handle(c)
    <3>1. x = c \/ client'[x] = client[x]
      BY <2>2, GoingOn
    <3> QED
      BY <2>2, <3>1, GoingOn DEF RequestMove
  <2>3. CASE Abort(c)
    BY <2>3, TypeParts DEF Abort, Answer, ClientsTyped, RequestMove
  <2> QED
    BY <1>1, <2>1, <2>2, <2>3
<1>2. ASSUME NEW a \in Actors, Ingest(a) PROVE client' = client
  BY <1>2 DEF Ingest
<1>3. ASSUME NEW w \in Workers,
             WorkerTakes(w) \/ WorkerReturns(w) \/ WorkerDisposes(w) \/ WorkerDies(w) \/ LinkChanges(w)
      PROVE  client' = client
  BY <1>3 DEF WorkerTakes, WorkerReturns, WorkerDisposes, WorkerDies, LinkChanges, Local
<1>4. RetryDue \/ Redeploy \/ UNCHANGED vars => client' = client
  BY DEF RetryDue, Redeploy, vars, Local
<1> QED
  BY <1>1, <1>2, <1>3, <1>4 DEF Next, Work, RequestMove, Actors

(* A request about to create a document is alone with it. *)
LEMMA CreatorAlone ==
  ASSUME FiledInv, [Next]_vars, NEW x \in Clients, NEW o \in Clients,
         client[x].pc \in Creating, client'[o].doc = client[x].doc
  PROVE  o = x
<1>1. /\ ~ Born(Doc(x)) /\ \A y \in Clients : Doc(y) = Doc(x) => y = x
      /\ Doc(x) \in Docs
  BY TypeParts DEF FiledInv, Filed, RequestFiled, Creating, ClientsTyped, Doc
<1>2. RequestMove(o)
  BY RequestsMove DEF FiledInv
<1>3. CASE client'[o] = client[o] \/ GoesOn(o)
  BY <1>1, <1>3 DEF GoesOn, Doc
<1>4. CASE client'[o] = Idle
  <2>1. NoMessage = Doc(x)
    BY <1>4 DEF Idle, Doc
  <2> QED
    BY <1>1, <2>1, NoVersionAssumption
<1>5. CASE Begins(o)
  <2>1. Born(client'[o].doc) \/ \A y \in Clients : Doc(y) # client'[o].doc
    <3>1. ASSUME NEW d \in Docs, Live(d) PROVE Born(d)
      BY <3>1 DEF Live, Born
    <3>2. ASSUME NEW d \in Docs, NEW n, <<d, n>> \in Versions, versions[<<d, n>>].status = "ready"
          PROVE  Born(d)
      BY <3>2 DEF FiledInv, Filed, StoresFiled, Known, DocOf
    <3> QED
      BY <1>5, <3>1, <3>2 DEF Begins
  <2> QED
    BY <1>1, <2>1 DEF Doc
<1> QED
  BY <1>2, <1>3, <1>4, <1>5 DEF RequestMove

LEMMA RequestsStayFiled ==
  ASSUME FiledInv, [Next]_vars, StoresMove, NEW x \in Clients
  PROVE  RequestFiled(x)'
<1>1. RequestMove(x) /\ RequestFiled(x)
  BY RequestsMove DEF FiledInv, Filed
<1>2. /\ \A v \in Versions : Known(v) => Known(v)'
      /\ \A d \in Docs : (Born(d) => Born(d)') /\ (Dead(d) => Dead(d)')
      /\ \A d \in Docs : ~ Born(d) /\ Born(d)' => \E c \in Clients : Creates(c) /\ Doc(c) = d
  <2>1. \A d \in Docs : ~ Born(d) /\ Born(d)' => \E c \in Clients : Creates(c) /\ Doc(c) = d
    BY DEF Born, StoresMove, Marks, PointsBy, PointsTo, Inserts, PointsFor, Deletes, Creates, Live
  <2> QED
    BY <2>1, FiledGrows
<1>3. client[x].pc # "idle" => Doc(x) \in Docs
  BY TypeParts DEF FiledInv, ClientsTyped, Doc
<1>4. client[x].pc \notin Deleting \cup {"idle"} => Job(x) \in Versions
  BY JobIsVersion DEF FiledInv
<1>5. CASE client'[x] = client[x]
  <2>1. Doc(x)' = Doc(x) /\ Job(x)' = Job(x)
    BY <1>5 DEF Doc, Job
  <2>2. CASE client[x].pc \in Creating
    <3>1. \A o \in Clients : Doc(o)' = Doc(x)' => o = x
      BY <1>5, <2>1, <2>2, CreatorAlone DEF Doc
    <3>2. docs'[Doc(x)].state = "unborn"
      <4>1. ~ Born(Doc(x)) /\ Doc(x) \in Docs
        BY <1>1, <1>3, <2>2 DEF RequestFiled, Creating
      <4>2. ASSUME NEW c \in Clients, Creates(c), Doc(c) = Doc(x) PROVE FALSE
        <5>1. c = x
          BY <1>1, <2>2, <4>2 DEF RequestFiled
        <5> QED
          BY <1>5, <4>2, <5>1 DEF Creates
      <4> QED
        BY <1>2, <4>1, <4>2 DEF Born
    <3> QED
      BY <1>1, <1>5, <2>1, <2>2, <3>1, <3>2 DEF RequestFiled, Born, Creating, Reading, Holding, Deleting
  <2>3. CASE client[x].pc \notin Creating
    <3>1. client[x].pc # "idle" => (Born(Doc(x)) => docs'[Doc(x)].state # "unborn") /\ (Dead(Doc(x)) => docs'[Doc(x)].state = "dead")
      BY <1>2, <1>3 DEF Born, Dead
    <3>2. client[x].pc \in Holding => versions'[Job(x)].status # "none"
      BY <1>1, <1>2, <1>4 DEF RequestFiled, Known, Holding, Deleting
    <3> QED
      BY <1>1, <1>2, <1>5, <2>1, <2>3, <3>1, <3>2 DEF RequestFiled, Born, Dead, Known, Reading, Holding, Deleting, Creating
  <2> QED
    BY <2>2, <2>3
<1>6. CASE client'[x] = Idle
  BY <1>6 DEF Idle, RequestFiled, Creating, Reading, Holding, Deleting
<1>7. CASE Begins(x)
  <2> DEFINE d == client'[x].doc
  <2>1. d \in Docs /\ \A y \in Clients \ {x} : client'[y] = client[y]
    BY <1>7 DEF Begins
  <2>2. CASE client'[x].pc \in Creating
    <3>1. ~ Born(d) /\ client'[x].num = 1 /\ \A y \in Clients : Doc(y) # d
      BY <1>7, <2>2 DEF Begins, Creating
    <3>2. \A y \in Clients : client'[y].doc = d => y = x
      BY <2>1, <3>1 DEF Doc
    <3>3. docs'[d].state = "unborn"
      BY <1>2, <2>1, <3>1 DEF Creates, Born
    <3> QED
      BY <2>2, <3>1, <3>2, <3>3 DEF RequestFiled, Doc, Born, Creating, Reading, Holding, Deleting
  <2>3. CASE client'[x].pc = "read_current"
    <3>1. Live(d) /\ client'[x].num = docs[d].current + 1
      BY <1>7, <2>3 DEF Begins, Creating
    <3>2. docs'[d].state # "unborn"
      BY <1>2, <2>1, <3>1 DEF Live, Born
    <3>3. ASSUME NEW v \in Versions, DocOf(v) = d, NumOf(v) < client'[x].num PROVE versions'[v].status # "none"
      <4>1. NumOf(v) <= docs[d].current
        BY <2>1, <3>1, <3>3, VersionNumbers, DocsTyped, SizesAssumption DEF FiledInv
      <4> QED
        BY <1>2, <3>3, <4>1 DEF FiledInv, Filed, StoresFiled, Known
    <3> QED
      BY <2>3, <3>2, <3>3 DEF RequestFiled, Doc, Born, Known, Creating, Reading, Holding, Deleting
  <2>4. CASE client'[x].pc = "rollback"
    <3>1. "rollback" \in Ops /\ Job(x)' \in Versions /\ versions[Job(x)'].status = "ready"
      BY <1>7, <2>4 DEF Begins, Creating, Job
    <3>2. Known(Job(x)') /\ DocOf(Job(x)') = d
      BY <3>1 DEF Known, Job, DocOf
    <3>3. versions'[Job(x)'].status # "none" /\ docs'[d].state # "unborn"
      BY <1>2, <2>1, <3>1, <3>2 DEF FiledInv, Filed, StoresFiled, Known, Born
    <3> QED
      BY <2>4, <3>1, <3>3 DEF RequestFiled, Doc, Born, Known, Creating, Reading, Holding, Deleting
  <2>5. CASE client'[x].pc = "delete_rows"
    <3>1. "delete" \in Ops /\ docs'[d].state # "unborn"
      BY <1>2, <1>7, <2>1, <2>5 DEF Begins, Creating, Live, Born
    <3> QED
      BY <2>5, <3>1 DEF RequestFiled, Doc, Born, Creating, Reading, Holding, Deleting
  <2> QED
    BY <1>7, <2>2, <2>3, <2>4, <2>5 DEF Begins
<1>8. CASE GoesOn(x)
  <2>1. Doc(x)' = Doc(x) /\ Job(x)' = Job(x) /\ client'[x].num = client[x].num
    BY <1>8 DEF GoesOn, Doc, Job
  <2>2. Doc(x) \in Docs
    BY <1>3, <1>8 DEF GoesOn
  <2>3. CASE client'[x].pc = "create_doc"
    <3>1. client[x].pc = "put_object" /\ client'[x].pc \in Creating
      BY <1>8, <2>3 DEF GoesOn, Creating
    <3>2. ~ Born(Doc(x)) /\ client[x].num = 1 /\ \A o \in Clients : Doc(o) = Doc(x) => o = x
      BY <1>1, <3>1 DEF RequestFiled, Creating
    <3>3. docs'[Doc(x)].state = "unborn"
      <4>1. ASSUME NEW c \in Clients, Creates(c), Doc(c) = Doc(x) PROVE FALSE
        BY <3>1, <3>2, <4>1 DEF Creates
      <4> QED
        BY <1>2, <2>2, <3>2, <4>1 DEF Born
    <3>4. \A o \in Clients : Doc(o)' = Doc(x) => o = x
      BY <3>1, CreatorAlone DEF Doc, Creating
    <3> QED
      BY <2>1, <2>3, <3>2, <3>3, <3>4 DEF RequestFiled, Born, Creating, Reading, Holding, Deleting
  <2>4. CASE client'[x].pc = "create_version"
    <3>1. docs'[Doc(x)].state # "unborn"
      <4>1. CASE client[x].pc = "create_doc"
        BY <1>8, <2>4, <4>1 DEF GoesOn
      <4>2. CASE client[x].pc = "read_current"
        BY <1>1, <1>2, <2>2, <4>2 DEF RequestFiled, Born, Creating
      <4> QED
        BY <1>8, <2>4, <4>1, <4>2 DEF GoesOn
    <3>2. ASSUME NEW v \in Versions, DocOf(v) = Doc(x), NumOf(v) < client[x].num
          PROVE  versions'[v].status # "none"
      <4>1. CASE client[x].pc = "create_doc"
        BY <1>1, <3>2, <4>1, VersionNumbers, SizesAssumption DEF RequestFiled, Creating
      <4>2. CASE client[x].pc = "read_current"
        BY <1>1, <1>2, <3>2, <4>2 DEF RequestFiled, Known, Reading
      <4> QED
        BY <1>8, <2>4, <4>1, <4>2 DEF GoesOn
    <3> QED
      BY <2>1, <2>4, <3>1, <3>2 DEF RequestFiled, Born, Known, Creating, Reading, Holding, Deleting
  <2>5. CASE client'[x].pc \in {"mark_processing", "enqueue", "ingest"}
    <3>1. Born(Doc(x)) /\ docs'[Doc(x)].state # "unborn"
      BY <1>1, <1>2, <1>8, <2>2, <2>5 DEF GoesOn, RequestFiled, Born, Creating
    <3>2. versions'[Job(x)].status # "none"
      <4>1. CASE client[x].pc = "create_version"
        BY <1>8, <2>5, <4>1 DEF GoesOn, Inserts
      <4>2. CASE client[x].pc \in {"mark_processing", "enqueue"}
        BY <1>1, <1>2, <1>4, <4>2 DEF RequestFiled, Known, Holding, Deleting
      <4> QED
        BY <1>8, <2>5, <4>1, <4>2 DEF GoesOn
    <3> QED
      BY <2>1, <2>5, <3>1, <3>2 DEF RequestFiled, Born, Known, Creating, Reading, Holding, Deleting
  <2>6. CASE client'[x].pc \in {"delete_object", "delete_points"}
    <3>1. client[x].pc \in Deleting /\ docs'[Doc(x)].state = "dead"
      BY <1>1, <1>2, <1>8, <2>2, <2>6 DEF GoesOn, RequestFiled, Dead, Deleting
    <3> QED
      BY <1>1, <2>1, <2>6, <3>1 DEF RequestFiled, Born, Dead, Creating, Reading, Holding, Deleting
  <2> QED
    BY <1>8, <2>3, <2>4, <2>5, <2>6 DEF GoesOn
<1> QED
  BY <1>1, <1>5, <1>6, <1>7, <1>8 DEF RequestMove

(* The ways of the pipeline. *)
Follows(l) ==
  CASE l = "load_version"  -> {"load_doc", "fail_doc"}
    [] l = "load_doc"      -> {"parse", "fail_version"}
    [] l = "parse"         -> {"upsert", "fail_version"}
    [] l = "upsert"        -> {"commit", "fail_version"}
    [] l = "commit"        -> {"ready_version", "fail_version"}
    [] l = "ready_version" -> {"ready_doc"}
    [] l = "ready_doc"     -> {"lookup_old", "done"}
    [] l = "lookup_old"    -> {"clean_rows", "done"}
    [] l = "clean_rows"    -> {"clean_points", "done"}
    [] l = "clean_points"  -> {"done"}
    [] l = "fail_version"  -> {"fail_doc"}
    [] l = "fail_doc"      -> {"failed"}

LEMMA IngestMoves ==
  ASSUME TypeInv, NEW a \in Actors, Ingest(a)
  PROVE  /\ pipe[a].pc \in Steps \ {"idle", "done", "failed"}
         /\ pipe'[a].job = pipe[a].job /\ pipe'[a].pc \in Follows(pipe[a].pc)
         /\ \A b \in Actors \ {a} : pipe'[b] = pipe[b]
         /\ ~ At(a, "parse") => pipe'[a].size = pipe[a].size
<1>1. pipe \in [Actors -> RunRec]
  BY TypeParts DEF RunsTyped
<1>2. ASSUME NEW l, Goto(a, l)
      PROVE  /\ pipe'[a].job = pipe[a].job /\ pipe'[a].pc = l /\ pipe'[a].size = pipe[a].size
             /\ \A b \in Actors \ {a} : pipe'[b] = pipe[b]
  BY <1>1, <1>2 DEF Goto, RunRec
<1>3. CASE Parse(a)
  <2>1. PICK n : pipe' = [pipe EXCEPT ![a].pc = IF n = 0 THEN "fail_version" ELSE "upsert", ![a].size = n]
    BY <1>3 DEF Parse
  <2>2. /\ pipe'[a].job = pipe[a].job /\ pipe'[a].pc \in {"upsert", "fail_version"}
        /\ \A b \in Actors \ {a} : pipe'[b] = pipe[b]
    BY <1>1, <2>1 DEF RunRec
  <2> QED
    BY <1>3, <2>2 DEF Parse, At, Steps, Follows
<1>4. CASE LoadVersion(a) \/ LoadDoc(a) \/ Upsert(a) \/ Commit(a)
  BY <1>2, <1>4 DEF LoadVersion, LoadDoc, Upsert, Commit, At, Steps, Follows
<1>5. CASE ReadyVersion(a) \/ ReadyDoc(a) \/ LookupOld(a)
  BY <1>2, <1>5 DEF ReadyVersion, ReadyDoc, AfterReady, LookupOld, At, Steps, Follows
<1>6. CASE CleanRows(a) \/ CleanPoints(a) \/ FailVersion(a) \/ FailDoc(a)
  BY <1>2, <1>6 DEF CleanRows, CleanPoints, FailVersion, FailDoc, At, Steps, Follows
<1>7. CASE StepFails(a)
  <2>1. pipe[a].pc \in Steps \ {"idle", "done", "failed"}
    BY <1>1, <1>7 DEF StepFails, RunRec
  <2>2. OnError(a) \in Follows(pipe[a].pc)
    BY <2>1 DEF OnError, AfterReady, At, Steps, Follows
  <2> QED
    BY <1>2, <1>7, <2>1, <2>2 DEF StepFails
<1> QED
  BY <1>3, <1>4, <1>5, <1>6, <1>7 DEF Ingest, PipelineStep

(* What a step does to the run of a: leave it, end it, take it on, or begin *)
(* it with a version that a request or a message had.                       *)
RunMove(a) ==
  \/ pipe'[a] = pipe[a] \/ pipe'[a] = NoRun
  \/ pipe[a].pc # "idle" /\ pipe'[a].job = pipe[a].job
  \/ a \in Clients /\ client[a].pc = "enqueue" /\ pipe'[a].job = Job(a)
  \/ a \in Workers /\ \E m \in Q!Message : main[m] > 0 /\ pipe'[a].job = m.job

LEMMA RunsMove ==
  ASSUME TypeInv, [Next]_vars, NEW a \in Actors
  PROVE  RunMove(a)
<1>1. pipe \in [Actors -> RunRec]
  BY TypeParts DEF RunsTyped
<1>2. ASSUME NEW b \in Actors, Ingest(b) PROVE RunMove(a)
  BY <1>2, IngestMoves DEF RunMove
<1>3. ASSUME NEW b \in Actors, Finish(b) PROVE pipe'[a] = pipe[a] \/ pipe'[a] = NoRun
  BY <1>1, <1>3 DEF Finish
<1>4. ASSUME NEW b \in Actors, NEW v, Start(b, v)
      PROVE  pipe'[a] = pipe[a] \/ (a = b /\ pipe'[a].job = v)
  BY <1>1, <1>4 DEF Start
<1>5. ASSUME NEW c \in Clients, Request(c) \/ Handle(c) \/ Abort(c) PROVE RunMove(a)
  <2>1. CASE Request(c)
    BY <2>1 DEF Request, StartUpload, StartReindex, StartDelete, StartRollback, Accept, RunMove
  <2>2. CASE Enqueue(c)
    BY <1>4, <2>2 DEF Enqueue, Asked, RunMove, Actors
  <2>3. CASE Ingested(c) \/ Abort(c)
    BY <1>3, <2>3 DEF Ingested, Abort, RunMove, Actors
  <2>4. CASE Handle(c) /\ ~ (Enqueue(c) \/ Ingested(c))
    BY <2>4 DEF Handle, PutObject, CreateDoc, CreateVersion, ReadCurrent, MarkProcessing,
       RollbackDocument, DeleteRows, DeleteObject, DeletePoints, RunMove
  <2> QED
    BY <1>5, <2>1, <2>2, <2>3, <2>4
<1>6. ASSUME NEW w \in Workers,
             WorkerTakes(w) \/ WorkerReturns(w) \/ WorkerDisposes(w) \/ WorkerDies(w) \/ LinkChanges(w)
      PROVE  RunMove(a)
  <2>1. CASE WorkerTakes(w)
    <3>1. PICK m \in Q!Message : Q!Deliver(w, m) /\ Start(w, m.job)
      BY <2>1 DEF WorkerTakes
    <3> QED
      BY <1>4, <3>1 DEF Q!Deliver, RunMove, Actors
  <2>2. CASE WorkerReturns(w) \/ WorkerDies(w)
    BY <1>3, <2>2 DEF WorkerReturns, WorkerDies, RunMove, Actors
  <2>3. CASE WorkerDisposes(w) \/ LinkChanges(w)
    BY <2>3 DEF WorkerDisposes, LinkChanges, RunMove
  <2> QED
    BY <1>6, <2>1, <2>2, <2>3
<1>7. RetryDue \/ Redeploy \/ UNCHANGED vars => RunMove(a)
  BY DEF RetryDue, Redeploy, vars, RunMove
<1> QED
  BY <1>2, <1>5, <1>6, <1>7 DEF Next, Work, Actors

LEMMA AcceptedByRequest ==
  ASSUME [Next]_vars, NEW v \in accepted' \ accepted
  PROVE  \E c \in Clients : client[c].pc = "enqueue" /\ v = Job(c)
<1>1. ASSUME NEW c \in Clients, Handle(c) PROVE client[c].pc = "enqueue" /\ v = Job(c)
  <2>1. CASE Enqueue(c)
    <3>1. client[c].pc = "enqueue"
      BY <2>1 DEF Enqueue, Asked
    <3>2. \/ Q!Enqueue(Job(c)) \/ Q!EnqueueLost(Job(c))
          \/ Q!EnqueueFails(Job(c)) \/ UNCHANGED queue
      BY <2>1 DEF Enqueue
    <3>3. Q!Enqueue(Job(c)) \/ Q!EnqueueLost(Job(c)) => accepted' = accepted \cup {Job(c)}
      BY DEF Q!Enqueue, Q!EnqueueLost
    <3>4. Q!EnqueueFails(Job(c)) \/ UNCHANGED queue => accepted' = accepted
      BY DEF Q!EnqueueFails, Q!ledger, queue
    <3> QED
      BY <3>1, <3>2, <3>3, <3>4
  <2>2. CASE ~ Enqueue(c)
    BY <1>1, <2>2 DEF Handle, PutObject, CreateDoc, CreateVersion, ReadCurrent, MarkProcessing,
       Ingested, RollbackDocument, DeleteRows, DeleteObject, DeletePoints, queue
  <2> QED
    BY <2>1, <2>2
<1>2. ASSUME NEW c \in Clients, Request(c) \/ Abort(c) PROVE FALSE
  BY <1>2 DEF Request, StartUpload, StartReindex, StartDelete, StartRollback, Accept, Abort, queue
<1>3. ASSUME NEW a \in Actors, Ingest(a) PROVE FALSE
  BY <1>3 DEF Ingest, queue
<1>4. ASSUME NEW w \in Workers, Q!Consume(w) \/ Q!Disrupt(w) PROVE FALSE
  BY <1>4 DEF Q!Consume, Q!Disrupt, Q!Deliver, Q!HandlerOk, Q!HandlerErr, Q!PublishRetry, Q!PublishDLQ,
     Q!Ack, Q!GiveUp, Q!PublishFails, Q!Crash, Q!ConnectionLost, Q!Restart, Q!ledger
<1>5. ASSUME NEW w \in Workers,
             WorkerTakes(w) \/ WorkerReturns(w) \/ WorkerDisposes(w) \/ WorkerDies(w) \/ LinkChanges(w)
      PROVE  Q!Consume(w) \/ Q!Disrupt(w)
  BY <1>5 DEF WorkerTakes, WorkerReturns, WorkerDisposes, WorkerDies, LinkChanges, Q!Consume, Q!Disrupt
<1>6. RetryDue \/ Redeploy \/ UNCHANGED vars => accepted' = accepted
  BY DEF RetryDue, Redeploy, vars, queue, Q!Expire, Q!ledger
<1> QED
  BY <1>1, <1>2, <1>3, <1>4, <1>5, <1>6 DEF Next, Work, Actors

LEMMA FiledStep == FiledInv /\ [Next]_vars => FiledInv'
<1> SUFFICES ASSUME FiledInv, [Next]_vars PROVE FiledInv'
  OBVIOUS
<1>1. TypeInv' /\ QueueTyped' /\ StoresMove
  BY TypeStep, NextRefines, QueueTypeStep, StoresMoves DEF FiledInv
<1>2. StoresFiled' /\ \A c \in Clients : RequestFiled(c)'
  BY <1>1, StoresStayFiled, RequestsStayFiled
<1>3. \A v \in Versions : Known(v) => Known(v)'
  BY <1>1, FiledGrows
<1>4. RunsFiled'
  <2>1. ASSUME NEW a \in Actors, pipe'[a].pc # "idle" PROVE versions'[pipe'[a].job].status # "none"
    <3>1. RunMove(a)
      BY RunsMove DEF FiledInv
    <3>2. pipe'[a] # NoRun
      BY <2>1 DEF NoRun
    <3>3. CASE pipe[a].pc # "idle" /\ pipe'[a].job = pipe[a].job
      BY <1>3, <3>3, RunsAreKnown DEF Known
    <3>4. CASE a \in Clients /\ client[a].pc = "enqueue" /\ pipe'[a].job = Job(a)
      <4>1. Job(a) \in Versions /\ Known(Job(a))
        BY <3>4, JobIsVersion DEF FiledInv, Filed, RequestFiled, Holding, Deleting
      <4> QED
        BY <1>3, <3>4, <4>1 DEF Known
    <3>5. ASSUME NEW m \in Q!Message, main[m] > 0, pipe'[a].job = m.job
          PROVE  versions'[pipe'[a].job].status # "none"
      <4>1. m.job \in Versions /\ Known(m.job)
        BY <3>5 DEF FiledInv, Filed, JobsAmong, AllKnown
      <4> QED
        BY <1>3, <3>5, <4>1 DEF Known
    <3> QED
      BY <2>1, <3>1, <3>2, <3>3, <3>4, <3>5 DEF RunMove
  <2> QED
    BY <2>1 DEF RunsFiled, Known
<1>5. JobsAmong(AllKnown)'
  <2>1. PICK K : K = AllKnown'
    OBVIOUS
  <2>2. JobsAmong(K)
    BY <1>3, <2>1 DEF FiledInv, Filed, JobsAmong, AllKnown
  <2>3. ASSUME NEW v \in Versions, v \in accepted' \ accepted PROVE v \in K
    <3>1. PICK c \in Clients : client[c].pc = "enqueue" /\ v = Job(c)
      BY <2>3, AcceptedByRequest
    <3>2. Known(v)
      BY <3>1 DEF FiledInv, Filed, RequestFiled, Holding
    <3> QED
      BY <1>3, <2>1, <3>2 DEF AllKnown
  <2>4. JobsAmong(K)'
    BY <2>2, <2>3, NextRefines, JobsStay DEF FiledInv
  <2> QED
    BY <2>1, <2>4 DEF JobsAmong
<1> QED
  BY <1>1, <1>2, <1>4, <1>5 DEF FiledInv, Filed

(* The version that a living document points to is in document_version, for *)
(* any interleaving of uploads, reindexes, rollbacks, deletions, retries,   *)
(* redeliveries, crashes and failed calls.                                  *)
(* A living document points to nothing or to a version that has its row,    *)
(* whatever fails, is delivered twice, is rolled back or is aborted: the    *)
(* reader that follows current_version (GetDocument, ReindexDocument) finds *)
(* it.                                                                      *)
THEOREM CurrentIsThere == Spec => []CurrentVersionExists
<1>1. FiledInv => CurrentVersionExists
  <2> SUFFICES ASSUME FiledInv, NEW d \in Docs, Live(d), docs[d].current > 0
               PROVE  Exists(<<d, docs[d].current>>)
    BY DEF CurrentVersionExists
  <2>1. <<d, docs[d].current>> \in Versions
    BY SizesAssumption DEF FiledInv, TypeInv, TypeOK, Versions
  <2>2. Known(<<d, docs[d].current>>)
    BY <2>1, DocsTyped DEF FiledInv, Filed, StoresFiled, DocOf, NumOf
  <2> QED
    BY <2>1, <2>2 DEF FiledInv, Filed, StoresFiled, Known, Dead, Live, Exists, DocOf
<1> QED
  BY <1>1, FiledInit, FiledStep, PTL DEF Spec

-----------------------------------------------------------------------------
(* Until the first disruption the work on a version is a token: one request *)
(* or run has it, or one message in the queue, or nobody.  A run has it     *)
(* until the document can move on from the version: when the document       *)
(* points to it, and with rollbacks already when the version is ready.      *)
Past == IF "rollback" \in Ops THEN Tidying \cup {"ready_doc"} ELSE Tidying

Asks(a, v)    == a \in Clients /\ client[a].pc \in {"mark_processing", "enqueue"} /\ Job(a) = v
Erred(a, v)   == a \in Workers /\ phase[a] = "erred" /\ msg[a].job = v
Running(a, v) == pipe[a].job = v /\ pipe[a].pc \notin Past
Has(a, v)     == Asks(a, v) \/ Erred(a, v) \/ Running(a, v)
Queued(m)     == main[m] + retryq[m]
Free(v) ==
  /\ \A a \in Actors : ~ Has(a, v)
  /\ \A m \in Q!Message : m.job = v => Queued(m) = 0

OneCopy(v) ==
  /\ \A a, b \in Actors : Has(a, v) /\ Has(b, v) => a = b
  /\ \A a \in Actors, m \in Q!Message : Has(a, v) /\ m.job = v => Queued(m) = 0
  /\ \A m, k \in Q!Message : m.job = v /\ k.job = v =>
       Queued(m) <= 1 /\ (m # k => Queued(m) = 0 \/ Queued(k) = 0)

(* A run goes with the request that made it or the delivery it handles. *)
RunHeld(a) ==
  /\ pipe[a].pc = "idle" <=> pipe[a].job = NoMessage
  /\ a \in Clients => (pipe[a].pc # "idle" => client[a].pc = "ingest")
  /\ a \in Workers => (pipe[a].pc # "idle" <=> phase[a] = "running")
  /\ a \in Workers => (pipe[a].pc # "idle" => pipe[a].job = msg[a].job)

Undisturbed(v) ==
  (* u below v was let go before v was made; so was what the document,      *)
  (* a reindex under way, a tidying run or a rollback has behind it.        *)
  /\ \A u \in Versions : Below(u, v) /\ Known(v) => Free(u)
  /\ NumOf(v) <= docs[DocOf(v)].current => Free(v)
  /\ \A c \in Clients : client[c].pc \in Reading /\ DocOf(v) = Doc(c) /\ NumOf(v) < client[c].num => Free(v)
  /\ \A a \in Actors : pipe[a].pc \in Past /\ pipe[a].job = v => Free(v)
  /\ "rollback" \in Ops /\ versions[v].status = "ready" => Free(v)
  /\ \A c \in Clients : client[c].pc = "rollback" /\ Job(c) = v => Free(v)

(* What a step of the actor x does to the token of v. *)
Alone(x) ==
  /\ \A c \in Clients \ {x} : client'[c] = client[c]
  /\ \A a \in Actors \ {x} : pipe'[a] = pipe[a]
  /\ \A w \in Workers \ {x} : phase'[w] = phase[w] /\ msg'[w] = msg[w]
QueuedSame == \A m \in Q!Message : Queued(m)' = Queued(m)
LetsGo(x, v) == (Has(x, v)' => Has(x, v)) /\ QueuedSame
Gives(x, v) ==
  /\ Has(x, v) /\ ~ Has(x, v)' /\ pipe[x].pc = "idle"
  /\ \E m \in Q!Message : /\ m.job = v /\ Queued(m)' = Queued(m) + 1
                          /\ \A k \in Q!Message \ {m} : Queued(k)' = Queued(k)
Takes(x, v) ==
  \E m \in Q!Message : /\ m.job = v /\ Queued(m) > 0 /\ Queued(m)' = Queued(m) - 1
                       /\ \A k \in Q!Message \ {m} : Queued(k)' = Queued(k)
(* a message of another version moves *)
Ignores(x, v) ==
  /\ Has(x, v)' => Has(x, v)
  /\ \A k \in Q!Message : k.job = v => Queued(k)' = Queued(k)
Bears(x, v) == ~ Known(v) /\ QueuedSame
Moves(x, v) == Ignores(x, v) \/ Gives(x, v) \/ Takes(x, v) \/ Bears(x, v)

LEMMA OthersKeep ==
  ASSUME NEW x, Alone(x), NEW b \in Actors \ {x}
  PROVE  (\A v \in Versions : Has(b, v)' <=> Has(b, v)) /\ (RunHeld(b)' <=> RunHeld(b))
<1>1. /\ b \in Clients => client'[b] = client[b]
      /\ b \in Workers => phase'[b] = phase[b] /\ msg'[b] = msg[b]
      /\ pipe'[b] = pipe[b]
  BY DEF Alone
<1>2. ASSUME NEW v \in Versions PROVE Has(b, v)' <=> Has(b, v)
  BY <1>1 DEF Has, Asks, Erred, Running, Job
<1>3. RunHeld(b)' <=> RunHeld(b)
  BY <1>1 DEF RunHeld
<1> QED
  BY <1>2, <1>3

LEMMA QueuedTyped ==
  ASSUME QueueTyped, NEW m \in Q!Message
  PROVE  Queued(m) \in Nat
BY DEF QueueTyped, Queued

HeldInv == FiledInv /\ \A a \in Actors : RunHeld(a)

LEMMA TokenIsKnown ==
  ASSUME HeldInv, NEW v \in Versions, ~ Known(v)
  PROVE  Free(v)
<1> USE DEF HeldInv
<1>1. ASSUME NEW a \in Actors, Has(a, v) PROVE FALSE
  <2>1. CASE Asks(a, v)
    BY <2>1 DEF Asks, FiledInv, Filed, RequestFiled, Holding
  <2>2. CASE Erred(a, v)
    BY <2>2 DEF Erred, FiledInv, Filed, JobsAmong, AllKnown
  <2>3. CASE Running(a, v) /\ pipe[a].pc # "idle"
    BY <2>3, RunsAreKnown DEF Running
  <2>4. CASE Running(a, v) /\ pipe[a].pc = "idle"
    BY <2>4, NoVersionAssumption DEF Running, RunHeld
  <2> QED
    BY <1>1, <2>1, <2>2, <2>3, <2>4 DEF Has
<1>2. ASSUME NEW m \in Q!Message, m.job = v PROVE Queued(m) = 0
  BY <1>2 DEF FiledInv, Filed, JobsAmong, AllKnown, QueueTyped, Queued
<1> QED
  BY <1>1, <1>2 DEF Free

LEMMA IdleHasNothing ==
  ASSUME NEW a \in Actors, NEW v \in Versions, RunHeld(a), pipe[a].pc = "idle"
  PROVE  ~ Running(a, v)
BY NoVersionAssumption DEF Running, RunHeld

(* Counting what waits for one message, in the queue and for its retry. *)
LEMMA QueuedTaken ==
  ASSUME QueueTyped, NEW m \in Q!Message, main' = Q!Take(main, m), retryq' = retryq, main[m] > 0
  PROVE  /\ Queued(m) > 0 /\ Queued(m)' = Queued(m) - 1
         /\ \A k \in Q!Message \ {m} : Queued(k)' = Queued(k)
<1>1. main \in [Q!Message -> Nat] /\ retryq \in [Q!Message -> Nat]
  BY DEF QueueTyped
<1> QED
  BY <1>1, PutTake DEF Queued

LEMMA QueuedPut ==
  ASSUME QueueTyped, NEW m \in Q!Message,
         \/ main' = Q!Put(main, m) /\ retryq' = retryq
         \/ retryq' = Q!Put(retryq, m) /\ main' = main
  PROVE  Queued(m)' = Queued(m) + 1 /\ \A k \in Q!Message \ {m} : Queued(k)' = Queued(k)
<1>1. main \in [Q!Message -> Nat] /\ retryq \in [Q!Message -> Nat]
  BY DEF QueueTyped
<1>2. CASE main' = Q!Put(main, m) /\ retryq' = retryq
  <2>1. Queued(m)' = Queued(m) + 1
    BY <1>1, <1>2, PutTake DEF Queued
  <2>2. \A k \in Q!Message \ {m} : Queued(k)' = Queued(k)
    BY <1>1, <1>2, PutTake DEF Queued
  <2> QED
    BY <2>1, <2>2
<1>3. CASE retryq' = Q!Put(retryq, m) /\ main' = main
  <2>1. Queued(m)' = Queued(m) + 1
    BY <1>1, <1>3, PutTake DEF Queued
  <2>2. \A k \in Q!Message \ {m} : Queued(k)' = Queued(k)
    BY <1>1, <1>3, PutTake DEF Queued
  <2> QED
    BY <2>1, <2>2
<1> QED
  BY <1>2, <1>3

LEMMA QueuedExpired ==
  ASSUME QueueTyped, NEW m \in Q!Message, retryq' = Q!Take(retryq, m), main' = Q!Put(main, m)
  PROVE  QueuedSame
<1>1. main \in [Q!Message -> Nat] /\ retryq \in [Q!Message -> Nat]
  BY DEF QueueTyped
<1>2. Queued(m)' = Queued(m)
  BY <1>1, PutTake DEF Queued
<1>3. \A k \in Q!Message \ {m} : Queued(k)' = Queued(k)
  BY <1>1, PutTake DEF Queued
<1> QED
  BY <1>2, <1>3 DEF QueuedSame

(* A request under way: what it asks for, it keeps or hands over. *)
LEMMA RequestHeld ==
  ASSUME HeldInv, NEW c \in Clients, Request(c), NEW v \in Versions
  PROVE  Alone(c) /\ RunHeld(c)' /\ Ignores(c, v)
<1>1. Begins(c) /\ RunHeld(c) /\ c \notin Workers
  BY Beginning, ActorsAssumption DEF HeldInv, FiledInv, Actors
<1>2. pipe' = pipe /\ phase' = phase /\ msg' = msg /\ main' = main /\ retryq' = retryq
  BY DEF Request, StartUpload, StartReindex, StartDelete, StartRollback, Accept, queue
<1>3. pipe[c].pc = "idle"
  BY <1>1 DEF Begins, RunHeld
<1>4. client'[c].pc \notin {"mark_processing", "enqueue"}
  BY <1>1 DEF Begins, Creating
<1>5. Alone(c)
  BY <1>1, <1>2 DEF Alone, Begins
<1>6. RunHeld(c)'
  BY <1>1, <1>2, <1>3 DEF RunHeld
<1>7. ~ Has(c, v)'
  BY <1>1, <1>2, <1>3, <1>4, IdleHasNothing DEF Has, Asks, Erred, Running, Actors
<1> QED
  BY <1>2, <1>5, <1>6, <1>7 DEF Ignores, Queued

LEMMA HandleHeld ==
  ASSUME HeldInv, NEW c \in Clients, Handle(c), ~ Enqueue(c), ~ Ingested(c), NEW v \in Versions
  PROVE  Alone(c) /\ RunHeld(c)' /\ (Ignores(c, v) \/ Bears(c, v))
<1>1. RunHeld(c) /\ c \notin Workers /\ (client'[c] = Idle \/ GoesOn(c))
      /\ \A y \in Clients \ {c} : client'[y] = client[y]
  BY GoingOn, ActorsAssumption DEF HeldInv, FiledInv, Actors
<1>2. pipe' = pipe /\ phase' = phase /\ msg' = msg /\ main' = main /\ retryq' = retryq
  BY DEF Handle, PutObject, CreateDoc, CreateVersion, ReadCurrent, MarkProcessing,
     RollbackDocument, DeleteRows, DeleteObject, DeletePoints, queue
<1>3. client[c].pc \notin {"enqueue", "ingest"}
  BY DEF Handle, PutObject, CreateDoc, CreateVersion, ReadCurrent, MarkProcessing,
     RollbackDocument, DeleteRows, DeleteObject, DeletePoints, Asked
<1>4. pipe[c].pc = "idle"
  BY <1>1, <1>3 DEF RunHeld
<1>5. Alone(c)
  BY <1>1, <1>2 DEF Alone
<1>6. RunHeld(c)'
  BY <1>1, <1>2, <1>4 DEF RunHeld
<1>7. QueuedSame
  BY <1>2 DEF QueuedSame, Queued
<1>8. ~ Running(c, v) /\ ~ Running(c, v)'
  BY <1>1, <1>2, <1>4, IdleHasNothing DEF Actors, Running
<1>9. CASE Asks(c, v)' /\ ~ Asks(c, v)
  <2>1. client[c].pc = "create_version" /\ Inserts(c) /\ v = Job(c)
    BY <1>1, <1>3, <1>9 DEF Asks, GoesOn, Job, Idle
  <2> QED
    BY <1>5, <1>6, <1>7, <2>1 DEF Inserts, Bears
<1>10. CASE Asks(c, v)' => Asks(c, v)
  BY <1>1, <1>5, <1>6, <1>7, <1>8, <1>10 DEF Ignores, QueuedSame, Has, Erred
<1> QED
  BY <1>9, <1>10

LEMMA EnqueueHeld ==
  ASSUME HeldInv, NEW c \in Clients, Enqueue(c), disruptions' = disruptions, NEW v \in Versions
  PROVE  Alone(c) /\ RunHeld(c)' /\ (Ignores(c, v) \/ Gives(c, v))
<1>1. /\ RunHeld(c) /\ c \notin Workers /\ client[c].pc = "enqueue"
      /\ Job(c) \in Versions /\ pipe[c].pc = "idle"
  BY JobIsVersion, ActorsAssumption DEF HeldInv, FiledInv, Actors, Enqueue, Asked, RunHeld, Deleting
<1>2. client \in [Clients -> ClientRec] /\ pipe \in [Actors -> RunRec] /\ QueueTyped
  BY TypeParts DEF HeldInv, FiledInv, ClientsTyped, RunsTyped
<1>3. Asks(c, Job(c))
  BY <1>1 DEF Asks
<1>4. CASE Answer(c) /\ UNCHANGED pipe /\ (Q!Enqueue(Job(c)) \/ Q!EnqueueLost(Job(c)))
  <2>1. client'[c] = Idle /\ pipe' = pipe /\ \A y \in Clients \ {c} : client'[y] = client[y]
    BY <1>2, <1>4 DEF Answer
  <2>2. retryq' = retryq /\ phase' = phase /\ msg' = msg
    BY <1>4 DEF Q!Enqueue, Q!EnqueueLost, Q!consumer, Q!broker
  <2>3. Alone(c)
    BY <2>1, <2>2 DEF Alone
  <2>4. RunHeld(c)'
    BY <1>1, <2>1 DEF RunHeld
  <2>5. ~ Has(c, v)'
    <3>1. ~ Running(c, v)
      BY <1>1, IdleHasNothing DEF Actors
    <3> QED
      BY <1>1, <2>1, <3>1 DEF Has, Asks, Erred, Running, Idle
  <2>6. CASE Q!EnqueueLost(Job(c))
    <3>1. main' = main
      BY <2>6 DEF Q!EnqueueLost, Q!broker
    <3> QED
      BY <2>2, <2>3, <2>4, <2>5, <3>1 DEF Ignores, Queued
  <2>7. CASE Q!Enqueue(Job(c))
    <3>1. PICK f \in Q!Message : f.job = Job(c) /\ main' = Q!Put(main, f)
      BY <1>1, <2>7, FirstCopyOf DEF Q!Enqueue
    <3>3. Queued(f)' = Queued(f) + 1 /\ \A k \in Q!Message \ {f} : Queued(k)' = Queued(k)
      BY <1>2, <2>2, <3>1, QueuedPut
    <3>4. CASE v = Job(c)
      BY <1>1, <1>3, <2>3, <2>4, <2>5, <3>1, <3>3, <3>4 DEF Gives, Has
    <3>5. CASE v # Job(c)
      BY <2>3, <2>4, <2>5, <3>1, <3>3, <3>5 DEF Ignores
    <3> QED
      BY <3>4, <3>5
  <2> QED
    BY <1>4, <2>6, <2>7
<1>5. CASE Proceed(c, "ingest") /\ Start(c, Job(c)) /\ (Q!EnqueueFails(Job(c)) \/ UNCHANGED queue)
  <2>1. ~ Q!EnqueueFails(Job(c))
    BY <1>2 DEF Q!EnqueueFails, QueueTyped
  <2>2. phase' = phase /\ msg' = msg /\ main' = main /\ retryq' = retryq
    BY <1>5, <2>1 DEF queue
  <2>3. client'[c].pc = "ingest" /\ \A y \in Clients \ {c} : client'[y] = client[y]
    BY <1>2, <1>5 DEF Proceed
  <2>4. /\ pipe'[c].pc = "load_version" /\ pipe'[c].job = Job(c)
        /\ \A y \in Actors \ {c} : pipe'[y] = pipe[y]
    BY <1>2, <1>5 DEF Start, Actors
  <2>5. Alone(c)
    BY <2>2, <2>3, <2>4 DEF Alone
  <2>6. RunHeld(c)'
    BY <1>1, <2>3, <2>4, NoVersionAssumption DEF RunHeld
  <2>7. Has(c, v)' => v = Job(c)
    BY <1>1, <2>3, <2>4 DEF Has, Asks, Erred, Running
  <2> QED
    BY <1>3, <2>2, <2>5, <2>6, <2>7 DEF Ignores, Queued, Has
<1> QED
  BY <1>4, <1>5 DEF Enqueue

(* The end of a request, finished or aborted. *)
LEMMA EndHeld ==
  ASSUME HeldInv, NEW c \in Clients, Ingested(c) \/ Abort(c), NEW v \in Versions
  PROVE  Alone(c) /\ RunHeld(c)' /\ Ignores(c, v)
<1>1. client \in [Clients -> ClientRec] /\ pipe \in [Actors -> RunRec] /\ c \in Actors /\ c \notin Workers
  BY TypeParts, ActorsAssumption DEF HeldInv, FiledInv, ClientsTyped, RunsTyped, Actors
<1>2. phase' = phase /\ msg' = msg /\ main' = main /\ retryq' = retryq /\ Answer(c) /\ Finish(c)
  BY DEF Ingested, Abort, queue
<1>3. client'[c] = Idle /\ \A y \in Clients \ {c} : client'[y] = client[y]
  BY <1>1, <1>2 DEF Answer
<1>4. pipe'[c] = NoRun /\ \A y \in Actors \ {c} : pipe'[y] = pipe[y]
  BY <1>1, <1>2 DEF Finish
<1>5. pipe'[c].pc = "idle" /\ pipe'[c].job = NoMessage
  BY <1>4 DEF NoRun
<1>6. Alone(c)
  BY <1>2, <1>3, <1>4 DEF Alone
<1>7. RunHeld(c)'
  BY <1>1, <1>5 DEF RunHeld
<1>8. ~ Has(c, v)'
  BY <1>1, <1>3, <1>5, NoVersionAssumption DEF Has, Asks, Erred, Running, Idle
<1> QED
  BY <1>2, <1>6, <1>7, <1>8 DEF Ignores, Queued

LEMMA IngestHeld ==
  ASSUME HeldInv, NEW a \in Actors, Ingest(a), NEW v \in Versions
  PROVE  Alone(a) /\ RunHeld(a)' /\ Ignores(a, v)
<1>1. /\ pipe[a].pc \in Steps \ {"idle", "done", "failed"}
      /\ pipe'[a].job = pipe[a].job /\ pipe'[a].pc \in Follows(pipe[a].pc)
      /\ \A b \in Actors \ {a} : pipe'[b] = pipe[b]
  BY IngestMoves DEF HeldInv, FiledInv
<1>2. client' = client /\ phase' = phase /\ msg' = msg /\ main' = main /\ retryq' = retryq
  BY DEF Ingest, queue
<1>3. pipe'[a].pc # "idle" /\ (pipe[a].pc \in Past => pipe'[a].pc \in Past)
  BY <1>1 DEF Follows, Steps, Past, Tidying
<1>4. Alone(a)
  BY <1>1, <1>2 DEF Alone
<1>5. RunHeld(a)
  BY DEF HeldInv
<1>6. RunHeld(a)'
  BY <1>1, <1>2, <1>3, <1>5 DEF RunHeld
<1>7. Has(a, v)' => Has(a, v)
  BY <1>1, <1>2, <1>3 DEF Has, Asks, Erred, Running, Job
<1> QED
  BY <1>2, <1>4, <1>6, <1>7 DEF Ignores, Queued

(* A worker takes a message, and with it the token; it keeps it through a   *)
(* failed run and gives it back with the retry.                             *)
LEMMA TakeHeld ==
  ASSUME HeldInv, NEW w \in Workers, WorkerTakes(w), NEW v \in Versions
  PROVE  Alone(w) /\ RunHeld(w)' /\ (Ignores(w, v) \/ Takes(w, v))
<1>1. PICK m \in Q!Message : Q!Deliver(w, m) /\ Start(w, m.job)
  BY DEF WorkerTakes
<1>2. /\ pipe \in [Actors -> RunRec] /\ QueueTyped /\ w \in Actors /\ w \notin Clients
      /\ client' = client
  BY TypeParts, ActorsAssumption DEF HeldInv, FiledInv, RunsTyped, Actors, WorkerTakes, Local
<1>3. m.job \in Versions
  BY DEF Q!Message
<1>4. pipe'[w].pc = "load_version" /\ pipe'[w].job = m.job /\ \A b \in Actors \ {w} : pipe'[b] = pipe[b]
  BY <1>1, <1>2 DEF Start
<1>5. /\ phase'[w] = "running" /\ msg'[w] = m
      /\ \A x \in Workers \ {w} : phase'[x] = phase[x] /\ msg'[x] = msg[x]
  BY <1>1, <1>2 DEF Q!Deliver, QueueTyped
<1>6. Alone(w)
  BY <1>2, <1>4, <1>5 DEF Alone
<1>7. RunHeld(w)'
  BY <1>2, <1>3, <1>4, <1>5, NoVersionAssumption DEF RunHeld
<1>8. /\ Queued(m) > 0 /\ Queued(m)' = Queued(m) - 1
      /\ \A k \in Q!Message \ {m} : Queued(k)' = Queued(k)
  BY <1>1, <1>2, QueuedTaken DEF Q!Deliver
<1>9. Has(w, v)' => v = m.job
  BY <1>2, <1>4, <1>5 DEF Has, Asks, Erred, Running
<1> QED
  BY <1>6, <1>7, <1>8, <1>9 DEF Takes, Ignores

LEMMA ReturnHeld ==
  ASSUME HeldInv, NEW w \in Workers, WorkerReturns(w), NEW v \in Versions
  PROVE  Alone(w) /\ RunHeld(w)' /\ Ignores(w, v)
<1>1. /\ pipe \in [Actors -> RunRec] /\ QueueTyped /\ w \in Actors /\ w \notin Clients
      /\ client' = client /\ RunHeld(w) /\ Finish(w)
  BY TypeParts, ActorsAssumption DEF HeldInv, FiledInv, RunsTyped, Actors, WorkerReturns, Local
<1>2. /\ pipe'[w].pc = "idle" /\ pipe'[w].job = NoMessage
      /\ \A b \in Actors \ {w} : pipe'[b] = pipe[b]
  BY <1>1 DEF Finish, NoRun
<1>3. msg' = msg /\ main' = main /\ retryq' = retryq
  BY DEF WorkerReturns, Q!HandlerOk, Q!HandlerErr, Q!broker
<1>4. /\ phase'[w] # "running" /\ (phase'[w] = "erred" => pipe[w].pc = "failed")
      /\ \A x \in Workers \ {w} : phase'[x] = phase[x]
  BY <1>1 DEF WorkerReturns, Q!HandlerOk, Q!HandlerErr, QueueTyped, At
<1>5. Alone(w)
  BY <1>1, <1>2, <1>3, <1>4 DEF Alone
<1>6. RunHeld(w)'
  BY <1>1, <1>2, <1>4 DEF RunHeld
<1>7. Has(w, v)' => Has(w, v)
  <2>1. ASSUME Has(w, v)' PROVE phase'[w] = "erred" /\ msg[w].job = v
    BY <1>1, <1>2, <1>3, <2>1, NoVersionAssumption DEF Has, Asks, Erred, Running
  <2>2. ASSUME phase'[w] = "erred", msg[w].job = v PROVE Running(w, v)
    BY <1>1, <1>4, <2>2 DEF RunHeld, Running, Past, Tidying
  <2> QED
    BY <2>1, <2>2 DEF Has
<1> QED
  BY <1>3, <1>5, <1>6, <1>7 DEF Ignores, Queued

LEMMA DisposeHeld ==
  ASSUME HeldInv, NEW w \in Workers, WorkerDisposes(w), NEW v \in Versions
  PROVE  Alone(w) /\ RunHeld(w)' /\ (Ignores(w, v) \/ Gives(w, v))
<1>1. /\ QueueTyped /\ w \in Actors /\ w \notin Clients
      /\ client' = client /\ pipe' = pipe /\ RunHeld(w)
  BY TypeParts, ActorsAssumption DEF HeldInv, FiledInv, Actors, WorkerDisposes, Local
<1>2. phase[w] \in {"erred", "handled", "published"}
  BY DEF WorkerDisposes, Q!PublishRetry, Q!PublishDLQ, Q!Ack, Q!GiveUp
<1>3. /\ phase'[w] \in {"idle", "published"}
      /\ \A x \in Workers \ {w} : phase'[x] = phase[x] /\ msg'[x] = msg[x]
  BY <1>1 DEF WorkerDisposes, Q!PublishRetry, Q!PublishDLQ, Q!Ack, Q!GiveUp, Q!BackToIdle, QueueTyped
<1>4. pipe[w].pc = "idle"
  BY <1>1, <1>2 DEF RunHeld
<1>5. Alone(w)
  BY <1>1, <1>3 DEF Alone
<1>6. RunHeld(w)'
  BY <1>1, <1>3, <1>4 DEF RunHeld
<1>7. ~ Has(w, v)'
  BY <1>1, <1>3, <1>4, IdleHasNothing DEF Has, Asks, Erred, Running
<1>8. CASE Q!PublishRetry(w)
  <2>1. Erred(w, msg[w].job) /\ phase[w] # "idle"
    BY <1>8 DEF Q!PublishRetry, Erred
  <2>2. PICK m \in Q!Message : m.job = msg[w].job /\ retryq' = Q!Put(retryq, m)
    BY <1>1, <1>8, <2>1, BusyHolds, NextCopy DEF Q!PublishRetry
  <2>3. Queued(m)' = Queued(m) + 1 /\ \A k \in Q!Message \ {m} : Queued(k)' = Queued(k)
    BY <1>1, <1>8, <2>2, QueuedPut DEF Q!PublishRetry
  <2>4. CASE v = m.job
    BY <1>4, <1>5, <1>6, <1>7, <2>1, <2>2, <2>3, <2>4 DEF Gives, Has
  <2>5. CASE v # m.job
    BY <1>5, <1>6, <1>7, <2>3, <2>5 DEF Ignores
  <2> QED
    BY <2>4, <2>5
<1>9. CASE Q!PublishDLQ(w) \/ Q!Ack(w) \/ Q!GiveUp(w)
  <2>1. main' = main /\ retryq' = retryq
    BY <1>9 DEF Q!PublishDLQ, Q!Ack, Q!GiveUp, Q!broker
  <2> QED
    BY <1>5, <1>6, <1>7, <2>1 DEF Ignores, Queued
<1> QED
  BY <1>8, <1>9 DEF WorkerDisposes

(* Every step, until the first disruption. *)
LEMMA TokensMove ==
  ASSUME HeldInv, [Next]_vars, disruptions' = disruptions, NEW v \in Versions
  PROVE  \/ /\ \A a \in Actors : (Has(a, v)' <=> Has(a, v)) /\ RunHeld(a)'
            /\ QueuedSame
         \/ \E x \in Actors : Alone(x) /\ RunHeld(x)' /\ Moves(x, v)
<1>1. QueueTyped /\ \A a \in Actors : RunHeld(a)
  BY DEF HeldInv, FiledInv
<1>2. ASSUME NEW c \in Clients, Request(c) \/ Handle(c) \/ Abort(c)
      PROVE  Alone(c) /\ RunHeld(c)' /\ Moves(c, v)
  <2>1. CASE Request(c)
    BY <2>1, RequestHeld DEF Moves
  <2>2. CASE Enqueue(c)
    BY <2>2, EnqueueHeld DEF Moves
  <2>3. CASE Ingested(c) \/ Abort(c)
    BY <2>3, EndHeld DEF Moves
  <2>4. CASE Handle(c) /\ ~ Enqueue(c) /\ ~ Ingested(c)
    BY <2>4, HandleHeld DEF Moves
  <2> QED
    BY <1>2, <2>1, <2>2, <2>3, <2>4
<1>3. ASSUME NEW a \in Actors, Ingest(a) PROVE Alone(a) /\ RunHeld(a)' /\ Moves(a, v)
  BY <1>3, IngestHeld DEF Moves
<1>4. ASSUME NEW w \in Workers, WorkerTakes(w) \/ WorkerReturns(w) \/ WorkerDisposes(w)
      PROVE  Alone(w) /\ RunHeld(w)' /\ Moves(w, v)
  BY <1>4, TakeHeld, ReturnHeld, DisposeHeld DEF Moves
<1>5. ASSUME NEW w \in Workers, WorkerDies(w) \/ LinkChanges(w)
      PROVE  /\ client' = client /\ pipe' = pipe /\ phase' = phase /\ msg' = msg
             /\ main' = main /\ retryq' = retryq
  <2>1. ~ Q!Crash(w) /\ ~ Q!PublishFails(w) /\ ~ Q!ConnectionLost(w)
    BY <1>1 DEF Q!Crash, Q!PublishFails, Q!ConnectionLost, QueueTyped
  <2> QED
    BY <1>5, <2>1 DEF WorkerDies, LinkChanges, Q!Restart, Local, Q!broker
<1>6. CASE RetryDue
  <2>1. client' = client /\ pipe' = pipe /\ phase' = phase /\ msg' = msg
    BY <1>6 DEF RetryDue, Local, Q!Expire, Q!consumer
  <2>2. QueuedSame
    BY <1>1, <1>6, QueuedExpired DEF RetryDue, Q!Expire
  <2> QED
    BY <1>1, <2>1, <2>2 DEF Has, Asks, Erred, Running, Job, RunHeld
<1>7. CASE Redeploy \/ UNCHANGED vars \/ \E w \in Workers : WorkerDies(w) \/ LinkChanges(w)
  <2>1. /\ client' = client /\ pipe' = pipe /\ phase' = phase /\ msg' = msg
        /\ main' = main /\ retryq' = retryq
    BY <1>5, <1>7 DEF Redeploy, vars, queue
  <2> QED
    BY <1>1, <2>1 DEF Has, Asks, Erred, Running, Job, RunHeld, QueuedSame, Queued
<1> QED
  BY <1>2, <1>3, <1>4, <1>6, <1>7 DEF Next, Work, Actors

LEMMA HeldStays ==
  ASSUME HeldInv, [Next]_vars, disruptions' = disruptions, NEW a \in Actors
  PROVE  RunHeld(a)'
<1>1. CASE Versions # {}
  BY <1>1, TokensMove, OthersKeep DEF HeldInv
<1>2. CASE Versions = {}
  <2>1. TypeInv' /\ QueueTyped'
    BY TypeStep, NextRefines, QueueTypeStep DEF HeldInv, FiledInv
  <2>2. pipe'[a].pc = "idle" /\ pipe'[a].job = NoMessage
    BY <1>2, <2>1 DEF TypeInv, TypeOK, Named
  <2>3. a \in Workers => phase'[a] = "idle"
    BY <1>2, <2>1 DEF QueueTyped, Q!Message
  <2> QED
    BY <2>2, <2>3 DEF RunHeld
<1> QED
  BY <1>1, <1>2

LEMMA FreeStays ==
  ASSUME HeldInv, [Next]_vars, disruptions' = disruptions,
         NEW v \in Versions, Known(v), Free(v)
  PROVE  Free(v)'
<1>1. CASE (\A a \in Actors : Has(a, v)' <=> Has(a, v)) /\ QueuedSame
  BY <1>1 DEF Free, QueuedSame
<1>2. ASSUME NEW x \in Actors, Alone(x), Moves(x, v) PROVE Free(v)'
  <2>1. Ignores(x, v)
    BY <1>2 DEF Moves, Gives, Takes, Bears, Free
  <2>2. \A b \in Actors : Has(b, v)' => Has(b, v)
    BY <1>2, <2>1, OthersKeep DEF Ignores
  <2> QED
    BY <2>1, <2>2 DEF Ignores, Free
<1> QED
  BY <1>1, <1>2, TokensMove

LEMMA OneCopyStays ==
  ASSUME HeldInv, [Next]_vars, disruptions' = disruptions,
         NEW v \in Versions, OneCopy(v)
  PROVE  OneCopy(v)'
<1>1. \A m \in Q!Message : Queued(m) \in Nat
  BY QueuedTyped DEF HeldInv, FiledInv
<1>2. CASE (\A a \in Actors : Has(a, v)' <=> Has(a, v)) /\ QueuedSame
  BY <1>2 DEF OneCopy, QueuedSame
<1>3. ASSUME NEW x \in Actors, Alone(x), Moves(x, v) PROVE OneCopy(v)'
  <2>1. \A b \in Actors \ {x} : Has(b, v)' <=> Has(b, v)
    BY <1>3, OthersKeep
  <2>2. CASE Ignores(x, v)
    BY <2>1, <2>2 DEF Ignores, OneCopy
  <2>3. CASE Gives(x, v)
    <3>1. \A b \in Actors : ~ Has(b, v)'
      BY <2>1, <2>3 DEF Gives, OneCopy
    <3>2. \A k \in Q!Message : k.job = v => Queued(k) = 0
      BY <2>3 DEF Gives, OneCopy
    <3>3. PICK m \in Q!Message : m.job = v /\ Queued(m)' = Queued(m) + 1
                                 /\ \A k \in Q!Message \ {m} : Queued(k)' = Queued(k)
      BY <2>3 DEF Gives
    <3>4. Queued(m)' = 1 /\ \A k \in Q!Message : k # m /\ k.job = v => Queued(k)' = 0
      BY <3>2, <3>3
    <3> QED
      BY <3>1, <3>4 DEF OneCopy
  <2>4. CASE Takes(x, v)
    <3>1. PICK m \in Q!Message : m.job = v /\ Queued(m) > 0 /\ Queued(m)' = Queued(m) - 1
                                 /\ \A k \in Q!Message \ {m} : Queued(k)' = Queued(k)
      BY <2>4 DEF Takes
    <3>2. Queued(m) # 0
      BY <1>1, <3>1
    <3>3. \A b \in Actors : ~ Has(b, v)
      BY <3>1, <3>2 DEF OneCopy
    <3>4. Queued(m) = 1 /\ \A k \in Q!Message : k # m /\ k.job = v => Queued(k) = 0
      BY <1>1, <3>1, <3>2 DEF OneCopy
    <3>5. \A k \in Q!Message : k.job = v => Queued(k)' = 0
      BY <3>1, <3>4
    <3> QED
      BY <2>1, <3>3, <3>5 DEF OneCopy
  <2>5. CASE Bears(x, v)
    <3>1. Free(v)
      BY <2>5, TokenIsKnown DEF Bears
    <3> QED
      BY <2>1, <2>5, <3>1 DEF Bears, Free, QueuedSame, OneCopy
  <2> QED
    BY <1>3, <2>2, <2>3, <2>4, <2>5 DEF Moves
<1> QED
  BY <1>2, <1>3, TokensMove

(* The run that gets past the point of letting go had the only token. *)
LEMMA PassedIsFree ==
  ASSUME HeldInv, [Next]_vars, NEW a \in Actors, Ingest(a),
         pipe[a].job \in Versions, OneCopy(pipe[a].job), pipe[a].pc \notin Past, pipe'[a].pc \in Past
  PROVE  Free(pipe[a].job)' /\ pipe'[a].job = pipe[a].job
<1>1. Alone(a) /\ Ignores(a, pipe[a].job) /\ pipe'[a].job = pipe[a].job /\ pipe[a].pc # "idle"
  BY IngestHeld, IngestMoves DEF HeldInv, FiledInv
<1>2. PICK v \in Versions : v = pipe[a].job
  OBVIOUS
<1>3. Has(a, v)
  BY <1>2 DEF Has, Running
<1>4. phase' = phase /\ client' = client
  BY DEF Ingest, queue
<1>5. ~ Has(a, v)'
  BY <1>1, <1>4 DEF Has, Asks, Erred, Running, HeldInv, RunHeld
<1>6. \A b \in Actors : ~ Has(b, v)'
  BY <1>1, <1>2, <1>3, <1>5, OthersKeep DEF OneCopy
<1>7. \A m \in Q!Message : m.job = v => Queued(m)' = 0
  BY <1>1, <1>2, <1>3 DEF OneCopy, Ignores
<1>8. Free(v)'
  BY <1>6, <1>7 DEF Free
<1> QED
  BY <1>1, <1>2, <1>8

(* Beyond its first place a run comes by its own steps only. *)
LEMMA RunsOn ==
  ASSUME TypeInv, [Next]_vars, NEW a \in Actors, pipe'[a].pc \notin {"idle", "load_version"}
  PROVE  pipe'[a] = pipe[a] \/ Ingest(a)
<1>1. pipe \in [Actors -> RunRec]
  BY TypeParts DEF RunsTyped
<1>2. ASSUME NEW b \in Actors, Finish(b) \/ \E v \in Versions : Start(b, v) PROVE pipe'[a] = pipe[a]
  BY <1>1, <1>2 DEF Finish, Start, NoRun
<1>3. ASSUME NEW b \in Actors, Ingest(b) PROVE pipe'[a] = pipe[a] \/ Ingest(a)
  BY <1>3, IngestMoves
<1>4. ASSUME NEW c \in Clients, Request(c) \/ Handle(c) \/ Abort(c) PROVE pipe'[a] = pipe[a]
  <2>1. CASE Request(c)
    BY <2>1 DEF Request, StartUpload, StartReindex, StartDelete, StartRollback, Accept
  <2>2. CASE Enqueue(c)
    <3>1. Job(c) \in Versions
      BY <2>2, JobIsVersion DEF Enqueue, Asked, Deleting
    <3> QED
      BY <1>2, <2>2, <3>1 DEF Enqueue, Actors
  <2>3. CASE Ingested(c) \/ Abort(c)
    BY <1>2, <2>3 DEF Ingested, Abort, Actors
  <2>4. CASE Handle(c) /\ ~ (Enqueue(c) \/ Ingested(c))
    BY <2>4 DEF Handle, PutObject, CreateDoc, CreateVersion, ReadCurrent, MarkProcessing,
       RollbackDocument, DeleteRows, DeleteObject, DeletePoints
  <2> QED
    BY <1>4, <2>1, <2>2, <2>3, <2>4
<1>5. ASSUME NEW w \in Workers,
             WorkerTakes(w) \/ WorkerReturns(w) \/ WorkerDisposes(w) \/ WorkerDies(w) \/ LinkChanges(w)
      PROVE  pipe'[a] = pipe[a]
  <2>1. CASE WorkerTakes(w)
    <3>1. \E v \in Versions : Start(w, v)
      BY <2>1 DEF WorkerTakes, Q!Message
    <3> QED
      BY <1>2, <3>1 DEF Actors
  <2>2. CASE WorkerReturns(w) \/ WorkerDies(w)
    BY <1>2, <2>2 DEF WorkerReturns, WorkerDies, Actors
  <2>3. CASE WorkerDisposes(w) \/ LinkChanges(w)
    BY <2>3 DEF WorkerDisposes, LinkChanges
  <2> QED
    BY <1>5, <2>1, <2>2, <2>3
<1>6. RetryDue \/ Redeploy \/ UNCHANGED vars => pipe' = pipe
  BY DEF RetryDue, Redeploy, vars
<1> QED
  BY <1>3, <1>4, <1>5, <1>6 DEF Next, Work, Actors

(* The invariant, and what it takes to keep it. *)
CalmInv ==
  /\ FiledInv
  /\ disruptions = 0 =>
       /\ \A a \in Actors : RunHeld(a)
       /\ \A v \in Versions : OneCopy(v) /\ Undisturbed(v)

LEMMA LetGoStays ==
  ASSUME HeldInv, \A v \in Versions : OneCopy(v) /\ Undisturbed(v),
         [Next]_vars, disruptions' = disruptions, StoresMove, StoresFiled', NEW v \in Versions
  PROVE  Undisturbed(v)'
<1>1. TypeInv /\ StoresFiled /\ (\A c \in Clients : RequestFiled(c)) /\ RunsFiled
  BY DEF HeldInv, FiledInv, Filed
<1>2. ASSUME NEW u \in Versions, Free(u), Known(u) PROVE Free(u)'
  BY <1>2, FreeStays
<1>3. \A u \in Versions : Below(u, v) /\ Known(v) => Free(u) /\ Known(u)
  BY <1>1 DEF Undisturbed, StoresFiled
<1>4. ASSUME NEW w \in Versions, Known(w), Below(v, w) PROVE Free(v)'
  BY <1>1, <1>2, <1>4 DEF Undisturbed, StoresFiled
(* The run of v at a place from which it lets v go. *)
<1>5. ASSUME NEW a \in Actors, Ingest(a), pipe[a].job = v, pipe'[a].pc \in Past PROVE Free(v)'
  <2>1. CASE pipe[a].pc \in Past
    <3>1. Free(v) /\ Known(v)
      BY <1>5, <2>1, IngestMoves, RunsAreKnown DEF Undisturbed, HeldInv, FiledInv
    <3> QED
      BY <1>2, <3>1
  <2>2. CASE pipe[a].pc \notin Past
    BY <1>5, <2>2, PassedIsFree
  <2> QED
    BY <2>1, <2>2
<1>6. ASSUME NEW u \in Versions, Below(u, v), Known(v)' PROVE Free(u)'
  <2>1. CASE Known(v)
    BY <1>2, <1>3, <1>6, <2>1
  <2>2. CASE ~ Known(v)
    <3>1. PICK c \in Clients : Inserts(c) /\ v = Job(c)
      BY <1>6, <2>2 DEF StoresMove, Marks, PointsBy, PointsTo, Creates, Deletes, PointsFor, Inserts,
         Known, SameStatus, Exists
    <3>2. DocOf(u) = Doc(c) /\ NumOf(u) < client[c].num
      BY <1>1, <1>6, <3>1, JobIsVersion DEF Inserts, Below, Deleting
    <3>3. Free(u) /\ Known(u)
      BY <1>1, <3>1, <3>2 DEF Inserts, Undisturbed, RequestFiled, Reading
    <3> QED
      BY <1>2, <3>3
  <2> QED
    BY <2>1, <2>2
<1>7. ASSUME NumOf(v) <= docs'[DocOf(v)].current PROVE Free(v)'
  <2>1. CASE NumOf(v) <= docs[DocOf(v)].current
    BY <1>1, <1>2, <2>1 DEF Undisturbed, StoresFiled
  <2>2. ASSUME NEW w \in Versions, Known(w), NEW n \in Nat, PointsTo(DocOf(w), n), n <= NumOf(w),
               ~ (NumOf(v) <= docs[DocOf(v)].current)
        PROVE  (v = w /\ n = NumOf(w)) \/ Below(v, w)
    <3>1. DocOf(v) = DocOf(w) /\ NumOf(v) <= n
      BY <1>7, <2>2, VersionNumbers DEF PointsTo
    <3>2. NumOf(v) = NumOf(w) => v = w
      BY <3>1 DEF Versions, DocOf, NumOf
    <3> QED
      BY <2>2, <3>1, <3>2, VersionNumbers, SizesAssumption DEF Below
  <2>3. ASSUME NEW a \in Actors, PointsBy(a), ~ (NumOf(v) <= docs[DocOf(v)].current) PROVE Free(v)'
    <3>1. pipe[a].job \in Versions /\ Known(pipe[a].job)
      BY <2>3, RunsAreKnown DEF PointsBy, HeldInv, FiledInv
    <3>2. CASE At(a, "ready_doc")
      <4>1. pipe'[a].pc \in Past
        BY <1>1, <2>3, <3>2, IngestMoves DEF PointsBy, At, Follows, Past, Tidying
      <4>2. v = pipe[a].job \/ Below(v, pipe[a].job)
        BY <2>2, <2>3, <3>1, <3>2, VersionNumbers, SizesAssumption DEF PointsBy
      <4> QED
        BY <1>4, <1>5, <2>3, <3>1, <4>1, <4>2 DEF PointsBy
    <3>3. CASE ~ At(a, "ready_doc")
      <4>1. Below(v, pipe[a].job)
        BY <2>2, <2>3, <3>1, <3>3, VersionNumbers, SizesAssumption DEF PointsBy, Fallback
      <4> QED
        BY <1>4, <3>1, <4>1
    <3> QED
      BY <3>2, <3>3
  <2>4. ASSUME NEW c \in Clients, PointsFor(c), ~ (NumOf(v) <= docs[DocOf(v)].current) PROVE Free(v)'
    <3>1. /\ Job(c) \in Versions /\ DocOf(Job(c)) = Doc(c) /\ NumOf(Job(c)) = client[c].num
          /\ client[c].num \in 1 .. MaxVersion /\ Known(Job(c))
      BY <1>1, <2>4, JobIsVersion DEF PointsFor, Deleting, RequestFiled, Holding
    <3>2. CASE client[c].pc = "rollback"
      <4>1. v = Job(c) \/ Below(v, Job(c))
        BY <2>2, <2>4, <3>1, <3>2, SizesAssumption DEF PointsFor
      <4>2. v = Job(c) => Free(v) /\ Known(v)
        BY <3>1, <3>2 DEF Undisturbed
      <4> QED
        BY <1>2, <1>4, <3>1, <4>1, <4>2
    <3>3. CASE client[c].pc # "rollback"
      <4>1. Below(v, Job(c))
        BY <2>2, <2>4, <3>1, <3>3, SizesAssumption DEF PointsFor
      <4> QED
        BY <1>4, <3>1, <4>1
    <3> QED
      BY <3>2, <3>3
  <2>5. (\E a \in Actors : PointsBy(a)) \/ (\E c \in Clients : PointsFor(c))
        \/ NumOf(v) <= docs[DocOf(v)].current
    BY <1>7, VersionNumbers, SizesAssumption DEF StoresMove, Marks, Inserts, Creates, Deletes
  <2> QED
    BY <2>1, <2>3, <2>4, <2>5
<1>8. ASSUME NEW c \in Clients, client'[c].pc \in Reading, DocOf(v) = client'[c].doc, NumOf(v) < client'[c].num
      PROVE  Free(v)'
  <2>1. RequestMove(c)
    BY <1>1, RequestsMove
  <2>2. CASE client[c].pc \in Reading /\ client'[c].doc = client[c].doc /\ client'[c].num = client[c].num
    BY <1>1, <1>2, <1>8, <2>2 DEF Undisturbed, RequestFiled, Doc
  <2>3. CASE client[c].pc = "create_doc" /\ client'[c].num = client[c].num
    BY <1>1, <1>8, <2>3, VersionNumbers DEF RequestFiled, Creating
  <2>4. CASE Begins(c)
    <3>1. client'[c].num = docs[client'[c].doc].current + 1 /\ client'[c].doc \in Docs
      BY <1>8, <2>4 DEF Begins, Reading, Creating
    <3>2. NumOf(v) <= docs[DocOf(v)].current
      BY <1>1, <1>8, <3>1, VersionNumbers, DocsTyped
    <3> QED
      BY <1>1, <1>2, <3>2 DEF Undisturbed, StoresFiled
  <2> QED
    BY <1>8, <2>1, <2>2, <2>3, <2>4 DEF RequestMove, GoesOn, Idle, Reading
<1>9. ASSUME NEW a \in Actors, pipe'[a].pc \in Past, pipe'[a].job = v PROVE Free(v)'
  <2>1. CASE Ingest(a)
    BY <1>1, <1>5, <1>9, <2>1, IngestMoves
  <2>2. CASE pipe'[a] = pipe[a]
    <3>1. pipe[a].pc # "idle"
      BY <1>9, <2>2 DEF Past, Tidying
    <3> QED
      BY <1>2, <1>9, <2>2, <3>1, RunsAreKnown DEF Undisturbed, HeldInv
  <2> QED
    BY <1>1, <1>9, <2>1, <2>2, RunsOn DEF Past, Tidying
<1>10. ASSUME "rollback" \in Ops, versions'[v].status = "ready" PROVE Free(v)'
  <2>1. CASE versions[v].status = "ready"
    BY <1>2, <1>10, <2>1 DEF Undisturbed, Known
  <2>2. CASE versions[v].status # "ready"
    <3>1. PICK a \in Actors : Marks(a) /\ At(a, "ready_version") /\ pipe[a].job = v
      BY <1>10, <2>2 DEF StoresMove, Marks, PointsBy, PointsTo, Creates, Deletes, PointsFor, Inserts,
         SameStatus
    <3>2. pipe'[a].pc = "ready_doc"
      BY <1>1, <3>1, IngestMoves DEF Marks, At, Follows
    <3> QED
      BY <1>5, <1>10, <3>1, <3>2 DEF Marks, Past
  <2> QED
    BY <2>1, <2>2
<1>11. ASSUME NEW c \in Clients, client'[c].pc = "rollback", Job(c)' = v PROVE Free(v)'
  <2>1. RequestMove(c)
    BY <1>1, RequestsMove
  <2>2. CASE client'[c] = client[c]
    BY <1>1, <1>2, <1>11, <2>2 DEF Undisturbed, RequestFiled, Holding, Job
  <2>3. CASE Begins(c)
    BY <1>2, <1>11, <2>3 DEF Begins, Undisturbed, Creating, Job, Known
  <2> QED
    BY <1>11, <2>1, <2>2, <2>3 DEF RequestMove, GoesOn, Idle
<1> QED
  BY <1>6, <1>7, <1>8, <1>9, <1>10, <1>11 DEF Undisturbed, Doc

LEMMA DisruptionsGrow ==
  ASSUME QueueTyped, [Q!Next]_(Q!vars), disruptions' = 0
  PROVE  disruptions = 0
<1>1. ASSUME NEW v \in Versions, Q!Offer(v) PROVE disruptions' \in {disruptions, disruptions + 1}
  BY <1>1 DEF Q!Offer, Q!Enqueue, Q!EnqueueFails, Q!EnqueueLost
<1>2. ASSUME NEW w \in Workers, Q!Consume(w) PROVE disruptions' = disruptions
  BY <1>2 DEF Q!Consume, Q!Deliver, Q!HandlerOk, Q!HandlerErr, Q!PublishRetry, Q!PublishDLQ,
     Q!Ack, Q!GiveUp
<1>3. ASSUME NEW w \in Workers, Q!Disrupt(w) PROVE disruptions' \in {disruptions, disruptions + 1}
  BY <1>3 DEF Q!Disrupt, Q!PublishFails, Q!Crash, Q!ConnectionLost, Q!Restart
<1>4. ASSUME NEW m \in Q!Message, Q!Expire(m) PROVE disruptions' = disruptions
  BY <1>4 DEF Q!Expire
<1>5. UNCHANGED Q!vars => disruptions' = disruptions
  BY DEF Q!vars
<1> QED
  BY <1>1, <1>2, <1>3, <1>4, <1>5 DEF Q!Next, QueueTyped

LEMMA CalmInit == Init => CalmInv
<1> SUFFICES ASSUME Init PROVE CalmInv
  OBVIOUS
<1>1. FiledInv
  BY FiledInit
<1>2. \A a \in Actors : pipe[a].pc = "idle" /\ pipe[a].job = NoMessage
  BY DEF Init, NoRun
<1>3. \A w \in Workers : phase[w] = "idle"
  BY DEF Init, Q!Init
<1>4. \A a \in Actors : RunHeld(a)
  BY <1>2, <1>3 DEF RunHeld
<1>5. \A v \in Versions : ~ Known(v) /\ Free(v)
  BY <1>1, <1>4, TokenIsKnown DEF HeldInv, Init, Known, Absent
<1>6. ASSUME NEW v \in Versions PROVE OneCopy(v) /\ Undisturbed(v)
  BY <1>5 DEF Free, OneCopy, Undisturbed
<1> QED
  BY <1>1, <1>4, <1>6 DEF CalmInv

LEMMA CalmStep == CalmInv /\ [Next]_vars => CalmInv'
<1> SUFFICES ASSUME CalmInv, [Next]_vars PROVE CalmInv'
  OBVIOUS
<1>1. FiledInv' /\ StoresMove /\ StoresFiled'
  BY FiledStep, StoresMoves DEF CalmInv, FiledInv, Filed
<1>2. CASE disruptions' = 0
  <2>1. disruptions = 0
    BY <1>2, NextRefines, DisruptionsGrow DEF CalmInv, FiledInv
  <2>2. /\ HeldInv /\ disruptions' = disruptions
        /\ \A v \in Versions : OneCopy(v) /\ Undisturbed(v)
    BY <1>2, <2>1 DEF CalmInv, HeldInv
  <2>3. \A a \in Actors : RunHeld(a)'
    BY <2>2, HeldStays
  <2>4. \A v \in Versions : OneCopy(v)' /\ Undisturbed(v)'
    BY <1>1, <2>2, OneCopyStays, LetGoStays
  <2> QED
    BY <1>1, <2>3, <2>4 DEF CalmInv
<1>3. CASE disruptions' # 0
  BY <1>1, <1>3 DEF CalmInv
<1> QED
  BY <1>2, <1>3

LEMMA CalmHolds == Spec => []CalmInv
BY CalmInit, CalmStep, PTL DEF Spec

LEMMA OneInFlight ==
  ASSUME CalmInv, disruptions = 0, "rollback" \notin Ops
  PROVE  SingleFlight
<1>1. /\ HeldInv
      /\ \A v \in Versions : OneCopy(v) /\ Undisturbed(v)
  BY DEF CalmInv, HeldInv
<1>2. ASSUME NEW v \in Versions, Building(v) PROVE Known(v) /\ ~ Free(v)
  <2>1. CASE Q!Waiting(v)
    BY <1>1, <2>1 DEF Q!Waiting, HeldInv, FiledInv, Filed, JobsAmong, AllKnown, QueueTyped, Free, Queued
  <2>2. ASSUME NEW w \in Workers, phase[w] = "erred", msg[w].job = v PROVE Known(v) /\ ~ Free(v)
    BY <1>1, <2>2 DEF HeldInv, FiledInv, Filed, JobsAmong, AllKnown, Free, Has, Erred, Actors
  <2>3. ASSUME NEW a \in Actors, pipe[a].job = v, pipe[a].pc \notin Tidying PROVE Known(v) /\ ~ Free(v)
    <3>1. Running(a, v) /\ pipe[a].pc # "idle"
      BY <1>1, <2>3, NoVersionAssumption DEF Running, Past, HeldInv, RunHeld
    <3> QED
      BY <1>1, <2>3, <3>1, RunsAreKnown DEF Free, Has, HeldInv
  <2> QED
    BY <1>2, <2>1, <2>2, <2>3 DEF Building
<1>3. ASSUME NEW v \in Versions, NEW u \in Versions, Building(v), Building(u), Below(u, v) PROVE FALSE
  BY <1>1, <1>2, <1>3 DEF Undisturbed
<1>4. ASSUME NEW v \in Versions, NEW u \in Versions, DocOf(v) = DocOf(u), v # u
      PROVE  Below(u, v) \/ Below(v, u)
  <2>1. NumOf(v) # NumOf(u)
    BY <1>4 DEF Versions, DocOf, NumOf
  <2> QED
    BY <1>4, <2>1, VersionNumbers DEF Below
<1> QED
  BY <1>3, <1>4 DEF SingleFlight

(* Nothing locks a document, yet two of its versions are never being built  *)
(* at once, however many requests and workers there are: until the queue or *)
(* a worker fails for the first time, and when no rollback makes an old     *)
(* number current while a later one is under way.                           *)
THEOREM BuildsOneAtATime ==
  ASSUME MaxDisruptions = 0, "rollback" \notin Ops
  PROVE  Spec => []SingleFlight
<1>1. CalmInv => SingleFlight
  BY OneInFlight, QueueAssumption DEF CalmInv, FiledInv, QueueTyped
<1> QED
  BY <1>1, CalmHolds, PTL

LEMMA NeverBack ==
  ASSUME CalmInv, CalmInv', [Next]_vars, disruptions' = 0, "rollback" \notin Ops,
         NEW d \in Docs, Live(d)'
  PROVE  docs'[d].current >= docs[d].current
<1>1. disruptions = 0
  BY NextRefines, DisruptionsGrow DEF CalmInv, FiledInv
<1>2. HeldInv /\ TypeInv /\ \A v \in Versions : OneCopy(v) /\ Undisturbed(v)
  BY <1>1 DEF CalmInv, HeldInv, FiledInv
<1>3. StoresMove
  BY <1>2, StoresMoves
<1>4. docs[d].current \in Nat /\ docs'[d].current \in Nat
  BY <1>2, DocsTyped, SizesAssumption DEF CalmInv, FiledInv, TypeInv, TypeOK
(* whoever has a version still finds its document before it *)
<1>5. ASSUME NEW v \in Versions, DocOf(v) = d, ~ Free(v) PROVE docs[d].current <= NumOf(v) - 1
  BY <1>2, <1>4, <1>5, VersionNumbers, SizesAssumption DEF Undisturbed
<1>6. ASSUME NEW a \in Actors, PointsBy(a) PROVE docs'[d].current >= docs[d].current
  <2>1. PICK v \in Versions : v = pipe[a].job
    BY <1>6 DEF PointsBy
  <2>2. ~ Free(v)
    BY <1>6, <2>1 DEF PointsBy, Free, Has, Running, Past, Tidying
  <2> QED
    BY <1>4, <1>5, <1>6, <2>1, <2>2, VersionNumbers, SizesAssumption DEF PointsBy, PointsTo, Fallback
<1>7. ASSUME NEW c \in Clients, PointsFor(c) PROVE docs'[d].current >= docs[d].current
  <2>1. client[c].pc = "mark_processing" /\ Job(c) \in Versions
    BY <1>2, <1>7 DEF PointsFor, CalmInv, FiledInv, Filed, RequestFiled
  <2>2. DocOf(Job(c)) = Doc(c) /\ NumOf(Job(c)) = client[c].num /\ client[c].num \in 1 .. MaxVersion
    BY <1>2, <2>1, JobIsVersion DEF Deleting
  <2>3. ~ Free(Job(c))
    BY <2>1 DEF Free, Has, Asks, Actors
  <2> QED
    BY <1>4, <1>5, <1>7, <2>1, <2>2, <2>3, SizesAssumption DEF PointsFor, PointsTo
<1>8. ASSUME NEW c \in Clients, Creates(c) PROVE docs'[d].current >= docs[d].current
  <2>1. ~ Live(Doc(c)) => docs[Doc(c)].current = 0
    BY <1>8 DEF Creates, CalmInv, FiledInv, Filed, StoresFiled
  <2>2. ~ Live(Doc(c))
    BY <1>8 DEF Creates, CalmInv, FiledInv, Filed, RequestFiled, Creating, Live, Born
  <2> QED
    BY <1>4, <1>8, <2>1, <2>2 DEF Creates
<1>9. ASSUME NEW c \in Clients, Deletes(c) PROVE docs'[d].current >= docs[d].current
  BY <1>4, <1>9 DEF Deletes, Live
<1> QED
  BY <1>3, <1>4, <1>6, <1>7, <1>8, <1>9 DEF StoresMove, Marks, Inserts

(* A document that is not rolled back never goes back to an older version:  *)
(* a run that fails leaves current_version where it is, one that ends moves *)
(* it on, in whatever order they come.                                      *)
THEOREM NeverGoesBack ==
  ASSUME MaxDisruptions = 0, "rollback" \notin Ops
  PROVE  Spec => CurrentMonotone
<1>1. CalmInv /\ [Next]_vars => CalmInv'
  BY CalmStep
<1>2. CalmInv' => disruptions' = 0
  BY QueueAssumption DEF CalmInv, FiledInv, QueueTyped
<1>3. ASSUME CalmInv, [Next]_vars PROVE [\A d \in Docs : Live(d)' => docs'[d].current >= docs[d].current]_vars
  BY <1>1, <1>2, <1>3, NeverBack
<1>4. CalmInv /\ [Next]_vars => [\A d \in Docs : Live(d)' => docs'[d].current >= docs[d].current]_vars
  BY <1>3
<1> QED
  BY <1>4, CalmHolds, PTL DEF Spec, CurrentMonotone

-----------------------------------------------------------------------------
(* A chunk row without its points would never be found: the points are      *)
(* there before the rows, and a run that removes those of the version       *)
(* before its own removes the rows first.                                   *)
Indexes ==
  /\ RowsHavePoints
  /\ \A a \in Actors : At(a, "commit") => Indexed(a) \subseteq points
  /\ \A a \in Actors : At(a, "clean_points") => OfVersion(rows, Old(a)) = {}

(* What a step does to the rows and the points. *)
Adds(a) ==
  \/ At(a, "upsert") /\ points' = points \cup Indexed(a) /\ rows' = rows
  \/ At(a, "commit") /\ rows' = rows \cup Indexed(a) /\ points' = points
Removes(a) ==
  \/ At(a, "clean_rows") /\ rows' = rows \ OfVersion(rows, Old(a)) /\ points' = points
  \/ At(a, "clean_points") /\ points' = points \ OfVersion(points, Old(a)) /\ rows' = rows
Purges(c) ==
  \/ /\ client[c].pc = "delete_rows" /\ Live(Doc(c))
     /\ rows' = rows \ OfDoc(rows, Doc(c)) /\ points' = points
     /\ docs'[Doc(c)].state = "dead"
  \/ client[c].pc = "delete_points" /\ points' = points \ OfDoc(points, Doc(c)) /\ rows' = rows
IndexMove ==
  \/ rows' = rows /\ points' = points
  \/ \E a \in Actors : Ingest(a) /\ (Adds(a) \/ Removes(a))
  \/ \E c \in Clients : Purges(c)

LEMMA IndexMoves ==
  ASSUME TypeInv, [Next]_vars
  PROVE  IndexMove
<1>1. ASSUME NEW c \in Clients, Request(c) \/ Abort(c) PROVE rows' = rows /\ points' = points
  BY <1>1 DEF Request, StartUpload, StartReindex, StartDelete, StartRollback, Accept, Abort, stores
<1>2. ASSUME NEW w \in Workers,
             WorkerTakes(w) \/ WorkerReturns(w) \/ WorkerDisposes(w) \/ WorkerDies(w) \/ LinkChanges(w)
      PROVE  rows' = rows /\ points' = points
  BY <1>2 DEF WorkerTakes, WorkerReturns, WorkerDisposes, WorkerDies, LinkChanges, Local, stores
<1>3. RetryDue \/ Redeploy \/ UNCHANGED vars => rows' = rows /\ points' = points
  BY DEF RetryDue, Redeploy, vars, Local, stores
<1>4. ASSUME NEW c \in Clients, Handle(c) PROVE (rows' = rows /\ points' = points) \/ Purges(c)
  <2>1. CASE DeleteRows(c)
    <3>1. Doc(c) \in Docs /\ docs \in [Docs -> DocRec]
      BY <2>1, TypeParts DEF DeleteRows, Asked, ClientsTyped, StoresTyped, Doc
    <3>2. Live(Doc(c)) => docs'[Doc(c)].state = "dead"
      BY <2>1, <3>1 DEF DeleteRows
    <3> QED
      BY <2>1, <3>2 DEF DeleteRows, Purges, Asked, mysql
  <2>2. CASE DeletePoints(c)
    BY <2>2 DEF DeletePoints, Purges, Asked, mysql
  <2>3. CASE ~ (DeleteRows(c) \/ DeletePoints(c))
    BY <1>4, <2>3 DEF Handle, PutObject, CreateDoc, CreateVersion, ReadCurrent, MarkProcessing,
       Enqueue, Ingested, RollbackDocument, DeleteObject, stores, mysql
  <2> QED
    BY <2>1, <2>2, <2>3
<1>5. ASSUME NEW a \in Actors, Ingest(a) PROVE (rows' = rows /\ points' = points) \/ Adds(a) \/ Removes(a)
  <2>1. CASE Upsert(a) \/ Commit(a) \/ CleanRows(a) \/ CleanPoints(a)
    BY <2>1 DEF Upsert, Commit, CleanRows, CleanPoints, Adds, Removes, mysql
  <2>2. CASE StepFails(a)
    BY <2>2 DEF StepFails, Adds, Removes, mysql, stores
  <2>3. CASE ~ (Upsert(a) \/ Commit(a) \/ CleanRows(a) \/ CleanPoints(a) \/ StepFails(a))
    BY <1>5, <2>3 DEF Ingest, PipelineStep, LoadVersion, LoadDoc, Parse, ReadyVersion, ReadyDoc,
       LookupOld, FailVersion, FailDoc, stores, mysql
  <2> QED
    BY <2>1, <2>2, <2>3
<1> QED
  BY <1>1, <1>2, <1>3, <1>4, <1>5 DEF Next, Work, IndexMove, Actors

LEMMA IntoCommit ==
  ASSUME TypeInv, [Next]_vars, NEW a \in Actors, pipe'[a].pc = "commit"
  PROVE  \/ pipe'[a] = pipe[a]
         \/ /\ At(a, "upsert") /\ points' = points \cup Indexed(a)
            /\ pipe'[a].job = pipe[a].job /\ pipe'[a].size = pipe[a].size
<1>1. CASE Ingest(a)
  <2>1. /\ pipe[a].pc \in Steps \ {"idle", "done", "failed"} /\ pipe'[a].pc \in Follows(pipe[a].pc)
        /\ pipe'[a].job = pipe[a].job /\ (~ At(a, "parse") => pipe'[a].size = pipe[a].size)
    BY <1>1, IngestMoves
  <2>2. At(a, "upsert")
    BY <2>1 DEF At, Follows, Steps
  <2>3. ~ StepFails(a)
    <3>1. StepFails(a) => pipe'[a].pc = OnError(a)
      BY TypeParts DEF StepFails, Goto, RunsTyped, RunRec
    <3> QED
      BY <2>2, <3>1 DEF OnError, At
  <2>4. Upsert(a)
    BY <1>1, <2>2, <2>3 DEF Ingest, PipelineStep, LoadVersion, LoadDoc, Parse, Commit, ReadyVersion,
       ReadyDoc, LookupOld, CleanRows, CleanPoints, FailVersion, FailDoc, At
  <2> QED
    BY <2>1, <2>2, <2>4 DEF Upsert, At
<1>2. CASE ~ Ingest(a)
  BY <1>2, RunsOn
<1> QED
  BY <1>1, <1>2

LEMMA IntoCleanPoints ==
  ASSUME TypeInv, [Next]_vars, NEW a \in Actors, pipe'[a].pc = "clean_points"
  PROVE  \/ pipe'[a] = pipe[a]
         \/ /\ At(a, "clean_rows") /\ rows' = rows \ OfVersion(rows, Old(a))
            /\ pipe'[a].job = pipe[a].job
<1>1. CASE Ingest(a)
  <2>1. /\ pipe[a].pc \in Steps \ {"idle", "done", "failed"} /\ pipe'[a].pc \in Follows(pipe[a].pc)
        /\ pipe'[a].job = pipe[a].job
    BY <1>1, IngestMoves
  <2>2. At(a, "clean_rows")
    BY <2>1 DEF At, Follows, Steps
  <2>3. ~ StepFails(a)
    <3>1. StepFails(a) => pipe'[a].pc = OnError(a)
      BY TypeParts DEF StepFails, Goto, RunsTyped, RunRec
    <3> QED
      BY <2>2, <3>1 DEF OnError, At
  <2>4. CleanRows(a)
    BY <1>1, <2>2, <2>3 DEF Ingest, PipelineStep, LoadVersion, LoadDoc, Parse, Upsert, Commit,
       ReadyVersion, ReadyDoc, LookupOld, CleanPoints, FailVersion, FailDoc, At
  <2> QED
    BY <2>1, <2>2, <2>4 DEF CleanRows
<1>2. CASE ~ Ingest(a)
  BY <1>2, RunsOn
<1> QED
  BY <1>1, <1>2

(* A run never cleans up a version that another run is still indexing. *)
LEMMA OldIsNotInWork ==
  ASSUME HeldInv, \A v \in Versions : OneCopy(v) /\ Undisturbed(v),
         NEW a \in Actors, pipe[a].pc \notin Past \cup {"idle"},
         NEW b \in Actors, pipe[b].pc # "idle"
  PROVE  pipe[a].job # Old(b)
<1> SUFFICES ASSUME pipe[a].job = Old(b) PROVE FALSE
  OBVIOUS
<1>1. PICK v \in Versions : v = pipe[a].job
  BY RunsAreKnown DEF HeldInv
<1>2. pipe[b].job \in Versions /\ Known(pipe[b].job)
  BY RunsAreKnown DEF HeldInv
<1>3. Below(v, pipe[b].job)
  BY <1>1, <1>2, VersionNumbers, SizesAssumption DEF Old, Below, DocOf, NumOf, Fallback
<1>4. Free(v)
  BY <1>2, <1>3 DEF Undisturbed
<1> QED
  BY <1>1, <1>4 DEF Free, Has, Running

IndexInv == CalmInv /\ (disruptions = 0 => Indexes)

LEMMA IndexStep ==
  ASSUME IndexInv, [Next]_vars, "delete" \notin Ops
  PROVE  IndexInv'
<1>1. CalmInv'
  BY CalmStep DEF IndexInv
<1> SUFFICES ASSUME disruptions' = 0 PROVE Indexes'
  BY <1>1 DEF IndexInv
<1>2. disruptions = 0
  BY NextRefines, DisruptionsGrow DEF IndexInv, CalmInv, FiledInv
<1>3. /\ HeldInv /\ TypeInv /\ Indexes
      /\ \A v \in Versions : OneCopy(v) /\ Undisturbed(v)
  BY <1>2 DEF IndexInv, CalmInv, HeldInv, FiledInv
<1>4. \/ rows' = rows /\ points' = points
      \/ \E a \in Actors : Adds(a) \/ Removes(a)
  <2>1. ASSUME NEW c \in Clients, Purges(c) PROVE FALSE
    BY <1>3, <2>1 DEF Purges, HeldInv, FiledInv, Filed, RequestFiled, Deleting
  <2> QED
    BY <1>3, <2>1, IndexMoves DEF IndexMove
<1>5. ASSUME NEW a \in Actors, At(a, "commit"), NEW b \in Actors,
             pipe[b].pc \in {"clean_rows", "clean_points"}
      PROVE  pipe[a].job # Old(b)
  BY <1>3, <1>5, OldIsNotInWork DEF At, Past, Tidying
<1>6. RowsHavePoints'
  BY <1>3, <1>4 DEF Indexes, RowsHavePoints, Adds, Removes, OfVersion
<1>7. ASSUME NEW a \in Actors, At(a, "commit")' PROVE Indexed(a)' \subseteq points'
  <2>1. CASE pipe'[a] = pipe[a]
    <3>1. At(a, "commit") /\ Indexed(a)' = Indexed(a) /\ Indexed(a) \subseteq points
      BY <1>3, <1>7, <2>1 DEF At, Indexed, Indexes
    <3>2. \A x \in Indexed(a) : x[1] = pipe[a].job
      BY DEF Indexed, ChunksOf
    <3>3. \A x \in points \ points' : \E b \in Actors : At(b, "clean_points") /\ x[1] = Old(b)
      BY <1>4 DEF Adds, Removes, OfVersion
    <3> QED
      BY <1>5, <3>1, <3>2, <3>3 DEF At
  <2>2. CASE pipe'[a] # pipe[a]
    BY <1>3, <1>7, <2>2, IntoCommit DEF At, Indexed
  <2> QED
    BY <2>1, <2>2
<1>8. ASSUME NEW a \in Actors, At(a, "clean_points")' PROVE OfVersion(rows', Old(a)') = {}
  <2>1. CASE pipe'[a] = pipe[a]
    <3>1. At(a, "clean_points") /\ Old(a)' = Old(a) /\ OfVersion(rows, Old(a)) = {}
      BY <1>3, <1>8, <2>1 DEF At, Old, Indexes
    <3>2. \A x \in rows' \ rows : \E b \in Actors : At(b, "commit") /\ x[1] = pipe[b].job
      BY <1>4 DEF Adds, Removes, Indexed, ChunksOf
    <3> QED
      BY <1>5, <3>1, <3>2 DEF OfVersion, At
  <2>2. CASE pipe'[a] # pipe[a]
    <3>1. rows' = rows \ OfVersion(rows, Old(a)) /\ Old(a)' = Old(a)
      BY <1>3, <1>8, <2>2, IntoCleanPoints DEF At, Old
    <3> QED
      BY <3>1 DEF OfVersion
  <2> QED
    BY <2>1, <2>2
<1> QED
  BY <1>6, <1>7, <1>8 DEF Indexes

(* A chunk row of MySQL always has its point in Qdrant, although no         *)
(* transaction spans the two stores: whatever call of the pipeline fails,   *)
(* and with it half done, as long as no document is deleted and no delivery *)
(* is disturbed (a deletion overtakes a run that is writing; a redelivered  *)
(* run cleans up behind one that still writes).                             *)
THEOREM RowsCanBeFound ==
  ASSUME MaxDisruptions = 0, "delete" \notin Ops
  PROVE  Spec => []RowsHavePoints
<1>1. Init => IndexInv
  BY CalmInit DEF Init, IndexInv, Indexes, RowsHavePoints, At, NoRun
<1>2. IndexInv /\ [Next]_vars => IndexInv'
  BY IndexStep
<1>3. IndexInv => RowsHavePoints
  BY QueueAssumption DEF IndexInv, Indexes, CalmInv, FiledInv, QueueTyped
<1> QED
  BY <1>1, <1>2, <1>3, PTL DEF Spec

-----------------------------------------------------------------------------
(* As long as no call failed either, the current version can be found: what *)
(* the document points to was indexed whole, and only a later version that  *)
(* is ready takes its index away.                                           *)

(* A version is ready only when the work on it is over, but for the last    *)
(* mark on the document.                                                    *)
ReadyIsDone(v) ==
  versions[v].status = "ready" =>
    /\ \A m \in Q!Message : m.job = v => Queued(m) = 0
    /\ \A a \in Actors : Has(a, v) => pipe[a].job = v /\ At(a, "ready_doc")

(* A run under way is let alone, goes on, or ends. *)
LEMMA RunStays ==
  ASSUME HeldInv, [Next]_vars, NEW a \in Actors, pipe[a].pc # "idle"
  PROVE  \/ pipe'[a] = pipe[a] \/ Ingest(a)
         \/ /\ pipe'[a] = NoRun
            /\ disruptions' = disruptions /\ faults' = faults => pipe[a].pc \in {"done", "failed"}
<1>1. pipe \in [Actors -> RunRec] /\ RunHeld(a) /\ QueueTyped /\ faults \in Nat
  BY TypeParts, FaultsAssumption DEF RunsTyped, HeldInv, FiledInv, CountersTyped
<1>2. ASSUME NEW b \in Actors, Ingest(b) PROVE pipe'[a] = pipe[a] \/ Ingest(a)
  BY <1>2, IngestMoves DEF HeldInv, FiledInv
<1>3. ASSUME NEW b \in Actors, Finish(b) PROVE pipe'[a] = pipe[a] \/ (b = a /\ pipe'[a] = NoRun)
  BY <1>1, <1>3 DEF Finish
<1>4. ASSUME NEW b \in Actors, NEW v, Start(b, v), b # a PROVE pipe'[a] = pipe[a]
  BY <1>1, <1>4 DEF Start
<1>5. ASSUME NEW c \in Clients, Request(c) \/ Handle(c) \/ Abort(c)
      PROVE  \/ pipe'[a] = pipe[a]
             \/ /\ pipe'[a] = NoRun
                /\ disruptions' = disruptions /\ faults' = faults => pipe[a].pc \in {"done", "failed"}
  <2>1. CASE Request(c)
    BY <2>1 DEF Request, StartUpload, StartReindex, StartDelete, StartRollback, Accept
  <2>2. CASE Enqueue(c)
    <3>1. c # a
      BY <1>1, <2>2 DEF Enqueue, Asked, RunHeld
    <3> QED
      BY <1>4, <2>2, <3>1 DEF Enqueue, Actors
  <2>3. CASE Ingested(c)
    BY <1>3, <2>3 DEF Ingested, Actors
  <2>4. CASE Abort(c)
    <3>1. faults' # faults
      BY <1>1, <2>4 DEF Abort, Fault
    <3> QED
      BY <1>3, <2>4, <3>1 DEF Abort, Actors
  <2>5. CASE Handle(c) /\ ~ (Enqueue(c) \/ Ingested(c))
    BY <2>5 DEF Handle, PutObject, CreateDoc, CreateVersion, ReadCurrent, MarkProcessing,
       RollbackDocument, DeleteRows, DeleteObject, DeletePoints
  <2> QED
    BY <1>5, <2>1, <2>2, <2>3, <2>4, <2>5
<1>6. ASSUME NEW w \in Workers,
             WorkerTakes(w) \/ WorkerReturns(w) \/ WorkerDisposes(w) \/ WorkerDies(w) \/ LinkChanges(w)
      PROVE  \/ pipe'[a] = pipe[a]
             \/ /\ pipe'[a] = NoRun
                /\ disruptions' = disruptions /\ faults' = faults => pipe[a].pc \in {"done", "failed"}
  <2>1. CASE WorkerTakes(w)
    <3>1. PICK m \in Q!Message : Q!Deliver(w, m) /\ Start(w, m.job)
      BY <2>1 DEF WorkerTakes
    <3>2. w # a
      BY <1>1, <3>1 DEF Q!Deliver, RunHeld
    <3> QED
      BY <1>4, <3>1, <3>2 DEF Actors
  <2>2. CASE WorkerReturns(w)
    BY <1>3, <2>2 DEF WorkerReturns, Actors, At
  <2>3. CASE WorkerDies(w)
    <3>1. disruptions' # disruptions
      BY <1>1, <2>3, QueueAssumption DEF WorkerDies, Q!Crash, QueueTyped
    <3> QED
      BY <1>3, <2>3, <3>1 DEF WorkerDies, Actors
  <2>4. CASE WorkerDisposes(w) \/ LinkChanges(w)
    BY <2>4 DEF WorkerDisposes, LinkChanges
  <2> QED
    BY <1>6, <2>1, <2>2, <2>3, <2>4
<1>7. RetryDue \/ Redeploy \/ UNCHANGED vars => pipe' = pipe
  BY DEF RetryDue, Redeploy, vars
<1> QED
  BY <1>2, <1>5, <1>6, <1>7 DEF Next, Work, Actors

LEMMA ErredByFailure ==
  ASSUME QueueTyped, [Next]_vars, NEW w \in Workers, phase'[w] = "erred"
  PROVE  phase[w] = "erred" \/ pipe[w].pc = "failed"
<1>1. phase \in [Workers -> Q!Phases]
  BY DEF QueueTyped
<1>2. ASSUME NEW c \in Clients, Request(c) \/ Handle(c) \/ Abort(c) PROVE phase' = phase
  <2>1. CASE Request(c)
    BY <2>1 DEF Request, StartUpload, StartReindex, StartDelete, StartRollback, Accept, queue
  <2>2. CASE Enqueue(c)
    BY <2>2 DEF Enqueue, Q!Enqueue, Q!EnqueueLost, Q!EnqueueFails, Q!consumer, queue
  <2>3. CASE Abort(c) \/ (Handle(c) /\ ~ Enqueue(c))
    BY <2>3 DEF Abort, Handle, PutObject, CreateDoc, CreateVersion, ReadCurrent, MarkProcessing,
       Ingested, RollbackDocument, DeleteRows, DeleteObject, DeletePoints, queue
  <2> QED
    BY <1>2, <2>1, <2>2, <2>3
<1>3. ASSUME NEW a \in Actors, Ingest(a) PROVE phase' = phase
  BY <1>3 DEF Ingest, queue
<1>4. ASSUME NEW x \in Workers, WorkerTakes(x) \/ WorkerReturns(x)
      PROVE  phase[w] = "erred" \/ pipe[w].pc = "failed"
  BY <1>1, <1>4 DEF WorkerTakes, WorkerReturns, Q!Deliver, Q!HandlerOk, Q!HandlerErr, At
<1>5. ASSUME NEW x \in Workers, WorkerDisposes(x) \/ WorkerDies(x) \/ LinkChanges(x)
      PROVE  phase[w] = "erred" \/ pipe[w].pc = "failed"
  BY <1>1, <1>5 DEF WorkerDisposes, WorkerDies, LinkChanges, Q!PublishRetry, Q!PublishDLQ, Q!Ack,
     Q!GiveUp, Q!Crash, Q!PublishFails, Q!ConnectionLost, Q!Restart, Q!BackToIdle
<1>6. RetryDue \/ Redeploy \/ UNCHANGED vars => phase' = phase
  BY DEF RetryDue, Redeploy, vars, queue, Q!Expire, Q!consumer
<1> QED
  BY <1>2, <1>3, <1>4, <1>5, <1>6 DEF Next, Work, Actors

(* Whoever has v after marking it ready has it for the mark on the document. *)
LEMMA StillAtReadyDoc ==
  ASSUME HeldInv, [Next]_vars, NEW a \in Actors, NEW v \in Versions,
         pipe[a].job = v, At(a, "ready_doc"), Has(a, v)'
  PROVE  pipe'[a].job = v /\ At(a, "ready_doc")'
<1>1. RunHeld(a) /\ pipe[a].pc = "ready_doc"
  BY DEF HeldInv, At
<1>2. CASE Running(a, v)'
  <2>1. CASE pipe'[a] = pipe[a]
    BY <1>1, <2>1 DEF At
  <2>2. CASE Ingest(a)
    <3>1. pipe'[a].pc \in Past
      BY <1>1, <2>2, IngestMoves DEF HeldInv, FiledInv, Follows, Past, Tidying
    <3> QED
      BY <1>2, <3>1 DEF Running
  <2>3. CASE pipe'[a] = NoRun
    BY <1>2, <2>3, NoVersionAssumption DEF Running, NoRun
  <2> QED
    BY <1>1, <2>1, <2>2, <2>3, RunStays
<1>3. CASE Asks(a, v)'
  <2>1. a \in Clients /\ client[a].pc = "ingest" /\ client'[a].pc \in {"mark_processing", "enqueue"}
    BY <1>1, <1>3 DEF Asks, RunHeld
  <2>2. RequestMove(a)
    BY <2>1, RequestsMove DEF HeldInv, FiledInv
  <2> QED
    BY <2>1, <2>2 DEF RequestMove, Idle, Begins, GoesOn
<1>4. CASE Erred(a, v)'
  <2>1. a \in Workers /\ phase'[a] = "erred" /\ phase[a] = "running"
    BY <1>1, <1>4 DEF Erred, RunHeld
  <2> QED
    BY <1>1, <2>1, ErredByFailure DEF HeldInv, FiledInv
<1> QED
  BY <1>2, <1>3, <1>4 DEF Has

LEMMA ReadyIsDoneStays ==
  ASSUME HeldInv, [Next]_vars, disruptions' = disruptions, StoresMove,
         NEW v \in Versions, OneCopy(v), ReadyIsDone(v)
  PROVE  ReadyIsDone(v)'
<1> SUFFICES ASSUME versions'[v].status = "ready"
             PROVE  /\ \A m \in Q!Message : m.job = v => Queued(m)' = 0
                    /\ \A a \in Actors : Has(a, v)' => pipe'[a].job = v /\ At(a, "ready_doc")'
  BY DEF ReadyIsDone
<1>1. CASE versions[v].status = "ready"
  <2>1. /\ \A m \in Q!Message : m.job = v => Queued(m) = 0
        /\ \A a \in Actors : Has(a, v) => pipe[a].job = v /\ At(a, "ready_doc")
    BY <1>1 DEF ReadyIsDone
  <2>2. /\ \A m \in Q!Message : m.job = v => Queued(m)' = 0
        /\ \A a \in Actors : Has(a, v)' => Has(a, v)
    <3>1. CASE (\A a \in Actors : Has(a, v)' <=> Has(a, v)) /\ QueuedSame
      BY <2>1, <3>1 DEF QueuedSame
    <3>2. ASSUME NEW x \in Actors, Alone(x), Moves(x, v)
          PROVE  /\ \A m \in Q!Message : m.job = v => Queued(m)' = 0
                 /\ \A a \in Actors : Has(a, v)' => Has(a, v)
      <4>1. ~ Takes(x, v) /\ ~ Bears(x, v)
        BY <1>1, <2>1 DEF Takes, Bears, Known
      <4>2. ~ Gives(x, v)
        BY <2>1 DEF Gives, At
      <4> QED
        BY <2>1, <3>2, <4>1, <4>2, OthersKeep DEF Moves, Ignores
    <3> QED
      BY <3>1, <3>2, TokensMove
  <2> QED
    BY <2>1, <2>2, StillAtReadyDoc
<1>2. CASE versions[v].status # "ready"
  <2>1. PICK a \in Actors : Marks(a) /\ At(a, "ready_version") /\ pipe[a].job = v
    BY <1>2 DEF StoresMove, Marks, PointsBy, PointsTo, Creates, Deletes, PointsFor, Inserts, SameStatus
  <2>2. Alone(a) /\ Ignores(a, v) /\ pipe'[a].pc = "ready_doc" /\ pipe'[a].job = v
    BY <2>1, IngestHeld, IngestMoves DEF Marks, HeldInv, FiledInv, At, Follows
  <2>3. Has(a, v)
    BY <2>1 DEF Has, Running, At, Past, Tidying
  <2>4. \A b \in Actors : Has(b, v)' => b = a
    BY <2>2, <2>3, OthersKeep DEF OneCopy
  <2>5. \A m \in Q!Message : m.job = v => Queued(m)' = 0
    BY <2>2, <2>3 DEF OneCopy, Ignores
  <2> QED
    BY <2>2, <2>4, <2>5 DEF At
<1> QED
  BY <1>1, <1>2

Served(v)   == OfVersion(rows, v) # {} /\ OfVersion(rows, v) = OfVersion(points, v)
Followed(v) == \E u \in Versions : Below(v, u) /\ versions[u].status = "ready"
Good(v)     == Served(v) \/ Followed(v)

(* What can come to be current is good. *)
Findable(v) ==
  Live(DocOf(v)) =>
    /\ NumOf(v) <= docs[DocOf(v)].current => Good(v)
    /\ \A u \in Versions : Below(v, u) /\ Known(u) => Good(v)
    /\ \A c \in Clients : client[c].pc \in Reading /\ DocOf(v) = Doc(c) /\ NumOf(v) < client[c].num => Good(v)
    /\ versions[v].status = "ready" => Good(v)

(* How far a run has brought the index of its version. *)
Marked == {"ready_doc", "lookup_old", "clean_rows", "clean_points", "done"}
Brought(a) ==
  pipe[a].pc # "idle" /\ Live(DocOf(pipe[a].job)) =>
    /\ pipe[a].pc \in {"upsert", "commit"} => pipe[a].size > 0
    /\ At(a, "commit") => /\ OfVersion(rows, pipe[a].job) = {}
                          /\ OfVersion(points, pipe[a].job) = Indexed(a)
    /\ At(a, "ready_version") => Served(pipe[a].job)
    /\ pipe[a].pc \in Marked => versions[pipe[a].job].status = "ready"

(* The index of a version is whole, on its way, or not begun. *)
Unindexed(v) == OfVersion(rows, v) = {} /\ OfVersion(points, v) = {}
OnItsWay(v)  == \E a \in Actors : pipe[a].job = v /\ pipe[a].pc \in {"commit", "ready_version"}
Accounted(v) == ~ Dead(DocOf(v)) => Unindexed(v) \/ OnItsWay(v) \/ versions[v].status = "ready"

GoesBackToReady(c) == client[c].pc = "rollback" /\ Live(Doc(c)) => versions[Job(c)].status = "ready"

Serving ==
  /\ \A v \in Versions : Findable(v) /\ Accounted(v)
  /\ \A a \in Actors : Brought(a)
  /\ \A c \in Clients : GoesBackToReady(c)

(* A step in which nothing fails. *)
QuietStep ==
  /\ HeldInv /\ Serving
  /\ \A v \in Versions : OneCopy(v) /\ Undisturbed(v) /\ ReadyIsDone(v)
  /\ [Next]_vars /\ disruptions' = disruptions /\ faults' = faults
  /\ StoresMove /\ IndexMove

LEMMA NoStepFails ==
  ASSUME QuietStep, NEW a \in Actors, Ingest(a)
  PROVE  PipelineStep(a)
<1>1. faults \in Nat
  BY TypeParts, FaultsAssumption DEF QuietStep, HeldInv, FiledInv, CountersTyped
<1> QED
  BY <1>1 DEF Ingest, StepFails, Fault, QuietStep

LEMMA StepIs ==
  ASSUME NEW a \in Actors, PipelineStep(a)
  PROVE  /\ At(a, "upsert") => Upsert(a)
         /\ At(a, "commit") => Commit(a)
         /\ At(a, "ready_version") => ReadyVersion(a)
         /\ At(a, "parse") => Parse(a)
BY DEF PipelineStep, LoadVersion, LoadDoc, Parse, Upsert, Commit, ReadyVersion, ReadyDoc, LookupOld,
   CleanRows, CleanPoints, FailVersion, FailDoc, At

LEMMA LiveWas ==
  ASSUME QuietStep, NEW v \in Versions
  PROVE  /\ Known(v) /\ Live(DocOf(v))' => Live(DocOf(v))
         /\ ~ Dead(DocOf(v))' => ~ Dead(DocOf(v))
         /\ Known(v) /\ ~ Dead(DocOf(v)) => Live(DocOf(v)) /\ Exists(v)
<1>1. FiledInv /\ StoresMove /\ StoresFiled /\ DocOf(v) \in Docs
  BY VersionNumbers DEF QuietStep, HeldInv, FiledInv, Filed
<1>2. docs[DocOf(v)].state \in {"unborn", "live", "dead"}
  BY <1>1, DocsTyped DEF FiledInv
<1>3. (Dead(DocOf(v)) => Dead(DocOf(v))') /\ (Known(v) => Born(DocOf(v)))
      /\ (versions[v].status = "deleted" => Dead(DocOf(v)))
  BY <1>1, FiledGrows DEF StoresFiled
<1> QED
  BY <1>2, <1>3 DEF Live, Dead, Born, Exists, Known

LEMMA ReadyStays ==
  ASSUME QuietStep, NEW v \in Versions, versions[v].status = "ready", ~ Dead(DocOf(v))'
  PROVE  versions'[v].status = "ready"
<1>1. ASSUME NEW a \in Actors, Marks(a), pipe[a].job = v PROVE At(a, "ready_version")
  <2>1. pipe[a].pc \in {"ready_version", "fail_version"} /\ Has(a, v)
    BY <1>1 DEF Marks, Has, Running, Past, Tidying
  <2> QED
    BY <2>1 DEF QuietStep, ReadyIsDone, At
<1>2. ASSUME NEW c \in Clients, Deletes(c) PROVE DocOf(v) # Doc(c)
  BY <1>2 DEF Deletes, Dead
<1>3. ASSUME NEW c \in Clients, Inserts(c) PROVE Job(c) # v
  BY <1>3 DEF Inserts, Known
<1> QED
  BY <1>1, <1>2, <1>3 DEF QuietStep, StoresMove, Marks, PointsBy, PointsTo, Creates, Deletes,
     PointsFor, Inserts, SameStatus

(* The index of v is touched by the runs that build it, by those that clean *)
(* up behind the next version, and by the deletion of the document.         *)
LEMMA Untouched ==
  ASSUME QuietStep, NEW v \in Versions, Live(DocOf(v)), Live(DocOf(v))',
         \A a \in Actors : Ingest(a) /\ pipe[a].job = v => pipe[a].pc \notin {"upsert", "commit"},
         \A a \in Actors : Ingest(a) /\ pipe[a].pc \in {"clean_rows", "clean_points"} => Old(a) # v
  PROVE  OfVersion(rows, v)' = OfVersion(rows, v) /\ OfVersion(points, v)' = OfVersion(points, v)
<1>1. CASE rows' = rows /\ points' = points
  BY <1>1 DEF OfVersion
<1>2. ASSUME NEW a \in Actors, Ingest(a), Adds(a)
      PROVE  OfVersion(rows, v)' = OfVersion(rows, v) /\ OfVersion(points, v)' = OfVersion(points, v)
  <2>1. pipe[a].job # v
    BY <1>2 DEF Adds, At
  <2>2. \A x \in Indexed(a) : x[1] # v
    BY <2>1 DEF Indexed, ChunksOf
  <2> QED
    BY <1>2, <2>2 DEF Adds, OfVersion
<1>3. ASSUME NEW a \in Actors, Ingest(a), Removes(a)
      PROVE  OfVersion(rows, v)' = OfVersion(rows, v) /\ OfVersion(points, v)' = OfVersion(points, v)
  <2>1. Old(a) # v
    BY <1>3 DEF Removes, At
  <2> QED
    BY <1>3, <2>1 DEF Removes, OfVersion
<1>4. ASSUME NEW c \in Clients, Purges(c)
      PROVE  OfVersion(rows, v)' = OfVersion(rows, v) /\ OfVersion(points, v)' = OfVersion(points, v)
  <2>1. DocOf(v) # Doc(c)
    <3>1. RequestFiled(c)
      BY DEF QuietStep, HeldInv, FiledInv, Filed
    <3> QED
      BY <1>4, <3>1 DEF Purges, RequestFiled, Deleting, Live, Dead
  <2> QED
    BY <1>4, <2>1 DEF Purges, OfVersion, OfDoc
<1> QED
  BY <1>1, <1>2, <1>3, <1>4 DEF QuietStep, IndexMove

LEMMA GoodStays ==
  ASSUME QuietStep, NEW v \in Versions, Good(v), Live(DocOf(v)), Live(DocOf(v))',
         \A a \in Actors : Has(a, v) => At(a, "ready_doc")
  PROVE  Good(v)'
<1>1. CASE Followed(v)
  <2>1. PICK u \in Versions : Below(v, u) /\ versions[u].status = "ready"
    BY <1>1 DEF Followed
  <2>2. versions'[u].status = "ready"
    BY <2>1, ReadyStays DEF Below, Dead, Live
  <2> QED
    BY <2>1, <2>2 DEF Good, Followed, Below
<1>2. CASE Served(v) /\ ~ Followed(v)
  <2>1. ASSUME NEW a \in Actors, pipe[a].job = v PROVE pipe[a].pc \notin {"upsert", "commit"}
    BY <2>1 DEF Has, Running, Past, Tidying, At
  <2>2. ASSUME NEW a \in Actors, pipe[a].pc \in {"clean_rows", "clean_points"} PROVE Old(a) # v
    <3>1. SUFFICES ASSUME Old(a) = v PROVE FALSE
      OBVIOUS
    <3>2. pipe[a].job \in Versions
      BY <2>2, RunsAreKnown DEF QuietStep, HeldInv
    <3>3. Below(v, pipe[a].job)
      BY <3>1, <3>2, VersionNumbers, SizesAssumption DEF Old, Below, DocOf, NumOf, Fallback
    <3>4. versions[pipe[a].job].status = "ready"
      BY <2>2, <3>3 DEF QuietStep, Serving, Brought, Marked, Below
    <3> QED
      BY <1>2, <3>2, <3>3, <3>4 DEF Followed
  <2>3. OfVersion(rows, v)' = OfVersion(rows, v) /\ OfVersion(points, v)' = OfVersion(points, v)
    BY <2>1, <2>2, Untouched
  <2> QED
    BY <1>2, <2>3 DEF Good, Served
<1> QED
  BY <1>1, <1>2 DEF Good

(* While a run has its version, nobody else builds or cleans it up. *)
LEMMA RunIsAlone ==
  ASSUME QuietStep, NEW a \in Actors, pipe[a].pc \notin Past \cup {"idle"}, NEW b \in Actors
  PROVE  /\ pipe[b].job = pipe[a].job /\ pipe[b].pc \notin Past => b = a
         /\ pipe[b].pc # "idle" => Old(b) # pipe[a].job
<1>1. PICK v \in Versions : v = pipe[a].job
  BY RunsAreKnown DEF QuietStep, HeldInv
<1>2. Running(a, v)
  BY <1>1 DEF Running
<1>3. pipe[b].job = v /\ pipe[b].pc \notin Past => b = a
  BY <1>2 DEF QuietStep, OneCopy, Has, Running
<1>4. pipe[b].pc # "idle" => Old(b) # pipe[a].job
  BY OldIsNotInWork DEF QuietStep
<1> QED
  BY <1>1, <1>3, <1>4

LEMMA BroughtStays ==
  ASSUME QuietStep, NEW a \in Actors
  PROVE  Brought(a)'
<1> SUFFICES ASSUME pipe'[a].pc # "idle", docs'[DocOf(pipe'[a].job)].state = "live"
             PROVE  Brought(a)'
  BY DEF Brought, Live
<1>1. CASE pipe'[a].pc = "load_version"
  BY <1>1 DEF Brought, Marked, At
<1>2. ASSUME pipe'[a] = pipe[a] \/ Ingest(a)
      PROVE  /\ pipe[a].pc # "idle" /\ pipe'[a].job = pipe[a].job /\ pipe[a].job \in Versions
             /\ Known(pipe[a].job) /\ Live(DocOf(pipe[a].job)) /\ Live(DocOf(pipe[a].job))'
             /\ Exists(pipe[a].job)
  <2>1. pipe[a].pc # "idle" /\ pipe'[a].job = pipe[a].job
    BY <1>2, IngestMoves DEF QuietStep, HeldInv, FiledInv
  <2>2. PICK v \in Versions : v = pipe[a].job /\ Known(v)
    BY <2>1, RunsAreKnown DEF QuietStep, HeldInv
  <2>3. Live(DocOf(v))'
    BY <2>1, <2>2 DEF Live
  <2>4. Live(DocOf(v)) /\ Exists(v)
    BY <2>2, <2>3, LiveWas DEF Live, Dead
  <2>5. Live(DocOf(pipe[a].job))'
    BY <2>1 DEF Live
  <2> QED
    BY <2>1, <2>2, <2>4, <2>5
<1>3. ASSUME pipe[a].pc \in Marked, pipe'[a] = pipe[a] \/ Ingest(a)
      PROVE  versions'[pipe[a].job].status = "ready"
  <2>1. PICK v \in Versions : v = pipe[a].job /\ versions[v].status = "ready" /\ docs'[DocOf(v)].state = "live"
    BY <1>2, <1>3 DEF QuietStep, Serving, Brought
  <2> QED
    BY <2>1, ReadyStays DEF Dead
<1>4. ASSUME pipe'[a] = pipe[a], pipe[a].pc \in {"commit", "ready_version"}
      PROVE  /\ OfVersion(rows', pipe[a].job) = OfVersion(rows, pipe[a].job)
             /\ OfVersion(points', pipe[a].job) = OfVersion(points, pipe[a].job)
  <2>1. PICK v \in Versions : v = pipe[a].job /\ Live(DocOf(v)) /\ docs'[DocOf(v)].state = "live"
    BY <1>2, <1>4
  <2>2. ~ Ingest(a)
    BY <1>4, IngestMoves DEF QuietStep, HeldInv, FiledInv, Follows
  <2>3. \A b \in Actors : Ingest(b) /\ pipe[b].job = v => pipe[b].pc \notin {"upsert", "commit"}
    BY <1>4, <2>1, <2>2, RunIsAlone DEF Past, Tidying
  <2>4. \A b \in Actors : pipe[b].pc \in {"clean_rows", "clean_points"} => Old(b) # v
    BY <1>4, <2>1, RunIsAlone DEF Past, Tidying
  <2>5. OfVersion(rows, v)' = OfVersion(rows, v) /\ OfVersion(points, v)' = OfVersion(points, v)
    BY <2>1, <2>3, <2>4, Untouched DEF Live
  <2> QED
    BY <2>1, <2>5 DEF OfVersion
<1>5. CASE pipe'[a] = pipe[a]
  <2>1. /\ pipe[a].pc \in {"upsert", "commit"} => pipe[a].size > 0
        /\ At(a, "commit") => /\ OfVersion(rows, pipe[a].job) = {}
                              /\ OfVersion(points, pipe[a].job) = Indexed(a)
        /\ At(a, "ready_version") => Served(pipe[a].job)
    BY <1>2, <1>5 DEF QuietStep, Serving, Brought
  <2>2. At(a, "ready_version") => Served(pipe[a].job)'
    BY <1>4, <1>5, <2>1 DEF At, Served, OfVersion
  <2>3. At(a, "commit") => /\ OfVersion(rows', pipe[a].job) = {}
                           /\ OfVersion(points', pipe[a].job) = Indexed(a)
    BY <1>4, <1>5, <2>1 DEF At
  <2>4. Indexed(a)' = Indexed(a) /\ pipe'[a].job = pipe[a].job /\ pipe'[a].size = pipe[a].size
    BY <1>5 DEF Indexed
  <2>5. pipe[a].pc \in Marked => versions'[pipe[a].job].status = "ready"
    BY <1>3, <1>5
  <2> QED
    BY <1>5, <2>1, <2>2, <2>3, <2>4, <2>5 DEF Brought, At, Served, OfVersion
<1>6. CASE Ingest(a)
  <2>1. /\ pipe[a].pc \in Steps \ {"idle", "done", "failed"} /\ pipe'[a].pc \in Follows(pipe[a].pc)
        /\ ~ At(a, "parse") => pipe'[a].size = pipe[a].size
        /\ pipe \in [Actors -> RunRec]
    BY <1>6, IngestMoves, TypeParts DEF QuietStep, HeldInv, FiledInv, RunsTyped
  <2>2. PipelineStep(a)
    BY <1>6, NoStepFails
  <2>3. PICK v \in Versions : /\ v = pipe[a].job /\ pipe'[a].job = v /\ Known(v)
                              /\ Live(DocOf(v)) /\ docs'[DocOf(v)].state = "live" /\ Exists(v)
    BY <1>2, <1>6 DEF Live
  <2>4. CASE pipe'[a].pc = "upsert"
    <3>1. At(a, "parse")
      BY <2>1, <2>4 DEF At, Follows, Steps
    <3>2. PICK n \in Contents(DocOf(pipe[a].job)) :
            pipe' = [pipe EXCEPT ![a].pc = IF n = 0 THEN "fail_version" ELSE "upsert", ![a].size = n]
      BY <2>2, <3>1, StepIs DEF Parse
    <3>3. pipe'[a].pc = (IF n = 0 THEN "fail_version" ELSE "upsert") /\ pipe'[a].size = n
      BY <2>1, <3>2 DEF RunRec
    <3>4. pipe'[a].size \in 0 .. MaxChunks
      BY TypeStep, TypePartsNext DEF QuietStep, HeldInv, FiledInv, RunsTyped, RunRec
    <3>5. pipe'[a].size > 0
      BY <2>4, <3>3, <3>4, SizesAssumption
    <3> QED
      BY <2>4, <3>5 DEF Brought, Marked, At
  <2>5. CASE pipe'[a].pc = "commit"
    <3>1. At(a, "upsert") /\ pipe[a].pc \notin Past \cup {"idle"}
      BY <2>1, <2>5 DEF At, Follows, Steps, Past, Tidying
    <3>2. points' = points \cup Indexed(a) /\ rows' = rows
      BY <2>2, <3>1, StepIs DEF Upsert, mysql
    <3>3. pipe[a].size > 0 /\ pipe'[a].size = pipe[a].size
      BY <2>1, <2>3, <3>1 DEF QuietStep, Serving, Brought, At
    <3>4. Unindexed(v)
      <4>1. versions[v].status # "ready"
        BY <2>3, <3>1 DEF QuietStep, ReadyIsDone, Has, Running, At
      <4>2. ~ OnItsWay(v)
        BY <2>3, <3>1, RunIsAlone DEF OnItsWay, At, Past, Tidying
      <4> QED
        BY <2>3, <4>1, <4>2 DEF QuietStep, Serving, Accounted, Live, Dead
    <3>5. OfVersion(rows', v) = {} /\ OfVersion(points', v) = Indexed(a)
      <4>1. \A x \in Indexed(a) : x[1] = v
        BY <2>3 DEF Indexed, ChunksOf
      <4> QED
        BY <3>2, <3>4, <4>1 DEF Unindexed, OfVersion
    <3>6. Indexed(a)' = Indexed(a)
      BY <2>3, <3>3 DEF Indexed
    <3> QED
      BY <2>3, <2>5, <3>3, <3>5, <3>6 DEF Brought, Marked, At, OfVersion
  <2>6. CASE pipe'[a].pc = "ready_version"
    <3>1. At(a, "commit")
      BY <2>1, <2>6 DEF At, Follows, Steps
    <3>2. rows' = rows \cup Indexed(a) /\ points' = points
      BY <2>2, <3>1, StepIs DEF Commit
    <3>3. OfVersion(rows, v) = {} /\ OfVersion(points, v) = Indexed(a) /\ pipe[a].size > 0
      BY <2>1, <2>3, <3>1 DEF QuietStep, Serving, Brought, At
    <3>4. \A x \in Indexed(a) : x[1] = v
      BY <2>3 DEF Indexed, ChunksOf
    <3>5. <<v, 1>> \in Indexed(a)
      <4>1. 1 \in 1 .. pipe[a].size
        BY <2>1, <3>3, SizesAssumption DEF RunRec
      <4> QED
        BY <2>3, <4>1 DEF Indexed, ChunksOf
    <3>6. OfVersion(rows', v) = Indexed(a) /\ OfVersion(points', v) = Indexed(a)
      BY <3>2, <3>3, <3>4 DEF OfVersion
    <3>7. Served(v)'
      BY <3>5, <3>6 DEF Served, OfVersion
    <3> QED
      BY <2>3, <2>6, <3>7 DEF Brought, Marked, At, Served, OfVersion
  <2>7. CASE pipe'[a].pc = "ready_doc"
    <3>1. At(a, "ready_version")
      BY <2>1, <2>7 DEF At, Follows, Steps
    <3>2. SetVersionStatus(v, "ready")
      BY <2>2, <2>3, <3>1, StepIs DEF ReadyVersion
    <3>3. versions'[v].status = "ready"
      <4>1. versions \in [Versions -> VersionRec]
        BY TypeParts DEF QuietStep, HeldInv, FiledInv, StoresTyped
      <4> QED
        BY <2>3, <3>2, <4>1 DEF SetVersionStatus, VersionRec
    <3> QED
      BY <2>3, <2>7, <3>3 DEF Brought, At
  <2>8. CASE pipe'[a].pc \in {"lookup_old", "clean_rows", "clean_points", "done"}
    <3>1. pipe[a].pc \in Marked
      BY <2>1, <2>8 DEF Follows, Steps, Marked
    <3>2. versions'[v].status = "ready"
      BY <1>3, <1>6, <2>3, <3>1
    <3> QED
      BY <2>3, <2>8, <3>2 DEF Brought, At
  <2>9. CASE pipe'[a].pc \notin {"upsert", "commit", "ready_version"} \cup Marked
    BY <2>9 DEF Brought, At
  <2> QED
    BY <2>4, <2>5, <2>6, <2>7, <2>8, <2>9 DEF Marked
<1> QED
  BY <1>1, <1>5, <1>6, RunsOn DEF QuietStep, HeldInv, FiledInv

LEMMA AccountedStays ==
  ASSUME QuietStep, NEW v \in Versions
  PROVE  Accounted(v)'
<1> SUFFICES ASSUME ~ Dead(DocOf(v))' PROVE Unindexed(v)' \/ OnItsWay(v)' \/ versions'[v].status = "ready"
  BY DEF Accounted
<1>1. ~ Dead(DocOf(v)) /\ (Unindexed(v) \/ OnItsWay(v) \/ versions[v].status = "ready")
  BY LiveWas DEF QuietStep, Serving, Accounted
<1>2. CASE versions[v].status = "ready"
  BY <1>2, ReadyStays
<1>3. CASE OnItsWay(v)
  <2>1. PICK a \in Actors : pipe[a].job = v /\ pipe[a].pc \in {"commit", "ready_version"}
    BY <1>3 DEF OnItsWay
  <2>2. CASE pipe'[a] = pipe[a]
    BY <2>1, <2>2 DEF OnItsWay
  <2>3. CASE Ingest(a)
    <3>1. PipelineStep(a) /\ pipe'[a].job = v /\ pipe'[a].pc \in Follows(pipe[a].pc)
          /\ versions \in [Versions -> VersionRec]
      BY <2>1, <2>3, NoStepFails, IngestMoves, TypeParts DEF QuietStep, HeldInv, FiledInv, StoresTyped
    <3>2. CASE At(a, "commit")
      <4>1. Goto(a, "ready_version")
        BY <3>1, <3>2, StepIs DEF Commit
      <4>2. pipe'[a].pc = "ready_version"
        BY <4>1, TypeParts DEF Goto, QuietStep, HeldInv, FiledInv, RunsTyped, RunRec
      <4> QED
        BY <3>1, <4>2 DEF OnItsWay
    <3>3. CASE At(a, "ready_version")
      <4>1. Exists(v)
        BY <1>1, <2>1, RunsAreKnown, LiveWas DEF QuietStep, HeldInv
      <4>2. SetVersionStatus(v, "ready")
        BY <2>1, <3>1, <3>3, StepIs DEF ReadyVersion
      <4> QED
        BY <3>1, <4>1, <4>2 DEF SetVersionStatus, VersionRec
    <3> QED
      BY <2>1, <3>2, <3>3 DEF At
  <2> QED
    BY <2>1, <2>2, <2>3, RunStays DEF QuietStep
<1>4. CASE Unindexed(v)
  <2>1. CASE rows' = rows /\ points' = points
    BY <1>4, <2>1 DEF Unindexed, OfVersion
  <2>2. ASSUME NEW a \in Actors, Ingest(a), Adds(a) PROVE Unindexed(v)' \/ OnItsWay(v)'
    <3>1. CASE pipe[a].job # v
      <4>1. \A x \in Indexed(a) : x[1] # v
        BY <3>1 DEF Indexed, ChunksOf
      <4> QED
        BY <1>4, <2>2, <4>1 DEF Adds, Unindexed, OfVersion
    <3>2. CASE pipe[a].job = v
      <4>1. PipelineStep(a) /\ pipe'[a].job = v /\ pipe \in [Actors -> RunRec]
        BY <2>2, <3>2, NoStepFails, IngestMoves, TypeParts DEF QuietStep, HeldInv, FiledInv, RunsTyped
      <4>2. Goto(a, "commit") \/ Goto(a, "ready_version")
        BY <2>2, <4>1, StepIs DEF Adds, Upsert, Commit
      <4>3. pipe'[a].pc \in {"commit", "ready_version"}
        BY <4>1, <4>2 DEF Goto, RunRec
      <4> QED
        BY <4>1, <4>3 DEF OnItsWay
    <3> QED
      BY <3>1, <3>2
  <2>3. ASSUME NEW a \in Actors, Removes(a) PROVE Unindexed(v)'
    BY <1>4, <2>3 DEF Removes, Unindexed, OfVersion
  <2>4. ASSUME NEW c \in Clients, Purges(c) PROVE Unindexed(v)'
    BY <1>4, <2>4 DEF Purges, Unindexed, OfVersion, OfDoc
  <2> QED
    BY <2>1, <2>2, <2>3, <2>4 DEF QuietStep, IndexMove
<1> QED
  BY <1>1, <1>2, <1>3, <1>4

LEMMA GoesBackStays ==
  ASSUME QuietStep, NEW c \in Clients
  PROVE  GoesBackToReady(c)'
<1> SUFFICES ASSUME client'[c].pc = "rollback", docs'[client'[c].doc].state = "live"
             PROVE  versions'[<<client'[c].doc, client'[c].num>>].status = "ready"
  BY DEF GoesBackToReady, Job, Doc, Live
<1>1. RequestMove(c)
  BY RequestsMove DEF QuietStep, HeldInv, FiledInv
<1>2. CASE client'[c] = client[c]
  <2>1. PICK v \in Versions : v = Job(c) /\ DocOf(v) = Doc(c) /\ Known(v)
    BY <1>2, JobIsVersion DEF QuietStep, HeldInv, FiledInv, Filed, RequestFiled, Holding, Deleting
  <2>2. Live(DocOf(v))'
    BY <1>2, <2>1 DEF Live, Doc
  <2>3. versions[v].status = "ready"
    BY <1>2, <2>1, <2>2, LiveWas DEF QuietStep, Serving, GoesBackToReady
  <2>4. versions'[v].status = "ready"
    BY <2>2, <2>3, ReadyStays DEF Live, Dead
  <2> QED
    BY <1>2, <2>1, <2>4 DEF Job
<1>3. CASE Begins(c)
  <2>1. PICK v \in Versions : v = <<client'[c].doc, client'[c].num>> /\ versions[v].status = "ready"
    BY <1>3 DEF Begins, Creating
  <2>2. DocOf(v) = client'[c].doc
    BY <2>1 DEF DocOf
  <2>3. versions'[v].status = "ready"
    BY <2>1, <2>2, ReadyStays DEF Dead
  <2> QED
    BY <2>1, <2>3
<1> QED
  BY <1>1, <1>2, <1>3 DEF RequestMove, GoesOn, Idle

LEMMA FindableStays ==
  ASSUME QuietStep, NEW v \in Versions
  PROVE  Findable(v)'
<1> SUFFICES ASSUME Live(DocOf(v))' PROVE Findable(v)'
  BY DEF Findable
<1>1. /\ TypeInv /\ HeldInv /\ StoresFiled /\ StoresMove
      /\ Undisturbed(v) /\ ReadyIsDone(v) /\ Findable(v)
  BY DEF QuietStep, HeldInv, FiledInv, Filed, Serving
<1>2. Known(v) => Live(DocOf(v))
  BY LiveWas
(* A good version that nobody has stays good. *)
<1>3. ASSUME Known(v), Free(v), Good(v) PROVE Good(v)'
  BY <1>2, <1>3, GoodStays DEF Free
<1>4. ASSUME versions[v].status = "ready" PROVE Good(v)'
  <2>1. Known(v) /\ Good(v) /\ \A a \in Actors : Has(a, v) => At(a, "ready_doc")
    BY <1>1, <1>2, <1>4 DEF Findable, ReadyIsDone, Known
  <2> QED
    BY <1>2, <2>1, GoodStays
<1>5. ASSUME NEW u \in Versions, Below(v, u), Known(u) PROVE Good(v)'
  <2>1. Known(v) /\ Free(v)
    BY <1>1, <1>5 DEF StoresFiled, QuietStep, Undisturbed
  <2> QED
    BY <1>1, <1>2, <1>3, <1>5, <2>1 DEF Findable
<1>6. ASSUME NEW u \in Versions, Below(v, u), Known(u)' PROVE Good(v)'
  <2>1. CASE ~ Known(u)
    <3>1. PICK c \in Clients : Inserts(c) /\ u = Job(c)
      BY <1>1, <1>6, <2>1 DEF StoresMove, Marks, PointsBy, PointsTo, Creates, Deletes, PointsFor, Inserts,
         Known, SameStatus, Exists
    <3>2. DocOf(v) = Doc(c) /\ NumOf(v) < client[c].num
      BY <1>1, <1>6, <3>1, JobIsVersion DEF Inserts, Below, Deleting
    <3>3. Known(v) /\ Free(v)
      BY <1>1, <3>1, <3>2 DEF Inserts, Undisturbed, HeldInv, FiledInv, Filed, RequestFiled, Reading
    <3>4. Good(v)
      BY <1>1, <1>2, <3>1, <3>2, <3>3 DEF Inserts, Findable, Reading
    <3> QED
      BY <1>3, <3>3, <3>4
  <2> QED
    BY <1>5, <1>6, <2>1
<1>7. ASSUME NumOf(v) <= docs'[DocOf(v)].current PROVE Good(v)'
  <2>1. CASE NumOf(v) <= docs[DocOf(v)].current
    <3>1. Known(v) /\ Free(v)
      BY <1>1, <2>1 DEF StoresFiled, Undisturbed
    <3> QED
      BY <1>1, <1>2, <1>3, <2>1, <3>1 DEF Findable
  <2>2. ASSUME NEW w \in Versions, Known(w), NEW n \in Nat, PointsTo(DocOf(w), n), n <= NumOf(w),
               ~ (NumOf(v) <= docs[DocOf(v)].current)
        PROVE  (v = w /\ n = NumOf(w)) \/ Below(v, w)
    <3>1. DocOf(v) = DocOf(w) /\ NumOf(v) <= n
      BY <1>7, <2>2, VersionNumbers DEF PointsTo
    <3>2. NumOf(v) = NumOf(w) => v = w
      BY <3>1 DEF Versions, DocOf, NumOf
    <3> QED
      BY <2>2, <3>1, <3>2, VersionNumbers, SizesAssumption DEF Below
  <2>3. ASSUME NEW a \in Actors, PointsBy(a), ~ (NumOf(v) <= docs[DocOf(v)].current) PROVE Good(v)'
    <3>1. pipe[a].job \in Versions /\ Known(pipe[a].job)
      BY <1>1, <2>3, RunsAreKnown DEF PointsBy, HeldInv
    <3>2. CASE At(a, "ready_doc")
      <4>1. v = pipe[a].job \/ Below(v, pipe[a].job)
        BY <2>2, <2>3, <3>1, <3>2, VersionNumbers, SizesAssumption DEF PointsBy
      <4>2. v = pipe[a].job => versions[v].status = "ready"
        BY <1>2, <3>1, <3>2 DEF QuietStep, Serving, Brought, Marked, At
      <4> QED
        BY <1>4, <1>5, <3>1, <4>1, <4>2
    <3>3. CASE ~ At(a, "ready_doc")
      <4>1. Below(v, pipe[a].job)
        BY <2>2, <2>3, <3>1, <3>3, VersionNumbers, SizesAssumption DEF PointsBy, Fallback
      <4> QED
        BY <1>5, <3>1, <4>1
    <3> QED
      BY <3>2, <3>3
  <2>4. ASSUME NEW c \in Clients, PointsFor(c), ~ (NumOf(v) <= docs[DocOf(v)].current) PROVE Good(v)'
    <3>1. /\ Job(c) \in Versions /\ DocOf(Job(c)) = Doc(c) /\ NumOf(Job(c)) = client[c].num
          /\ client[c].num \in 1 .. MaxVersion /\ Known(Job(c))
      BY <1>1, <2>4, JobIsVersion DEF PointsFor, Deleting, RequestFiled, Holding, HeldInv, FiledInv, Filed
    <3>2. CASE client[c].pc = "rollback"
      <4>1. v = Job(c) \/ Below(v, Job(c))
        BY <2>2, <2>4, <3>1, <3>2, SizesAssumption DEF PointsFor
      <4>2. v = Job(c) => versions[v].status = "ready"
        BY <1>2, <3>1, <3>2 DEF QuietStep, Serving, GoesBackToReady
      <4> QED
        BY <1>4, <1>5, <3>1, <4>1, <4>2
    <3>3. CASE client[c].pc # "rollback"
      <4>1. Below(v, Job(c))
        BY <2>2, <2>4, <3>1, <3>3, SizesAssumption DEF PointsFor
      <4> QED
        BY <1>5, <3>1, <4>1
    <3> QED
      BY <3>2, <3>3
  <2>5. (\E a \in Actors : PointsBy(a)) \/ (\E c \in Clients : PointsFor(c))
        \/ NumOf(v) <= docs[DocOf(v)].current
    BY <1>1, <1>7, VersionNumbers, SizesAssumption DEF StoresMove, Marks, Inserts, Creates, Deletes
  <2> QED
    BY <2>1, <2>3, <2>4, <2>5
<1>8. ASSUME NEW c \in Clients, client'[c].pc \in Reading, DocOf(v) = client'[c].doc, NumOf(v) < client'[c].num
      PROVE  Good(v)'
  <2>1. RequestMove(c) /\ RequestFiled(c)
    BY <1>1, RequestsMove DEF QuietStep, HeldInv, FiledInv, Filed
  <2>2. CASE client[c].pc \in Reading /\ client'[c].doc = client[c].doc /\ client'[c].num = client[c].num
    <3>1. Known(v) /\ Free(v)
      BY <1>1, <1>8, <2>1, <2>2 DEF Undisturbed, RequestFiled, Doc
    <3> QED
      BY <1>1, <1>2, <1>3, <1>8, <2>2, <3>1 DEF Findable, Doc
  <2>3. CASE client[c].pc = "create_doc" /\ client'[c].num = client[c].num
    BY <1>8, <2>1, <2>3, VersionNumbers DEF RequestFiled, Creating
  <2>4. CASE Begins(c)
    <3>1. client'[c].num = docs[client'[c].doc].current + 1 /\ client'[c].doc \in Docs
      BY <1>8, <2>4 DEF Begins, Reading, Creating
    <3>2. NumOf(v) <= docs[DocOf(v)].current
      BY <1>1, <1>8, <3>1, VersionNumbers, DocsTyped
    <3>3. Known(v) /\ Free(v)
      BY <1>1, <3>2 DEF StoresFiled, Undisturbed
    <3> QED
      BY <1>1, <1>2, <1>3, <3>2, <3>3 DEF Findable
  <2> QED
    BY <1>8, <2>1, <2>2, <2>3, <2>4 DEF RequestMove, GoesOn, Idle, Reading
<1>9. ASSUME versions'[v].status = "ready" PROVE Good(v)'
  <2>1. CASE versions[v].status # "ready"
    <3>1. PICK a \in Actors : Marks(a) /\ At(a, "ready_version") /\ pipe[a].job = v
      BY <1>1, <1>9, <2>1 DEF StoresMove, Marks, PointsBy, PointsTo, Creates, Deletes, PointsFor,
         Inserts, SameStatus
    <3>2. Live(DocOf(v)) /\ Served(v)
      <4>1. Known(v)
        BY <1>1, <3>1, RunsAreKnown DEF Marks, HeldInv
      <4> QED
        BY <1>2, <3>1, <4>1 DEF QuietStep, Serving, Brought, Marks
    <3>3. rows' = rows /\ points' = points
      <4>1. PipelineStep(a)
        BY <3>1, NoStepFails DEF Marks
      <4> QED
        BY <3>1, <4>1, StepIs DEF ReadyVersion
    <3> QED
      BY <3>2, <3>3 DEF Good, Served, OfVersion
  <2> QED
    BY <1>4, <2>1
<1> QED
  BY <1>6, <1>7, <1>8, <1>9 DEF Findable, Doc

ServeInv ==
  /\ CalmInv
  /\ disruptions = 0 => \A v \in Versions : ReadyIsDone(v)
  /\ faults = 0 /\ disruptions = 0 => Serving

LEMMA FaultsGrow ==
  ASSUME TypeInv, [Next]_vars, faults' = 0
  PROVE  faults = 0
<1>1. faults \in Nat
  BY TypeParts, FaultsAssumption DEF CountersTyped
<1>2. ASSUME NEW c \in Clients, Request(c) \/ Handle(c) \/ Abort(c)
      PROVE faults' = faults \/ faults' = faults + 1
  BY <1>2 DEF Request, StartUpload, StartReindex, StartDelete, StartRollback, Accept, Abort, Fault,
     Handle, PutObject, CreateDoc, CreateVersion, ReadCurrent, MarkProcessing,
     Enqueue, Ingested, RollbackDocument, DeleteRows, DeleteObject, DeletePoints
<1>3. ASSUME NEW a \in Actors, Ingest(a) PROVE faults' = faults \/ faults' = faults + 1
  BY <1>3 DEF Ingest, PipelineStep, StepFails, Fault, LoadVersion, LoadDoc, Parse, Upsert, Commit,
     ReadyVersion, ReadyDoc, LookupOld, CleanRows, CleanPoints, FailVersion, FailDoc
<1>4. ASSUME NEW w \in Workers,
             WorkerTakes(w) \/ WorkerReturns(w) \/ WorkerDisposes(w) \/ WorkerDies(w) \/ LinkChanges(w)
      PROVE  faults' = faults
  BY <1>4 DEF WorkerTakes, WorkerReturns, WorkerDisposes, WorkerDies, LinkChanges, Local
<1>5. RetryDue \/ Redeploy \/ UNCHANGED vars => faults' = faults
  BY DEF RetryDue, Redeploy, vars, Local
<1> QED
  BY <1>1, <1>2, <1>3, <1>4, <1>5 DEF Next, Work, Actors

LEMMA ServeInit == Init => ServeInv
<1> SUFFICES ASSUME Init PROVE ServeInv
  OBVIOUS
<1>1. CalmInv
  BY CalmInit
<1>2. /\ \A v \in Versions : versions[v].status = "none"
      /\ \A d \in Docs : ~ Live(d)
      /\ rows = {} /\ points = {}
      /\ \A a \in Actors : pipe[a].pc = "idle"
      /\ \A c \in Clients : client[c].pc = "idle"
  BY DEF Init, Absent, Unborn, Live, NoRun, Idle
<1>3. \A v \in Versions : ReadyIsDone(v) /\ Findable(v) /\ Accounted(v)
  BY <1>2, VersionNumbers DEF ReadyIsDone, Findable, Accounted, Unindexed, OfVersion
<1>4. Serving
  BY <1>2, <1>3 DEF Serving, Brought, GoesBackToReady
<1> QED
  BY <1>1, <1>3, <1>4 DEF ServeInv

LEMMA QuietSteps ==
  ASSUME ServeInv, [Next]_vars, faults' = 0, disruptions' = 0
  PROVE  QuietStep
<1>1. CalmInv /\ FiledInv /\ TypeInv
  BY DEF ServeInv, CalmInv, FiledInv
<1>2. StoresMove /\ IndexMove
  BY <1>1, StoresMoves, IndexMoves
<1>3. disruptions = 0 /\ faults = 0
  BY <1>1, NextRefines, DisruptionsGrow, FaultsGrow DEF FiledInv
<1> QED
  BY <1>1, <1>2, <1>3 DEF QuietStep, ServeInv, CalmInv, HeldInv

LEMMA ServeStep == ServeInv /\ [Next]_vars => ServeInv'
<1> SUFFICES ASSUME ServeInv, [Next]_vars PROVE ServeInv'
  OBVIOUS
<1>1. CalmInv' /\ FiledInv /\ TypeInv
  BY CalmStep DEF ServeInv, CalmInv, FiledInv
<1>2. StoresMove /\ IndexMove
  BY <1>1, StoresMoves, IndexMoves
<1>3. ASSUME disruptions' = 0
      PROVE  /\ disruptions = 0 /\ HeldInv
             /\ \A v \in Versions : OneCopy(v) /\ Undisturbed(v) /\ ReadyIsDone(v)
  <2>1. disruptions = 0
    BY <1>1, <1>3, NextRefines, DisruptionsGrow DEF FiledInv
  <2> QED
    BY <2>1 DEF ServeInv, CalmInv, HeldInv
<1>4. ASSUME disruptions' = 0, NEW v \in Versions PROVE ReadyIsDone(v)'
  BY <1>2, <1>3, <1>4, ReadyIsDoneStays
<1>5. ASSUME faults' = 0, disruptions' = 0 PROVE Serving'
  <2>1. QuietStep
    BY <1>5, QuietSteps
  <2>2. \A v \in Versions : Findable(v)' /\ Accounted(v)'
    BY <2>1, FindableStays, AccountedStays
  <2>3. (\A a \in Actors : Brought(a)') /\ (\A c \in Clients : GoesBackToReady(c)')
    BY <2>1, BroughtStays, GoesBackStays
  <2> QED
    BY <2>2, <2>3 DEF Serving
<1> QED
  BY <1>1, <1>4, <1>5 DEF ServeInv

LEMMA ServeHolds == Spec => []ServeInv
BY ServeInit, ServeStep, PTL DEF Spec

(* The version a living document points to can be answered from: its rows   *)
(* and its points are there and agree.  Uploads, reindexings, rollbacks and *)
(* deletions may run at once, and a later version may have made this one    *)
(* obsolete (RolledBack); it takes a failed call, an aborted request or a   *)
(* disturbed delivery to break it, and from the first one on nothing is     *)
(* claimed.                                                                 *)
THEOREM CurrentIsServed == Spec => []ServedUntilFault
<1>1. ServeInv => ServedUntilFault
  <2> SUFFICES ASSUME ServeInv, faults = 0, disruptions = 0,
                      NEW d \in Docs, Live(d), docs[d].current > 0, ~ RolledBack(d)
               PROVE  Served(<<d, docs[d].current>>)
    BY DEF ServedUntilFault, Served
  <2>1. PICK v \in Versions : v = <<d, docs[d].current>>
    <3>1. docs[d].current \in 0 .. MaxVersion
      BY TypeParts DEF ServeInv, CalmInv, FiledInv, StoresTyped, DocRec
    <3>2. docs[d].current \in 1 .. MaxVersion
      BY <3>1, SizesAssumption
    <3>3. <<d, docs[d].current>> \in Versions
      BY <3>2 DEF Versions
    <3> QED
      BY <3>3
  <2>2. DocOf(v) = d /\ NumOf(v) = docs[d].current
    BY <2>1 DEF DocOf, NumOf
  <2>3. Good(v)
    BY <2>2, VersionNumbers DEF ServeInv, Serving, Findable
  <2>4. ~ Followed(v)
    BY <2>2 DEF Followed, Below, RolledBack
  <2> QED
    BY <2>1, <2>3, <2>4 DEF Good
<1> QED
  BY <1>1, ServeHolds, PTL

-----------------------------------------------------------------------------
(* Once the work on a document has settled, only its current version has    *)
(* points: a version is built right above the current one, so the run that  *)
(* makes it current has exactly the version before it to clean up.          *)
Onward(v)     == Known(v) /\ Live(DocOf(v)) => NumOf(v) - 1 <= docs[DocOf(v)].current
OnwardFrom(c) == client[c].pc \in Reading /\ Live(Doc(c)) => client[c].num - 1 <= docs[Doc(c)].current
Forward       == (\A v \in Versions : Onward(v)) /\ (\A c \in Clients : OnwardFrom(c))

LEMMA ForwardStays ==
  ASSUME CalmInv, CalmInv', [Next]_vars, disruptions' = 0, "rollback" \notin Ops, Forward
  PROVE  Forward'
<1>1. FiledInv /\ TypeInv /\ TypeInv' /\ StoresMove
  BY StoresMoves DEF CalmInv, FiledInv
<1>2. ASSUME NEW d \in Docs, Live(d)'
      PROVE  /\ docs[d].current \in Nat /\ docs'[d].current \in Nat /\ docs[d].current <= docs'[d].current
             /\ Born(d) => Live(d)
  <2>1. docs'[d].current >= docs[d].current
    BY <1>2, NeverBack
  <2>2. docs[d].current \in Nat /\ docs'[d].current \in Nat
    BY <1>1, DocsTyped, SizesAssumption DEF TypeInv, TypeOK
  <2>3. Born(d) => Live(d)
    <3>1. Dead(d) => Dead(d)'
      BY <1>1, FiledGrows
    <3>2. docs[d].state \in {"unborn", "live", "dead"}
      BY <1>1, DocsTyped
    <3> QED
      BY <1>2, <3>1, <3>2 DEF Born, Live, Dead
  <2> QED
    BY <2>1, <2>2, <2>3
<1>3. ASSUME NEW v \in Versions PROVE Onward(v)'
  <2> SUFFICES ASSUME Known(v)', Live(DocOf(v))' PROVE NumOf(v) - 1 <= docs'[DocOf(v)].current
    BY DEF Onward
  <2>1. CASE Known(v)
    <3>1. Born(DocOf(v))
      BY <1>1, <2>1 DEF FiledInv, Filed, StoresFiled
    <3>2. NumOf(v) - 1 <= docs[DocOf(v)].current
      BY <1>2, <2>1, <3>1, VersionNumbers DEF Forward, Onward
    <3> QED
      BY <1>2, <3>2, VersionNumbers, SizesAssumption
  <2>2. CASE ~ Known(v)
    <3>1. PICK c \in Clients : Inserts(c) /\ Job(c) = v
      BY <1>1, <2>2 DEF StoresMove, Marks, PointsBy, PointsTo, Creates, Deletes, PointsFor, Inserts,
         SameStatus, Known, Exists
    <3>2. DocOf(v) = Doc(c) /\ NumOf(v) = client[c].num
      BY <3>1 DEF Job, DocOf, NumOf, Doc
    <3>3. docs' = docs /\ client[c].pc \in Reading
      BY <3>1 DEF Inserts, Reading
    <3> QED
      BY <3>2, <3>3 DEF Forward, OnwardFrom, Live
  <2> QED
    BY <2>1, <2>2
<1>4. ASSUME NEW c \in Clients PROVE OnwardFrom(c)'
  <2> SUFFICES ASSUME client'[c].pc \in Reading, docs'[client'[c].doc].state = "live"
               PROVE  client'[c].num - 1 <= docs'[client'[c].doc].current
    BY DEF OnwardFrom, Doc, Live
  <2>1. PICK d \in Docs, n \in Nat : client'[c].doc = d /\ client'[c].num = n
    BY <1>1, TypePartsNext, SizesAssumption DEF ClientsTyped, ClientRec, Reading
  <2>2. RequestMove(c) /\ RequestFiled(c)
    BY <1>1, RequestsMove DEF FiledInv, Filed
  <2>3. Live(d)'
    BY <2>1 DEF Live
  <2>4. /\ docs[d].current \in Nat /\ docs'[d].current \in Nat /\ docs[d].current <= docs'[d].current
        /\ Born(d) => Live(d)
    BY <1>2, <2>1, <2>3
  <2>5. CASE client[c].pc \in Reading /\ client[c].doc = d /\ client[c].num = n
    <3>1. Born(d)
      BY <2>2, <2>5 DEF RequestFiled, Reading, Creating, Doc
    <3>2. n - 1 <= docs[d].current
      BY <2>4, <2>5, <3>1 DEF Forward, OnwardFrom, Doc
    <3> QED
      BY <2>1, <2>4, <3>2
  <2>6. CASE client[c].pc = "create_doc" /\ client[c].num = n
    <3>1. n = 1
      BY <2>2, <2>6 DEF RequestFiled, Creating
    <3> QED
      BY <2>1, <2>4, <3>1
  <2>7. CASE Begins(c)
    <3>1. n = docs[d].current + 1
      BY <2>1, <2>7 DEF Begins, Reading, Creating
    <3> QED
      BY <2>1, <2>4, <3>1
  <2> QED
    BY <2>1, <2>2, <2>5, <2>6, <2>7 DEF RequestMove, GoesOn, Idle, Reading
<1> QED
  BY <1>3, <1>4 DEF Forward

(* Where the points of a version may still be. *)
Landing(v)  == \E a \in Actors : pipe[a].job = v /\ pipe[a].pc \in {"commit", "ready_version", "ready_doc"}
Clearing(v) == \E a \in Actors : pipe[a].pc \in {"lookup_old", "clean_rows", "clean_points"} /\ Old(a) = v
Pointed(v)  == NumOf(v) = docs[DocOf(v)].current
Placed(v)   == OfVersion(points, v) # {} => Known(v) /\ (Pointed(v) \/ Landing(v) \/ Clearing(v))

TidyStep ==
  /\ QuietStep /\ Forward
  /\ "rollback" \notin Ops /\ "delete" \notin Ops
  /\ \A v \in Versions : Placed(v)

(* Whoever has a version has the one right above the current. *)
LEMMA HasTheNext ==
  ASSUME TidyStep, NEW v \in Versions, ~ Free(v), Known(v), Live(DocOf(v))
  PROVE  docs[DocOf(v)].current = NumOf(v) - 1
<1>1. docs[DocOf(v)].current \in Nat /\ NumOf(v) \in Nat
  BY DocsTyped, VersionNumbers, SizesAssumption DEF TidyStep, QuietStep, HeldInv, FiledInv
<1>2. ~ (NumOf(v) <= docs[DocOf(v)].current)
  BY DEF TidyStep, QuietStep, Undisturbed
<1>3. NumOf(v) - 1 <= docs[DocOf(v)].current
  BY DEF TidyStep, Forward, Onward
<1> QED
  BY <1>1, <1>2, <1>3

LEMMA KnownLives ==
  ASSUME TidyStep, NEW v \in Versions, Known(v)
  PROVE  Live(DocOf(v)) /\ Exists(v) /\ Known(v)'
<1>1. StoresFiled /\ TypeInv /\ FiledInv
  BY DEF TidyStep, QuietStep, HeldInv, FiledInv, Filed
<1>2. Born(DocOf(v)) /\ ~ Dead(DocOf(v)) /\ versions[v].status # "deleted"
  BY <1>1, VersionNumbers DEF StoresFiled, TidyStep
<1>3. Known(v)'
  BY <1>1, FiledGrows DEF TidyStep, QuietStep
<1> QED
  BY <1>1, <1>2, <1>3, DocsTyped, VersionNumbers DEF Born, Dead, Live, Exists, Known

(* The current version keeps its place until the next one takes it, ... *)
LEMMA PointedStays ==
  ASSUME TidyStep, NEW v \in Versions, Known(v), Pointed(v)
  PROVE  Pointed(v)' \/ Clearing(v)'
<1>1. /\ Live(DocOf(v)) /\ StoresMove /\ HeldInv /\ FiledInv /\ TypeInv
      /\ pipe \in [Actors -> RunRec]
  BY KnownLives, TypeParts DEF TidyStep, QuietStep, HeldInv, FiledInv, RunsTyped
<1>2. ASSUME docs'[DocOf(v)].current = docs[DocOf(v)].current PROVE Pointed(v)'
  BY <1>2 DEF Pointed
<1>3. ASSUME NEW a \in Actors, PointsBy(a), DocOf(pipe[a].job) = DocOf(v)
      PROVE  Pointed(v)' \/ Clearing(v)'
  <2>1. PICK w \in Versions : /\ pipe[a].job = w /\ DocOf(w) = DocOf(v)
                              /\ pipe[a].pc \in {"ready_doc", "fail_doc"} /\ Ingest(a)
    BY <1>3 DEF PointsBy
  <2>2. Known(w)
    BY <1>1, <2>1, RunsAreKnown
  <2>3. ~ Free(w)
    BY <2>1 DEF Free, Has, Running, Past, Tidying, TidyStep
  <2>4. docs[DocOf(w)].current = NumOf(w) - 1
    BY <1>1, <2>1, <2>2, <2>3, HasTheNext
  <2>5. CASE At(a, "fail_doc")
    <3>1. docs'[DocOf(v)].current = NumOf(w) - 1
      BY <1>1, <1>3, <2>1, <2>5, VersionNumbers DEF PointsBy, PointsTo, Fallback, At
    <3> QED
      BY <1>2, <2>1, <2>4, <3>1
  <2>6. CASE At(a, "ready_doc")
    <3>1. NumOf(v) = NumOf(w) - 1
      BY <2>1, <2>4 DEF Pointed
    <3>2. PipelineStep(a)
      BY <2>1, NoStepFails DEF TidyStep
    <3>3. ReadyDoc(a)
      BY <2>6, <3>2 DEF PipelineStep, LoadVersion, LoadDoc, Parse, Upsert, Commit, ReadyVersion,
         LookupOld, CleanRows, CleanPoints, FailVersion, FailDoc, At
    <3>4. AfterReady(w) = "lookup_old"
      BY <3>1, VersionNumbers, SizesAssumption DEF AfterReady, Fallback
    <3>5. pipe'[a].pc = "lookup_old" /\ pipe'[a].job = w
      BY <1>1, <2>1, <3>3, <3>4 DEF ReadyDoc, Goto, RunRec
    <3>6. <<DocOf(w), NumOf(w) - 1>> = v
      BY <2>1, <3>1 DEF Versions, DocOf, NumOf
    <3>7. Old(a)' = v
      BY <3>5, <3>6 DEF Old, Fallback
    <3> QED
      BY <3>5, <3>7 DEF Clearing
  <2> QED
    BY <2>1, <2>5, <2>6 DEF At
<1>4. ASSUME NEW c \in Clients, PointsFor(c), Doc(c) = DocOf(v) PROVE Pointed(v)'
  <2>1. client[c].pc = "mark_processing" /\ Job(c) \in Versions /\ Known(Job(c))
    BY <1>1, <1>4 DEF PointsFor, FiledInv, Filed, RequestFiled, Holding, TidyStep
  <2>2. DocOf(Job(c)) = Doc(c) /\ NumOf(Job(c)) = client[c].num
    BY <1>1, <2>1, JobIsVersion DEF Deleting
  <2>3. ~ Free(Job(c))
    BY <2>1 DEF Free, Has, Asks, Actors
  <2>4. docs[DocOf(v)].current = client[c].num - 1
    BY <1>1, <1>4, <2>1, <2>2, <2>3, HasTheNext
  <2>5. docs'[DocOf(v)].current = client[c].num - 1
    BY <1>1, <1>4, <2>1, VersionNumbers DEF PointsFor, PointsTo
  <2> QED
    BY <1>2, <2>4, <2>5
<1>5. ASSUME NEW c \in Clients, Creates(c) PROVE Pointed(v)'
  <2>1. Doc(c) # DocOf(v)
    BY <1>1, <1>5 DEF Creates, FiledInv, Filed, RequestFiled, Creating, Born, Live
  <2> QED
    BY <1>2, <1>5, <2>1, VersionNumbers DEF Creates
<1>6. ASSUME NEW c \in Clients, Deletes(c) PROVE FALSE
  BY <1>1, <1>6 DEF Deletes, FiledInv, Filed, RequestFiled, Deleting, TidyStep
<1>7. ASSUME NEW a \in Actors, PointsBy(a), DocOf(pipe[a].job) # DocOf(v) PROVE Pointed(v)'
  BY <1>2, <1>7, VersionNumbers DEF PointsBy, PointsTo
<1>8. ASSUME NEW c \in Clients, PointsFor(c), Doc(c) # DocOf(v) PROVE Pointed(v)'
  BY <1>2, <1>8, VersionNumbers DEF PointsFor, PointsTo
<1>9. CASE docs' = docs
  BY <1>2, <1>9
<1> QED
  BY <1>1, <1>3, <1>4, <1>5, <1>6, <1>7, <1>8, <1>9 DEF StoresMove, Marks, Inserts

(* ... a run carries its version there, ... *)
LEMMA LandingStays ==
  ASSUME TidyStep, NEW v \in Versions, Known(v), Landing(v)
  PROVE  Landing(v)' \/ Pointed(v)'
<1>1. PICK a \in Actors : pipe[a].job = v /\ pipe[a].pc \in {"commit", "ready_version", "ready_doc"}
  BY DEF Landing
<1>2. CASE pipe'[a] = pipe[a]
  BY <1>1, <1>2 DEF Landing
<1>3. CASE Ingest(a)
  <2>1. /\ PipelineStep(a) /\ pipe \in [Actors -> RunRec] /\ docs \in [Docs -> DocRec]
        /\ Live(DocOf(v))
    BY <1>3, NoStepFails, KnownLives, TypeParts DEF TidyStep, QuietStep, HeldInv, FiledInv, RunsTyped, StoresTyped
  <2>2. CASE At(a, "commit") \/ At(a, "ready_version")
    <3>1. Goto(a, "ready_version") \/ Goto(a, "ready_doc")
      BY <2>1, <2>2, StepIs DEF Commit, ReadyVersion
    <3>2. pipe'[a].job = v /\ pipe'[a].pc \in {"ready_version", "ready_doc"}
      BY <1>1, <2>1, <3>1 DEF Goto, RunRec
    <3> QED
      BY <3>2 DEF Landing
  <2>3. CASE At(a, "ready_doc")
    <3>1. ReadyDoc(a)
      BY <2>1, <2>3 DEF PipelineStep, LoadVersion, LoadDoc, Parse, Upsert, Commit, ReadyVersion,
         LookupOld, CleanRows, CleanPoints, FailVersion, FailDoc, At
    <3>2. SetIndexState(DocOf(v), "ready", NumOf(v))
      BY <1>1, <3>1 DEF ReadyDoc
    <3>3. docs' = [docs EXCEPT ![DocOf(v)].status = "ready", ![DocOf(v)].current = NumOf(v)]
      BY <2>1, <3>2 DEF SetIndexState
    <3>4. docs'[DocOf(v)].current = NumOf(v)
      BY <2>1, <3>3, VersionNumbers DEF DocRec
    <3> QED
      BY <3>4 DEF Pointed
  <2> QED
    BY <1>1, <2>2, <2>3 DEF At
<1> QED
  BY <1>1, <1>2, <1>3, RunStays DEF TidyStep, QuietStep

(* ... and the run of the next version cleans it up. *)
LEMMA ClearingStays ==
  ASSUME TidyStep, NEW v \in Versions, Known(v), Clearing(v), OfVersion(points', v) # {}
  PROVE  Clearing(v)'
<1>1. PICK a \in Actors : pipe[a].pc \in {"lookup_old", "clean_rows", "clean_points"} /\ Old(a) = v
  BY DEF Clearing
<1>2. CASE pipe'[a] = pipe[a]
  BY <1>1, <1>2 DEF Clearing, Old
<1>3. CASE Ingest(a)
  <2>1. PipelineStep(a) /\ pipe \in [Actors -> RunRec] /\ Exists(v)
    BY <1>3, NoStepFails, KnownLives, TypeParts DEF TidyStep, QuietStep, HeldInv, FiledInv, RunsTyped
  <2>2. /\ At(a, "lookup_old") => LookupOld(a)
        /\ At(a, "clean_rows") => CleanRows(a)
        /\ At(a, "clean_points") => CleanPoints(a)
    BY <2>1 DEF PipelineStep, LoadVersion, LoadDoc, Parse, Upsert, Commit, ReadyVersion, ReadyDoc,
       LookupOld, CleanRows, CleanPoints, FailVersion, FailDoc, At
  <2>3. CASE At(a, "clean_points")
    BY <1>1, <2>2, <2>3 DEF CleanPoints, OfVersion
  <2>4. CASE At(a, "lookup_old") \/ At(a, "clean_rows")
    <3>1. Goto(a, "clean_rows") \/ Goto(a, "clean_points")
      BY <1>1, <2>1, <2>2, <2>4 DEF LookupOld, CleanRows
    <3>2. pipe'[a].pc \in {"clean_rows", "clean_points"} /\ pipe'[a].job = pipe[a].job
      BY <2>1, <3>1 DEF Goto, RunRec
    <3>3. Old(a)' = v
      BY <1>1, <3>2 DEF Old
    <3> QED
      BY <3>2, <3>3 DEF Clearing
  <2> QED
    BY <1>1, <2>3, <2>4 DEF At
<1> QED
  BY <1>1, <1>2, <1>3, RunStays DEF TidyStep, QuietStep

LEMMA PlacedStays ==
  ASSUME TidyStep, NEW v \in Versions
  PROVE  Placed(v)'
<1> SUFFICES ASSUME OfVersion(points', v) # {} PROVE Known(v)' /\ (Pointed(v)' \/ Landing(v)' \/ Clearing(v)')
  BY DEF Placed, OfVersion
<1>1. CASE OfVersion(points, v) # {}
  <2>1. Known(v) /\ (Pointed(v) \/ Landing(v) \/ Clearing(v))
    BY <1>1 DEF TidyStep, Placed
  <2> QED
    BY <2>1, KnownLives, PointedStays, LandingStays, ClearingStays
<1>2. CASE OfVersion(points, v) = {}
  <2>1. IndexMove /\ pipe \in [Actors -> RunRec]
    BY TypeParts DEF TidyStep, QuietStep, HeldInv, FiledInv, RunsTyped
  <2>2. PICK a \in Actors : Ingest(a) /\ At(a, "upsert") /\ points' = points \cup Indexed(a)
    BY <1>2, <2>1 DEF IndexMove, Adds, Removes, Purges, OfVersion
  <2>3. pipe[a].job = v
    BY <1>2, <2>2 DEF OfVersion, Indexed, ChunksOf
  <2>4. Known(v)
    BY <2>2, <2>3, RunsAreKnown DEF TidyStep, QuietStep, HeldInv, At
  <2>5. Goto(a, "commit")
    BY <2>2, NoStepFails, StepIs DEF TidyStep, Upsert
  <2>6. pipe'[a].pc = "commit" /\ pipe'[a].job = v
    BY <2>1, <2>3, <2>5 DEF Goto, RunRec
  <2> QED
    BY <2>4, <2>6, KnownLives DEF Landing
<1> QED
  BY <1>1, <1>2

LatestInv ==
  /\ ServeInv
  /\ disruptions = 0 => Forward
  /\ faults = 0 /\ disruptions = 0 => \A v \in Versions : Placed(v)

LEMMA LatestInit == Init => LatestInv
<1> SUFFICES ASSUME Init PROVE LatestInv
  OBVIOUS
<1>1. \A v \in Versions : ~ Known(v) /\ OfVersion(points, v) = {}
  BY DEF Init, Known, Absent, OfVersion
<1>2. \A c \in Clients : client[c].pc \notin Reading
  BY DEF Init, Idle, Reading
<1>3. Forward /\ \A v \in Versions : Placed(v)
  BY <1>1, <1>2 DEF Forward, Onward, OnwardFrom, Placed
<1> QED
  BY <1>3, ServeInit DEF LatestInv

LEMMA LatestStep ==
  ASSUME LatestInv, [Next]_vars, "rollback" \notin Ops, "delete" \notin Ops
  PROVE  LatestInv'
<1>1. ServeInv' /\ CalmInv' /\ CalmInv /\ FiledInv
  BY ServeStep DEF LatestInv, ServeInv, CalmInv
<1>2. ASSUME disruptions' = 0 PROVE disruptions = 0 /\ Forward /\ Forward'
  <2>1. disruptions = 0
    BY <1>1, <1>2, NextRefines, DisruptionsGrow DEF FiledInv
  <2> QED
    BY <1>1, <1>2, <2>1, ForwardStays DEF LatestInv
<1>3. ASSUME disruptions' = 0, faults' = 0, NEW v \in Versions PROVE Placed(v)'
  <2>1. faults = 0 /\ disruptions = 0 /\ Forward
    BY <1>1, <1>2, <1>3, FaultsGrow DEF FiledInv
  <2>2. QuietStep
    BY <1>3, QuietSteps DEF LatestInv
  <2>3. TidyStep
    BY <2>1, <2>2 DEF TidyStep, LatestInv
  <2> QED
    BY <2>3, PlacedStays
<1> QED
  BY <1>1, <1>2, <1>3 DEF LatestInv

(* When nothing is at work on a document any more, a search can only hit    *)
(* its current version: the runs, in whatever order they took place, have   *)
(* between them removed the points of every version before it, and none of  *)
(* a version that failed is left.  Without rollbacks and deletions (both    *)
(* leave points behind), and until something fails.                         *)
THEOREM OnlyLatestIsFound ==
  ASSUME "rollback" \notin Ops, "delete" \notin Ops
  PROVE  Spec => []OnlyLatestUntilFault
<1>1. LatestInv => OnlyLatestUntilFault
  <2> SUFFICES ASSUME LatestInv, faults = 0, disruptions = 0, NEW d \in Docs, ~ Busy(d),
                      NEW p \in OfDoc(points, d)
               PROVE  Live(d) /\ NumOf(p[1]) = docs[d].current
    BY DEF OnlyLatestUntilFault
  <2>1. FiledInv /\ TypeInv /\ StoresFiled /\ points \subseteq Chunks
    BY TypeParts DEF LatestInv, ServeInv, CalmInv, FiledInv, Filed, StoresTyped
  <2>2. PICK v \in Versions : v = p[1] /\ DocOf(v) = d /\ p \in OfVersion(points, v)
    BY <2>1 DEF OfDoc, OfVersion, Chunks
  <2>3. Known(v) /\ (Pointed(v) \/ Landing(v) \/ Clearing(v))
    BY <2>2 DEF LatestInv, Placed
  <2>4. ASSUME NEW a \in Actors, pipe[a].pc # "idle", DocOf(pipe[a].job) = d PROVE FALSE
    <3>1. pipe[a].job \in Versions
      BY <2>1, <2>4, RunsAreKnown
    <3> QED
      BY <2>4, <3>1 DEF Busy, InFlight
  <2>5. ~ Landing(v)
    BY <2>2, <2>4 DEF Landing
  <2>6. ~ Clearing(v)
    BY <2>2, <2>4 DEF Clearing, Old, DocOf
  <2>7. Live(d)
    BY <2>1, <2>2, <2>3, DocsTyped DEF StoresFiled, Born, Dead, Live
  <2> QED
    BY <2>2, <2>3, <2>5, <2>6, <2>7 DEF Pointed
<1>2. Init => LatestInv
  BY LatestInit
<1>3. LatestInv /\ [Next]_vars => LatestInv'
  BY LatestStep
<1> QED
  BY <1>1, <1>2, <1>3, PTL DEF Spec

-----------------------------------------------------------------------------
(* Who is answerable for a version: a message that waits, a request that    *)
(* has not handed it over, or a run that has not passed its marking, of a   *)
(* worker the broker has not given up.  A version still "processing" that   *)
(* nobody answers for was left by a loss of its own.                        *)
Early == {"load_version", "load_doc", "parse", "upsert", "commit", "ready_version", "fail_version"}
Cares(a, v) ==
  \/ Asks(a, v)
  \/ pipe[a].pc \in Early /\ pipe[a].job = v /\ (a \in Workers => link[a] = "up")
Left(v) ==
  /\ versions[v].status = "processing"
  /\ ~ Q!Waiting(v) /\ \A a \in Actors : ~ Cares(a, v)
AllLeft == {v \in Versions : Left(v)}

PaidFor ==
  /\ IsFiniteSet(AllLeft) /\ IsFiniteSet(unconfirmed) /\ unconfirmed \subseteq accepted
  /\ Cardinality(AllLeft) <= faults + Cardinality(unconfirmed)
LinksTyped == link \in [Workers -> {"up", "down"}]
LossInv == HeldInv /\ LinksTyped /\ PaidFor

(* What a step does: it leaves no further version, or one, at a price. *)
LeavesNone == \A v \in Versions : Left(v)' => Left(v)
LeavesOne  == \E x : \A v \in Versions : Left(v)' => Left(v) \/ v = x
Harmless == faults' = faults /\ unconfirmed' = unconfirmed /\ LeavesNone
Failing  == faults' = faults + 1 /\ unconfirmed' = unconfirmed /\ LeavesOne
Losing   ==
  /\ faults' = faults
  /\ \E x : /\ x \notin accepted /\ x \in accepted' /\ unconfirmed' = unconfirmed \cup {x}
            /\ \A v \in Versions : Left(v)' => Left(v) \/ v = x

LEMMA OthersCare ==
  ASSUME NEW x, Alone(x), \A w \in Workers \ {x} : link'[w] = link[w],
         NEW b \in Actors \ {x}, NEW v \in Versions
  PROVE  Cares(b, v) => Cares(b, v)'
<1>1. /\ b \in Clients => client'[b] = client[b]
      /\ b \in Workers => link'[b] = link[b]
      /\ pipe'[b] = pipe[b]
  BY DEF Alone
<1> QED
  BY <1>1 DEF Cares, Asks, Job

LEMMA StillWaits ==
  ASSUME NEW v \in Versions, main' = main, retryq' = retryq
  PROVE  Q!Waiting(v) => Q!Waiting(v)'
BY DEF Q!Waiting

LEMMA PutWaits ==
  ASSUME QueueTyped, NEW m \in Q!Message, NEW v \in Versions,
         \/ main' = Q!Put(main, m) /\ retryq' = retryq
         \/ retryq' = Q!Put(retryq, m) /\ main' = main
  PROVE  (Q!Waiting(v) \/ v = m.job) => Q!Waiting(v)'
<1>1. main \in [Q!Message -> Nat] /\ retryq \in [Q!Message -> Nat]
  BY DEF QueueTyped
<1>2. CASE main' = Q!Put(main, m) /\ retryq' = retryq
  <2>1. main'[m] > 0 /\ \A k \in Q!Message : main[k] > 0 => main'[k] > 0
    <3>1. main'[m] = main[m] + 1 /\ \A k \in Q!Message \ {m} : main'[k] = main[k]
      BY <1>1, <1>2, PutTake
    <3> QED
      BY <1>1, <3>1
  <2> QED
    BY <1>2, <2>1 DEF Q!Waiting
<1>3. CASE retryq' = Q!Put(retryq, m) /\ main' = main
  <2>1. retryq'[m] > 0 /\ \A k \in Q!Message : retryq[k] > 0 => retryq'[k] > 0
    <3>1. retryq'[m] = retryq[m] + 1 /\ \A k \in Q!Message \ {m} : retryq'[k] = retryq[k]
      BY <1>1, <1>3, PutTake
    <3> QED
      BY <1>1, <3>1
  <2> QED
    BY <1>3, <2>1 DEF Q!Waiting
<1> QED
  BY <1>2, <1>3

(* A step that leaves the table of versions and the queues alone leaves     *)
(* only what its actor cared for.                                           *)
LEMMA LeftByActor ==
  ASSUME NEW x \in Actors, Alone(x), \A w \in Workers \ {x} : link'[w] = link[w],
         NEW v \in Versions, versions' = versions, Q!Waiting(v) => Q!Waiting(v)',
         Left(v)', ~ Left(v)
  PROVE  Cares(x, v) /\ ~ Cares(x, v)' /\ versions[v].status = "processing"
BY OthersCare DEF Left

LEMMA EarlyGoesOn ==
  ASSUME TypeInv, NEW a \in Actors, PipelineStep(a), pipe[a].pc \in Early,
         versions'[pipe[a].job].status = "processing"
  PROVE  pipe'[a].pc \in Early
<1>1. pipe \in [Actors -> RunRec] /\ versions \in [Versions -> VersionRec]
  BY TypeParts DEF RunsTyped, StoresTyped
<1>2. pipe[a].job \in Versions
  BY RunIsOfVersion DEF Early
<1>3. ASSUME NEW l, Goto(a, l) PROVE pipe'[a].pc = l
  BY <1>1, <1>3 DEF Goto, RunRec
<1>4. CASE LoadVersion(a)
  <2>1. Exists(pipe[a].job)
    BY <1>4 DEF LoadVersion, Exists, stores, mysql
  <2> QED
    BY <1>3, <1>4, <2>1 DEF LoadVersion, Early
<1>5. CASE LoadDoc(a) \/ Upsert(a) \/ Commit(a)
  BY <1>3, <1>5 DEF LoadDoc, Upsert, Commit, Early
<1>6. CASE Parse(a)
  <2>1. PICK n : pipe' = [pipe EXCEPT ![a].pc = IF n = 0 THEN "fail_version" ELSE "upsert", ![a].size = n]
    BY <1>6 DEF Parse
  <2> QED
    BY <1>1, <2>1 DEF Early, RunRec
<1>7. CASE ReadyVersion(a) \/ FailVersion(a)
  <2>1. PICK s \in {"ready", "failed"} : SetVersionStatus(pipe[a].job, s)
    BY <1>7 DEF ReadyVersion, FailVersion
  <2>2. CASE Exists(pipe[a].job)
    BY <1>1, <1>2, <2>1, <2>2 DEF SetVersionStatus, VersionRec
  <2>3. CASE ~ Exists(pipe[a].job)
    BY <2>1, <2>3 DEF SetVersionStatus, Exists
  <2> QED
    BY <2>2, <2>3
<1>8. CASE ReadyDoc(a) \/ LookupOld(a) \/ CleanRows(a) \/ CleanPoints(a) \/ FailDoc(a)
  BY <1>8 DEF ReadyDoc, LookupOld, CleanRows, CleanPoints, FailDoc, At, Early
<1> QED
  BY <1>4, <1>5, <1>6, <1>7, <1>8 DEF PipelineStep

LEMMA RunLeaves ==
  ASSUME HeldInv, NEW a \in Actors, Ingest(a)
  PROVE  Harmless \/ Failing
<1>1. TypeInv /\ Alone(a) /\ client' = client /\ link' = link /\ main' = main /\ retryq' = retryq
      /\ unconfirmed' = unconfirmed /\ pipe'[a].job = pipe[a].job
  BY IngestMoves DEF HeldInv, FiledInv, Ingest, queue, Alone
<1>2. pipe[a].job \in Versions
  BY <1>1, IngestMoves, RunIsOfVersion
<1>3. ASSUME NEW v \in Versions, versions'[v].status = "processing" PROVE versions[v].status = "processing"
  <2>1. versions' = versions \/ Marks(a) \/ PointsBy(a)
    BY <1>1, StoresMoveByRun
  <2> QED
    BY <1>3, <2>1 DEF Marks, PointsBy, PointsTo, SameStatus
<1>4. ASSUME NEW v \in Versions, Left(v)', ~ Left(v)
      PROVE  v = pipe[a].job /\ pipe[a].pc \in Early /\ pipe'[a].pc \notin Early
             /\ versions'[v].status = "processing"
  <2>1. versions'[v].status = "processing" /\ versions[v].status = "processing"
    BY <1>3, <1>4 DEF Left
  <2>2. ~ Q!Waiting(v)
    BY <1>1, <1>4, StillWaits DEF Left
  <2>3. PICK b \in Actors : Cares(b, v)
    BY <1>4, <2>1, <2>2 DEF Left
  <2>4. ~ Cares(b, v)'
    BY <1>4 DEF Left
  <2>5. b = a
    BY <1>1, <2>3, <2>4, OthersCare
  <2>6. ~ Asks(a, v)
    BY <1>1, <2>4, <2>5 DEF Cares, Asks, Job
  <2> QED
    BY <1>1, <2>1, <2>3, <2>4, <2>5, <2>6 DEF Cares
<1>5. CASE PipelineStep(a)
  <2>1. faults' = faults
    BY <1>5 DEF PipelineStep, LoadVersion, LoadDoc, Parse, Upsert, Commit, ReadyVersion, ReadyDoc,
       LookupOld, CleanRows, CleanPoints, FailVersion, FailDoc
  <2>2. LeavesNone
    BY <1>1, <1>4, <1>5, EarlyGoesOn DEF LeavesNone
  <2> QED
    BY <1>1, <2>1, <2>2 DEF Harmless
<1>6. CASE StepFails(a)
  BY <1>1, <1>4, <1>6 DEF StepFails, Fault, Failing, LeavesOne
<1> QED
  BY <1>5, <1>6 DEF Ingest

LEMMA RequestLeaves ==
  ASSUME HeldInv, NEW c \in Clients, Request(c) \/ Handle(c), ~ Enqueue(c), ~ Ingested(c)
  PROVE  Harmless \/ Failing
<1>1. /\ link' = link /\ main' = main /\ retryq' = retryq /\ unconfirmed' = unconfirmed /\ pipe' = pipe
      /\ phase' = phase /\ msg' = msg /\ c \in Actors /\ c \notin Workers
  BY ActorsAssumption DEF Handle, PutObject, CreateDoc, CreateVersion, ReadCurrent, MarkProcessing,
     RollbackDocument, DeleteRows, DeleteObject, DeletePoints, queue, Actors,
     Request, StartUpload, StartReindex, StartDelete, StartRollback, Accept
<1>2. /\ TypeInv
      /\ Begins(c) \/ client'[c] = Idle \/ GoesOn(c)
      /\ \A y \in Clients \ {c} : client'[y] = client[y]
  BY Beginning, GoingOn DEF HeldInv, FiledInv, Begins
<1>3. client[c].pc # "enqueue" /\ Alone(c)
  BY <1>1, <1>2 DEF Alone, Handle, PutObject, CreateDoc, CreateVersion, ReadCurrent, MarkProcessing,
     RollbackDocument, DeleteRows, DeleteObject, DeletePoints, Asked,
     Request, StartUpload, StartReindex, StartDelete, StartRollback, Accept
<1>4. ASSUME NEW v \in Versions, Asks(c, v) PROVE client'[c].pc = "enqueue" /\ Job(c)' = Job(c)
  <2>1. client[c].pc = "mark_processing"
    BY <1>3, <1>4 DEF Asks
  <2>2. MarkProcessing(c)
    BY <2>1 DEF Handle, PutObject, CreateDoc, CreateVersion, ReadCurrent,
       RollbackDocument, DeleteRows, DeleteObject, DeletePoints, Asked,
       Request, StartUpload, StartReindex, StartDelete, StartRollback, Accept
  <2>3. client \in [Clients -> ClientRec]
    BY <1>2, TypeParts DEF ClientsTyped
  <2>4. client'[c].pc = "enqueue"
    BY <2>2, <2>3 DEF MarkProcessing, Proceed
  <2>5. client'[c].doc = client[c].doc /\ client'[c].num = client[c].num
    BY <1>2, <2>1, <2>4 DEF Begins, GoesOn, Idle
  <2> QED
    BY <2>4, <2>5 DEF Job
<1>5. ASSUME NEW v \in Versions, versions'[v].status = "processing", ~ Asks(c, v)'
      PROVE  versions[v].status = "processing"
  <2>1. CASE versions' = versions
    BY <1>5, <2>1
  <2>2. CASE Inserts(c)
    <3>1. v # Job(c)
      <4>1. CreateVersion(c)
        BY <2>2 DEF Inserts, Handle, PutObject, CreateDoc, MarkProcessing, ReadCurrent,
           RollbackDocument, DeleteRows, DeleteObject, DeletePoints, Asked,
           Request, StartUpload, StartReindex, StartDelete, StartRollback, Accept
      <4>2. ~ Duplicate(Job(c))
        BY <2>2 DEF Inserts, Known, Duplicate
      <4>3. client \in [Clients -> ClientRec]
        BY <1>2, TypeParts DEF ClientsTyped
      <4>4. client'[c].pc \in {"mark_processing", "enqueue"}
        <5>1. PICK l \in {"mark_processing", "enqueue"} : Proceed(c, l)
          BY <4>1, <4>2 DEF CreateVersion
        <5> QED
          BY <4>3, <5>1 DEF Proceed
      <4>5. client'[c].doc = client[c].doc /\ client'[c].num = client[c].num
        BY <1>2, <2>2, <4>4 DEF Begins, GoesOn, Idle, Inserts
      <4>6. Job(c)' = Job(c)
        BY <4>5 DEF Job
      <4> QED
        BY <1>5, <4>4, <4>6 DEF Asks
    <3> QED
      BY <1>5, <2>2, <3>1 DEF Inserts, SameStatus
  <2>3. CASE Deletes(c)
    BY <1>5, <2>3 DEF Deletes, SameStatus
  <2>4. versions' = versions \/ Inserts(c) \/ Deletes(c)
    <3>1. CASE Request(c)
      BY <3>1 DEF Request, StartUpload, StartReindex, StartDelete, StartRollback, Accept, stores
    <3>2. CASE Handle(c)
      BY <1>2, <3>2, StoresMoveByRequest DEF Creates, PointsFor, PointsTo
    <3> QED
      BY <3>1, <3>2
  <2> QED
    BY <2>1, <2>2, <2>3, <2>4
<1>6. LeavesNone
  <2> SUFFICES ASSUME NEW v \in Versions, Left(v)', ~ Left(v) PROVE FALSE
    BY DEF LeavesNone
  <2>1. versions'[v].status = "processing" /\ ~ Cares(c, v)'
    BY <1>1 DEF Left
  <2>2. versions[v].status = "processing"
    BY <1>5, <2>1 DEF Cares
  <2>3. ~ Q!Waiting(v)
    BY <1>1, StillWaits DEF Left
  <2>4. PICK b \in Actors : Cares(b, v) /\ ~ Cares(b, v)'
    BY <2>2, <2>3 DEF Left
  <2>5. b = c
    BY <1>1, <1>3, <2>4, OthersCare
  <2>6. ~ Asks(c, v)
    BY <1>1, <1>4, <2>1 DEF Cares, Asks
  <2> QED
    BY <1>1, <2>1, <2>4, <2>5, <2>6 DEF Cares
<1>7. faults' \in {faults, faults + 1}
  BY DEF Handle, PutObject, CreateDoc, CreateVersion, ReadCurrent, MarkProcessing, Fault,
     RollbackDocument, DeleteRows, DeleteObject, DeletePoints,
     Request, StartUpload, StartReindex, StartDelete, StartRollback, Accept
<1> QED
  BY <1>1, <1>6, <1>7 DEF Harmless, Failing, LeavesNone, LeavesOne

(* A finished request had marked its version; an aborted one leaves it. *)
LEMMA EndLeaves ==
  ASSUME HeldInv, NEW c \in Clients, Ingested(c) \/ Abort(c)
  PROVE  Harmless \/ Failing
<1>1. /\ link' = link /\ main' = main /\ retryq' = retryq /\ unconfirmed' = unconfirmed
      /\ c \in Actors /\ c \notin Workers /\ versions' = versions /\ RunHeld(c)
  BY ActorsAssumption DEF Ingested, Abort, queue, stores, mysql, Actors, HeldInv
<1>2. Alone(c)
  <2>1. CASE Versions = {}
    <3>1. client[c].pc \in Deleting \cup {"idle"}
      BY <2>1, JobIsVersion DEF HeldInv, FiledInv
    <3>2. client \in [Clients -> ClientRec] /\ pipe \in [Actors -> RunRec]
      BY TypeParts DEF HeldInv, FiledInv, ClientsTyped, RunsTyped
    <3> QED
      BY <3>2 DEF Ingested, Abort, Answer, Finish, Alone, queue
  <2>2. CASE Versions # {}
    BY <2>2, EndHeld
  <2> QED
    BY <2>1, <2>2
<1>3. ASSUME NEW v \in Versions, Left(v)', ~ Left(v) PROVE Cares(c, v)
  BY <1>1, <1>2, <1>3, LeftByActor, StillWaits
<1>4. CASE Ingested(c)
  <2>1. \A v \in Versions : ~ Cares(c, v)
    BY <1>4 DEF Ingested, Asked, Cares, Asks, Early
  <2> QED
    BY <1>1, <1>3, <1>4, <2>1 DEF Ingested, Harmless, LeavesNone
<1>5. CASE Abort(c)
  <2>1. faults' = faults + 1
    BY <1>5 DEF Abort, Fault
  <2>2. CASE client[c].pc = "ingest"
    <3>1. \A v \in Versions : Cares(c, v) => v = pipe[c].job
      BY <2>2 DEF Cares, Asks
    <3> QED
      BY <1>1, <1>3, <2>1, <3>1 DEF Failing, LeavesOne
  <2>3. CASE client[c].pc # "ingest"
    <3>1. \A v \in Versions : Cares(c, v) => v = Job(c)
      BY <1>1, <2>3 DEF Cares, Asks, RunHeld, Early
    <3> QED
      BY <1>1, <1>3, <2>1, <3>1 DEF Failing, LeavesOne
  <2> QED
    BY <2>2, <2>3
<1> QED
  BY <1>4, <1>5

LEMMA EnqueueLeaves ==
  ASSUME HeldInv, NEW c \in Clients, Enqueue(c)
  PROVE  /\ Harmless \/ Losing
         /\ Alone(c) /\ RunHeld(c)'
<1>1. /\ c \in Actors /\ c \notin Workers /\ client[c].pc = "enqueue" /\ pipe[c].pc = "idle" /\ RunHeld(c)
      /\ faults' = faults /\ versions' = versions
  BY ActorsAssumption DEF HeldInv, RunHeld, Actors, Enqueue, Asked, stores, mysql
<1>2. /\ client \in [Clients -> ClientRec] /\ pipe \in [Actors -> RunRec] /\ QueueTyped
      /\ Job(c) \in Versions
  BY <1>1, TypeParts, JobIsVersion DEF HeldInv, FiledInv, ClientsTyped, RunsTyped, Deleting
<1>3. \A v \in Versions : Cares(c, v) => v = Job(c)
  BY <1>1 DEF Cares, Asks, Early
<1>4. CASE Answer(c) /\ UNCHANGED pipe /\ (Q!Enqueue(Job(c)) \/ Q!EnqueueLost(Job(c)))
  <2>1. \A y \in Clients \ {c} : client'[y] = client[y]
    BY <1>2, <1>4 DEF Answer
  <2>2. retryq' = retryq /\ phase' = phase /\ msg' = msg /\ link' = link
    BY <1>4 DEF Q!Enqueue, Q!EnqueueLost, Q!consumer, Q!broker
  <2>3. Alone(c) /\ RunHeld(c)'
    BY <1>1, <1>4, <2>1, <2>2 DEF Alone, RunHeld
  <2>4. CASE Q!Enqueue(Job(c))
    <3>1. PICK f \in Q!Message : f.job = Job(c) /\ main' = Q!Put(main, f)
      BY <1>2, <2>4, FirstCopyOf DEF Q!Enqueue
    <3>2. \A v \in Versions : Q!Waiting(v) \/ v = Job(c) => Q!Waiting(v)'
      BY <1>2, <2>2, <3>1, PutWaits
    <3>3. ASSUME NEW v \in Versions, Left(v)' PROVE Left(v)
      <4>1. ~ Q!Waiting(v)'
        BY <3>3 DEF Left
      <4>2. ~ Cares(c, v)
        BY <1>3, <3>2, <4>1
      <4> QED
        BY <1>1, <2>2, <2>3, <3>2, <3>3, <4>2, LeftByActor
    <3>4. unconfirmed' = unconfirmed
      BY <2>4 DEF Q!Enqueue
    <3> QED
      BY <1>1, <2>3, <3>3, <3>4 DEF Harmless, LeavesNone
  <2>5. CASE Q!EnqueueLost(Job(c))
    <3>1. /\ main' = main /\ Job(c) \notin accepted /\ accepted' = accepted \cup {Job(c)}
          /\ unconfirmed' = unconfirmed \cup {Job(c)}
      BY <2>5 DEF Q!EnqueueLost, Q!broker
    <3>2. ASSUME NEW v \in Versions, Left(v)' PROVE Left(v) \/ v = Job(c)
      BY <1>1, <1>3, <2>2, <2>3, <3>1, <3>2, LeftByActor, StillWaits
    <3> QED
      BY <1>1, <2>3, <3>1, <3>2 DEF Losing
  <2> QED
    BY <1>4, <2>3, <2>4, <2>5
<1>5. CASE Proceed(c, "ingest") /\ Start(c, Job(c)) /\ (Q!EnqueueFails(Job(c)) \/ UNCHANGED queue)
  <2>1. /\ main' = main /\ retryq' = retryq /\ phase' = phase /\ msg' = msg /\ link' = link
        /\ unconfirmed' = unconfirmed
    BY <1>5 DEF Q!EnqueueFails, Q!broker, Q!consumer, Q!ledger, queue
  <2>2. \A y \in Clients \ {c} : client'[y] = client[y]
    BY <1>2, <1>5 DEF Proceed
  <2>3. /\ pipe'[c].pc = "load_version" /\ pipe'[c].job = Job(c)
        /\ \A y \in Actors \ {c} : pipe'[y] = pipe[y]
    BY <1>1, <1>2, <1>5 DEF Start
  <2>4. Alone(c) /\ RunHeld(c)'
    <3>1. client'[c].pc = "ingest"
      BY <1>2, <1>5 DEF Proceed
    <3> QED
      BY <1>1, <1>2, <2>1, <2>2, <2>3, <3>1, NoVersionAssumption DEF Alone, RunHeld
  <2>5. ASSUME NEW v \in Versions, v = Job(c) PROVE Cares(c, v)'
    BY <1>1, <2>3, <2>5 DEF Cares, Early
  <2>6. ASSUME NEW v \in Versions, Left(v)' PROVE Left(v)
    BY <1>1, <1>3, <2>1, <2>4, <2>5, <2>6, LeftByActor, StillWaits
  <2> QED
    BY <1>1, <2>1, <2>4, <2>6 DEF Harmless, LeavesNone
<1> QED
  BY <1>4, <1>5 DEF Enqueue

(* A worker takes a message into a run, returns from one that has marked    *)
(* its version, and disposes of what it no longer answers for.              *)
LEMMA WorkLeaves ==
  ASSUME HeldInv, NEW w \in Workers, WorkerTakes(w) \/ WorkerReturns(w) \/ WorkerDisposes(w)
  PROVE  Harmless
<1>1. /\ w \in Actors /\ faults' = faults /\ versions' = versions /\ RunHeld(w) /\ QueueTyped
      /\ client' = client /\ pipe \in [Actors -> RunRec]
  BY TypeParts DEF HeldInv, FiledInv, RunsTyped, Actors, WorkerTakes, WorkerReturns, WorkerDisposes,
     Local, stores, mysql
<1>2. unconfirmed' = unconfirmed /\ link' = link
  BY DEF WorkerTakes, WorkerReturns, WorkerDisposes, Q!Deliver, Q!HandlerOk, Q!HandlerErr,
     Q!PublishRetry, Q!PublishDLQ, Q!Ack, Q!GiveUp, Q!ledger
<1>3. CASE Versions = {}
  BY <1>1, <1>2, <1>3 DEF Harmless, LeavesNone
<1>4. CASE Versions # {}
  <2>1. Alone(w)
    BY <1>4, TakeHeld, ReturnHeld, DisposeHeld
  <2>2. CASE WorkerTakes(w)
    <3>1. PICK m \in Q!Message : Q!Deliver(w, m) /\ Start(w, m.job)
      BY <2>2 DEF WorkerTakes
    <3>2. pipe'[w].pc = "load_version" /\ pipe'[w].job = m.job /\ link'[w] = "up" /\ pipe[w].pc = "idle"
      BY <1>1, <1>2, <3>1 DEF Start, Q!Deliver, RunHeld
    <3>3. ASSUME NEW v \in Versions, Q!Waiting(v), v # m.job PROVE Q!Waiting(v)'
      <4>1. PICK k \in Q!Message : k.job = v /\ (main[k] > 0 \/ retryq[k] > 0)
        BY <3>3 DEF Q!Waiting
      <4>2. main'[k] = main[k] /\ retryq' = retryq
        BY <1>1, <3>1, <3>3, <4>1, PutTake DEF Q!Deliver, QueueTyped
      <4> QED
        BY <4>1, <4>2 DEF Q!Waiting
    <3>4. \A v \in Versions : ~ Cares(w, v)
      BY <1>1, <3>2, ActorsAssumption DEF Cares, Asks, Early
    <3>5. ASSUME NEW v \in Versions, v = m.job PROVE Cares(w, v)'
      BY <1>1, <3>2, <3>5 DEF Cares, Early
    <3>6. ASSUME NEW v \in Versions, Left(v)' PROVE Left(v)
      <4>1. v # m.job
        BY <1>1, <3>5, <3>6 DEF Left
      <4> QED
        BY <1>1, <1>2, <2>1, <3>3, <3>4, <3>6, <4>1, LeftByActor
    <3> QED
      BY <1>1, <1>2, <3>6 DEF Harmless, LeavesNone
  <2>3. CASE WorkerReturns(w) \/ WorkerDisposes(w)
    <3>1. \A v \in Versions : ~ Cares(w, v)
      <4>1. pipe[w].pc \notin Early
        BY <1>1, <2>3 DEF WorkerReturns, WorkerDisposes, Q!PublishRetry, Q!PublishDLQ, Q!Ack, Q!GiveUp,
           RunHeld, At, Early
      <4> QED
        BY <4>1, ActorsAssumption DEF Cares, Asks
    <3>2. ASSUME NEW v \in Versions PROVE Q!Waiting(v) => Q!Waiting(v)'
      <4>1. CASE Q!PublishRetry(w)
        <5>1. Q!RetryCopy(msg[w]) \in Q!Message
          BY <1>1, <4>1, BusyHolds, NextCopy DEF Q!PublishRetry
        <5> QED
          BY <1>1, <4>1, <5>1, PutWaits DEF Q!PublishRetry
      <4>2. CASE ~ Q!PublishRetry(w)
        <5>1. main' = main /\ retryq' = retryq
          BY <2>3, <4>2 DEF WorkerReturns, WorkerDisposes, Q!HandlerOk, Q!HandlerErr, Q!PublishDLQ,
             Q!Ack, Q!GiveUp, Q!broker
        <5> QED
          BY <5>1, StillWaits
      <4> QED
        BY <4>1, <4>2
    <3>3. ASSUME NEW v \in Versions, Left(v)' PROVE Left(v)
      BY <1>1, <1>2, <2>1, <3>1, <3>2, <3>3, LeftByActor
    <3> QED
      BY <1>1, <1>2, <3>3 DEF Harmless, LeavesNone
  <2> QED
    BY <2>2, <2>3
<1> QED
  BY <1>3, <1>4

(* What a disruption does: the broker takes the message back, and with it   *)
(* the version waits again.                                                 *)
LEMMA DisruptionLeaves ==
  ASSUME HeldInv, LinksTyped, NEW w \in Workers, WorkerDies(w) \/ LinkChanges(w)
  PROVE  Harmless /\ Alone(w) /\ RunHeld(w)'
<1>1. /\ w \in Actors /\ w \notin Clients /\ faults' = faults /\ versions' = versions /\ RunHeld(w)
      /\ QueueTyped /\ client' = client /\ pipe \in [Actors -> RunRec]
  BY TypeParts, ActorsAssumption DEF HeldInv, FiledInv, RunsTyped, Actors, WorkerDies, LinkChanges,
     Local, stores, mysql
<1>2. unconfirmed' = unconfirmed /\ retryq' = retryq
  BY DEF WorkerDies, LinkChanges, Q!Crash, Q!PublishFails, Q!ConnectionLost, Q!Restart, Q!broker, Q!ledger
<1>3. \A x \in Workers \ {w} : link'[x] = link[x] /\ phase'[x] = phase[x] /\ msg'[x] = msg[x]
  <2>1. phase \in [Workers -> Q!Phases] /\ msg \in [Workers -> Q!Message \cup {NoMessage}]
    BY <1>1 DEF QueueTyped
  <2>2. /\ phase' = phase \/ phase' = [phase EXCEPT ![w] = "idle"]
        /\ msg' = msg \/ msg' = [msg EXCEPT ![w] = NoMessage]
        /\ link' = link \/ \E s : link' = [link EXCEPT ![w] = s]
    BY DEF WorkerDies, LinkChanges, Q!Crash, Q!PublishFails, Q!ConnectionLost, Q!Restart, Q!BackToIdle, Q!broker
  <2> QED
    BY <2>1, <2>2 DEF LinksTyped
<1>4. CASE WorkerDies(w)
  <2>1. Q!Crash(w) /\ Finish(w)
    BY <1>4 DEF WorkerDies
  <2>2. /\ pipe'[w].pc = "idle" /\ pipe'[w].job = NoMessage
        /\ \A b \in Actors \ {w} : pipe'[b] = pipe[b]
    BY <1>1, <2>1 DEF Finish, NoRun
  <2>3. Alone(w)
    BY <1>1, <1>3, <2>2 DEF Alone
  <2>4. phase'[w] = "idle"
    BY <1>1, <2>1 DEF Q!Crash, Q!BackToIdle, QueueTyped
  <2>5. RunHeld(w)'
    BY <1>1, <2>2, <2>4 DEF RunHeld
  <2>6. msg[w] \in Q!Message
    BY <1>1, <2>1, BusyHolds DEF Q!Crash
  <2>7. main' = main \/ (main' = Q!Put(main, msg[w]))
    BY <2>1 DEF Q!Crash, Q!Requeued
  <2>8. link[w] = "up" => main' = Q!Put(main, msg[w])
    BY <2>1 DEF Q!Crash, Q!Requeued
  <2>9. ASSUME NEW v \in Versions PROVE Q!Waiting(v) => Q!Waiting(v)'
    BY <1>1, <1>2, <2>6, <2>7, PutWaits, StillWaits
  <2>10. ASSUME NEW v \in Versions, Cares(w, v) PROVE Q!Waiting(v)'
    <3>1. link[w] = "up" /\ pipe[w].job = v /\ pipe[w].pc # "idle"
      BY <1>1, <2>10 DEF Cares, Asks, Early
    <3>2. v = msg[w].job
      BY <1>1, <3>1 DEF RunHeld
    <3> QED
      BY <1>1, <1>2, <2>6, <2>8, <3>1, <3>2, PutWaits
  <2>11. ASSUME NEW v \in Versions, Left(v)' PROVE Left(v)
    <3>1. ~ Q!Waiting(v)'
      BY <2>11 DEF Left
    <3> QED
      BY <1>1, <1>3, <2>3, <2>9, <2>10, <2>11, <3>1, LeftByActor
  <2> QED
    BY <1>1, <1>2, <2>3, <2>5, <2>11 DEF Harmless, LeavesNone
<1>5. CASE LinkChanges(w)
  <2>1. pipe' = pipe
    BY <1>5 DEF LinkChanges
  <2>2. Alone(w)
    BY <1>1, <1>3, <2>1 DEF Alone
  <2>3. CASE Q!PublishFails(w)
    <3>1. phase[w] = "erred" /\ phase'[w] = "idle" /\ main' = Q!Put(main, msg[w])
      BY <1>1, <2>3 DEF Q!PublishFails, Q!BackToIdle, QueueTyped
    <3>2. msg[w] \in Q!Message
      BY <1>1, <3>1, BusyHolds
    <3>3. pipe[w].pc = "idle" /\ RunHeld(w)'
      BY <1>1, <2>1, <3>1 DEF RunHeld
    <3>4. ASSUME NEW v \in Versions PROVE (Q!Waiting(v) => Q!Waiting(v)') /\ ~ Cares(w, v)
      BY <1>1, <1>2, <3>1, <3>2, <3>3, PutWaits DEF Cares, Asks, Early
    <3>5. ASSUME NEW v \in Versions, Left(v)' PROVE Left(v)
      BY <1>1, <1>3, <2>2, <3>4, <3>5, LeftByActor
    <3> QED
      BY <1>1, <1>2, <2>2, <3>3, <3>5 DEF Harmless, LeavesNone
  <2>4. CASE Q!ConnectionLost(w)
    <3>1. phase' = phase /\ msg' = msg /\ RunHeld(w)'
      BY <1>1, <2>1, <2>4 DEF Q!ConnectionLost, RunHeld
    <3>2. IF phase[w] = "idle" THEN main' = main ELSE main' = Q!Put(main, msg[w]) /\ msg[w] \in Q!Message
      BY <1>1, <2>4, BusyHolds DEF Q!ConnectionLost, Q!Requeued
    <3>3. ASSUME NEW v \in Versions PROVE Q!Waiting(v) => Q!Waiting(v)'
      BY <1>1, <1>2, <3>2, PutWaits, StillWaits
    <3>4. ASSUME NEW v \in Versions, Cares(w, v) PROVE Q!Waiting(v)'
      <4>1. pipe[w].job = v /\ pipe[w].pc # "idle"
        BY <1>1, <3>4 DEF Cares, Asks, Early
      <4>2. phase[w] = "running" /\ v = msg[w].job
        BY <1>1, <4>1 DEF RunHeld
      <4> QED
        BY <1>1, <1>2, <3>2, <4>2, PutWaits
    <3>5. ASSUME NEW v \in Versions, Left(v)' PROVE Left(v)
      <4>1. ~ Q!Waiting(v)'
        BY <3>5 DEF Left
      <4> QED
        BY <1>1, <1>3, <2>2, <3>3, <3>4, <3>5, <4>1, LeftByActor
    <3> QED
      BY <1>1, <1>2, <2>2, <3>1, <3>5 DEF Harmless, LeavesNone
  <2>5. CASE Q!Restart(w)
    <3>1. phase' = phase /\ msg' = msg /\ main' = main /\ phase[w] = "idle" /\ RunHeld(w)'
      BY <1>1, <2>1, <2>5 DEF Q!Restart, Q!broker, RunHeld
    <3>2. pipe[w].pc = "idle"
      BY <1>1, <3>1 DEF RunHeld
    <3>3. ASSUME NEW v \in Versions PROVE (Q!Waiting(v) => Q!Waiting(v)') /\ ~ Cares(w, v)
      BY <1>1, <1>2, <3>1, <3>2, StillWaits DEF Cares, Asks, Early
    <3>4. ASSUME NEW v \in Versions, Left(v)' PROVE Left(v)
      BY <1>1, <1>3, <2>2, <3>3, <3>4, LeftByActor
    <3> QED
      BY <1>1, <1>2, <2>2, <3>1, <3>4 DEF Harmless, LeavesNone
  <2> QED
    BY <1>5, <2>3, <2>4, <2>5 DEF LinkChanges
<1> QED
  BY <1>4, <1>5

LEMMA LinksStayTyped ==
  ASSUME LinksTyped, [Q!Next]_(Q!vars)
  PROVE  LinksTyped'
<1> USE DEF LinksTyped
<1>1. ASSUME NEW v \in Versions, Q!Offer(v) PROVE link' = link
  BY <1>1 DEF Q!Offer, Q!Enqueue, Q!EnqueueFails, Q!EnqueueLost, Q!consumer
<1>2. ASSUME NEW w \in Workers, Q!Consume(w) PROVE link' = link
  BY <1>2 DEF Q!Consume, Q!Deliver, Q!HandlerOk, Q!HandlerErr, Q!PublishRetry, Q!PublishDLQ, Q!Ack, Q!GiveUp
<1>3. ASSUME NEW w \in Workers, Q!Disrupt(w) PROVE LinksTyped'
  BY <1>3 DEF Q!Disrupt, Q!PublishFails, Q!Crash, Q!ConnectionLost, Q!Restart
<1>4. ASSUME NEW m \in Q!Message, Q!Expire(m) PROVE link' = link
  BY <1>4 DEF Q!Expire, Q!consumer
<1>5. UNCHANGED Q!vars => link' = link
  BY DEF Q!vars
<1> QED
  BY <1>1, <1>2, <1>3, <1>4, <1>5 DEF Q!Next

(* Runs go with what made them through disruptions too. *)
LEMMA HeldStep ==
  ASSUME HeldInv, LinksTyped, [Next]_vars
  PROVE  HeldInv'
<1>1. FiledInv'
  BY FiledStep DEF HeldInv
<1>2. ASSUME NEW x \in Actors, Alone(x), RunHeld(x)' PROVE \A a \in Actors : RunHeld(a)'
  BY <1>2, OthersKeep DEF HeldInv
<1>3. CASE disruptions' = disruptions
  BY <1>1, <1>3, HeldStays DEF HeldInv
<1>4. CASE disruptions' # disruptions
  <2>1. ASSUME NEW c \in Clients, Request(c) \/ Handle(c) \/ Ingest(c) \/ Abort(c)
        PROVE  Enqueue(c)
    BY <1>4, <2>1 DEF Handle, PutObject, CreateDoc, CreateVersion, ReadCurrent, MarkProcessing,
       Ingested, RollbackDocument, DeleteRows, DeleteObject, DeletePoints, queue,
       Request, StartUpload, StartReindex, StartDelete, StartRollback, Accept, Ingest, Abort
  <2>2. ASSUME NEW w \in Workers, Work(w) PROVE FALSE
    BY <1>4, <2>2 DEF Work, Ingest, queue, WorkerTakes, WorkerReturns, WorkerDisposes, Q!Deliver,
       Q!HandlerOk, Q!HandlerErr, Q!PublishRetry, Q!PublishDLQ, Q!Ack, Q!GiveUp
  <2>3. RetryDue \/ Redeploy \/ UNCHANGED vars => FALSE
    BY <1>4 DEF RetryDue, Redeploy, vars, queue, Q!Expire
  <2>4. \/ \E c \in Clients : Enqueue(c)
        \/ \E w \in Workers : WorkerDies(w) \/ LinkChanges(w)
    BY <2>1, <2>2, <2>3 DEF Next
  <2>5. \A a \in Actors : RunHeld(a)'
    BY <1>2, <2>4, EnqueueLeaves, DisruptionLeaves DEF Actors
  <2> QED
    BY <1>1, <2>5 DEF HeldInv
<1> QED
  BY <1>3, <1>4

LEMMA StepLeaves ==
  ASSUME HeldInv, LinksTyped, [Next]_vars
  PROVE  Harmless \/ Failing \/ Losing
<1>1. ASSUME NEW c \in Clients, Request(c) \/ Handle(c) \/ Abort(c)
      PROVE  Harmless \/ Failing \/ Losing
  BY <1>1, RequestLeaves, EndLeaves, EnqueueLeaves
<1>2. ASSUME NEW a \in Actors, Ingest(a) PROVE Harmless \/ Failing
  BY <1>2, RunLeaves
<1>3. ASSUME NEW w \in Workers,
             \/ WorkerTakes(w) \/ WorkerReturns(w) \/ WorkerDisposes(w)
             \/ WorkerDies(w) \/ LinkChanges(w)
      PROVE  Harmless
  BY <1>3, WorkLeaves, DisruptionLeaves
<1>4. CASE RetryDue \/ Redeploy \/ UNCHANGED vars
  <2>1. /\ client' = client /\ pipe' = pipe /\ link' = link /\ versions' = versions
        /\ faults' = faults /\ unconfirmed' = unconfirmed
    BY <1>4 DEF RetryDue, Redeploy, vars, queue, Local, stores, mysql, Q!Expire, Q!consumer, Q!ledger
  <2>2. ASSUME NEW v \in Versions, Q!Waiting(v) PROVE Q!Waiting(v)'
    <3>1. CASE RetryDue
      <4>1. PICK m \in Q!Message : Q!Expire(m)
        BY <3>1 DEF RetryDue
      <4>2. QueueTyped /\ main' = Q!Put(main, m) /\ retryq' = Q!Take(retryq, m)
        BY <4>1 DEF Q!Expire, HeldInv, FiledInv
      <4>3. PICK k \in Q!Message : k.job = v /\ (main[k] > 0 \/ retryq[k] > 0)
        BY <2>2 DEF Q!Waiting
      <4>4. QueuedSame /\ Queued(k) > 0
        BY <4>2, <4>3, QueuedExpired DEF Queued, QueueTyped
      <4>5. Queued(k)' > 0
        BY <4>4 DEF QueuedSame
      <4>6. main' \in [Q!Message -> Nat] /\ retryq' \in [Q!Message -> Nat]
        BY <4>1, <4>2, PutTake DEF QueueTyped, Q!Expire
      <4> QED
        BY <4>3, <4>5, <4>6 DEF Queued, Q!Waiting
    <3>2. CASE Redeploy \/ UNCHANGED vars
      BY <2>2, <3>2, StillWaits DEF Redeploy, vars, queue
    <3> QED
      BY <1>4, <3>1, <3>2
  <2>3. ASSUME NEW v \in Versions, NEW a \in Actors, Cares(a, v) PROVE Cares(a, v)'
    BY <2>1, <2>3 DEF Cares, Asks, Job
  <2>4. LeavesNone
    BY <2>1, <2>2, <2>3 DEF LeavesNone, Left
  <2> QED
    BY <2>1, <2>4 DEF Harmless
<1> QED
  BY <1>1, <1>2, <1>3, <1>4 DEF Next, Work, Actors

LEMMA AcceptedGrows ==
  ASSUME [Q!Next]_(Q!vars)
  PROVE  accepted \subseteq accepted'
<1>1. ASSUME NEW v \in Versions, Q!Offer(v) PROVE accepted \subseteq accepted'
  BY <1>1 DEF Q!Offer, Q!Enqueue, Q!EnqueueFails, Q!EnqueueLost, Q!ledger
<1>2. ASSUME NEW w \in Workers, Q!Consume(w) \/ Q!Disrupt(w) PROVE accepted' = accepted
  BY <1>2 DEF Q!Consume, Q!Disrupt, Q!Deliver, Q!HandlerOk, Q!HandlerErr, Q!PublishRetry, Q!PublishDLQ,
     Q!Ack, Q!GiveUp, Q!PublishFails, Q!Crash, Q!ConnectionLost, Q!Restart, Q!ledger
<1>3. ASSUME NEW m \in Q!Message, Q!Expire(m) PROVE accepted' = accepted
  BY <1>3 DEF Q!Expire, Q!ledger
<1>4. UNCHANGED Q!vars => accepted' = accepted
  BY DEF Q!vars
<1> QED
  BY <1>1, <1>2, <1>3, <1>4 DEF Q!Next

(* A set that grew by one element at most. *)
LEMMA GrownByOne ==
  ASSUME NEW S, NEW T, NEW x, IsFiniteSet(S), T \subseteq S \cup {x}
  PROVE  IsFiniteSet(T) /\ Cardinality(T) <= Cardinality(S) + 1
<1>1. IsFiniteSet(S \cup {x}) /\ Cardinality(S \cup {x}) <= Cardinality(S) + 1
  <2>1. Cardinality(S) \in Nat
    BY FS_CardinalityType
  <2>2. /\ IsFiniteSet(S \cup {x})
        /\ Cardinality(S \cup {x}) = IF x \in S THEN Cardinality(S) ELSE Cardinality(S) + 1
    BY FS_AddElement
  <2> QED
    BY <2>1, <2>2
<1>2. IsFiniteSet(T) /\ Cardinality(T) <= Cardinality(S \cup {x})
  BY <1>1, FS_Subset
<1>3. /\ Cardinality(S) \in Nat /\ Cardinality(T) \in Nat
      /\ Cardinality(S \cup {x}) \in Nat
  BY <1>1, <1>2, FS_CardinalityType
<1> QED
  BY <1>1, <1>2, <1>3

LEMMA LossStep == LossInv /\ [Next]_vars => LossInv'
<1> SUFFICES ASSUME LossInv, [Next]_vars PROVE LossInv'
  OBVIOUS
<1>1. HeldInv /\ LinksTyped /\ PaidFor /\ TypeInv
  BY DEF LossInv, HeldInv, FiledInv
<1>2. [Q!Next]_(Q!vars)
  BY <1>1, NextRefines
<1>3. HeldInv' /\ LinksTyped' /\ accepted \subseteq accepted'
  BY <1>1, <1>2, HeldStep, LinksStayTyped, AcceptedGrows
<1>4. faults \in Nat
  BY <1>1, FaultsAssumption DEF TypeInv, TypeOK
<1>5. /\ Cardinality(AllLeft) \in Nat /\ Cardinality(unconfirmed) \in Nat
      /\ Cardinality(AllLeft) <= faults + Cardinality(unconfirmed)
      /\ IsFiniteSet(AllLeft) /\ IsFiniteSet(unconfirmed) /\ unconfirmed \subseteq accepted
  BY <1>1, FS_CardinalityType DEF PaidFor
<1>6. CASE Harmless
  <2>1. AllLeft' \subseteq AllLeft
    BY <1>6 DEF Harmless, LeavesNone, AllLeft
  <2>2. IsFiniteSet(AllLeft') /\ Cardinality(AllLeft') <= Cardinality(AllLeft)
    BY <1>5, <2>1, FS_Subset
  <2>3. Cardinality(AllLeft') \in Nat
    BY <2>2, FS_CardinalityType
  <2> QED
    BY <1>3, <1>4, <1>5, <1>6, <2>2, <2>3 DEF Harmless, LossInv, PaidFor
<1>7. CASE Failing
  <2>1. PICK x : AllLeft' \subseteq AllLeft \cup {x}
    BY <1>7 DEF Failing, LeavesOne, AllLeft
  <2>2. IsFiniteSet(AllLeft') /\ Cardinality(AllLeft') <= Cardinality(AllLeft) + 1
    BY <1>5, <2>1, GrownByOne
  <2>3. Cardinality(AllLeft') \in Nat
    BY <2>2, FS_CardinalityType
  <2>4. Cardinality(AllLeft') <= faults' + Cardinality(unconfirmed')
    BY <1>4, <1>5, <1>7, <2>2, <2>3 DEF Failing
  <2> QED
    BY <1>3, <1>5, <1>7, <2>2, <2>4 DEF Failing, LossInv, PaidFor
<1>8. CASE Losing
  <2>1. PICK x : /\ x \notin accepted /\ x \in accepted' /\ unconfirmed' = unconfirmed \cup {x}
                 /\ AllLeft' \subseteq AllLeft \cup {x}
    BY <1>8 DEF Losing, AllLeft
  <2>2. IsFiniteSet(AllLeft') /\ Cardinality(AllLeft') <= Cardinality(AllLeft) + 1
    BY <1>5, <2>1, GrownByOne
  <2>3. Cardinality(AllLeft') \in Nat
    BY <2>2, FS_CardinalityType
  <2>4. IsFiniteSet(unconfirmed') /\ Cardinality(unconfirmed') = Cardinality(unconfirmed) + 1
    BY <1>5, <2>1, FS_AddElement
  <2>5. faults' = faults
    BY <1>8 DEF Losing
  <2>6. Cardinality(AllLeft') <= faults' + Cardinality(unconfirmed')
    BY <1>4, <1>5, <2>2, <2>3, <2>4, <2>5
  <2> QED
    BY <1>3, <1>5, <2>1, <2>2, <2>4, <2>6 DEF LossInv, PaidFor
<1> QED
  BY <1>1, <1>6, <1>7, <1>8, StepLeaves

LEMMA LossInit == Init => LossInv
<1> SUFFICES ASSUME Init PROVE LossInv
  OBVIOUS
<1>1. HeldInv
  BY CalmInit DEF CalmInv, HeldInv, Init, Q!Init
<1>2. AllLeft = {} /\ unconfirmed = {} /\ accepted = {} /\ faults = 0
  BY DEF Init, Q!Init, AllLeft, Left, Absent
<1>3. LinksTyped
  BY DEF Init, Q!Init, LinksTyped
<1> QED
  BY <1>1, <1>2, <1>3, FS_EmptySet DEF LossInv, PaidFor

(* A version nobody works on any more is left "processing" only by a loss   *)
(* of its own: an unconfirmed publish, a failed call or a request that died *)
(* strands one version each; crashes of workers, lost connections, retries, *)
(* dead letters, rollbacks and deletions strand none.                       *)
THEOREM OnlyLossesStrand == Spec => []StrandedByLoss
<1>1. LossInv => StrandedByLoss
  <2> SUFFICES ASSUME LossInv PROVE StrandedByLoss
    OBVIOUS
  <2> DEFINE S == {v \in Versions : Stranded(v)}
  <2>1. ASSUME NEW v \in Versions, Stranded(v) PROVE Left(v)
    BY <2>1 DEF Stranded, Left, InFlight, Cares, Asks
  <2>2. S \subseteq AllLeft
    BY <2>1 DEF AllLeft
  <2>3. IsFiniteSet(AllLeft) /\ IsFiniteSet(unconfirmed) /\ faults \in Nat
    BY FaultsAssumption DEF LossInv, PaidFor, HeldInv, FiledInv, TypeInv, TypeOK
  <2>4. IsFiniteSet(S) /\ Cardinality(S) <= Cardinality(AllLeft)
    BY <2>2, <2>3, FS_Subset
  <2>5. Cardinality(S) \in Nat /\ Cardinality(AllLeft) \in Nat /\ Cardinality(unconfirmed) \in Nat
    BY <2>3, <2>4, FS_CardinalityType
  <2>6. Cardinality(AllLeft) <= faults + Cardinality(unconfirmed)
    BY DEF LossInv, PaidFor
  <2>7. Cardinality(S) <= faults + Cardinality(unconfirmed)
    BY <2>3, <2>4, <2>5, <2>6
  <2> QED
    BY <2>7 DEF StrandedByLoss
<1> QED
  BY <1>1, LossInit, LossStep, PTL DEF Spec
=============================================================================
