--------------------------- MODULE KnowledgeBases ---------------------------
(***************************************************************************)
(* Bots, knowledge bases, the bindings between them and the documents      *)
(* filed in them (internal/bot, internal/knowledge), and what a bot finds  *)
(* (internal/rag).  No row refers to another by a foreign key: a request   *)
(* looks first and writes later.  The points of a document carry the       *)
(* knowledge base of the job that wrote them, and a search reads nothing   *)
(* but points.  The queue and the rows of versions and chunks are the      *)
(* subject of KnowledgeIngestion; here a job that was handed over runs     *)
(* never, once or again and again, twice at once if need be.  One tenant.  *)
(***************************************************************************)
EXTENDS FiniteSets, Naturals

CONSTANTS
  Bots, Bases, Docs, \* ids, a new one never used again
  Names, Notes,      \* of bots and bases; a note stands for the fields beside the name
  Clients, Workers,
  None,              \* no row, or a field left blank
  Nowhere,           \* the kb_id of a document that is in no knowledge base
  MaxRequests        \* bound on the requests served

Owners == Bots \cup Bases
Places == Bases \cup {Nowhere}

ASSUME KnowledgeBasesAssumption ==
  /\ Bots \cap Bases = {} /\ Nowhere \notin Bases
  /\ None \notin Names \cup Notes \cup Places
  /\ MaxRequests \in Nat

VARIABLES
  row,     \* of bot and knowledge_base: [name, note]
  links,   \* rows of bot_kb: <<bot, base>>, which is unique
  doc,     \* document: its kb_id, its current version, its last version row
  points,  \* of the collection: document, version and kb_id
  jobs,    \* handed to the queue
  work,    \* the job each worker is at, and the statement that is next
  used,    \* ids handed out
  req,     \* the requests at work
  moved,   \* history: versions whose job carries the kb_id of before a move
  built,   \* history: versions that a run has marked ready
  left,    \* history: versions with points that nobody will remove
  requests

vars == <<row, links, doc, points, jobs, work, used, req, moved, built, left, requests>>

Rows      == [name : Names, note : Notes]
Asked     == [name : Names \cup {None}, note : Notes \cup {None}]
Numbers   == 0 .. MaxRequests
Documents == [base : Places, current : Numbers, last : Numbers]
Points    == [doc : Docs, version : Numbers, base : Places]
Jobs      == [doc : Docs, base : Places, version : Numbers, fallback : Numbers]
Runs      == [job : Jobs, at : {"upsert", "mark", "clean"}]
Versions  == Docs \X Numbers
Idle      == [op |-> "idle"]
Requests  ==
  {Idle}
    \cup [op : {"update"}, owner : Owners, asked : Asked, read : Rows]
    \cup [op : {"bind"}, bot : Bots, base : Bases]
    \cup [op : {"upload"}, doc : Docs, base : Bases]
    \cup [op : {"move"}, doc : Docs, base : Places]
    \cup [op : {"reindex"}, doc : Docs, read : Documents]
    \cup [op : {"delete"}, doc : Docs]

ASSUME NoneIsNoRow == None \notin Rows \cup Documents \cup Runs

There(o)  == row[o] # None
Exists(d) == doc[d] # None

(* The unique key on tenant and name, which either of the two tables has. *)
Taken(o, name) ==
  \E p \in (IF o \in Bots THEN Bots ELSE Bases) \ {o} : There(p) /\ row[p].name = name

(* What a message to the bot may be answered from: the points under one of *)
(* the kb_ids bound to it.  The row of the bot, of the knowledge base, of  *)
(* the document and its version are not read.                              *)
Reach(b) == {p \in points : <<b, p.base>> \in links}

Init ==
  /\ row = [o \in Owners |-> None] /\ links = {}
  /\ doc = [d \in Docs |-> None] /\ points = {}
  /\ jobs = {} /\ work = [w \in Workers |-> None]
  /\ used = {} /\ req = [c \in Clients |-> Idle] /\ requests = 0
  /\ moved = {} /\ built = {} /\ left = {}

-----------------------------------------------------------------------------
Begin(c)   == req[c] = Idle /\ requests < MaxRequests /\ requests' = requests + 1
GoOn(c, r) == req' = [req EXCEPT ![c] = r]
End(c)     == req' = [req EXCEPT ![c] = Idle]

library   == <<doc, points, jobs, work, moved, built, left>>
directory == <<row, links>>

(* CreateBot and CreateKnowledgeBase: one insert. *)
Create(c, o, name, note) ==
  /\ Begin(c) /\ o \notin used /\ ~Taken(o, name)
  /\ row' = [row EXCEPT ![o] = [name |-> name, note |-> note]]
  /\ used' = used \cup {o}
  /\ UNCHANGED <<library, links, req>>

(* UpdateBot and UpdateKnowledgeBase read the row and fill from it what    *)
(* the request left blank; one that leaves all blank is refused for a      *)
(* knowledge base.                                                         *)
UpdateReads(c, o, asked) ==
  /\ Begin(c) /\ There(o)
  /\ o \in Bases => \E f \in DOMAIN asked : asked[f] # None
  /\ GoOn(c, [op |-> "update", owner |-> o, asked |-> asked, read |-> row[o]])
  /\ UNCHANGED <<library, directory, used>>

Merged(r) == [f \in DOMAIN r.asked |-> IF r.asked[f] = None THEN r.read[f] ELSE r.asked[f]]

(* A plausible slip: the row is written back when it is gone. *)
UpdateUpserts(c) ==
  /\ req[c].op = "update" /\ End(c)
  /\ row' = IF Taken(req[c].owner, Merged(req[c]).name) THEN row
              ELSE [row EXCEPT ![req[c].owner] = Merged(req[c])]
  /\ UNCHANGED <<library, links, used, requests>>

(* The UPDATE of every column; a row deleted meanwhile is not an error. *)
UpdateWrites(c) ==
  /\ req[c].op = "update"
  /\ LET o == req[c].owner
         new == Merged(req[c])
     IN  row' = IF There(o) /\ ~Taken(o, new.name) THEN [row EXCEPT ![o] = new] ELSE row
  /\ End(c)
  /\ UNCHANGED <<library, links, used, requests>>

(* DeleteBot: the row alone; bindings, API keys and sessions stay. *)
DeleteBot(c, b) ==
  /\ Begin(c) /\ There(b)
  /\ row' = [row EXCEPT ![b] = None]
  /\ UNCHANGED <<library, links, used, req>>

(* A plausible slip: the bindings stay. *)
DeleteBaseAlone(c, k) ==
  /\ Begin(c) /\ There(k)
  /\ row' = [row EXCEPT ![k] = None]
  /\ UNCHANGED <<library, links, used, req>>

(* DeleteKnowledgeBase: one transaction for the bindings and the row; the  *)
(* documents and their points stay.                                        *)
DeleteBase(c, k) ==
  /\ Begin(c) /\ There(k)
  /\ row' = [row EXCEPT ![k] = None]
  /\ links' = {l \in links : l[2] # k}
  /\ UNCHANGED <<library, used, req>>

(* BindBotKnowledgeBase looks for the knowledge base, never for the bot,   *)
(* and inserts later.                                                      *)
Bind(c, b, k) ==
  /\ Begin(c) /\ There(k)
  /\ GoOn(c, [op |-> "bind", bot |-> b, base |-> k])
  /\ UNCHANGED <<library, directory, used>>

BindWrites(c) ==
  /\ req[c].op = "bind"
  /\ links' = links \cup {<<req[c].bot, req[c].base>>}
  /\ End(c)
  /\ UNCHANGED <<library, row, used, requests>>

Unbind(c, b, k) ==
  /\ Begin(c) /\ <<b, k>> \in links
  /\ links' = links \ {<<b, k>>}
  /\ UNCHANGED <<library, row, used, req>>

-----------------------------------------------------------------------------
(* UploadDocument looks for the knowledge base, then inserts the document  *)
(* and its first version and hands a job to the queue, or runs it.         *)
Upload(c, d, k) ==
  /\ Begin(c) /\ There(k) /\ d \notin used
  /\ used' = used \cup {d}
  /\ GoOn(c, [op |-> "upload", doc |-> d, base |-> k])
  /\ UNCHANGED <<library, directory>>

UploadWrites(c) ==
  /\ req[c].op = "upload"
  /\ LET d == req[c].doc
         k == req[c].base
     IN  /\ doc' = [doc EXCEPT ![d] = [base |-> k, current |-> 0, last |-> 1]]
         /\ jobs' = jobs \cup {[doc |-> d, base |-> k, version |-> 1, fallback |-> 0]}
  /\ End(c)
  /\ UNCHANGED <<directory, points, work, used, moved, built, left, requests>>

(* UpdateDocumentKB looks for the new knowledge base, if there is to be    *)
(* one, and updates the row of the document.  (A move repeated within a    *)
(* second is answered DOC_NOT_FOUND, as no row changed; the rows are then  *)
(* as they should be.)                                                     *)
Move(c, d, k) ==
  /\ Begin(c) /\ d \in used
  /\ k # Nowhere => There(k)
  /\ GoOn(c, [op |-> "move", doc |-> d, base |-> k])
  /\ UNCHANGED <<library, directory, used>>

MoveWrites(c) ==
  /\ req[c].op = "move"
  /\ LET d == req[c].doc
         k == req[c].base
     IN  IF Exists(d) /\ doc[d].base # k
           THEN /\ doc' = [doc EXCEPT ![d].base = k]
                /\ moved' = moved \cup {d} \X (1 .. doc[d].last)
           ELSE UNCHANGED <<doc, moved>>
  /\ End(c)
  /\ UNCHANGED <<directory, points, jobs, work, used, built, left, requests>>

(* ReindexDocument, after a change of the index configuration: reads the   *)
(* row, inserts the version after the current one, whose number is unique, *)
(* writes the current version back as it was read, an error of which is    *)
(* ignored, and hands over a job with the kb_id it read.                   *)
Reindex(c, d) ==
  /\ Begin(c) /\ Exists(d) /\ doc[d].current > 0
  /\ GoOn(c, [op |-> "reindex", doc |-> d, read |-> doc[d]])
  /\ UNCHANGED <<library, directory, used>>

Orders(d, read, next) ==
  /\ \E n \in {read.current, doc[d].current} : doc' = [doc EXCEPT ![d].last = next, ![d].current = n]
  /\ jobs' = jobs \cup {[doc |-> d, base |-> read.base, version |-> next, fallback |-> read.current]}
  /\ moved' = IF read.base = doc[d].base THEN moved ELSE moved \cup {<<d, next>>}

(* A plausible slip: the next number is taken from the last version. *)
ReindexAnyNumber(c) ==
  /\ req[c].op = "reindex" /\ End(c)
  /\ LET d == req[c].doc
     IN  IF Exists(d) THEN Orders(d, req[c].read, doc[d].last + 1) ELSE UNCHANGED <<doc, jobs, moved>>
  /\ UNCHANGED <<directory, points, work, used, built, left, requests>>

ReindexWrites(c) ==
  /\ req[c].op = "reindex" /\ End(c)
  /\ LET d    == req[c].doc
         next == req[c].read.current + 1
     IN  IF Exists(d) /\ doc[d].last < next
           THEN Orders(d, req[c].read, next) ELSE UNCHANGED <<doc, jobs, moved>>
  /\ UNCHANGED <<directory, points, work, used, built, left, requests>>

(* RollbackDocument, to a version whose status is ready, which any that a  *)
(* run has marked may have: one UPDATE.                                    *)
Rollback(c, d, v) ==
  /\ Begin(c) /\ Exists(d) /\ <<d, v>> \in built
  /\ doc' = [doc EXCEPT ![d].current = v]
  /\ UNCHANGED <<directory, points, jobs, work, used, req, moved, built, left>>

(* DeleteDocument commits the deletion of the rows, then removes the       *)
(* objects and then the points.                                            *)
DeleteDocument(c, d) ==
  /\ Begin(c) /\ Exists(d)
  /\ doc' = [doc EXCEPT ![d] = None]
  /\ GoOn(c, [op |-> "delete", doc |-> d])
  /\ UNCHANGED <<directory, points, jobs, work, used, moved, built, left>>

DeletePoints(c) ==
  /\ req[c].op = "delete" /\ End(c)
  /\ points' = {p \in points : p.doc # req[c].doc}
  /\ UNCHANGED <<directory, doc, jobs, work, used, moved, built, left, requests>>

-----------------------------------------------------------------------------
(* A run of a job: it loads the document and its version, writes the       *)
(* points, marks the version ready and the current one, and removes the    *)
(* points of the version that was current when the job was ordered.        *)
Working(w, at)  == work[w] # None /\ work[w].at = at
Continues(w, at) == work' = [work EXCEPT ![w].at = at]
Stops(w)        == work' = [work EXCEPT ![w] = None]
outside         == <<directory, used, req, requests>>

RunBegins(w, j) ==
  /\ work[w] = None /\ Exists(j.doc)
  /\ work' = [work EXCEPT ![w] = [job |-> j, at |-> "upsert"]]
  /\ UNCHANGED <<outside, doc, points, jobs, moved, built, left>>

(* IndexDocumentVersion: the points, with the kb_id of the job, whether or *)
(* not the document is still there.  Those of a run that is late, behind a *)
(* deletion or a version ordered since, are behind every clean-up to come. *)
Upsert(w) ==
  /\ Working(w, "upsert") /\ Continues(w, "mark")
  /\ LET j    == work[w].job
         late == Exists(j.doc) => doc[j.doc].last > j.version
     IN  /\ points' = points \cup {[doc |-> j.doc, version |-> j.version, base |-> j.base]}
         /\ left' = IF late THEN left \cup {<<j.doc, j.version>>} ELSE left
  /\ UNCHANGED <<outside, doc, jobs, moved, built>>

(* UpdateDocumentIndexState of a document; its errors are ignored. *)
SetsCurrent(d, v) ==
  \/ UNCHANGED doc
  \/ Exists(d) /\ doc' = [doc EXCEPT ![d].current = v]

MarkReady(w) ==
  /\ Working(w, "mark") /\ Continues(w, "clean")
  /\ LET j == work[w].job
     IN  SetsCurrent(j.doc, j.version) /\ built' = built \cup {<<j.doc, j.version>>}
  /\ UNCHANGED <<outside, points, jobs, moved, left>>

(* markIngestionFailed, after any step, points written or not; or the      *)
(* process of the run ends.                                                *)
RunFails(w) ==
  /\ Working(w, "upsert") \/ Working(w, "mark")
  /\ SetsCurrent(work[w].job.doc, work[w].job.fallback) /\ Stops(w)
  /\ UNCHANGED <<outside, points, jobs, moved, built, left>>

(* The clean-up of the version before, which looks for its row first.  A   *)
(* failure is logged, and the job done all the same; or the process ends.  *)
CleansUp(w) ==
  /\ Working(w, "clean") /\ Stops(w)
  /\ LET j == work[w].job
     IN  Exists(j.doc) /\ points' = {p \in points : p.doc # j.doc \/ p.version # j.fallback}
  /\ UNCHANGED <<outside, doc, jobs, moved, built, left>>

CleanUpFails(w) ==
  /\ Working(w, "clean") /\ Stops(w)
  /\ left' = left \cup {<<work[w].job.doc, work[w].job.fallback>>}
  /\ UNCHANGED <<outside, doc, points, jobs, moved, built>>

-----------------------------------------------------------------------------
(* A request ends before its write: its client or its process is gone, or  *)
(* the database, the object store or the collection answers with an error. *)
(* A deletion is not taken up again, as its document is no more.           *)
Lost(c) ==
  /\ req[c] # Idle /\ End(c)
  /\ left' = IF req[c].op = "delete" THEN left \cup {req[c].doc} \X Numbers ELSE left
  /\ UNCHANGED <<doc, points, jobs, work, moved, built, directory, used, requests>>

Handle(c) ==
  \/ \E o \in Owners, name \in Names, note \in Notes : Create(c, o, name, note)
  \/ \E o \in Owners, asked \in Asked : UpdateReads(c, o, asked)
  \/ \E b \in Bots : DeleteBot(c, b)
  \/ \E k \in Bases : DeleteBase(c, k)
  \/ \E b \in Bots, k \in Bases : Bind(c, b, k) \/ Unbind(c, b, k)
  \/ \E d \in Docs, k \in Bases : Upload(c, d, k)
  \/ \E d \in Docs, k \in Places : Move(c, d, k)
  \/ \E d \in Docs : Reindex(c, d) \/ DeleteDocument(c, d)
  \/ \E d \in Docs, v \in Numbers : Rollback(c, d, v)

Finish(c) ==
  \/ UpdateWrites(c) \/ BindWrites(c) \/ UploadWrites(c)
  \/ MoveWrites(c) \/ ReindexWrites(c) \/ DeletePoints(c) \/ Lost(c)

RunsOn(w) ==
  \/ \E j \in jobs : RunBegins(w, j)
  \/ Upsert(w) \/ MarkReady(w) \/ RunFails(w)
  \/ CleansUp(w) \/ CleanUpFails(w)

Next ==
  \/ \E c \in Clients : Handle(c) \/ Finish(c)
  \/ \E w \in Workers : RunsOn(w)

Spec == Init /\ [][Next]_vars

-----------------------------------------------------------------------------
TypeOK ==
  /\ row \in [Owners -> Rows \cup {None}]
  /\ links \subseteq Bots \X Bases
  /\ doc \in [Docs -> Documents \cup {None}]
  /\ points \subseteq Points
  /\ jobs \subseteq Jobs
  /\ work \in [Workers -> Runs \cup {None}]
  /\ used \subseteq Owners \cup Docs
  /\ req \in [Clients -> Requests]
  /\ moved \subseteq Versions /\ built \subseteq Versions /\ left \subseteq Versions
  /\ requests \in Numbers

Deleting(d) == \E c \in Clients : req[c].op = "delete" /\ req[c].doc = d
Cleaning(d, v) == \E w \in Workers : Working(w, "clean") /\ work[w].job.doc = d /\ work[w].job.fallback = v

(* A point that a bot finds belongs to a document that is there, to the    *)
(* last of its versions that was built, and is under the knowledge base of *)
(* the document unless that was moved after the version was ordered        *)
(* (IndexDocumentVersion, markIngestionReady, UpdateDocumentKB).  So a     *)
(* moved document follows when it is reindexed: each version has points    *)
(* only until the one after it is built, as its number lets no second job  *)
(* in that would fall back to it.  Left are the points of a clean-up or a  *)
(* deletion that failed, was cut off or is not there yet, and those that a *)
(* late run writes behind it.                                              *)
FoundWhereFiled ==
  \A b \in Bots : \A p \in Reach(b) :
    LET d == p.doc  v == p.version IN
    \/ <<d, v>> \in left \/ Deleting(d)
    \/ /\ Exists(d)
       /\ doc[d].base = p.base \/ <<d, v>> \in moved
       /\ Cleaning(d, v) \/ \A n \in Numbers : n > v => <<d, n>> \notin built

(* Deleting a knowledge base takes its bindings along: a binding without   *)
(* one comes only from a BindBotKnowledgeBase that had seen it before.     *)
BindingsResolve ==
  [][ \A l \in links' :
        (row'[l[2]] = None /\ ~(l \in links /\ row[l[2]] = None))
          => \E c \in Clients : req[c] = [op |-> "bind", bot |-> l[1], base |-> l[2]]
                                  /\ req'[c] = Idle ]_vars

(* A field changes to what a request asked for, or its row changed between *)
(* the reading and the writing of an update (UpdateBot,                    *)
(* UpdateKnowledgeBase); a deleted row does not come back.                 *)
UnsentFieldsKept ==
  [][ \A o \in Owners :
        /\ o \in used /\ row[o] = None => row'[o] = None
        /\ There(o) /\ row'[o] # None =>
             \A f \in {"name", "note"} :
               row'[o][f] # row[o][f] =>
                 \E c \in Clients : /\ req[c].op = "update" /\ req[c].owner = o
                                    /\ \/ req[c].asked[f] = row'[o][f]
                                       \/ req[c].read # row[o] ]_vars

=============================================================================
