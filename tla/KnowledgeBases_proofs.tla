------------------------ MODULE KnowledgeBases_proofs ------------------------
(***************************************************************************)
(* Proofs about KnowledgeBases for any bots, knowledge bases, documents,   *)
(* requests and workers: fields that nobody sent are kept, bindings go     *)
(* with their knowledge base, and what a bot finds is filed where the bot  *)
(* is bound.  The last rests on the version numbers: a job falls back to   *)
(* the version just before its own, which had been built, so that the      *)
(* points of a version have their clean-up as soon as any later version is *)
(* built.                                                                  *)
(***************************************************************************)
EXTENDS KnowledgeBases, Integers, TLAPS

(* Nothing is known under an id that was not handed out. *)
IdsUsed ==
  /\ \A o \in Owners : There(o) => o \in used
  /\ \A d \in Docs : Exists(d) => d \in used
  /\ \A j \in jobs : j.doc \in used

(* Nothing of a document is there before its upload writes it. *)
Unborn(d) == d \in used /\ ~Exists(d) /\ \A j \in jobs : j.doc # d
UploadsFresh ==
  \A c \in Clients : req[c].op = "upload" =>
    /\ Unborn(req[c].doc)
    /\ \A e \in Clients \ {c} : req[e].op = "upload" => req[e].doc # req[c].doc

(* Version numbers do not run away from the requests. *)
Counted ==
  /\ requests \in Numbers
  /\ \A d \in Docs : Exists(d) => doc[d].last <= requests
  /\ \A c \in Clients :
       /\ req[c].op = "upload" => requests >= 1
       /\ req[c].op = "reindex" => req[c].read.current < requests

(* What is at work, findable or built was ordered by a job. *)
FromJobs ==
  /\ \A w \in Workers : work[w] # None => work[w].job \in jobs
  /\ \A p \in points : \E j \in jobs : j.doc = p.doc /\ j.version = p.version /\ j.base = p.base
  /\ \A e \in built : \E j \in jobs : j.doc = e[1] /\ j.version = e[2]

(* A job falls back to the version before its own, which was built; its    *)
(* kb_id is that of the row, or the document moved in between.             *)
JobsFit ==
  \A j \in jobs :
    /\ j.version = j.fallback + 1
    /\ j.fallback = 0 \/ <<j.doc, j.fallback>> \in built
    /\ Exists(j.doc) => /\ j.version <= doc[j.doc].last
                        /\ j.base = doc[j.doc].base \/ <<j.doc, j.version>> \in moved

CurrentBuilt ==
  /\ \A d \in Docs : Exists(d) => doc[d].current = 0 \/ <<d, doc[d].current>> \in built
  /\ \A c \in Clients : req[c].op = "reindex" => <<req[c].doc, req[c].read.current>> \in built

Last(d, v) == \A n \in Numbers : n > v => <<d, n>> \notin built

(* Points outlive their version only where a clean-up is left or to come.  *)
PointsFit ==
  \A p \in points :
    \/ <<p.doc, p.version>> \in left \/ Deleting(p.doc)
    \/ Exists(p.doc) /\ (Cleaning(p.doc, p.version) \/ Last(p.doc, p.version))

LibraryInv ==
  IdsUsed /\ UploadsFresh /\ Counted /\ FromJobs /\ JobsFit /\ CurrentBuilt /\ PointsFit
IInv       == TypeOK /\ LibraryInv

-----------------------------------------------------------------------------
(* What a client's request is, by its operation. *)
LEMMA Kinds ==
  ASSUME TypeOK, NEW c \in Clients
  PROVE  /\ req[c].op \in {"idle", "update", "bind", "upload", "move", "reindex", "delete"}
         /\ req[c].op = "idle" <=> req[c] = Idle
         /\ req[c].op = "update" => /\ req[c].owner \in Owners /\ req[c].asked \in Asked
                                    /\ req[c].read \in Rows
         /\ req[c].op = "bind" => /\ req[c].bot \in Bots /\ req[c].base \in Bases
                                  /\ req[c] = [op |-> "bind", bot |-> req[c].bot, base |-> req[c].base]
         /\ req[c].op = "upload" => req[c].doc \in Docs /\ req[c].base \in Bases
         /\ req[c].op = "move" => req[c].doc \in Docs /\ req[c].base \in Places
         /\ req[c].op = "reindex" => req[c].doc \in Docs /\ req[c].read \in Documents
         /\ req[c].op = "delete" => req[c].doc \in Docs
<1>1. req[c] \in Requests
  BY DEF TypeOK
<1>2. QED
  BY <1>1 DEF Requests, Idle

(* A blank field of an update is filled from the row, another one is sent.  *)
LEMMA MergedRow ==
  ASSUME TypeOK, NEW c \in Clients, req[c].op = "update"
  PROVE  /\ Merged(req[c]) \in Rows
         /\ \A f \in {"name", "note"} :
              Merged(req[c])[f] = IF req[c].asked[f] = None THEN req[c].read[f] ELSE req[c].asked[f]
<1>1. req[c].asked \in Asked /\ req[c].read \in Rows
  BY Kinds
<1>2. DOMAIN req[c].asked = {"name", "note"}
  BY <1>1 DEF Asked
<1>3. \A f \in {"name", "note"} :
        Merged(req[c])[f] = IF req[c].asked[f] = None THEN req[c].read[f] ELSE req[c].asked[f]
  BY <1>2 DEF Merged
<1>4. Merged(req[c]) = [name |-> Merged(req[c]).name, note |-> Merged(req[c]).note]
  BY <1>2 DEF Merged
<1>5. Merged(req[c]).name \in Names /\ Merged(req[c]).note \in Notes
  BY <1>1, <1>3 DEF Asked, Rows
<1>6. Merged(req[c]) \in Rows
  BY <1>4, <1>5 DEF Rows
<1>7. QED
  BY <1>3, <1>6

(* What a worker is at, and what it was ordered by. *)
LEMMA AtWork ==
  ASSUME TypeOK, NEW w \in Workers, work[w] # None
  PROVE  /\ work[w] \in Runs /\ work[w].job \in Jobs
         /\ work[w].at \in {"upsert", "mark", "clean"}
         /\ work[w].job.doc \in Docs /\ work[w].job.base \in Places
         /\ work[w].job.version \in Numbers /\ work[w].job.fallback \in Numbers
<1>1. work[w] \in Runs
  BY DEF TypeOK
<1>2. work[w].job \in Jobs /\ work[w].at \in {"upsert", "mark", "clean"}
  BY <1>1 DEF Runs
<1>3. QED
  BY <1>1, <1>2 DEF Jobs

(* A step of a run that goes on or stops leaves the other runs as they are.  *)
LEMMA RunMoves ==
  ASSUME TypeOK, NEW w \in Workers, NEW at \in {"mark", "clean"}, work[w] # None, Continues(w, at)
  PROVE  /\ work'[w] # None /\ work'[w].job = work[w].job /\ work'[w].at = at
         /\ work'[w] \in Runs /\ work' \in [Workers -> Runs \cup {None}]
         /\ \A x \in Workers \ {w} : work'[x] = work[x]
<1>1. work \in [Workers -> Runs \cup {None}] /\ work[w] \in Runs
  BY AtWork DEF TypeOK
<1>2. /\ work'[w] = [work[w] EXCEPT !.at = at]
      /\ \A x \in Workers \ {w} : work'[x] = work[x]
  BY <1>1 DEF Continues
<1>3. work'[w].job = work[w].job /\ work'[w].at = at /\ work'[w] \in Runs
  BY <1>1, <1>2 DEF Runs
<1>4. work' \in [Workers -> Runs \cup {None}]
  BY <1>1, <1>2, <1>3 DEF Continues
<1>5. QED
  BY <1>2, <1>3, <1>4, NoneIsNoRow

LEMMA RunStops ==
  ASSUME TypeOK, NEW w \in Workers, Stops(w)
  PROVE  /\ work'[w] = None /\ work' \in [Workers -> Runs \cup {None}]
         /\ \A x \in Workers \ {w} : work'[x] = work[x]
BY DEF TypeOK, Stops

(* UpdateDocumentIndexState changes the current version of a row and nothing *)
(* else.                                                                     *)
LEMMA CurrentSet ==
  ASSUME TypeOK, NEW d \in Docs, NEW v \in Numbers, SetsCurrent(d, v)
  PROVE  /\ doc' \in [Docs -> Documents \cup {None}]
         /\ \A x \in Docs : Exists(x)' <=> Exists(x)
         /\ \A x \in Docs : Exists(x) =>
              /\ doc'[x].base = doc[x].base /\ doc'[x].last = doc[x].last
              /\ doc'[x].current = doc[x].current \/ (x = d /\ doc'[x].current = v)
<1>0. doc \in [Docs -> Documents \cup {None}]
  BY DEF TypeOK
<1>1. CASE UNCHANGED doc
  BY <1>0, <1>1 DEF Exists
<1>2. CASE Exists(d) /\ doc' = [doc EXCEPT ![d].current = v]
  <2>1. doc[d] \in Documents
    BY <1>0, <1>2 DEF Exists
  <2>2. doc'[d] = [doc[d] EXCEPT !.current = v] /\ \A x \in Docs \ {d} : doc'[x] = doc[x]
    BY <1>0, <1>2
  <2>3. /\ doc'[d] \in Documents /\ doc'[d].base = doc[d].base /\ doc'[d].last = doc[d].last
        /\ doc'[d].current = v
    BY <2>1, <2>2 DEF Documents
  <2>4. doc' \in [Docs -> Documents \cup {None}]
    BY <1>0, <1>2, <2>2, <2>3
  <2> QED BY <1>2, <2>2, <2>3, <2>4, NoneIsNoRow DEF Exists
<1>3. QED
  BY <1>1, <1>2 DEF SetsCurrent

LEMMA TypeStep == TypeOK /\ LibraryInv /\ [Next]_vars => TypeOK'
<1> SUFFICES ASSUME TypeOK, LibraryInv, [Next]_vars PROVE TypeOK'
  OBVIOUS
<1> USE KnowledgeBasesAssumption
<1>0. Idle \in Requests
  BY DEF Requests
<1>1. CASE UNCHANGED vars
  BY <1>1 DEF vars, TypeOK
<1>2. ASSUME NEW c \in Clients, requests' \in Numbers,
             \/ \E o \in Owners, name \in Names, note \in Notes : Create(c, o, name, note)
             \/ \E b \in Bots : DeleteBot(c, b)
             \/ \E k \in Bases : DeleteBase(c, k)
             \/ \E d \in Docs : DeleteDocument(c, d)
             \/ \E d \in Docs, v \in Numbers : Rollback(c, d, v)
      PROVE  TypeOK'
  <2>1. ASSUME NEW o \in Owners, NEW name \in Names, NEW note \in Notes, Create(c, o, name, note) PROVE TypeOK'
    <3>1. [name |-> name, note |-> note] \in Rows BY DEF Rows
    <3> QED BY <1>2, <2>1, <3>1 DEF Create, TypeOK, library
  <2>2. ASSUME NEW b \in Bots, DeleteBot(c, b) PROVE TypeOK'
    BY <1>2, <2>2 DEF DeleteBot, TypeOK, library, Owners
  <2>3. ASSUME NEW k \in Bases, DeleteBase(c, k) PROVE TypeOK'
    BY <1>2, <2>3 DEF DeleteBase, TypeOK, library, Owners
  <2>4. ASSUME NEW d \in Docs, DeleteDocument(c, d) PROVE TypeOK'
    <3>1. [op |-> "delete", doc |-> d] \in Requests BY DEF Requests
    <3> QED BY <1>2, <2>4, <3>1 DEF DeleteDocument, GoOn, TypeOK, directory
  <2>5. ASSUME NEW d \in Docs, NEW v \in Numbers, Rollback(c, d, v) PROVE TypeOK'
    <3>1. doc' \in [Docs -> Documents \cup {None}]
      BY <2>5, CurrentSet DEF Rollback, SetsCurrent
    <3> QED BY <1>2, <2>5, <3>1 DEF Rollback, TypeOK, directory
  <2> QED BY <1>2, <2>1, <2>2, <2>3, <2>4, <2>5
<1>3. ASSUME NEW c \in Clients, requests' \in Numbers,
             \/ \E o \in Owners, asked \in Asked : UpdateReads(c, o, asked)
             \/ \E b \in Bots, k \in Bases : Bind(c, b, k) \/ Unbind(c, b, k)
             \/ \E d \in Docs, k \in Bases : Upload(c, d, k)
             \/ \E d \in Docs, k \in Places : Move(c, d, k)
             \/ \E d \in Docs : Reindex(c, d)
      PROVE  TypeOK'
  <2>1. ASSUME NEW o \in Owners, NEW asked \in Asked, UpdateReads(c, o, asked) PROVE TypeOK'
    <3>1. row[o] \in Rows BY <2>1 DEF UpdateReads, TypeOK, There
    <3>2. [op |-> "update", owner |-> o, asked |-> asked, read |-> row[o]] \in Requests
      BY <3>1 DEF Requests
    <3> QED BY <1>3, <2>1, <3>2 DEF UpdateReads, GoOn, TypeOK, library, directory
  <2>2. ASSUME NEW b \in Bots, NEW k \in Bases, Bind(c, b, k) PROVE TypeOK'
    <3>1. [op |-> "bind", bot |-> b, base |-> k] \in Requests BY DEF Requests
    <3> QED BY <1>3, <2>2, <3>1 DEF Bind, GoOn, TypeOK, library, directory
  <2>3. ASSUME NEW b \in Bots, NEW k \in Bases, Unbind(c, b, k) PROVE TypeOK'
    BY <1>3, <2>3 DEF Unbind, TypeOK, library
  <2>4. ASSUME NEW d \in Docs, NEW k \in Bases, Upload(c, d, k) PROVE TypeOK'
    <3>1. [op |-> "upload", doc |-> d, base |-> k] \in Requests BY DEF Requests
    <3> QED BY <1>3, <2>4, <3>1 DEF Upload, GoOn, TypeOK, library, directory
  <2>5. ASSUME NEW d \in Docs, NEW k \in Places, Move(c, d, k) PROVE TypeOK'
    <3>1. [op |-> "move", doc |-> d, base |-> k] \in Requests BY DEF Requests
    <3> QED BY <1>3, <2>5, <3>1 DEF Move, GoOn, TypeOK, library, directory
  <2>6. ASSUME NEW d \in Docs, Reindex(c, d) PROVE TypeOK'
    <3>1. doc[d] \in Documents BY <2>6 DEF Reindex, TypeOK, Exists
    <3>2. [op |-> "reindex", doc |-> d, read |-> doc[d]] \in Requests BY <3>1 DEF Requests
    <3> QED BY <1>3, <2>6, <3>2 DEF Reindex, GoOn, TypeOK, library, directory
  <2> QED BY <1>3, <2>1, <2>2, <2>3, <2>4, <2>5, <2>6
<1>4. ASSUME NEW c \in Clients, Handle(c) PROVE TypeOK'
  <2>1. Begin(c)
    BY <1>4 DEF Handle, Create, UpdateReads, DeleteBot, DeleteBase, Bind, Unbind, Upload, Move, Reindex,
                DeleteDocument, Rollback
  <2>2. requests' \in Numbers
    BY <2>1 DEF Begin, TypeOK, Numbers
  <2> QED BY <1>2, <1>3, <1>4, <2>2 DEF Handle
<1>5. ASSUME NEW c \in Clients, UpdateWrites(c) PROVE TypeOK'
  <2>1. Merged(req[c]) \in Rows /\ req[c].owner \in Owners
    BY <1>5, Kinds, MergedRow DEF UpdateWrites
  <2> QED BY <1>0, <1>5, <2>1 DEF UpdateWrites, End, TypeOK, library
<1>6. ASSUME NEW c \in Clients, BindWrites(c) PROVE TypeOK'
  <2>1. req[c].bot \in Bots /\ req[c].base \in Bases
    BY <1>6, Kinds DEF BindWrites
  <2> QED BY <1>0, <1>6, <2>1 DEF BindWrites, End, TypeOK, library
<1>7. ASSUME NEW c \in Clients, UploadWrites(c) PROVE TypeOK'
  <2> DEFINE d == req[c].doc
             k == req[c].base
             new == [base |-> k, current |-> 0, last |-> 1]
             job == [doc |-> d, base |-> k, version |-> 1, fallback |-> 0]
  <2>1. d \in Docs /\ k \in Bases /\ requests >= 1 /\ requests \in Numbers
    BY <1>7, Kinds DEF UploadWrites, LibraryInv, Counted
  <2>2. 0 \in Numbers /\ 1 \in Numbers
    BY <2>1 DEF Numbers
  <2>3. new \in Documents /\ job \in Jobs
    BY <2>1, <2>2 DEF Documents, Jobs, Places
  <2>4. /\ doc' = [doc EXCEPT ![d] = new] /\ jobs' = jobs \cup {job} /\ req' = [req EXCEPT ![c] = Idle]
        /\ UNCHANGED <<row, links, points, work, used, moved, built, left, requests>>
    BY <1>7 DEF UploadWrites, End, directory
  <2> HIDE DEF d, new, job
  <2> QED BY <1>0, <2>1, <2>3, <2>4 DEF TypeOK
<1>8. ASSUME NEW c \in Clients, MoveWrites(c) PROVE TypeOK'
  <2> DEFINE d == req[c].doc
  <2>1. d \in Docs /\ req[c].base \in Places
    BY <1>8, Kinds DEF MoveWrites
  <2>2. Exists(d) => [doc[d] EXCEPT !.base = req[c].base] \in Documents
    BY <2>1 DEF TypeOK, Documents, Exists
  <2>3. Exists(d) => {d} \X (1 .. doc[d].last) \subseteq Versions
    <3>1. Exists(d) => doc[d].last \in Numbers
      BY <2>1 DEF TypeOK, Documents, Exists
    <3>2. Exists(d) => 1 .. doc[d].last \subseteq Numbers
      BY <3>1 DEF Numbers
    <3> QED BY <2>1, <3>2 DEF Versions
  <2>4. /\ doc' \in [Docs -> Documents \cup {None}]
        /\ moved' \subseteq Versions
    BY <1>8, <2>1, <2>2, <2>3 DEF MoveWrites, TypeOK
  <2> QED BY <1>0, <1>8, <2>4 DEF MoveWrites, End, TypeOK, directory
<1>9. ASSUME NEW c \in Clients, ReindexWrites(c) PROVE TypeOK'
  <2> DEFINE d    == req[c].doc
             read == req[c].read
             next == read.current + 1
             job  == [doc |-> d, base |-> read.base, version |-> next, fallback |-> read.current]
  <2>1. d \in Docs /\ read \in Documents /\ read.current < requests /\ requests \in Numbers
    BY <1>9, Kinds DEF ReindexWrites, LibraryInv, Counted
  <2>2. next \in Numbers /\ read.base \in Places /\ read.current \in Numbers
    BY <2>1 DEF Documents, Numbers
  <2>3. job \in Jobs /\ <<d, next>> \in Versions
    BY <2>1, <2>2 DEF Jobs, Versions
  <2>4. UNCHANGED <<doc, jobs, moved>> \/ (Exists(d) /\ Orders(d, read, next))
    BY <1>9 DEF ReindexWrites
  <2>5. CASE Exists(d) /\ Orders(d, read, next)
    <3>1. doc[d] \in Documents
      BY <2>1, <2>5 DEF TypeOK, Exists
    <3>2. PICK n \in {read.current, doc[d].current} : doc' = [doc EXCEPT ![d].last = next, ![d].current = n]
      BY <2>5 DEF Orders
    <3>3. n \in Numbers
      BY <2>2, <3>1 DEF Documents
    <3> HIDE DEF next, job, d
    <3>4. [doc[d] EXCEPT !.last = next, !.current = n] \in Documents
      BY <2>2, <3>1, <3>3 DEF Documents
    <3>5. doc' \in [Docs -> Documents \cup {None}]
      BY <2>1, <3>2, <3>4 DEF TypeOK
    <3>6. jobs' = jobs \cup {job} /\ moved' \subseteq moved \cup {<<d, next>>}
      BY <2>5 DEF Orders, job
    <3> QED BY <1>0, <1>9, <2>3, <3>5, <3>6 DEF ReindexWrites, End, TypeOK, directory
  <2>6. CASE UNCHANGED <<doc, jobs, moved>>
    BY <1>0, <1>9, <2>6 DEF ReindexWrites, End, TypeOK, directory
  <2> QED BY <2>4, <2>5, <2>6
<1>10. ASSUME NEW c \in Clients, DeletePoints(c) PROVE TypeOK'
  BY <1>0, <1>10 DEF DeletePoints, End, TypeOK, directory
<1>11. ASSUME NEW c \in Clients, Lost(c) PROVE TypeOK'
  <2>1. left' \subseteq Versions
    BY <1>11, Kinds DEF Lost, TypeOK, Versions
  <2> QED BY <1>0, <1>11, <2>1 DEF Lost, End, TypeOK, directory
<1>12. ASSUME NEW w \in Workers, RunsOn(w) PROVE TypeOK'
  <2>1. ASSUME NEW j \in jobs, RunBegins(w, j) PROVE TypeOK'
    <3>1. [job |-> j, at |-> "upsert"] \in Runs BY DEF TypeOK, Runs
    <3> QED BY <2>1, <3>1 DEF RunBegins, TypeOK, outside, directory
  <2>2. CASE Upsert(w)
    <3>1. work[w] # None BY <2>2 DEF Upsert, Working
    <3>2. work' \in [Workers -> Runs \cup {None}]
      BY <2>2, <3>1, RunMoves DEF Upsert
    <3>3. points' \subseteq Points
      BY <2>2, <3>1, AtWork DEF Upsert, TypeOK, Points
    <3>4. left' \subseteq Versions
      BY <2>2, <3>1, AtWork DEF Upsert, TypeOK, Versions
    <3> QED BY <2>2, <3>2, <3>3, <3>4 DEF Upsert, TypeOK, outside, directory
  <2>3. CASE MarkReady(w)
    <3>1. work[w] # None BY <2>3 DEF MarkReady, Working
    <3>2. work' \in [Workers -> Runs \cup {None}]
      BY <2>3, <3>1, RunMoves DEF MarkReady
    <3>3. doc' \in [Docs -> Documents \cup {None}]
      BY <2>3, <3>1, AtWork, CurrentSet DEF MarkReady
    <3>4. built' \subseteq Versions
      BY <2>3, <3>1, AtWork DEF MarkReady, TypeOK, Versions
    <3> QED BY <2>3, <3>2, <3>3, <3>4 DEF MarkReady, TypeOK, outside, directory
  <2>4. CASE RunFails(w)
    <3>1. work[w] # None BY <2>4 DEF RunFails, Working
    <3>2. doc' \in [Docs -> Documents \cup {None}]
      BY <2>4, <3>1, AtWork, CurrentSet DEF RunFails
    <3> QED BY <2>4, <3>2, RunStops DEF RunFails, TypeOK, outside, directory
  <2>5. CASE CleansUp(w)
    BY <2>5, RunStops DEF CleansUp, TypeOK, outside, directory
  <2>6. CASE CleanUpFails(w)
    <3>1. work[w] # None BY <2>6 DEF CleanUpFails, Working
    <3>2. left' \subseteq Versions
      BY <2>6, <3>1, AtWork DEF CleanUpFails, TypeOK, Versions
    <3> QED BY <2>6, <3>2, RunStops DEF CleanUpFails, TypeOK, outside, directory
  <2> QED BY <1>12, <2>1, <2>2, <2>3, <2>4, <2>5, <2>6 DEF RunsOn
<1>13. QED
  BY <1>1, <1>4, <1>5, <1>6, <1>7, <1>8, <1>9, <1>10, <1>11, <1>12 DEF Next, Finish

-----------------------------------------------------------------------------
(* The numbers in the state are numbers. *)
LEMMA Numeric ==
  ASSUME TypeOK, LibraryInv
  PROVE  /\ requests \in Nat /\ requests \in Numbers
         /\ requests < MaxRequests => requests + 1 \in Numbers
         /\ \A d \in Docs : Exists(d) => doc[d].current \in Nat /\ doc[d].last \in Nat
         /\ \A c \in Clients : req[c].op = "reindex" => req[c].read.current \in Nat
         /\ \A j \in jobs : j.doc \in Docs /\ j.version \in Nat /\ j.fallback \in Nat
<1> USE KnowledgeBasesAssumption
<1>1. Numbers \subseteq Nat /\ requests \in Numbers /\ (requests < MaxRequests => requests + 1 \in Numbers)
  BY DEF LibraryInv, Counted, Numbers
<1>2. \A d \in Docs : Exists(d) => doc[d].current \in Numbers /\ doc[d].last \in Numbers
  BY DEF TypeOK, Exists, Documents
<1>3. \A c \in Clients : req[c].op = "reindex" => req[c].read.current \in Numbers
  BY Kinds DEF Documents
<1>4. \A j \in jobs : j.doc \in Docs /\ j.version \in Numbers /\ j.fallback \in Numbers
  BY DEF TypeOK, Jobs
<1>5. QED
  BY <1>1, <1>2, <1>3, <1>4

Filing(c) == req[c].op \in {"upload", "reindex"}

RowsInv == IdsUsed /\ UploadsFresh /\ Counted /\ JobsFit /\ CurrentBuilt

(* A step that orders no job and begins no upload or reindexing: rows go,   *)
(* move, or change their current version to one that was built.             *)
LEMMA RowsKept ==
  ASSUME TypeOK, LibraryInv, UNCHANGED jobs, moved \subseteq moved', built \subseteq built',
         used \subseteq used', requests' \in Numbers, requests <= requests',
         \A o \in Owners : row'[o] # None => o \in used',
         \A c \in Clients : req'[c] = req[c] \/ ~Filing(c)',
         \A d \in Docs : Exists(d)' =>
           /\ Exists(d) /\ doc'[d].last = doc[d].last
           /\ doc'[d].current \in {0, doc[d].current} \/ <<d, doc'[d].current>> \in built'
           /\ doc'[d].base = doc[d].base \/ {d} \X (1 .. doc[d].last) \subseteq moved'
  PROVE  RowsInv'
<1>0. requests' \in Nat
  BY KnowledgeBasesAssumption DEF Numbers
<1>1. IdsUsed'
  BY DEF LibraryInv, IdsUsed, There
<1>2. UploadsFresh'
  <2>1. ASSUME NEW c \in Clients, req'[c].op = "upload" PROVE req'[c] = req[c] /\ req[c].doc \in Docs
    BY <2>1, Kinds DEF Filing
  <2>2. \A d \in Docs : Unborn(d) => Unborn(d)'
    BY DEF Unborn
  <2>3. ASSUME NEW c \in Clients, req'[c].op = "upload" PROVE Unborn(req[c].doc)'
    BY <2>1, <2>2, <2>3 DEF LibraryInv, UploadsFresh
  <2>4. ASSUME NEW c \in Clients, req'[c].op = "upload", NEW e \in Clients \ {c}, req'[e].op = "upload"
        PROVE  req'[e].doc # req'[c].doc
    <3>1. req'[c] = req[c] /\ req'[e] = req[e]
      BY <2>1, <2>4
    <3> QED BY <2>4, <3>1 DEF LibraryInv, UploadsFresh
  <2> QED BY <2>1, <2>3, <2>4 DEF UploadsFresh
<1>3. Counted'
  <2>1. ASSUME NEW d \in Docs, Exists(d)' PROVE doc'[d].last <= requests'
    <3>1. Exists(d) /\ doc'[d].last = doc[d].last
      BY <2>1
    <3>2. doc[d].last \in Nat /\ requests \in Nat /\ doc[d].last <= requests
      BY <3>1, Numeric DEF LibraryInv, Counted
    <3> QED BY <1>0, <3>1, <3>2
  <2>2. \A c \in Clients : /\ req'[c].op = "upload" => requests' >= 1
                           /\ req'[c].op = "reindex" => req'[c].read.current < requests'
    BY <1>0, Numeric DEF LibraryInv, Counted, Filing
  <2> QED BY <2>1, <2>2 DEF Counted
<1>4. JobsFit'
  <2>1. ASSUME NEW j \in jobs
        PROVE  /\ j.version = j.fallback + 1
               /\ j.fallback = 0 \/ <<j.doc, j.fallback>> \in built'
               /\ Exists(j.doc)' => /\ j.version <= doc'[j.doc].last
                                    /\ j.base = doc'[j.doc].base \/ <<j.doc, j.version>> \in moved'
    <3>1. j.doc \in Docs /\ j.version \in Nat /\ j.fallback \in Nat
      BY Numeric
    <3>2. j.version = j.fallback + 1 /\ (j.fallback = 0 \/ <<j.doc, j.fallback>> \in built')
      BY DEF LibraryInv, JobsFit
    <3>3. ASSUME Exists(j.doc)'
          PROVE  j.version <= doc'[j.doc].last /\ (j.base = doc'[j.doc].base \/ <<j.doc, j.version>> \in moved')
      <4>1. /\ doc'[j.doc].last = doc[j.doc].last /\ doc[j.doc].last \in Nat
            /\ j.version <= doc[j.doc].last
            /\ j.base = doc[j.doc].base \/ <<j.doc, j.version>> \in moved
        BY <3>1, <3>3, Numeric DEF LibraryInv, JobsFit
      <4>2. j.version \in 1 .. doc[j.doc].last
        BY <3>1, <3>2, <4>1
      <4> QED BY <3>1, <3>3, <4>1, <4>2
    <3> QED BY <3>2, <3>3
  <2> QED BY <2>1 DEF JobsFit
<1>5. CurrentBuilt'
  <2>1. \A d \in Docs : Exists(d)' => doc'[d].current = 0 \/ <<d, doc'[d].current>> \in built'
    BY DEF LibraryInv, CurrentBuilt
  <2>2. \A c \in Clients : req'[c].op = "reindex" => <<req'[c].doc, req'[c].read.current>> \in built'
    BY DEF LibraryInv, CurrentBuilt, Filing
  <2> QED BY <2>1, <2>2 DEF CurrentBuilt
<1>6. QED
  BY <1>1, <1>2, <1>3, <1>4, <1>5 DEF RowsInv

(* What is findable stays excused, unless something is written or built.    *)
LEMMA PointsKept ==
  ASSUME TypeOK, LibraryInv, points' \subseteq points, left \subseteq left', UNCHANGED built,
         \A p \in points' :
           /\ Exists(p.doc) => Exists(p.doc)' \/ Deleting(p.doc)'
           /\ Deleting(p.doc) => Deleting(p.doc)' \/ <<p.doc, p.version>> \in left'
           /\ Cleaning(p.doc, p.version) => Cleaning(p.doc, p.version)' \/ <<p.doc, p.version>> \in left'
  PROVE  PointsFit'
<1>1. ASSUME NEW p \in points'
      PROVE  \/ <<p.doc, p.version>> \in left' \/ Deleting(p.doc)'
             \/ Exists(p.doc)' /\ (Cleaning(p.doc, p.version)' \/ Last(p.doc, p.version)')
  <2>1. Last(p.doc, p.version) => Last(p.doc, p.version)'
    BY DEF Last
  <2>2. p \in points
    OBVIOUS
  <2> QED BY <1>1, <2>1, <2>2 DEF LibraryInv, PointsFit
<1>2. QED
  BY <1>1 DEF PointsFit

LEMMA FromJobsKept ==
  ASSUME TypeOK, LibraryInv, jobs \subseteq jobs', points' \subseteq points, UNCHANGED built,
         \A w \in Workers : work'[w] = None \/ work'[w].job \in jobs
  PROVE  FromJobs'
BY DEF LibraryInv, FromJobs

(* A run is as before, but for those that stop or begin. *)
LEMMA WorkKept ==
  ASSUME TypeOK, LibraryInv, UNCHANGED work
  PROVE  /\ \A w \in Workers : work'[w] = None \/ work'[w].job \in jobs
         /\ \A d, v : Cleaning(d, v) => Cleaning(d, v)'
BY DEF LibraryInv, FromJobs, Cleaning, Working

LEMMA Together == RowsInv /\ FromJobs /\ PointsFit => LibraryInv
BY DEF RowsInv, LibraryInv

-----------------------------------------------------------------------------
LEMMA DirectoryStep ==
  ASSUME TypeOK, LibraryInv, NEW c \in Clients,
         \/ \E o \in Owners, name \in Names, note \in Notes : Create(c, o, name, note)
         \/ \E o \in Owners, asked \in Asked : UpdateReads(c, o, asked)
         \/ \E b \in Bots : DeleteBot(c, b)
         \/ \E k \in Bases : DeleteBase(c, k)
         \/ \E b \in Bots, k \in Bases : Bind(c, b, k) \/ Unbind(c, b, k)
         \/ \E d \in Docs, k \in Places : Move(c, d, k)
         \/ UpdateWrites(c) \/ BindWrites(c)
  PROVE  LibraryInv'
<1>0. req \in [Clients -> Requests] /\ row \in [Owners -> Rows \cup {None}]
  BY DEF TypeOK
<1>1. /\ UNCHANGED library
      /\ requests' = requests \/ Begin(c)
  BY DEF Create, UpdateReads, DeleteBot, DeleteBase, Bind, Unbind, Move, UpdateWrites, BindWrites
<1>2. requests' \in Numbers /\ requests <= requests'
  BY <1>1, Numeric DEF Begin
<1>3. \A e \in Clients : req'[e] = req[e] \/ (~Filing(e)' /\ req[e].op # "delete")
  <2>0. Begin(c) => req[c].op # "delete"
    BY DEF Begin, Idle
  <2>1. ASSUME NEW r, GoOn(c, r) \/ (End(c) /\ r = Idle), r.op \notin {"upload", "reindex"}, req[c].op # "delete"
        PROVE  \A e \in Clients : req'[e] = req[e] \/ (~Filing(e)' /\ req[e].op # "delete")
    BY <1>0, <2>1 DEF GoOn, End, Filing
  <2>2. ASSUME NEW o \in Owners, NEW asked \in Asked, UpdateReads(c, o, asked)
        PROVE  \A e \in Clients : req'[e] = req[e] \/ (~Filing(e)' /\ req[e].op # "delete")
    BY <2>0, <2>1, <2>2 DEF UpdateReads
  <2>3. ASSUME NEW b \in Bots, NEW k \in Bases, Bind(c, b, k)
        PROVE  \A e \in Clients : req'[e] = req[e] \/ (~Filing(e)' /\ req[e].op # "delete")
    BY <2>0, <2>1, <2>3 DEF Bind
  <2>4. ASSUME NEW d \in Docs, NEW k \in Places, Move(c, d, k)
        PROVE  \A e \in Clients : req'[e] = req[e] \/ (~Filing(e)' /\ req[e].op # "delete")
    BY <2>0, <2>1, <2>4 DEF Move
  <2>5. CASE UpdateWrites(c) \/ BindWrites(c)
    <3>1. End(c) /\ Idle.op \notin {"upload", "reindex"} /\ req[c].op # "delete"
      BY <2>5 DEF UpdateWrites, BindWrites, Idle
    <3> QED BY <2>1, <3>1
  <2>6. CASE \/ \E o \in Owners, name \in Names, note \in Notes : Create(c, o, name, note)
             \/ \E b \in Bots : DeleteBot(c, b)
             \/ \E k \in Bases : DeleteBase(c, k)
             \/ \E b \in Bots, k \in Bases : Unbind(c, b, k)
    BY <2>6 DEF Create, DeleteBot, DeleteBase, Unbind
  <2> QED BY <2>2, <2>3, <2>4, <2>5, <2>6
<1>4. used \subseteq used' /\ \A o \in Owners : row'[o] # None => row[o] # None \/ o \in used'
  <2>1. CASE UpdateWrites(c)
    BY <1>0, <2>1 DEF UpdateWrites, There
  <2>2. CASE ~UpdateWrites(c)
    BY <1>0, <2>2 DEF Create, UpdateReads, DeleteBot, DeleteBase, Bind, Unbind, Move, BindWrites, directory
  <2> QED BY <2>1, <2>2
<1>5. \A o \in Owners : row'[o] # None => o \in used'
  BY <1>4 DEF LibraryInv, IdsUsed, There
<1>6. RowsInv'
  BY <1>1, <1>2, <1>3, <1>4, <1>5, RowsKept DEF library, Exists
<1>7. FromJobs'
  BY <1>1, WorkKept, FromJobsKept DEF library
<1>8. PointsFit'
  <2>1. \A d : Deleting(d) => Deleting(d)'
    BY <1>3 DEF Deleting
  <2>2. \A d : Exists(d) => Exists(d)'
    BY <1>1 DEF library, Exists
  <2> QED BY <1>1, <2>1, <2>2, WorkKept, PointsKept DEF library
<1>9. QED
  BY <1>6, <1>7, <1>8, Together DEF RowsInv, LibraryInv

(* A step that ends a request and leaves the directory alone. *)
LEMMA Ends ==
  ASSUME TypeOK, NEW c \in Clients, End(c)
  PROVE  /\ req'[c] = Idle /\ req'[c].op = "idle"
         /\ \A e \in Clients \ {c} : req'[e] = req[e]
         /\ \A e \in Clients : req'[e] = req[e] \/ ~Filing(e)'
         /\ \A d : Deleting(d) /\ ~(req[c].op = "delete" /\ req[c].doc = d) => Deleting(d)'
<1>1. req \in [Clients -> Requests]
  BY DEF TypeOK
<1>2. req'[c] = Idle /\ \A e \in Clients \ {c} : req'[e] = req[e]
  BY <1>1 DEF End
<1>3. req'[c].op = "idle"
  BY <1>2 DEF Idle
<1>4. QED
  BY <1>2, <1>3 DEF Filing, Deleting

LEMMA LostStep ==
  ASSUME TypeOK, LibraryInv, NEW c \in Clients, Lost(c)
  PROVE  LibraryInv'
<1>0. /\ End(c) /\ UNCHANGED <<row, doc, points, jobs, work, moved, built, used, requests>>
      /\ left \subseteq left' /\ (req[c].op = "delete" => {req[c].doc} \X Numbers \subseteq left')
  BY DEF Lost, directory
<1>1. RowsInv'
  <2>1. \A o \in Owners : row'[o] # None => o \in used'
    BY <1>0 DEF LibraryInv, IdsUsed, There
  <2> QED BY <1>0, <2>1, Ends, Numeric, RowsKept DEF Exists
<1>2. FromJobs'
  BY <1>0, WorkKept, FromJobsKept
<1>3. PointsFit'
  <2>1. \A p \in points : p.version \in Numbers
    BY DEF TypeOK, Points
  <2>2. ASSUME NEW p \in points', Deleting(p.doc) PROVE Deleting(p.doc)' \/ <<p.doc, p.version>> \in left'
    <3>1. CASE req[c].op = "delete" /\ req[c].doc = p.doc
      BY <1>0, <2>1, <3>1
    <3>2. CASE ~(req[c].op = "delete" /\ req[c].doc = p.doc)
      BY <1>0, <2>2, <3>2, Ends
    <3> QED BY <3>1, <3>2
  <2>3. \A p \in points' : /\ Exists(p.doc) => Exists(p.doc)'
                           /\ Cleaning(p.doc, p.version) => Cleaning(p.doc, p.version)'
    BY <1>0, WorkKept DEF Exists
  <2> QED BY <1>0, <2>2, <2>3, PointsKept
<1>4. QED
  BY <1>1, <1>2, <1>3, Together DEF RowsInv, LibraryInv

LEMMA DeletePointsStep ==
  ASSUME TypeOK, LibraryInv, NEW c \in Clients, DeletePoints(c)
  PROVE  LibraryInv'
<1>0. /\ End(c) /\ UNCHANGED <<row, doc, jobs, work, moved, built, left, used, requests>>
      /\ points' \subseteq points /\ \A p \in points' : p.doc # req[c].doc
  BY DEF DeletePoints, directory
<1>1. RowsInv'
  <2>1. \A o \in Owners : row'[o] # None => o \in used'
    BY <1>0 DEF LibraryInv, IdsUsed, There
  <2> QED BY <1>0, <2>1, Ends, Numeric, RowsKept DEF Exists
<1>2. FromJobs'
  BY <1>0, WorkKept, FromJobsKept
<1>3. PointsFit'
  <2>1. \A p \in points' : Deleting(p.doc) => Deleting(p.doc)'
    BY <1>0, Ends
  <2> QED BY <1>0, <2>1, WorkKept, PointsKept DEF Exists
<1>4. QED
  BY <1>1, <1>2, <1>3, Together DEF RowsInv, LibraryInv

LEMMA DeleteDocumentStep ==
  ASSUME TypeOK, LibraryInv, NEW c \in Clients, NEW d \in Docs, DeleteDocument(c, d)
  PROVE  LibraryInv'
<1>0. /\ req \in [Clients -> Requests] /\ req[c] = Idle
      /\ req' = [req EXCEPT ![c] = [op |-> "delete", doc |-> d]]
      /\ doc \in [Docs -> Documents \cup {None}] /\ doc' = [doc EXCEPT ![d] = None]
      /\ requests' = requests + 1 /\ requests < MaxRequests
      /\ UNCHANGED <<row, points, jobs, work, moved, built, left, used>>
  BY DEF TypeOK, DeleteDocument, Begin, GoOn, directory
<1>1. /\ req'[c].op = "delete" /\ req'[c].doc = d /\ \A e \in Clients \ {c} : req'[e] = req[e]
      /\ req[c].op = "idle"
      /\ doc'[d] = None /\ \A x \in Docs \ {d} : doc'[x] = doc[x]
  BY <1>0 DEF Idle
<1>2. Deleting(d)' /\ \A x : Deleting(x) => Deleting(x)'
  BY <1>1 DEF Deleting
<1>3. RowsInv'
  <2>1. \A o \in Owners : row'[o] # None => o \in used'
    BY <1>0 DEF LibraryInv, IdsUsed, There
  <2>2. \A e \in Clients : req'[e] = req[e] \/ ~Filing(e)'
    BY <1>1 DEF Filing
  <2>3. requests' \in Numbers /\ requests <= requests'
    BY <1>0, Numeric
  <2>4. \A x \in Docs : Exists(x)' => Exists(x) /\ doc'[x] = doc[x]
    BY <1>1 DEF Exists
  <2> QED BY <1>0, <2>1, <2>2, <2>3, <2>4, RowsKept
<1>4. FromJobs'
  BY <1>0, WorkKept, FromJobsKept
<1>5. PointsFit'
  <2>1. \A p \in points : p.doc \in Docs
    BY DEF TypeOK, Points
  <2>2. \A p \in points : Exists(p.doc) => Exists(p.doc)' \/ Deleting(p.doc)'
    BY <1>1, <1>2, <2>1 DEF Exists
  <2> QED BY <1>0, <1>2, <2>2, WorkKept, PointsKept
<1>6. QED
  BY <1>3, <1>4, <1>5, Together DEF RowsInv, LibraryInv

LEMMA RollbackStep ==
  ASSUME TypeOK, LibraryInv, NEW c \in Clients, NEW d \in Docs, NEW v \in Numbers, Rollback(c, d, v)
  PROVE  LibraryInv'
<1>0. /\ SetsCurrent(d, v) /\ <<d, v>> \in built
      /\ requests' = requests + 1 /\ requests < MaxRequests
      /\ UNCHANGED <<row, points, jobs, work, moved, built, left, used, req>>
  BY DEF Rollback, SetsCurrent, Begin, directory
<1>1. RowsInv'
  <2>1. \A o \in Owners : row'[o] # None => o \in used'
    BY <1>0 DEF LibraryInv, IdsUsed, There
  <2>2. requests' \in Numbers /\ requests <= requests'
    BY <1>0, Numeric
  <2> QED BY <1>0, <2>1, <2>2, CurrentSet, RowsKept
<1>2. FromJobs'
  BY <1>0, WorkKept, FromJobsKept
<1>3. PointsFit'
  <2>1. \A p \in points : p.doc \in Docs
    BY DEF TypeOK, Points
  <2> QED BY <1>0, <2>1, CurrentSet, WorkKept, PointsKept DEF Deleting
<1>4. QED
  BY <1>1, <1>2, <1>3, Together DEF RowsInv, LibraryInv

LEMMA MoveWritesStep ==
  ASSUME TypeOK, LibraryInv, NEW c \in Clients, MoveWrites(c)
  PROVE  LibraryInv'
<1> DEFINE d == req[c].doc
           k == req[c].base
<1>0. /\ doc \in [Docs -> Documents \cup {None}] /\ d \in Docs /\ k \in Places
      /\ End(c) /\ req[c].op = "move"
      /\ UNCHANGED <<row, points, jobs, work, used, built, left, requests>>
      /\ \/ Exists(d) /\ doc' = [doc EXCEPT ![d].base = k] /\ moved' = moved \cup {d} \X (1 .. doc[d].last)
         \/ UNCHANGED <<doc, moved>>
  BY Kinds DEF TypeOK, MoveWrites, directory
<1>1. /\ \A x \in Docs : Exists(x)' <=> Exists(x)
      /\ \A x \in Docs : Exists(x) =>
           /\ doc'[x].last = doc[x].last /\ doc'[x].current = doc[x].current
           /\ doc'[x].base = doc[x].base \/ {x} \X (1 .. doc[x].last) \subseteq moved'
  <2>1. CASE UNCHANGED doc
    BY <2>1 DEF Exists
  <2>2. CASE Exists(d) /\ doc' = [doc EXCEPT ![d].base = k] /\ moved' = moved \cup {d} \X (1 .. doc[d].last)
    <3>1. doc[d] \in Documents
      BY <1>0, <2>2 DEF Exists
    <3>2. doc'[d] = [doc[d] EXCEPT !.base = k] /\ \A x \in Docs \ {d} : doc'[x] = doc[x]
      BY <1>0, <2>2
    <3>3. doc'[d] \in Documents /\ doc'[d].current = doc[d].current /\ doc'[d].last = doc[d].last
      BY <1>0, <3>1, <3>2 DEF Documents
    <3>4. {d} \X (1 .. doc[d].last) \subseteq moved'
      BY <2>2
    <3> QED BY <2>2, <3>2, <3>3, <3>4, NoneIsNoRow DEF Exists
  <2> QED BY <1>0, <2>1, <2>2
<1>2. moved \subseteq moved'
  BY <1>0
<1> HIDE DEF d, k
<1>3. RowsInv'
  <2>1. \A o \in Owners : row'[o] # None => o \in used'
    BY <1>0 DEF LibraryInv, IdsUsed, There
  <2> QED BY <1>0, <1>1, <1>2, <2>1, Ends, Numeric, RowsKept
<1>4. FromJobs'
  BY <1>0, WorkKept, FromJobsKept
<1>5. PointsFit'
  <2>1. \A p \in points : p.doc \in Docs
    BY DEF TypeOK, Points
  <2> QED BY <1>0, <1>1, <2>1, Ends, WorkKept, PointsKept
<1>6. QED
  BY <1>3, <1>4, <1>5, Together DEF RowsInv, LibraryInv

-----------------------------------------------------------------------------
LEMMA UploadStep ==
  ASSUME TypeOK, LibraryInv, NEW c \in Clients, NEW d \in Docs, NEW k \in Bases, Upload(c, d, k)
  PROVE  LibraryInv'
<1>0. /\ req \in [Clients -> Requests] /\ req[c] = Idle /\ d \notin used
      /\ req' = [req EXCEPT ![c] = [op |-> "upload", doc |-> d, base |-> k]]
      /\ used' = used \cup {d} /\ requests' = requests + 1 /\ requests < MaxRequests
      /\ UNCHANGED <<row, doc, points, jobs, work, moved, built, left>>
  BY DEF TypeOK, Upload, Begin, GoOn, library, directory
<1>1. /\ req'[c].op = "upload" /\ req'[c].doc = d /\ req[c].op = "idle"
      /\ \A e \in Clients \ {c} : req'[e] = req[e]
  BY <1>0 DEF Idle
<1>2. IdsUsed'
  BY <1>0 DEF LibraryInv, IdsUsed, There, Exists
<1>3. UploadsFresh'
  <2>1. Unborn(d)' /\ \A x : Unborn(x) => Unborn(x)'
    BY <1>0 DEF LibraryInv, IdsUsed, Unborn, Exists
  <2>2. \A e \in Clients : req[e].op = "upload" => req[e].doc \in used /\ req[e].doc # d
    BY <1>0 DEF LibraryInv, UploadsFresh, Unborn
  <2>3. ASSUME NEW e \in Clients, req'[e].op = "upload" PROVE Unborn(req[e].doc)'
    BY <1>1, <2>1, <2>3 DEF LibraryInv, UploadsFresh
  <2>4. ASSUME NEW e \in Clients, req'[e].op = "upload", NEW f \in Clients \ {e}, req'[f].op = "upload"
        PROVE  req'[f].doc # req'[e].doc
    BY <1>1, <2>2, <2>4 DEF LibraryInv, UploadsFresh
  <2>5. ASSUME NEW e \in Clients, req'[e].op = "upload" PROVE req'[e].doc \in used' /\ Unborn(req[e].doc)'
    BY <2>3, <2>5 DEF Unborn
  <2> QED BY <2>4, <2>5 DEF UploadsFresh
<1>4. Counted'
  <2>1. requests' \in Numbers /\ requests' >= 1 /\ requests' \in Nat
    BY <1>0, Numeric
  <2>2. \A e \in Clients : req'[e].op = "reindex" => req[e].op = "reindex" /\ req'[e] = req[e]
    BY <1>1
  <2>3. \A e \in Clients : req'[e].op = "reindex" => req'[e].read.current < requests'
    BY <1>0, <2>2, Numeric DEF LibraryInv, Counted
  <2>4. \A x \in Docs : Exists(x)' => doc'[x].last <= requests'
    BY <1>0, Numeric DEF LibraryInv, Counted, Exists
  <2> QED BY <2>1, <2>3, <2>4 DEF Counted
<1>5. JobsFit'
  BY <1>0 DEF LibraryInv, JobsFit, Exists
<1>6. CurrentBuilt'
  BY <1>0, <1>1 DEF LibraryInv, CurrentBuilt, Exists
<1>7. FromJobs'
  BY <1>0, WorkKept, FromJobsKept
<1>8. PointsFit'
  <2>1. \A x : Deleting(x) => Deleting(x)'
    BY <1>1 DEF Deleting
  <2>2. \A x : Exists(x) => Exists(x)'
    BY <1>0 DEF Exists
  <2> QED BY <1>0, <2>1, <2>2, WorkKept, PointsKept
<1>9. QED
  BY <1>2, <1>3, <1>4, <1>5, <1>6, <1>7, <1>8 DEF LibraryInv

LEMMA UploadWritesStep ==
  ASSUME TypeOK, LibraryInv, NEW c \in Clients, UploadWrites(c)
  PROVE  LibraryInv'
<1> USE KnowledgeBasesAssumption
<1> DEFINE d == req[c].doc
           k == req[c].base
           new == [base |-> k, current |-> 0, last |-> 1]
           job == [doc |-> d, base |-> k, version |-> 1, fallback |-> 0]
<1>0. /\ End(c) /\ req[c].op = "upload" /\ d \in Docs /\ Unborn(d) /\ k \in Places
      /\ doc \in [Docs -> Documents \cup {None}]
      /\ doc' = [doc EXCEPT ![d] = new] /\ jobs' = jobs \cup {job}
      /\ UNCHANGED <<row, points, work, used, moved, built, left, requests>> /\ requests >= 1
      /\ \A e \in Clients \ {c} : req[e].op = "upload" => req[e].doc # d
  BY Kinds DEF TypeOK, UploadWrites, directory, LibraryInv, UploadsFresh, Counted, Places
<1>1. /\ \A x \in Docs \ {d} : doc'[x] = doc[x]
      /\ doc'[d] = new /\ new # None /\ d \in used /\ ~Exists(d) /\ \A j \in jobs : j.doc # d
  <2>1. new # None
    <3>1. requests \in Numbers /\ 1 \in Numbers /\ 0 \in Numbers
      BY <1>0 DEF LibraryInv, Counted, Numbers
    <3>2. new \in Documents
      BY <1>0, <3>1 DEF Documents
    <3> QED BY <3>2, NoneIsNoRow
  <2> HIDE DEF new, job
  <2> QED BY <1>0, <2>1 DEF Unborn
<1>2. /\ job.doc = d /\ job.base = k /\ job.version = 1 /\ job.fallback = 0
      /\ new.base = k /\ new.current = 0 /\ new.last = 1
  OBVIOUS
<1>3. /\ req'[c].op = "idle" /\ \A e \in Clients \ {c} : req'[e] = req[e]
      /\ \A x : Deleting(x) => Deleting(x)'
  BY <1>0, Ends
<1> HIDE DEF d, k, new, job
<1>4. \A x \in Docs : Exists(x) => x # d /\ Exists(x)'
  BY <1>1 DEF Exists
<1>5. IdsUsed'
  BY <1>0, <1>1, <1>2 DEF LibraryInv, IdsUsed, There, Exists
<1>6. UploadsFresh'
  <2>1. ASSUME NEW e \in Clients, req'[e].op = "upload"
        PROVE  req'[e] = req[e] /\ req[e].op = "upload" /\ req[e].doc \in Docs \ {d} /\ Unborn(req[e].doc)
    BY <1>0, <1>3, <2>1, Kinds DEF LibraryInv, UploadsFresh
  <2>2. \A x \in Docs \ {d} : Unborn(x) => Unborn(x)'
    BY <1>0, <1>1, <1>2 DEF Unborn, Exists
  <2>3. ASSUME NEW e \in Clients, req'[e].op = "upload" PROVE Unborn(req[e].doc)'
    BY <2>1, <2>2, <2>3
  <2>4. ASSUME NEW e \in Clients, req'[e].op = "upload", NEW f \in Clients \ {e}, req'[f].op = "upload"
        PROVE  req'[f].doc # req'[e].doc
    BY <2>1, <2>4 DEF LibraryInv, UploadsFresh
  <2> QED BY <2>3, <2>4 DEF UploadsFresh
<1>7. Counted'
  BY <1>0, <1>1, <1>2, <1>3 DEF LibraryInv, Counted, Exists
<1>8. JobsFit'
  <2>1. \A j \in jobs : j.doc \in Docs \ {d}
    BY <1>1, Numeric
  <2>2. ASSUME NEW j \in jobs
        PROVE  /\ j.version = j.fallback + 1 /\ (j.fallback = 0 \/ <<j.doc, j.fallback>> \in built')
               /\ Exists(j.doc)' => /\ j.version <= doc'[j.doc].last
                                    /\ j.base = doc'[j.doc].base \/ <<j.doc, j.version>> \in moved'
    BY <1>0, <1>1, <2>1 DEF LibraryInv, JobsFit, Exists
  <2>3. /\ job.version = job.fallback + 1
        /\ job.version <= doc'[job.doc].last /\ job.base = doc'[job.doc].base
    BY <1>1, <1>2
  <2> QED BY <1>0, <1>2, <2>2, <2>3 DEF JobsFit
<1>9. CurrentBuilt'
  BY <1>0, <1>1, <1>2, <1>3 DEF LibraryInv, CurrentBuilt, Exists
<1>10. FromJobs'
  BY <1>0, WorkKept, FromJobsKept
<1>11. PointsFit'
  <2>1. \A p \in points : p.doc \in Docs
    BY DEF TypeOK, Points
  <2> QED BY <1>0, <1>3, <1>4, <2>1, WorkKept, PointsKept
<1>12. QED
  BY <1>5, <1>6, <1>7, <1>8, <1>9, <1>10, <1>11 DEF LibraryInv

LEMMA ReindexStep ==
  ASSUME TypeOK, LibraryInv, NEW c \in Clients, NEW d \in Docs, Reindex(c, d)
  PROVE  LibraryInv'
<1> DEFINE r == [op |-> "reindex", doc |-> d, read |-> doc[d]]
<1>0. /\ req \in [Clients -> Requests] /\ Exists(d) /\ req' = [req EXCEPT ![c] = r] /\ doc[d].current > 0
      /\ requests' = requests + 1 /\ requests < MaxRequests /\ req[c] = Idle
      /\ UNCHANGED <<row, doc, points, jobs, work, moved, built, left, used>>
  BY DEF TypeOK, Reindex, Begin, GoOn, library, directory
<1>1. /\ req'[c].op = "reindex" /\ req'[c].doc = d /\ req'[c].read = doc[d] /\ req[c].op = "idle"
      /\ \A e \in Clients \ {c} : req'[e] = req[e]
  BY <1>0 DEF Idle
<1> HIDE DEF r
<1>2. /\ doc[d].current \in Nat /\ doc[d].last \in Nat
      /\ <<d, doc[d].current>> \in built
  BY <1>0, Numeric DEF LibraryInv, CurrentBuilt
<1>3. doc[d].current <= doc[d].last
  <2>1. PICK j \in jobs : j.doc = d /\ j.version = doc[d].current
    BY <1>2 DEF LibraryInv, FromJobs
  <2> QED BY <1>0, <2>1 DEF LibraryInv, JobsFit
<1>4. IdsUsed'
  BY <1>0 DEF LibraryInv, IdsUsed, There, Exists
<1>5. UploadsFresh'
  <2>1. \A x : Unborn(x) => Unborn(x)'
    BY <1>0 DEF Unborn, Exists
  <2> QED BY <1>1, <2>1 DEF LibraryInv, UploadsFresh
<1>6. Counted'
  <2>1. requests' \in Numbers /\ requests' \in Nat
    BY <1>0, Numeric
  <2>2. doc[d].current < requests'
    BY <1>0, <1>2, <1>3, Numeric DEF LibraryInv, Counted
  <2>3. \A e \in Clients : /\ req'[e].op = "upload" => requests' >= 1
                           /\ req'[e].op = "reindex" => req'[e].read.current < requests'
    BY <1>0, <1>1, <2>2, Numeric DEF LibraryInv, Counted
  <2>4. \A x \in Docs : Exists(x)' => doc'[x].last <= requests'
    BY <1>0, Numeric DEF LibraryInv, Counted, Exists
  <2> QED BY <2>1, <2>3, <2>4 DEF Counted
<1>7. JobsFit'
  BY <1>0 DEF LibraryInv, JobsFit, Exists
<1>8. CurrentBuilt'
  BY <1>0, <1>1, <1>2 DEF LibraryInv, CurrentBuilt, Exists
<1>9. FromJobs'
  BY <1>0, WorkKept, FromJobsKept
<1>10. PointsFit'
  <2>1. \A x : Deleting(x) => Deleting(x)'
    BY <1>1 DEF Deleting
  <2>2. \A x : Exists(x) => Exists(x)'
    BY <1>0 DEF Exists
  <2> QED BY <1>0, <2>1, <2>2, WorkKept, PointsKept
<1>11. QED
  BY <1>4, <1>5, <1>6, <1>7, <1>8, <1>9, <1>10 DEF LibraryInv

(* The job that a reindexing orders falls back to the version it read, which *)
(* was built, and has the number after it.                                   *)
LEMMA ReindexWritesStep ==
  ASSUME TypeOK, LibraryInv, NEW c \in Clients, ReindexWrites(c)
  PROVE  LibraryInv'
<1> DEFINE d    == req[c].doc
           read == req[c].read
           next == read.current + 1
           job  == [doc |-> d, base |-> read.base, version |-> next, fallback |-> read.current]
<1>0. /\ doc \in [Docs -> Documents \cup {None}] /\ d \in Docs /\ End(c)
      /\ read.current \in Nat /\ req[c].op = "reindex" /\ <<d, read.current>> \in built /\ read.current \in Numbers
      /\ read.current < requests
      /\ UNCHANGED <<row, points, work, used, built, left, requests>>
  BY Kinds, Numeric DEF TypeOK, ReindexWrites, directory, LibraryInv, CurrentBuilt, Counted, Documents
<1>1. \A o \in Owners : row'[o] # None => o \in used'
  BY <1>0 DEF LibraryInv, IdsUsed, There
<1>2. /\ req'[c].op = "idle" /\ \A e \in Clients \ {c} : req'[e] = req[e]
      /\ \A x : Deleting(x) => Deleting(x)'
  BY <1>0, Ends
<1>3. CASE UNCHANGED <<doc, jobs, moved>>
  <2>1. RowsInv'
    BY <1>0, <1>1, <1>3, Ends, Numeric, RowsKept DEF Exists
  <2>2. FromJobs'
    BY <1>0, <1>3, WorkKept, FromJobsKept
  <2>3. PointsFit'
    BY <1>0, <1>2, <1>3, WorkKept, PointsKept DEF Exists
  <2> QED BY <2>1, <2>2, <2>3, Together DEF RowsInv, LibraryInv
<1>4. CASE Exists(d) /\ doc[d].last < next /\ Orders(d, read, next)
  <2>1. PICK n \in {read.current, doc[d].current} : doc' = [doc EXCEPT ![d].last = next, ![d].current = n]
    BY <1>4 DEF Orders
  <2>2. jobs' = jobs \cup {job} /\ moved \subseteq moved' /\ (read.base = doc[d].base \/ <<d, next>> \in moved')
    BY <1>4 DEF Orders
  <2>3. /\ doc'[d].current = n /\ doc'[d].last = next /\ doc'[d].base = doc[d].base
        /\ doc'[d] # None /\ \A x \in Docs \ {d} : doc'[x] = doc[x]
    <3>1. doc[d] \in Documents
      BY <1>0, <1>4 DEF Exists
    <3>2. next \in Numbers /\ n \in Numbers
      BY <1>0, <3>1, KnowledgeBasesAssumption, Numeric DEF Numbers, Documents
    <3> HIDE DEF next
    <3>3. doc'[d] = [doc[d] EXCEPT !.last = next, !.current = n] /\ \A x \in Docs \ {d} : doc'[x] = doc[x]
      BY <1>0, <2>1
    <3>4. /\ doc'[d] \in Documents /\ doc'[d].current = n /\ doc'[d].last = next
          /\ doc'[d].base = doc[d].base
      BY <3>1, <3>2, <3>3 DEF Documents
    <3> QED BY <3>3, <3>4, NoneIsNoRow
  <2>4. job.doc = d /\ job.base = read.base /\ job.version = next /\ job.fallback = read.current
    OBVIOUS
  <2>5. next = read.current + 1 /\ next \in Nat /\ next <= requests
    BY <1>0, Numeric
  <2>6. doc[d].last < next /\ doc[d].last \in Nat /\ Exists(d)
    BY <1>0, <1>4, Numeric
  <2> HIDE DEF next, job, d, read
  <2>7. \A x \in Docs : Exists(x)' <=> Exists(x)
    BY <2>3, <2>6 DEF Exists
  <2>8. IdsUsed'
    BY <1>0, <1>1, <2>2, <2>4, <2>6, <2>7 DEF LibraryInv, IdsUsed, There
  <2>9. UploadsFresh'
    <3>1. ASSUME NEW e \in Clients, req'[e].op = "upload"
          PROVE  req'[e] = req[e] /\ req[e].op = "upload" /\ req[e].doc \in Docs \ {d} /\ Unborn(req[e].doc)
      BY <1>2, <2>6, <3>1, Kinds DEF LibraryInv, UploadsFresh, Unborn
    <3>2. \A x \in Docs \ {d} : Unborn(x) => Unborn(x)'
      BY <1>0, <2>2, <2>4, <2>7 DEF Unborn
    <3>3. ASSUME NEW e \in Clients, req'[e].op = "upload" PROVE Unborn(req[e].doc)'
      BY <3>1, <3>2, <3>3
    <3>4. ASSUME NEW e \in Clients, req'[e].op = "upload", NEW f \in Clients \ {e}, req'[f].op = "upload"
          PROVE  req'[f].doc # req'[e].doc
      BY <3>1, <3>4 DEF LibraryInv, UploadsFresh
    <3> QED BY <3>3, <3>4 DEF UploadsFresh
  <2>10. Counted'
    BY <1>0, <1>2, <2>3, <2>5, <2>7 DEF LibraryInv, Counted
  <2>11. JobsFit'
    <3>1. ASSUME NEW j \in jobs
          PROVE  /\ j.version = j.fallback + 1 /\ (j.fallback = 0 \/ <<j.doc, j.fallback>> \in built')
                 /\ Exists(j.doc)' => /\ j.version <= doc'[j.doc].last
                                      /\ j.base = doc'[j.doc].base \/ <<j.doc, j.version>> \in moved'
      <4>1. j.doc \in Docs /\ j.version \in Nat
        BY Numeric
      <4>2. CASE j.doc = d
        BY <1>0, <2>2, <2>3, <2>5, <2>6, <4>1, <4>2 DEF LibraryInv, JobsFit
      <4>3. CASE j.doc # d
        BY <1>0, <2>2, <2>3, <2>7, <4>1, <4>3 DEF LibraryInv, JobsFit
      <4> QED BY <4>2, <4>3
    <3>2. /\ job.version = job.fallback + 1 /\ <<job.doc, job.fallback>> \in built'
          /\ job.version <= doc'[job.doc].last
          /\ job.base = doc'[job.doc].base \/ <<job.doc, job.version>> \in moved'
      BY <1>0, <2>2, <2>3, <2>4, <2>5
    <3> QED BY <2>2, <3>1, <3>2 DEF JobsFit
  <2>12. CurrentBuilt'
    <3>1. n = doc[d].current \/ n = read.current
      BY <2>1
    <3>2. n = 0 \/ <<d, n>> \in built
      BY <1>0, <2>6, <3>1 DEF LibraryInv, CurrentBuilt
    <3>3. \A x \in Docs : Exists(x)' => doc'[x].current = 0 \/ <<x, doc'[x].current>> \in built'
      BY <1>0, <2>3, <2>7, <3>2 DEF LibraryInv, CurrentBuilt
    <3>4. \A e \in Clients : req'[e].op = "reindex" => <<req'[e].doc, req'[e].read.current>> \in built'
      BY <1>0, <1>2 DEF LibraryInv, CurrentBuilt
    <3> QED BY <3>3, <3>4 DEF CurrentBuilt
  <2>13. FromJobs'
    BY <1>0, <2>2, WorkKept, FromJobsKept
  <2>14. PointsFit'
    <3>1. \A p \in points : p.doc \in Docs
      BY DEF TypeOK, Points
    <3> QED BY <1>0, <1>2, <2>7, <3>1, WorkKept, PointsKept
  <2> QED BY <2>8, <2>9, <2>10, <2>11, <2>12, <2>13, <2>14 DEF LibraryInv
<1>5. QED
  BY <1>3, <1>4 DEF ReindexWrites

-----------------------------------------------------------------------------
(* A step of a run changes neither requests nor rows of bots and bases. *)
LEMMA RunKeepsRows ==
  ASSUME TypeOK, LibraryInv, UNCHANGED outside, UNCHANGED <<jobs, moved>>, built \subseteq built',
         NEW d \in Docs, NEW v \in Numbers, SetsCurrent(d, v), v = 0 \/ <<d, v>> \in built'
  PROVE  /\ RowsInv'
         /\ \A x \in Docs : Exists(x)' <=> Exists(x)
         /\ \A x : Deleting(x)' <=> Deleting(x)
<1>1. UNCHANGED <<row, used, req, requests>>
  BY DEF outside, directory
<1>2. \A o \in Owners : row'[o] # None => o \in used'
  BY <1>1 DEF LibraryInv, IdsUsed, There
<1>3. RowsInv'
  BY <1>1, <1>2, Numeric, CurrentSet, RowsKept
<1>4. QED
  BY <1>1, <1>3, CurrentSet DEF Deleting

LEMMA RunBeginsStep ==
  ASSUME TypeOK, LibraryInv, NEW w \in Workers, NEW j \in jobs, RunBegins(w, j)
  PROVE  LibraryInv'
<1>0. /\ UNCHANGED <<doc, points, jobs, moved, built, left>> /\ UNCHANGED outside
      /\ work[w] = None /\ work' = [work EXCEPT ![w] = [job |-> j, at |-> "upsert"]]
      /\ work \in [Workers -> Runs \cup {None}] /\ j.doc \in Docs
  BY Numeric DEF RunBegins, TypeOK
<1>1. /\ work'[w].job = j /\ \A x \in Workers \ {w} : work'[x] = work[x]
  BY <1>0
<1>2. RowsInv' /\ (\A x \in Docs : Exists(x)' <=> Exists(x)) /\ \A x : Deleting(x)' <=> Deleting(x)
  <2>1. 0 \in Numbers
    BY KnowledgeBasesAssumption DEF Numbers
  <2> QED BY <1>0, <2>1, RunKeepsRows DEF SetsCurrent
<1>3. FromJobs'
  <2>1. \A x \in Workers : work'[x] = None \/ work'[x].job \in jobs
    BY <1>1 DEF LibraryInv, FromJobs
  <2> QED BY <1>0, <2>1, FromJobsKept
<1>4. PointsFit'
  <2>1. \A x, v : Cleaning(x, v) => Cleaning(x, v)'
    BY <1>0, <1>1 DEF Cleaning, Working
  <2>2. \A p \in points : p.doc \in Docs
    BY DEF TypeOK, Points
  <2> QED BY <1>0, <1>2, <2>1, <2>2, PointsKept
<1>5. QED
  BY <1>2, <1>3, <1>4, Together DEF RowsInv, LibraryInv

(* The points of a run that is not late are those of the last version.      *)
LEMMA UpsertStep ==
  ASSUME TypeOK, LibraryInv, NEW w \in Workers, Upsert(w)
  PROVE  LibraryInv'
<1>a. PICK j \in jobs : j = work[w].job
  BY DEF LibraryInv, FromJobs, Upsert, MarkReady, RunFails, CleansUp, CleanUpFails, Working
<1> DEFINE p == [doc |-> j.doc, version |-> j.version, base |-> j.base]
<1>0. /\ UNCHANGED <<doc, jobs, moved, built>> /\ UNCHANGED outside
      /\ work[w] # None /\ work[w].at = "upsert" /\ Continues(w, "mark")
      /\ points' = points \cup {p} /\ left \subseteq left'
      /\ (Exists(j.doc) => doc[j.doc].last > j.version) => <<j.doc, j.version>> \in left'
      /\ j \in jobs /\ j.doc \in Docs /\ j.version \in Nat
  BY <1>a, Numeric DEF Upsert, Working, LibraryInv, FromJobs
<1>1. p.doc = j.doc /\ p.version = j.version /\ p.base = j.base
  OBVIOUS
<1>2. /\ work'[w].job = j /\ work'[w].at = "mark" /\ \A x \in Workers \ {w} : work'[x] = work[x]
  BY <1>a, <1>0, RunMoves
<1> HIDE DEF p
<1>3. RowsInv' /\ (\A x \in Docs : Exists(x)' <=> Exists(x)) /\ \A x : Deleting(x)' <=> Deleting(x)
  <2>1. 0 \in Numbers
    BY KnowledgeBasesAssumption DEF Numbers
  <2> QED BY <1>0, <2>1, RunKeepsRows DEF SetsCurrent
<1>4. FromJobs'
  <2>1. \A x \in Workers : work'[x] # None => work'[x].job \in jobs
    BY <1>0, <1>2 DEF LibraryInv, FromJobs
  <2>2. \A q \in points' : \E i \in jobs : i.doc = q.doc /\ i.version = q.version /\ i.base = q.base
    BY <1>0, <1>1 DEF LibraryInv, FromJobs
  <2>3. \A e \in built : \E i \in jobs : i.doc = e[1] /\ i.version = e[2]
    BY DEF LibraryInv, FromJobs
  <2> QED BY <1>0, <2>1, <2>2, <2>3 DEF FromJobs
<1>5. PointsFit'
  <2>1. \A x, v : Cleaning(x, v) => Cleaning(x, v)'
    BY <1>0, <1>2 DEF Cleaning, Working
  <2>2. \A x, v : Last(x, v) => Last(x, v)'
    BY <1>0 DEF Last
  <2>3. ASSUME NEW q \in points
        PROVE  \/ <<q.doc, q.version>> \in left' \/ Deleting(q.doc)'
               \/ Exists(q.doc)' /\ (Cleaning(q.doc, q.version)' \/ Last(q.doc, q.version)')
    <3>1. q.doc \in Docs
      BY DEF TypeOK, Points
    <3> QED BY <1>0, <1>3, <2>1, <2>2, <3>1 DEF LibraryInv, PointsFit
  <2>4. ASSUME <<j.doc, j.version>> \notin left' PROVE Exists(j.doc)' /\ Last(j.doc, j.version)'
    <3>1. Exists(j.doc) /\ ~(doc[j.doc].last > j.version)
      BY <1>0, <2>4
    <3>2. ASSUME NEW n \in Numbers, n > j.version, <<j.doc, n>> \in built PROVE FALSE
      <4>1. PICK i \in jobs : i.doc = j.doc /\ i.version = n
        BY <3>2 DEF LibraryInv, FromJobs
      <4>2. n <= doc[j.doc].last /\ doc[j.doc].last \in Nat /\ n \in Nat
        BY <1>0, <3>1, <4>1, Numeric DEF LibraryInv, JobsFit
      <4> QED BY <1>0, <3>1, <3>2, <4>2
    <3> QED BY <1>0, <1>3, <3>1, <3>2 DEF Last
  <2>5. \A q \in points' : q \in points \/ (q.doc = j.doc /\ q.version = j.version)
    BY <1>0, <1>1
  <2>6. ASSUME NEW q \in points'
        PROVE  \/ <<q.doc, q.version>> \in left' \/ Deleting(q.doc)'
               \/ Exists(q.doc)' /\ (Cleaning(q.doc, q.version)' \/ Last(q.doc, q.version)')
    BY <2>3, <2>4, <2>5
  <2> QED BY <2>6 DEF PointsFit
<1>6. QED
  BY <1>3, <1>4, <1>5, Together DEF RowsInv, LibraryInv

(* When a version is built the points of the one before get their clean-up, *)
(* and those of an older one had it coming.                                 *)
LEMMA MarkReadyStep ==
  ASSUME TypeOK, LibraryInv, NEW w \in Workers, MarkReady(w)
  PROVE  LibraryInv'
<1>a. PICK j \in jobs : j = work[w].job
  BY DEF LibraryInv, FromJobs, Upsert, MarkReady, RunFails, CleansUp, CleanUpFails, Working
<1>0. /\ UNCHANGED <<points, jobs, moved, left>> /\ UNCHANGED outside
      /\ work[w] # None /\ work[w].at = "mark" /\ Continues(w, "clean")
      /\ SetsCurrent(j.doc, j.version) /\ built' = built \cup {<<j.doc, j.version>>}
      /\ j \in jobs /\ j.doc \in Docs /\ j.version \in Nat /\ j.version \in Numbers
      /\ j.fallback \in Nat /\ j.fallback \in Numbers
  BY <1>a, Numeric, AtWork DEF MarkReady, Working, LibraryInv, FromJobs
<1>1. /\ work'[w] # None /\ work'[w].job = j /\ work'[w].at = "clean"
      /\ \A x \in Workers \ {w} : work'[x] = work[x]
  BY <1>a, <1>0, RunMoves
<1>2. RowsInv' /\ (\A x \in Docs : Exists(x)' <=> Exists(x)) /\ \A x : Deleting(x)' <=> Deleting(x)
  BY <1>0, RunKeepsRows
<1>3. FromJobs'
  <2>1. \A x \in Workers : work'[x] # None => work'[x].job \in jobs
    BY <1>0, <1>1 DEF LibraryInv, FromJobs
  <2>2. \A e \in built' : \E i \in jobs : i.doc = e[1] /\ i.version = e[2]
    BY <1>0 DEF LibraryInv, FromJobs
  <2>3. \A q \in points : \E i \in jobs : i.doc = q.doc /\ i.version = q.version /\ i.base = q.base
    BY DEF LibraryInv, FromJobs
  <2> QED BY <1>0, <2>1, <2>2, <2>3 DEF FromJobs
<1>4. PointsFit'
  <2>1. \A x, v : Cleaning(x, v) => Cleaning(x, v)'
    BY <1>0, <1>1 DEF Cleaning, Working
  <2>2. Cleaning(j.doc, j.fallback)'
    BY <1>1 DEF Cleaning, Working
  <2>3. ASSUME NEW q \in points, Last(q.doc, q.version)
        PROVE  Last(q.doc, q.version)' \/ Cleaning(q.doc, q.version)'
    <3>1. q.version \in Nat
      BY KnowledgeBasesAssumption DEF TypeOK, Points, Numbers
    <3>2. CASE q.doc # j.doc
      BY <1>0, <2>3, <3>2 DEF Last
    <3>3. CASE q.doc = j.doc
      <4>1. j.version = j.fallback + 1 /\ (j.fallback = 0 \/ <<j.doc, j.fallback>> \in built)
        BY <1>0 DEF LibraryInv, JobsFit
      <4>2. ~(j.fallback > q.version)
        <5>1. ASSUME j.fallback > q.version PROVE FALSE
          <6>1. j.fallback # 0
            BY <1>0, <3>1, <5>1
          <6> QED BY <1>0, <2>3, <3>3, <4>1, <5>1, <6>1 DEF Last
        <5> QED BY <5>1
      <4>3. CASE j.fallback = q.version
        BY <2>2, <3>3, <4>3
      <4>4. CASE j.fallback # q.version
        <5>1. ~(j.version > q.version)
          BY <1>0, <3>1, <4>1, <4>2, <4>4
        <5>2. \A n \in Numbers : n > q.version => <<q.doc, n>> \notin built'
          BY <1>0, <2>3, <5>1 DEF Last
        <5> QED BY <5>2 DEF Last
      <4> QED BY <4>3, <4>4
    <3> QED BY <3>2, <3>3
  <2>4. ASSUME NEW q \in points
        PROVE  \/ <<q.doc, q.version>> \in left' \/ Deleting(q.doc)'
               \/ Exists(q.doc)' /\ (Cleaning(q.doc, q.version)' \/ Last(q.doc, q.version)')
    <3>1. q.doc \in Docs
      BY DEF TypeOK, Points
    <3> QED BY <1>0, <1>2, <2>1, <2>3, <3>1 DEF LibraryInv, PointsFit
  <2> QED BY <1>0, <2>4 DEF PointsFit
<1>5. QED
  BY <1>2, <1>3, <1>4, Together DEF RowsInv, LibraryInv

LEMMA RunFailsStep ==
  ASSUME TypeOK, LibraryInv, NEW w \in Workers, RunFails(w)
  PROVE  LibraryInv'
<1>a. PICK j \in jobs : j = work[w].job
  BY DEF LibraryInv, FromJobs, Upsert, MarkReady, RunFails, CleansUp, CleanUpFails, Working
<1>0. /\ UNCHANGED <<points, jobs, moved, built, left>> /\ UNCHANGED outside
      /\ work[w] # None /\ work[w].at # "clean" /\ Stops(w) /\ SetsCurrent(j.doc, j.fallback)
      /\ j \in jobs /\ j.doc \in Docs /\ j.fallback \in Numbers
  BY <1>a, AtWork DEF RunFails, Working, LibraryInv, FromJobs
<1>1. work'[w] = None /\ \A x \in Workers \ {w} : work'[x] = work[x]
  BY <1>0, RunStops
<1>2. j.fallback = 0 \/ <<j.doc, j.fallback>> \in built
  BY <1>0 DEF LibraryInv, JobsFit
<1>3. RowsInv' /\ (\A x \in Docs : Exists(x)' <=> Exists(x)) /\ \A x : Deleting(x)' <=> Deleting(x)
  BY <1>0, <1>2, RunKeepsRows
<1>4. FromJobs'
  <2>1. \A x \in Workers : work'[x] = None \/ work'[x].job \in jobs
    BY <1>1 DEF LibraryInv, FromJobs
  <2> QED BY <1>0, <2>1, FromJobsKept
<1>5. PointsFit'
  <2>1. \A x, v : Cleaning(x, v) => Cleaning(x, v)'
    BY <1>0, <1>1 DEF Cleaning, Working
  <2>2. \A p \in points : p.doc \in Docs
    BY DEF TypeOK, Points
  <2> QED BY <1>0, <1>3, <2>1, <2>2, PointsKept
<1>6. QED
  BY <1>3, <1>4, <1>5, Together DEF RowsInv, LibraryInv

LEMMA CleanUpStep ==
  ASSUME TypeOK, LibraryInv, NEW w \in Workers, CleansUp(w) \/ CleanUpFails(w)
  PROVE  LibraryInv'
<1>a. PICK j \in jobs : j = work[w].job
  BY DEF LibraryInv, FromJobs, Upsert, MarkReady, RunFails, CleansUp, CleanUpFails, Working
<1>0. /\ UNCHANGED <<doc, jobs, moved, built>> /\ UNCHANGED outside
      /\ work[w] # None /\ Stops(w) /\ points' \subseteq points /\ left \subseteq left'
      /\ \A p \in points' : p.doc = j.doc /\ p.version = j.fallback => <<p.doc, p.version>> \in left'
      /\ j.doc \in Docs
  BY <1>a, AtWork DEF CleansUp, CleanUpFails, Working
<1>1. work'[w] = None /\ \A x \in Workers \ {w} : work'[x] = work[x]
  BY <1>0, RunStops
<1>2. RowsInv' /\ (\A x \in Docs : Exists(x)' <=> Exists(x)) /\ \A x : Deleting(x)' <=> Deleting(x)
  <2>1. 0 \in Numbers
    BY KnowledgeBasesAssumption DEF Numbers
  <2> QED BY <1>0, <2>1, RunKeepsRows DEF SetsCurrent
<1>3. FromJobs'
  <2>1. \A x \in Workers : work'[x] = None \/ work'[x].job \in jobs
    BY <1>1 DEF LibraryInv, FromJobs
  <2> QED BY <1>0, <2>1, FromJobsKept
<1>4. PointsFit'
  <2>1. \A x, v : Cleaning(x, v) => Cleaning(x, v)' \/ (x = j.doc /\ v = j.fallback)
    BY <1>a, <1>1 DEF Cleaning, Working
  <2>2. \A p \in points : p.doc \in Docs
    BY DEF TypeOK, Points
  <2>3. \A p \in points' : Cleaning(p.doc, p.version) =>
          Cleaning(p.doc, p.version)' \/ <<p.doc, p.version>> \in left'
    BY <1>0, <2>1
  <2> QED BY <1>0, <1>2, <2>2, <2>3, PointsKept
<1>5. QED
  BY <1>2, <1>3, <1>4, Together DEF RowsInv, LibraryInv

-----------------------------------------------------------------------------
LEMMA InvInit == Init => IInv
<1> USE KnowledgeBasesAssumption
<1>1. ASSUME Init PROVE IInv
  <2>1. TypeOK
    BY <1>1 DEF Init, TypeOK, Requests, Numbers
  <2>2. \A c \in Clients : req[c].op = "idle"
    BY <1>1 DEF Init, Idle
  <2>3. 0 \in Numbers
    BY DEF Numbers
  <2> QED BY <1>1, <2>1, <2>2, <2>3 DEF Init, IInv, LibraryInv, IdsUsed, UploadsFresh, Counted, FromJobs,
                JobsFit, CurrentBuilt, PointsFit, There, Exists
<1>2. QED
  BY <1>1

LEMMA InvStep == IInv /\ [Next]_vars => IInv'
<1> SUFFICES ASSUME TypeOK, LibraryInv, [Next]_vars PROVE LibraryInv'
  BY TypeStep DEF IInv
<1>1. CASE UNCHANGED vars
  <2>1. IdsUsed' /\ UploadsFresh' /\ Counted' /\ JobsFit' /\ CurrentBuilt'
    BY <1>1 DEF vars, LibraryInv, IdsUsed, UploadsFresh, Unborn, Counted, JobsFit, CurrentBuilt, There, Exists
  <2>2. FromJobs' /\ PointsFit'
    BY <1>1 DEF vars, LibraryInv, FromJobs, PointsFit, Exists, Deleting, Cleaning, Working, Last
  <2> QED BY <2>1, <2>2 DEF LibraryInv
<1>2. ASSUME NEW c \in Clients, Handle(c) PROVE LibraryInv'
  BY <1>2, DirectoryStep, UploadStep, ReindexStep, RollbackStep, DeleteDocumentStep DEF Handle
<1>3. ASSUME NEW c \in Clients, Finish(c) PROVE LibraryInv'
  BY <1>3, DirectoryStep, UploadWritesStep, MoveWritesStep, ReindexWritesStep, DeletePointsStep, LostStep
     DEF Finish
<1>4. ASSUME NEW w \in Workers, RunsOn(w) PROVE LibraryInv'
  BY <1>4, RunBeginsStep, UpsertStep, MarkReadyStep, RunFailsStep, CleanUpStep DEF RunsOn
<1>5. QED
  BY <1>1, <1>2, <1>3, <1>4 DEF Next

LEMMA Invariance == Spec => []IInv
BY InvInit, InvStep, PTL DEF Spec

-----------------------------------------------------------------------------
(* Every variable keeps the shape that the code gives it. *)
THEOREM TypeCorrect == Spec => []TypeOK
<1>1. IInv => TypeOK
  BY DEF IInv
<1>2. QED
  BY <1>1, Invariance, PTL

(* What a bot finds belongs to the last built version of a document that is *)
(* there, under the knowledge base of its row or that of before a move: no  *)
(* interleaving of uploads, reindexing, rollbacks, moves, deletions and     *)
(* runs, repeated or failing at any statement, leaves other points but by a *)
(* clean-up or deletion that failed or a run that came late.                *)
THEOREM FoundIsFiled == Spec => []FoundWhereFiled
<1>1. IInv => FoundWhereFiled
  <2> SUFFICES ASSUME IInv, NEW b \in Bots, NEW p \in Reach(b),
                      <<p.doc, p.version>> \notin left, ~Deleting(p.doc)
               PROVE  /\ Exists(p.doc)
                      /\ doc[p.doc].base = p.base \/ <<p.doc, p.version>> \in moved
                      /\ \/ Cleaning(p.doc, p.version)
                         \/ \A n \in Numbers : n > p.version => <<p.doc, n>> \notin built
    BY DEF FoundWhereFiled
  <2>1. p \in points
    BY DEF Reach
  <2>2. Exists(p.doc) /\ (Cleaning(p.doc, p.version) \/ Last(p.doc, p.version))
    BY <2>1 DEF IInv, LibraryInv, PointsFit
  <2>3. PICK j \in jobs : j.doc = p.doc /\ j.version = p.version /\ j.base = p.base
    BY <2>1 DEF IInv, LibraryInv, FromJobs
  <2>4. doc[p.doc].base = p.base \/ <<p.doc, p.version>> \in moved
    BY <2>2, <2>3 DEF IInv, LibraryInv, JobsFit
  <2> QED BY <2>2, <2>4 DEF Last
<1>2. QED
  BY <1>1, Invariance, PTL

(* No step leaves a binding without its knowledge base, but that of a       *)
(* request which had seen the knowledge base before it was deleted.         *)
THEOREM BindingsGoWithTheirBase == Spec => BindingsResolve
<1>1. ASSUME IInv, [Next]_vars, NEW l \in links', row'[l[2]] = None, ~(l \in links /\ row[l[2]] = None)
      PROVE  \E c \in Clients : req[c] = [op |-> "bind", bot |-> l[1], base |-> l[2]] /\ req'[c] = Idle
  <2> USE KnowledgeBasesAssumption
  <2>0. /\ links \subseteq Bots \X Bases /\ row \in [Owners -> Rows \cup {None}]
        /\ req \in [Clients -> Requests]
    BY <1>1 DEF IInv, TypeOK
  <2>1. CASE l \in links
    <3>1. row[l[2]] # None /\ l[2] \in Bases /\ l[2] \in Owners /\ l[2] \notin Bots
      BY <1>1, <2>0, <2>1 DEF Owners
    <3>2. PICK c \in Clients : (\E b \in Bots : DeleteBot(c, b)) \/ (\E k \in Bases : DeleteBase(c, k))
      <4>1. row' # row
        BY <1>1, <3>1
      <4>2. ASSUME NEW c \in Clients, NEW o \in Owners, NEW name \in Names, NEW note \in Notes,
                   Create(c, o, name, note)
            PROVE  row'[l[2]] # None
        <5>1. [name |-> name, note |-> note] # None
          BY NoneIsNoRow DEF Rows
        <5> QED BY <2>0, <3>1, <4>2, <5>1 DEF Create
      <4>3. ASSUME NEW c \in Clients, UpdateWrites(c) PROVE row'[l[2]] # None
        <5>1. Merged(req[c]) # None
          BY <1>1, <4>3, MergedRow, NoneIsNoRow DEF UpdateWrites, IInv
        <5> QED BY <2>0, <3>1, <4>3, <5>1 DEF UpdateWrites
      <4>4. ASSUME NEW c \in Clients,
                   \/ \E o \in Owners, asked \in Asked : UpdateReads(c, o, asked)
                   \/ \E b \in Bots, k \in Bases : Bind(c, b, k) \/ Unbind(c, b, k)
                   \/ \E d \in Docs, k \in Bases : Upload(c, d, k)
                   \/ \E d \in Docs, k \in Places : Move(c, d, k)
                   \/ \E d \in Docs : Reindex(c, d) \/ DeleteDocument(c, d)
                   \/ \E d \in Docs, v \in Numbers : Rollback(c, d, v)
                   \/ BindWrites(c) \/ UploadWrites(c) \/ MoveWrites(c) \/ ReindexWrites(c)
                   \/ DeletePoints(c) \/ Lost(c)
            PROVE  row' = row
        BY <4>4 DEF UpdateReads, Bind, Unbind, Upload, Move, Reindex, DeleteDocument, Rollback, BindWrites, UploadWrites,
                    MoveWrites, ReindexWrites, DeletePoints, Lost, directory
      <4>5. ASSUME NEW w \in Workers, RunsOn(w) PROVE row' = row
        BY <4>5 DEF RunsOn, RunBegins, Upsert, MarkReady, RunFails, CleansUp, CleanUpFails, outside, directory
      <4>6. CASE UNCHANGED vars
        BY <4>1, <4>6 DEF vars
      <4> QED BY <1>1, <4>1, <4>2, <4>3, <4>4, <4>5, <4>6 DEF Next, Handle, Finish
    <3>3. ASSUME NEW b \in Bots, DeleteBot(c, b) PROVE FALSE
      BY <1>1, <2>0, <3>1, <3>3 DEF DeleteBot, Owners
    <3>4. ASSUME NEW k \in Bases, DeleteBase(c, k) PROVE FALSE
      <4>1. k = l[2]
        BY <1>1, <2>0, <3>1, <3>4 DEF DeleteBase, Owners
      <4> QED BY <1>1, <3>4, <4>1 DEF DeleteBase
    <3> QED BY <3>2, <3>3, <3>4
  <2>2. CASE l \notin links
    <3>1. PICK c \in Clients : BindWrites(c)
      <4>1. ASSUME NEW c \in Clients, Handle(c) PROVE links' \subseteq links
        BY <4>1 DEF Handle, Create, UpdateReads, DeleteBot, DeleteBase, Bind, Unbind, Upload, Move, Reindex,
                    DeleteDocument, Rollback, directory
      <4>2. ASSUME NEW c \in Clients, Finish(c), ~BindWrites(c) PROVE links' \subseteq links
        BY <4>2 DEF Finish, UpdateWrites, UploadWrites, MoveWrites, ReindexWrites, DeletePoints, Lost, directory
      <4>3. ASSUME NEW w \in Workers, RunsOn(w) PROVE links' \subseteq links
        BY <4>3 DEF RunsOn, RunBegins, Upsert, MarkReady, RunFails, CleansUp, CleanUpFails, outside, directory
      <4>4. CASE UNCHANGED vars
        BY <1>1, <2>2, <4>4 DEF vars
      <4> QED BY <1>1, <2>2, <4>1, <4>2, <4>3, <4>4 DEF Next
    <3>2. l = <<req[c].bot, req[c].base>> /\ req'[c] = Idle
      BY <1>1, <2>0, <2>2, <3>1 DEF BindWrites, End
    <3>3. req[c] = [op |-> "bind", bot |-> req[c].bot, base |-> req[c].base]
      BY <1>1, <3>1, Kinds DEF BindWrites, IInv
    <3> QED BY <3>2, <3>3
  <2> QED BY <2>1, <2>2
<1>2. IInv /\ [Next]_vars =>
        [\A l \in links' :
           (row'[l[2]] = None /\ ~(l \in links /\ row[l[2]] = None))
             => \E c \in Clients : req[c] = [op |-> "bind", bot |-> l[1], base |-> l[2]]
                                     /\ req'[c] = Idle]_vars
  BY <1>1
<1>3. QED
  BY <1>2, Invariance, PTL DEF Spec, BindingsResolve

(* A row is changed by the update of a request that asked for the change or *)
(* had read an older row, by nobody else, and it never comes back.          *)
THEOREM UnsentFieldsStay == Spec => UnsentFieldsKept
<1>1. ASSUME IInv, [Next]_vars, NEW o \in Owners
      PROVE  /\ o \in used /\ row[o] = None => row'[o] = None
             /\ There(o) /\ row'[o] # None =>
                  \A f \in {"name", "note"} :
                    row'[o][f] # row[o][f] =>
                      \E c \in Clients : /\ req[c].op = "update" /\ req[c].owner = o
                                         /\ \/ req[c].asked[f] = row'[o][f]
                                            \/ req[c].read # row[o]
  <2>0. row \in [Owners -> Rows \cup {None}] /\ (There(o) => o \in used)
    BY <1>1 DEF IInv, TypeOK, LibraryInv, IdsUsed
  <2>1. CASE row'[o] = row[o]
    BY <2>1
  <2>2. ASSUME NEW c \in Clients, NEW p \in Owners, NEW name \in Names, NEW note \in Notes,
               Create(c, p, name, note), row'[o] # row[o]
        PROVE  o \notin used /\ ~There(o)
    BY <2>0, <2>2 DEF Create
  <2>3. ASSUME NEW c \in Clients, DeleteBot(c, o) \/ DeleteBase(c, o) PROVE row'[o] = None
    BY <2>0, <2>3 DEF DeleteBot, DeleteBase
  <2>4. ASSUME NEW c \in Clients, UpdateWrites(c), row'[o] # row[o]
        PROVE  /\ req[c].op = "update" /\ req[c].owner = o /\ There(o)
               /\ \A f \in {"name", "note"} :
                    row'[o][f] # row[o][f] => req[c].asked[f] = row'[o][f] \/ req[c].read # row[o]
    <3>1. req[c].op = "update" /\ req[c].owner = o /\ There(o) /\ row'[o] = Merged(req[c])
      BY <2>0, <2>4 DEF UpdateWrites
    <3>2. \A f \in {"name", "note"} :
            row'[o][f] = IF req[c].asked[f] = None THEN req[c].read[f] ELSE req[c].asked[f]
      BY <1>1, <3>1, MergedRow DEF IInv
    <3> QED BY <3>1, <3>2
  <2>5. ASSUME row'[o] # row[o]
        PROVE  \/ \E c \in Clients, p \in Owners, name \in Names, note \in Notes : Create(c, p, name, note)
               \/ \E c \in Clients : DeleteBot(c, o) \/ DeleteBase(c, o) \/ UpdateWrites(c)
    <3>1. ASSUME NEW c \in Clients,
                 \/ \E x \in Owners, asked \in Asked : UpdateReads(c, x, asked)
                 \/ \E b \in Bots, k \in Bases : Bind(c, b, k) \/ Unbind(c, b, k)
                 \/ \E d \in Docs, k \in Bases : Upload(c, d, k)
                 \/ \E d \in Docs, k \in Places : Move(c, d, k)
                 \/ \E d \in Docs : Reindex(c, d) \/ DeleteDocument(c, d)
                 \/ \E d \in Docs, v \in Numbers : Rollback(c, d, v)
                 \/ BindWrites(c) \/ UploadWrites(c) \/ MoveWrites(c) \/ ReindexWrites(c)
                 \/ DeletePoints(c) \/ Lost(c)
          PROVE  row' = row
      BY <3>1 DEF UpdateReads, Bind, Unbind, Upload, Move, Reindex, DeleteDocument, Rollback, BindWrites, UploadWrites,
                  MoveWrites, ReindexWrites, DeletePoints, Lost, directory
    <3>2. ASSUME NEW w \in Workers, RunsOn(w) PROVE row' = row
      BY <3>2 DEF RunsOn, RunBegins, Upsert, MarkReady, RunFails, CleansUp, CleanUpFails, outside, directory
    <3>3. ASSUME NEW c \in Clients, NEW x, DeleteBot(c, x) \/ DeleteBase(c, x) PROVE x = o
      BY <2>0, <2>5, <3>3 DEF DeleteBot, DeleteBase
    <3>4. ~UNCHANGED vars
      BY <2>5 DEF vars
    <3> QED BY <1>1, <2>5, <3>1, <3>2, <3>3, <3>4 DEF Next, Handle, Finish
  <2> QED BY <2>0, <2>1, <2>2, <2>3, <2>4, <2>5 DEF There
<1>2. IInv /\ [Next]_vars =>
        [\A o \in Owners :
           /\ o \in used /\ row[o] = None => row'[o] = None
           /\ There(o) /\ row'[o] # None =>
                \A f \in {"name", "note"} :
                  row'[o][f] # row[o][f] =>
                    \E c \in Clients : /\ req[c].op = "update" /\ req[c].owner = o
                                       /\ \/ req[c].asked[f] = row'[o][f]
                                          \/ req[c].read # row[o]]_vars
  BY <1>1
<1>3. QED
  BY <1>2, Invariance, PTL DEF Spec, UnsentFieldsKept
=============================================================================
