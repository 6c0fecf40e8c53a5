------------------------------ MODULE WorkStore ------------------------------
(***************************************************************************)
(* The backend's catalogue of works: the tables of db/init/001_schema.sql  *)
(* and the handlers that change them, run by concurrent HTTP requests.     *)
(*                                                                         *)
(* A handler validates with queries of their own and only then opens its   *)
(* transaction, so anything may happen to what it validated in between.    *)
(* The transaction is one step: it reads nothing it writes, its first      *)
(* statement locks the row all others hang on, and foreign keys are        *)
(* checked against committed rows, so its effect is that of a single       *)
(* moment.  The other columns of a work (title, dates) are written and     *)
(* read together with the thumbnail, which stands for them; the links are  *)
(* replaced in the same transaction and are left out.                      *)
(***************************************************************************)
EXTENDS Functions, Sequences, Naturals

CONSTANTS
    Works,       \* ids gen_random_uuid() may hand out to works
    Images,      \* ids of uploaded images
    Stacks,      \* ids of tech stacks
    ImageLists,  \* bound: the work_image_ids a request may carry
    Requests,    \* request goroutines of administrators
    Readers,     \* request goroutines that list the works
    Null         \* SQL NULL

ASSUME StoreAssumption ==
    /\ ImageLists \subseteq Seq(Images)
    /\ Null \notin Images

VARIABLES
    images, removedImages,  \* rows of common_images; ids deleted from it
    stacks,                 \* rows of common_tech_stacks
    works, removedWorks,    \* rows of isirmt_works; ids deleted from it
    thumb,                  \* column thumbnail_image_id
    workImages,             \* rows of isirmt_work_images
    workStacks,             \* rows of isirmt_work_tech_stacks
    pc,                     \* where each administrator's request is
    req,                    \* what it asks for
    reply,                  \* the last answer of that goroutine
    accepted,               \* history: what was last saved of a work
    readPc, listed, readStacks, readImages   \* a listing under way

imageVars == <<images, removedImages>>
workVars == <<works, removedWorks, thumb, workImages, workStacks, accepted>>
requestVars == <<pc, req, reply>>
readVars == <<readPc, listed, readStacks, readImages>>
vars == <<imageVars, stacks, workVars, requestVars, readVars>>

-----------------------------------------------------------------------------
(* Rows and requests *)

WorkImage == [work: Works, image: Images, order: Nat]
WorkTechStack == [work: Works, stack: Stacks]

\* createWorkRequest, blank ids dropped and tech stacks without repetition.
Body == [thumb: Images, list: ImageLists, stacks: SUBSET Stacks]

NoBody == [thumb |-> Null, list |-> << >>, stacks |-> {}]

Request ==
    [op: {"create"}, body: Body]
    \union [op: {"update"}, work: Works, body: Body]
    \union [op: {"deleteWork"}, work: Works]
    \union [op: {"deleteImage"}, image: Images]

NoRequest == [op |-> "none"]

\* createWorkRelations: one row per position, numbered from 0.
ImageRows(w, list) ==
    {[work |-> w, image |-> list[k], order |-> k - 1] : k \in DOMAIN list}

StackRows(w, S) == {[work |-> w, stack |-> s] : s \in S}

RowsOf(rows, w) == {row \in rows : row.work = w}

ImagesOf(body) == {body.thumb} \union Range(body.list)

\* REFERENCES of the schema: no transaction commits that would break one.
ForeignKeys ==
    /\ \A w \in works : thumb[w] \in images \union {Null}
    /\ \A row \in workImages : row.work \in works /\ row.image \in images
    /\ \A row \in workStacks : row.work \in works /\ row.stack \in stacks

\* What the query for the works returns of each: the columns of its row.
WorkRow == [work: Works, thumb: Images \union {Null}]

TypeOK ==
    /\ images \subseteq Images /\ removedImages \subseteq Images \ images
    /\ stacks \subseteq Stacks
    /\ works \subseteq Works /\ removedWorks \subseteq Works \ works
    /\ thumb \in [Works -> Images \union {Null}]
    /\ workImages \subseteq WorkImage
    /\ workStacks \subseteq WorkTechStack
    /\ pc \in [Requests -> {"idle", "exists", "images", "stacks", "commit"}]
    /\ req \in [Requests -> Request \union {NoRequest}]
    /\ \A q \in Requests :
          /\ pc[q] = "idle" <=> req[q] = NoRequest
          /\ pc[q] \in {"images", "stacks"} => req[q].op \in {"create", "update"}
          /\ pc[q] = "exists" => req[q].op # "create"
    /\ reply \in [Requests -> {"none", "done", "badRequest", "notFound", "failed"}]
    /\ accepted \in [Works -> Body \union {NoBody}]
    /\ readPc \in [Readers -> {"idle", "stacks", "images", "done"}]
    /\ listed \in [Readers -> SUBSET WorkRow]
    /\ readStacks \in [Readers -> SUBSET WorkTechStack]
    /\ readImages \in [Readers -> SUBSET WorkImage]

Init ==
    /\ images = {} /\ removedImages = {}
    /\ stacks = {}
    /\ works = {} /\ removedWorks = {}
    /\ thumb = [w \in Works |-> Null]
    /\ workImages = {} /\ workStacks = {}
    /\ pc = [q \in Requests |-> "idle"]
    /\ req = [q \in Requests |-> NoRequest]
    /\ reply = [q \in Requests |-> "none"]
    /\ accepted = [w \in Works |-> NoBody]
    /\ readPc = [r \in Readers |-> "idle"]
    /\ listed = [r \in Readers |-> {}]
    /\ readStacks = [r \in Readers |-> {}]
    /\ readImages = [r \in Readers |-> {}]

-----------------------------------------------------------------------------
(* Images and tech stacks appear one row at a time *)

\* handleUploadImage's INSERT (ImageStore models the whole upload).
InsertImage(i) ==
    /\ i \notin images \union removedImages
    /\ images' = images \union {i}
    /\ UNCHANGED <<removedImages, stacks, workVars, requestVars, readVars>>

\* handleCreateTechStack; the code never changes or deletes one.
CreateTechStack(s) ==
    /\ s \notin stacks
    /\ stacks' = stacks \union {s}
    /\ UNCHANGED <<imageVars, workVars, requestVars, readVars>>

-----------------------------------------------------------------------------
(* The steps of handleCreateWork, handleUpdateWork, handleDeleteWork and   *)
(* handleDeleteImage before their transaction                              *)

Tables == <<imageVars, stacks, workVars>>

Answer(q, answer) ==
    /\ pc' = [pc EXCEPT ![q] = "idle"]
    /\ req' = [req EXCEPT ![q] = NoRequest]
    /\ reply' = [reply EXCEPT ![q] = answer]

Goto(q, label) ==
    /\ pc' = [pc EXCEPT ![q] = label]
    /\ UNCHANGED <<req, reply>>

\* A request arrives that binds and has a title, a comment, a colour, a date
\* and a thumbnail (the others are answered before the first query).  All but
\* handleCreateWork first look up the row they work on.
Arrive(q, request) ==
    /\ pc[q] = "idle"
    /\ pc' = [pc EXCEPT ![q] = IF request.op = "create" THEN "images" ELSE "exists"]
    /\ req' = [req EXCEPT ![q] = request]
    /\ reply' = [reply EXCEPT ![q] = "none"]
    /\ UNCHANGED <<Tables, readVars>>

Exists(request) ==
    \/ request.op = "deleteImage" /\ request.image \in images
    \/ request.op \in {"update", "deleteWork"} /\ request.work \in works

CheckExists(q) ==
    /\ pc[q] = "exists"
    /\ \/ Exists(req[q]) /\ Goto(q, IF req[q].op = "update" THEN "images" ELSE "commit")
       \/ ~Exists(req[q]) /\ Answer(q, "notFound")
    /\ UNCHANGED <<Tables, readVars>>

\* The number of rows found is compared with the number of distinct ids.
CheckImages(q) ==
    /\ pc[q] = "images"
    /\ \/ ImagesOf(req[q].body) \subseteq images /\ Goto(q, "stacks")
       \/ ~(ImagesOf(req[q].body) \subseteq images) /\ Answer(q, "badRequest")
    /\ UNCHANGED <<Tables, readVars>>

\* Mutant: len(techStackIDs) == 0 is let through.
CheckStacksAllowingNone(q) ==
    /\ pc[q] = "stacks"
    /\ \/ req[q].body.stacks \subseteq stacks /\ Goto(q, "commit")
       \/ Answer(q, "badRequest")
    /\ UNCHANGED <<Tables, readVars>>

\* Refused as well, and only now, is a link with just one of label and URL; a
\* body does not tell whether it has one.
CheckStacks(q) ==
    /\ pc[q] = "stacks"
    /\ \/ /\ req[q].body.stacks # {} /\ req[q].body.stacks \subseteq stacks
          /\ Goto(q, "commit")
       \/ Answer(q, "badRequest")
    /\ UNCHANGED <<Tables, readVars>>

-----------------------------------------------------------------------------
(* Their transactions *)

\* Mutant: with no image in the body the old image rows are not deleted.
ReplaceKeepingImages(w, body) ==
    /\ workImages' = IF body.list = << >> THEN workImages
                     ELSE (workImages \ RowsOf(workImages, w)) \union ImageRows(w, body.list)
    /\ workStacks' = (workStacks \ RowsOf(workStacks, w)) \union StackRows(w, body.stacks)

\* The relations of w become those of the body, whether or not w has a row.
ReplaceRelations(w, body) ==
    /\ workImages' = (workImages \ RowsOf(workImages, w)) \union ImageRows(w, body.list)
    /\ workStacks' = (workStacks \ RowsOf(workStacks, w)) \union StackRows(w, body.stacks)

\* The row of w is written.
WriteRow(w, body) ==
    /\ thumb' = [thumb EXCEPT ![w] = body.thumb]
    /\ accepted' = [accepted EXCEPT ![w] = body]

CommitCreate(q) ==
    /\ pc[q] = "commit" /\ req[q].op = "create"
    /\ \E w \in Works \ (works \union removedWorks) :
         /\ works' = works \union {w}
         /\ WriteRow(w, req[q].body)
         /\ ReplaceRelations(w, req[q].body)
    /\ Answer(q, "done")
    /\ UNCHANGED <<imageVars, stacks, removedWorks, readVars>>
    /\ ForeignKeys'

\* UPDATE ... WHERE id = w, which is no error where there is no such row.
UpdateRow(w, body) ==
    \/ w \in works /\ WriteRow(w, body)
    \/ w \notin works /\ UNCHANGED <<thumb, accepted>>

\* Mutant: without the transaction, the old relations go in a step of their own.
UpdateInTwoSteps(q) ==
    /\ pc[q] = "commit" /\ req[q].op = "update"
    /\ \/ /\ RowsOf(workStacks, req[q].work) # {}
          /\ workImages' = workImages \ RowsOf(workImages, req[q].work)
          /\ workStacks' = workStacks \ RowsOf(workStacks, req[q].work)
          /\ UNCHANGED <<thumb, accepted, requestVars>>
       \/ /\ RowsOf(workStacks, req[q].work) = {}
          /\ UpdateRow(req[q].work, req[q].body)
          /\ ReplaceRelations(req[q].work, req[q].body)
          /\ Answer(q, "done")
    /\ UNCHANGED <<imageVars, stacks, works, removedWorks, readVars>>
    /\ ForeignKeys'

\* The work may have been deleted since the checks; what then fails, if
\* anything does, is the insert of rows that refer to it.
CommitUpdate(q) ==
    /\ pc[q] = "commit" /\ req[q].op = "update"
    /\ UpdateRow(req[q].work, req[q].body)
    /\ ReplaceRelations(req[q].work, req[q].body)
    /\ Answer(q, "done")
    /\ UNCHANGED <<imageVars, stacks, works, removedWorks, readVars>>
    /\ ForeignKeys'

\* ON DELETE CASCADE; deleting no row (another request was first) is no error.
CommitDeleteWork(q) ==
    /\ pc[q] = "commit" /\ req[q].op = "deleteWork"
    /\ LET w == req[q].work IN
         /\ works' = works \ {w}
         /\ removedWorks' = removedWorks \union {w}
         /\ thumb' = [thumb EXCEPT ![w] = Null]
         /\ workImages' = workImages \ RowsOf(workImages, w)
         /\ workStacks' = workStacks \ RowsOf(workStacks, w)
         /\ accepted' = [accepted EXCEPT ![w] = NoBody]
    /\ Answer(q, "done")
    /\ UNCHANGED <<imageVars, stacks, readVars>>

\* ON DELETE SET NULL for thumbnails, CASCADE for the image rows: the numbers
\* of the rows that stay are left as they are, gaps included.
CommitDeleteImage(q) ==
    /\ pc[q] = "commit" /\ req[q].op = "deleteImage"
    /\ LET i == req[q].image IN
         /\ images' = images \ {i}
         /\ removedImages' = removedImages \union {i}
         /\ thumb' = [w \in Works |-> IF thumb[w] = i THEN Null ELSE thumb[w]]
         /\ workImages' = {row \in workImages : row.image # i}
    /\ Answer(q, "done")
    /\ UNCHANGED <<stacks, works, removedWorks, workStacks, accepted, readVars>>

\* A query of the checks that fails; in the transaction a foreign key broken by
\* what happened since them, a deadlock victim, a lost connection: rolled back,
\* and answered with 500.
DatabaseFails(q) ==
    /\ pc[q] # "idle"
    /\ Answer(q, "failed")
    /\ UNCHANGED <<Tables, readVars>>

-----------------------------------------------------------------------------
(* handleGetWorks: withWorkRelations reads the works, then preloads each   *)
(* relation with a query of its own and no transaction around them         *)

ListedWorks(r) == {row.work : row \in listed[r]}

\* The rows are read now and answered as they are, whatever the relations read
\* later say: an edit in between shows in part.
ListWorks(r) ==
    /\ readPc[r] = "idle"
    /\ readPc' = [readPc EXCEPT ![r] = "stacks"]
    /\ listed' = [listed EXCEPT ![r] = {[work |-> w, thumb |-> thumb[w]] : w \in works}]
    /\ UNCHANGED <<readStacks, readImages, Tables, requestVars>>

PreloadStacks(r) ==
    /\ readPc[r] = "stacks"
    /\ readPc' = [readPc EXCEPT ![r] = "images"]
    /\ readStacks' = [readStacks EXCEPT ![r] = {s \in workStacks : s.work \in ListedWorks(r)}]
    /\ UNCHANGED <<listed, readImages, Tables, requestVars>>

PreloadImages(r) ==
    /\ readPc[r] = "images"
    /\ readPc' = [readPc EXCEPT ![r] = "done"]
    /\ readImages' = [readImages EXCEPT ![r] = {i \in workImages : i.work \in ListedWorks(r)}]
    /\ UNCHANGED <<listed, readStacks, Tables, requestVars>>

RespondWorks(r) ==
    /\ readPc[r] = "done"
    /\ readPc' = [readPc EXCEPT ![r] = "idle"]
    /\ listed' = [listed EXCEPT ![r] = {}]
    /\ readStacks' = [readStacks EXCEPT ![r] = {}]
    /\ readImages' = [readImages EXCEPT ![r] = {}]
    /\ UNCHANGED <<Tables, requestVars>>

-----------------------------------------------------------------------------
Check(q) == CheckExists(q) \/ CheckImages(q) \/ CheckStacks(q)

Commit(q) ==
    \/ CommitCreate(q) \/ CommitUpdate(q)
    \/ CommitDeleteWork(q) \/ CommitDeleteImage(q)
    \/ DatabaseFails(q)

Read(r) == ListWorks(r) \/ PreloadStacks(r) \/ PreloadImages(r) \/ RespondWorks(r)

Next ==
    \/ \E i \in Images : InsertImage(i)
    \/ \E s \in Stacks : CreateTechStack(s)
    \/ \E q \in Requests : Check(q) \/ Commit(q) \/ \E request \in Request : Arrive(q, request)
    \/ \E r \in Readers : Read(r)

Spec == Init /\ [][Next]_vars

-----------------------------------------------------------------------------
(* Properties *)

\* The tables hold, for every work, exactly what the last successful request
\* asked for, less the images deleted since: no row of an earlier edit, of a
\* request that failed half way, or of a deleted work is left in any table.
RowsMatchAccepted ==
    /\ \A row \in workImages : row.work \in works
    /\ \A row \in workStacks : row.work \in works
    /\ \A w \in works :
         /\ RowsOf(workImages, w) =
              {row \in ImageRows(w, accepted[w].list) : row.image \in images}
         /\ RowsOf(workStacks, w) = StackRows(w, accepted[w].stacks)
         /\ thumb[w] = IF accepted[w].thumb \in images THEN accepted[w].thumb ELSE Null

\* A work always has a tech stack: the handlers require one and nothing takes
\* one away, however edits and deletions interleave.
EveryWorkHasStack == \A w \in works : \E row \in workStacks : row.work = w

\* "ok" to an edit means that it was saved: the work is there and its tables
\* hold the body.  The check that the work exists is apart from the transaction
\* and an UPDATE of no row is no error, so all that stands between a deletion in
\* the gap and a false "ok" is that a body without a tech stack was refused:
\* with one, there is a row to insert whose foreign key fails.
UpdateOkMeansSaved ==
    [][\A q \in Requests :
         pc[q] = "commit" /\ req[q].op = "update" /\ reply'[q] = "done" =>
            /\ req[q].work \in works'
            /\ thumb'[req[q].work] = req[q].body.thumb
            /\ RowsOf(workImages', req[q].work) = ImageRows(req[q].work, req[q].body.list)
            /\ RowsOf(workStacks', req[q].work) = StackRows(req[q].work, req[q].body.stacks)]_vars

\* A listing is read piecemeal while works are edited, yet a work it lists
\* without any tech stack is one that was deleted under it.
ListedWithoutStackIsGone ==
    \A r \in Readers : readPc[r] \in {"images", "done"} =>
        \A w \in ListedWorks(r) : RowsOf(readStacks[r], w) = {} => w \in removedWorks
=============================================================================
