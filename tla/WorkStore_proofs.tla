-------------------------- MODULE WorkStore_proofs --------------------------
(***************************************************************************)
(* Proofs about WorkStore for any number of works, images, requests and    *)
(* readers, and any image lists.  The tables are shown to hold what was    *)
(* last accepted by following one transaction at a time; what the requests *)
(* validated matters at one point only: a body that reaches its            *)
(* transaction names a tech stack.  Its row is then what ties an edit to a *)
(* work that is still there, by the foreign keys of the schema.            *)
(***************************************************************************)
EXTENDS WorkStoreRefinement, FiniteSetTheorems, TLAPS

\* What was accepted of a work is a body with a tech stack, whose images
\* exist or existed.
AcceptedIsBody ==
    \A w \in works :
        /\ accepted[w] \in Body /\ accepted[w].stacks # {}
        /\ ImagesOf(accepted[w]) \subseteq images \union removedImages

\* A request that is not answered yet has no answer, and a body that reaches
\* the transaction has passed CheckStacks.
InFlight ==
    \A q \in Requests :
        /\ pc[q] # "idle" => reply[q] = "none"
        /\ pc[q] = "commit" /\ req[q].op \in {"create", "update"} => req[q].body.stacks # {}

\* A listing names works that exist or existed.
ListedExisted == \A r \in Readers : ListedWorks(r) \subseteq works \union removedWorks

\* A body is written where it belongs: the row of w and its relations.
Store(w, body) == WriteRow(w, body) /\ ReplaceRelations(w, body)

\* What a body names is there.
ReferencesHold(body) == ImagesOf(body) \subseteq images /\ body.stacks \subseteq stacks

IInv ==
    /\ TypeOK
    /\ RowsMatchAccepted
    /\ AcceptedIsBody
    /\ InFlight
    /\ ListedExisted
    /\ ListedWithoutStackIsGone

-----------------------------------------------------------------------------
(* The operators *)

\* A request has the fields its operation calls for.
LEMMA RequestType ==
    ASSUME NEW request \in Request
    PROVE  /\ request.op \in {"create", "update", "deleteWork", "deleteImage"}
           /\ request.op \in {"create", "update"} => request.body \in Body
           /\ request.op \in {"update", "deleteWork"} => request.work \in Works
           /\ request.op = "deleteImage" => request.image \in Images
BY DEF Request

\* A body's lists are sequences of images, its rows are rows.
LEMMA BodyType ==
    ASSUME NEW body \in Body, NEW w \in Works
    PROVE  /\ body.thumb \in Images /\ body.list \in Seq(Images)
           /\ body.stacks \subseteq Stacks
           /\ ImageRows(w, body.list) \subseteq WorkImage
           /\ StackRows(w, body.stacks) \subseteq WorkTechStack
<1>1. body.thumb \in Images /\ body.list \in Seq(Images) /\ body.stacks \subseteq Stacks
  BY StoreAssumption DEF Body
<1>2. \A k \in DOMAIN body.list : body.list[k] \in Images /\ k - 1 \in Nat
  BY <1>1
<1>3. ImageRows(w, body.list) \subseteq WorkImage
  BY <1>2 DEF ImageRows, WorkImage
<1>4. StackRows(w, body.stacks) \subseteq WorkTechStack
  BY <1>1 DEF StackRows, WorkTechStack
<1> QED
  BY <1>1, <1>3, <1>4

\* The rows made for a work are its rows.
LEMMA NewRows ==
    ASSUME NEW w, NEW list, NEW S
    PROVE  /\ \A row \in ImageRows(w, list) : row.work = w
           /\ \A row \in StackRows(w, S) : row.work = w
BY DEF ImageRows, StackRows

\* Storing a body whose references hold leaves the tables as it says.
LEMMA StoreRows ==
    ASSUME NEW w \in Works, NEW body \in Body, TypeOK,
           Store(w, body), ReferencesHold(body)
    PROVE  /\ RowsOf(workImages', w) = ImageRows(w, body.list)
           /\ RowsOf(workImages', w) =
                {row \in ImageRows(w, body.list) : row.image \in images}
           /\ RowsOf(workStacks', w) = StackRows(w, body.stacks)
           /\ thumb'[w] = body.thumb /\ body.thumb \in images
           /\ accepted'[w] = body
           /\ \A v \in Works \ {w} :
                /\ RowsOf(workImages', v) = RowsOf(workImages, v)
                /\ RowsOf(workStacks', v) = RowsOf(workStacks, v)
                /\ thumb'[v] = thumb[v] /\ accepted'[v] = accepted[v]
<1>1. /\ RowsOf(workImages', w) = ImageRows(w, body.list)
      /\ \A v : v # w => RowsOf(workImages', v) = RowsOf(workImages, v)
  <2>1. workImages' = (workImages \ RowsOf(workImages, w)) \union ImageRows(w, body.list)
    BY DEF Store, ReplaceRelations
  <2>2. \A row \in ImageRows(w, body.list) : row.work = w
    BY NewRows
  <2>3. RowsOf(workImages', w) = ImageRows(w, body.list)
    BY <2>1, <2>2 DEF RowsOf
  <2>4. ASSUME NEW v, v # w PROVE RowsOf(workImages', v) = RowsOf(workImages, v)
    BY <2>1, <2>2, <2>4 DEF RowsOf
  <2> QED
    BY <2>3, <2>4
<1>5. /\ RowsOf(workStacks', w) = StackRows(w, body.stacks)
      /\ \A v : v # w => RowsOf(workStacks', v) = RowsOf(workStacks, v)
  <2>1. workStacks' = (workStacks \ RowsOf(workStacks, w)) \union StackRows(w, body.stacks)
    BY DEF Store, ReplaceRelations
  <2>2. \A row \in StackRows(w, body.stacks) : row.work = w
    BY NewRows
  <2>3. RowsOf(workStacks', w) = StackRows(w, body.stacks)
    BY <2>1, <2>2 DEF RowsOf
  <2>4. ASSUME NEW v, v # w PROVE RowsOf(workStacks', v) = RowsOf(workStacks, v)
    BY <2>1, <2>2, <2>4 DEF RowsOf
  <2> QED
    BY <2>3, <2>4
<1>2. \A row \in ImageRows(w, body.list) : row.image \in images
  BY DEF ImageRows, ReferencesHold, ImagesOf, Range
<1>3. body.thumb \in images
  BY DEF ReferencesHold, ImagesOf
<1>4. /\ thumb'[w] = body.thumb /\ accepted'[w] = body
      /\ \A v \in Works \ {w} : thumb'[v] = thumb[v] /\ accepted'[v] = accepted[v]
  BY DEF Store, WriteRow, TypeOK
<1> QED
  BY <1>1, <1>2, <1>3, <1>4, <1>5

\* A body stored in a work that exists, with no foreign key broken, names only
\* images and tech stacks that exist.
LEMMA StoredReferences ==
    ASSUME TypeOK, NEW w \in Works, NEW body \in Body, w \in works', Store(w, body),
           ForeignKeys', UNCHANGED <<images, stacks>>
    PROVE  ReferencesHold(body)
<1>1. thumb'[w] = body.thumb /\ body.thumb \in Images
  BY BodyType DEF Store, WriteRow, TypeOK
<1>2. body.thumb \in images
  BY <1>1, StoreAssumption DEF ForeignKeys
<1>3. ImageRows(w, body.list) \subseteq workImages' /\ StackRows(w, body.stacks) \subseteq workStacks'
  BY DEF Store, ReplaceRelations
<1>4. \A k \in DOMAIN body.list : body.list[k] \in images
  <2> TAKE k \in DOMAIN body.list
  <2>1. [work |-> w, image |-> body.list[k], order |-> k - 1] \in workImages'
    BY <1>3 DEF ImageRows
  <2> QED
    BY <2>1 DEF ForeignKeys
<1>5. \A s \in body.stacks : s \in stacks
  <2> TAKE s \in body.stacks
  <2>1. [work |-> w, stack |-> s] \in workStacks'
    BY <1>3 DEF StackRows
  <2> QED
    BY <2>1 DEF ForeignKeys
<1> QED
  BY <1>2, <1>4, <1>5 DEF ReferencesHold, ImagesOf, Range

\* An edit with a tech stack commits only where its work still is: the row of
\* the stack refers to the work.
LEMMA UpdateFindsWork ==
    ASSUME TypeOK, NEW q \in Requests, CommitUpdate(q),
           req[q].body \in Body, req[q].body.stacks # {}, req[q].work \in Works
    PROVE  /\ req[q].work \in works
           /\ Store(req[q].work, req[q].body) /\ ReferencesHold(req[q].body)
<1> DEFINE w == req[q].work  body == req[q].body
<1>1. /\ UpdateRow(w, body) /\ ReplaceRelations(w, body)
      /\ UNCHANGED <<images, stacks, works>> /\ ForeignKeys'
  BY DEF CommitUpdate, imageVars
<1>2. body \in Body /\ body.stacks # {} /\ w \in Works
  OBVIOUS
<1> HIDE DEF w, body
<1>3. w \in works
  <2>1. PICK s : s \in body.stacks
    BY <1>2
  <2>2. [work |-> w, stack |-> s] \in workStacks'
    BY <1>1, <2>1 DEF ReplaceRelations, StackRows
  <2> QED
    BY <1>1, <2>2 DEF ForeignKeys
<1>4. Store(w, body)
  BY <1>1, <1>3 DEF UpdateRow, Store
<1>5. ReferencesHold(body)
  BY <1>1, <1>2, <1>3, <1>4, StoredReferences
<1> QED
  BY <1>3, <1>4, <1>5 DEF w, body

\* A new work is stored with what it refers to.
LEMMA CreateStores ==
    ASSUME TypeOK, NEW q \in Requests, CommitCreate(q), req[q].body \in Body
    PROVE  \E w \in Works \ (works \union removedWorks) :
              /\ works' = works \union {w}
              /\ Store(w, req[q].body) /\ ReferencesHold(req[q].body)
<1>1. PICK w \in Works \ (works \union removedWorks) :
            /\ works' = works \union {w}
            /\ WriteRow(w, req[q].body) /\ ReplaceRelations(w, req[q].body)
  BY DEF CommitCreate
<1>2. Store(w, req[q].body)
  BY <1>1 DEF Store
<1>3. UNCHANGED <<images, stacks>> /\ ForeignKeys'
  BY DEF CommitCreate, imageVars
<1>4. ReferencesHold(req[q].body)
  BY <1>1, <1>2, <1>3, StoredReferences
<1> QED
  BY <1>1, <1>2, <1>4

-----------------------------------------------------------------------------
(* Types *)

\* Answering and going on keep a request's program counter and body in step.
LEMMA RequestStepType ==
    ASSUME TypeOK, NEW q \in Requests,
           \/ \E a \in {"done", "badRequest", "notFound", "failed"} : Answer(q, a)
           \/ Goto(q, "images") /\ req[q].op \in {"create", "update"}
           \/ Goto(q, "stacks") /\ req[q].op \in {"create", "update"}
           \/ Goto(q, "commit") /\ pc[q] # "idle"
    PROVE  /\ pc' \in [Requests -> {"idle", "exists", "images", "stacks", "commit"}]
           /\ req' \in [Requests -> Request \union {NoRequest}]
           /\ \A p \in Requests :
                 /\ pc'[p] = "idle" <=> req'[p] = NoRequest
                 /\ pc'[p] \in {"images", "stacks"} => req'[p].op \in {"create", "update"}
                 /\ pc'[p] = "exists" => req'[p].op # "create"
           /\ reply' \in [Requests -> {"none", "done", "badRequest", "notFound", "failed"}]
<1>1. \A request \in Request : request # NoRequest
  BY RequestType DEF NoRequest
<1>2. CASE \E a \in {"done", "badRequest", "notFound", "failed"} : Answer(q, a)
  BY <1>2 DEF Answer, TypeOK
<1>3. CASE Goto(q, "images") /\ req[q].op \in {"create", "update"}
  BY <1>1, <1>3 DEF Goto, TypeOK, NoRequest
<1>4. CASE Goto(q, "stacks") /\ req[q].op \in {"create", "update"}
  BY <1>1, <1>4 DEF Goto, TypeOK, NoRequest
<1>5. CASE Goto(q, "commit") /\ pc[q] # "idle"
  BY <1>1, <1>5 DEF Goto, TypeOK
<1> QED
  BY <1>2, <1>3, <1>4, <1>5

\* The operation of an unanswered request.
LEMMA UnansweredRequest ==
    ASSUME TypeOK, NEW q \in Requests, pc[q] # "idle"
    PROVE  req[q] \in Request
BY DEF TypeOK

\* Every step preserves the types.
LEMMA TypeStep == TypeOK /\ [Next]_vars => TypeOK'
<1> SUFFICES ASSUME TypeOK, [Next]_vars PROVE TypeOK'
  OBVIOUS
<1> USE DEF imageVars, workVars, requestVars, readVars, Tables
<1>1. ASSUME NEW i \in Images, InsertImage(i) PROVE TypeOK'
  BY <1>1 DEF InsertImage, TypeOK
<1>2. ASSUME NEW s \in Stacks, CreateTechStack(s) PROVE TypeOK'
  BY <1>2 DEF CreateTechStack, TypeOK
<1>3. ASSUME NEW q \in Requests, NEW request \in Request, Arrive(q, request) PROVE TypeOK'
  <2>1. request # NoRequest /\ request.op \in {"create", "update", "deleteWork", "deleteImage"}
    BY RequestType DEF NoRequest
  <2> QED
    BY <1>3, <2>1 DEF Arrive, TypeOK
<1>4. ASSUME NEW q \in Requests, Check(q) PROVE TypeOK'
  <2>1. pc[q] # "idle"
    BY <1>4 DEF Check, CheckExists, CheckImages, CheckStacks
  <2>2. CASE CheckExists(q)
    BY <2>1, <2>2, RequestStepType DEF CheckExists, TypeOK
  <2>3. CASE CheckImages(q)
    BY <2>1, <2>3, RequestStepType DEF CheckImages, TypeOK
  <2>4. CASE CheckStacks(q)
    BY <2>1, <2>4, RequestStepType DEF CheckStacks, TypeOK
  <2> QED
    BY <1>4, <2>2, <2>3, <2>4 DEF Check
<1>5. ASSUME NEW q \in Requests, NEW w \in Works, NEW body \in Body, Store(w, body)
      PROVE  /\ thumb' \in [Works -> Images \union {Null}]
             /\ workImages' \subseteq WorkImage /\ workStacks' \subseteq WorkTechStack
             /\ accepted' \in [Works -> Body \union {NoBody}]
  BY <1>5, BodyType DEF Store, WriteRow, ReplaceRelations, TypeOK
<1>6. ASSUME NEW q \in Requests, Commit(q) PROVE TypeOK'
  <2>1. pc[q] # "idle"
    BY <1>6 DEF Commit, CommitCreate, CommitUpdate, CommitDeleteWork, CommitDeleteImage,
                DatabaseFails
  <2>2. req[q] \in Request
    BY <2>1, UnansweredRequest
  <2>3. CASE CommitCreate(q)
    <3>2. req[q].body \in Body
      BY <2>2, <2>3, RequestType DEF CommitCreate
    <3>1. PICK w \in Works \ (works \union removedWorks) :
                 works' = works \union {w} /\ Store(w, req[q].body)
      BY <2>3, <3>2, CreateStores
    <3>3. /\ thumb' \in [Works -> Images \union {Null}]
          /\ workImages' \subseteq WorkImage /\ workStacks' \subseteq WorkTechStack
          /\ accepted' \in [Works -> Body \union {NoBody}]
      BY <1>5, <3>1, <3>2
    <3>4. works' \subseteq Works /\ removedWorks' \subseteq Works \ works'
      BY <2>3, <3>1 DEF CommitCreate, TypeOK
    <3>5. Answer(q, "done")
      BY <2>3 DEF CommitCreate
    <3> QED
      BY <2>3, <3>3, <3>4, <3>5, RequestStepType DEF CommitCreate, TypeOK
  <2>4. CASE CommitUpdate(q)
    <3>1. req[q].body \in Body /\ req[q].work \in Works
      BY <2>2, <2>4, RequestType DEF CommitUpdate
    <3>2. /\ thumb' \in [Works -> Images \union {Null}]
          /\ workImages' \subseteq WorkImage /\ workStacks' \subseteq WorkTechStack
          /\ accepted' \in [Works -> Body \union {NoBody}]
      <4>1. /\ thumb' \in [Works -> Images \union {Null}]
            /\ accepted' \in [Works -> Body \union {NoBody}]
        BY <2>4, <3>1, BodyType DEF CommitUpdate, UpdateRow, WriteRow, TypeOK
      <4>2. workImages' \subseteq WorkImage /\ workStacks' \subseteq WorkTechStack
        BY <2>4, <3>1, BodyType DEF CommitUpdate, ReplaceRelations, TypeOK
      <4> QED
        BY <4>1, <4>2
    <3>3. Answer(q, "done")
      BY <2>4 DEF CommitUpdate
    <3> QED
      BY <2>4, <3>2, <3>3, RequestStepType DEF CommitUpdate, TypeOK
  <2>5. CASE CommitDeleteWork(q)
    <3>1. req[q].work \in Works
      BY <2>2, <2>5, RequestType DEF CommitDeleteWork
    <3>2. Answer(q, "done")
      BY <2>5 DEF CommitDeleteWork
    <3> QED
      BY <2>5, <3>1, <3>2, RequestStepType DEF CommitDeleteWork, TypeOK
  <2>6. CASE CommitDeleteImage(q)
    <3>1. req[q].image \in Images
      BY <2>2, <2>6, RequestType DEF CommitDeleteImage
    <3>2. Answer(q, "done")
      BY <2>6 DEF CommitDeleteImage
    <3> QED
      BY <2>6, <3>1, <3>2, RequestStepType DEF CommitDeleteImage, TypeOK
  <2>7. CASE DatabaseFails(q)
    BY <2>7, RequestStepType DEF DatabaseFails, TypeOK
  <2> QED
    BY <1>6, <2>3, <2>4, <2>5, <2>6, <2>7 DEF Commit
<1>7. ASSUME NEW r \in Readers, Read(r) PROVE TypeOK'
  <2>1. {[work |-> w, thumb |-> thumb[w]] : w \in works} \subseteq WorkRow
    BY DEF TypeOK, WorkRow
  <2> QED
    BY <1>7, <2>1 DEF Read, ListWorks, PreloadStacks, PreloadImages, RespondWorks, TypeOK
<1>8. CASE UNCHANGED vars
  BY <1>8 DEF vars, TypeOK
<1> QED
  BY <1>1, <1>2, <1>3, <1>4, <1>6, <1>7, <1>8 DEF Next

-----------------------------------------------------------------------------
(* The invariant, action by action *)

\* The empty tables satisfy the invariant.
LEMMA InitIInv == Init => IInv
<1> SUFFICES ASSUME Init PROVE IInv
  OBVIOUS
<1> USE DEF Init
<1>1. TypeOK
  BY DEF TypeOK, NoRequest
<1>2. RowsMatchAccepted /\ AcceptedIsBody /\ InFlight
  BY DEF RowsMatchAccepted, AcceptedIsBody, InFlight
<1>3. ListedExisted /\ ListedWithoutStackIsGone
  BY DEF ListedExisted, ListedWorks, ListedWithoutStackIsGone
<1> QED
  BY <1>1, <1>2, <1>3 DEF IInv

\* A step of a request before its transaction keeps the books on its answer.
LEMMA InFlightStep ==
    ASSUME TypeOK, InFlight, NEW q \in Requests,
           \/ \E a \in {"done", "badRequest", "notFound", "failed"} : Answer(q, a)
           \/ Goto(q, "images") /\ pc[q] # "idle"
           \/ Goto(q, "stacks") /\ pc[q] # "idle"
           \/ /\ Goto(q, "commit") /\ pc[q] # "idle"
              /\ req[q].op \in {"create", "update"} => req[q].body.stacks # {}
    PROVE  InFlight'
<1>1. CASE \E a \in {"done", "badRequest", "notFound", "failed"} : Answer(q, a)
  BY <1>1 DEF Answer, TypeOK, InFlight
<1>2. CASE Goto(q, "images") /\ pc[q] # "idle"
  BY <1>2 DEF Goto, TypeOK, InFlight
<1>3. CASE Goto(q, "stacks") /\ pc[q] # "idle"
  BY <1>3 DEF Goto, TypeOK, InFlight
<1>4. CASE /\ Goto(q, "commit") /\ pc[q] # "idle"
           /\ req[q].op \in {"create", "update"} => req[q].body.stacks # {}
  BY <1>4 DEF Goto, TypeOK, InFlight
<1> QED
  BY <1>1, <1>2, <1>3, <1>4

\* Without a change of the tables or of the listings, all that is left to
\* show is about the requests.
LEMMA RequestOnlyStep ==
    ASSUME IInv, TypeOK', InFlight', UNCHANGED <<Tables, readVars>>
    PROVE  IInv'
<1> USE DEF Tables, imageVars, workVars, readVars
<1>1. RowsMatchAccepted' /\ AcceptedIsBody'
  BY DEF IInv, RowsMatchAccepted, AcceptedIsBody, RowsOf
<1>2. ListedExisted' /\ ListedWithoutStackIsGone'
  BY DEF IInv, ListedExisted, ListedWorks, ListedWithoutStackIsGone, RowsOf
<1> QED
  BY <1>1, <1>2 DEF IInv

\* A new image is none that an accepted body has lost: what an accepted body
\* names has been an image, and ids are not handed out twice.
LEMMA InsertImageStep ==
    ASSUME IInv, TypeOK', NEW i \in Images, InsertImage(i)
    PROVE  IInv'
<1> USE DEF InsertImage, workVars, requestVars, readVars
<1>1. RowsMatchAccepted'
  <2> SUFFICES ASSUME NEW w \in works
               PROVE  /\ RowsOf(workImages, w) =
                           {row \in ImageRows(w, accepted[w].list) : row.image \in images'}
                      /\ thumb[w] = IF accepted[w].thumb \in images'
                                    THEN accepted[w].thumb ELSE Null
    BY DEF IInv, RowsMatchAccepted, RowsOf
  <2>1. i \notin ImagesOf(accepted[w])
    BY DEF IInv, AcceptedIsBody
  <2>2. \A row \in ImageRows(w, accepted[w].list) : row.image # i
    BY <2>1 DEF ImageRows, ImagesOf, Range
  <2>3. accepted[w].thumb # i
    BY <2>1 DEF ImagesOf
  <2> QED
    BY <2>2, <2>3 DEF IInv, RowsMatchAccepted
<1>2. AcceptedIsBody' /\ InFlight'
  BY DEF IInv, AcceptedIsBody, InFlight
<1>3. ListedExisted' /\ ListedWithoutStackIsGone'
  BY DEF IInv, ListedExisted, ListedWorks, ListedWithoutStackIsGone, RowsOf
<1> QED
  BY <1>1, <1>2, <1>3 DEF IInv

\* Storing a body in the row of w makes that row exact and leaves the others.
LEMMA StoreStep ==
    ASSUME IInv, TypeOK', InFlight',
           NEW w \in Works, NEW body \in Body, body.stacks # {},
           works' = works \union {w}, w \notin removedWorks,
           Store(w, body), ReferencesHold(body),
           UNCHANGED <<imageVars, stacks, removedWorks, readVars>>
    PROVE  IInv'
<1> USE DEF imageVars, readVars
<1>1. TypeOK
  BY DEF IInv
<1>2. /\ RowsOf(workImages', w) = {row \in ImageRows(w, body.list) : row.image \in images}
      /\ RowsOf(workStacks', w) = StackRows(w, body.stacks)
      /\ thumb'[w] = body.thumb /\ body.thumb \in images
      /\ accepted'[w] = body
      /\ \A v \in Works \ {w} :
           /\ RowsOf(workImages', v) = RowsOf(workImages, v)
           /\ RowsOf(workStacks', v) = RowsOf(workStacks, v)
           /\ thumb'[v] = thumb[v] /\ accepted'[v] = accepted[v]
  BY <1>1, StoreRows
<1>3. \A row \in workImages' : row.work \in works'
  BY NewRows DEF Store, ReplaceRelations, IInv, RowsMatchAccepted
<1>4. \A row \in workStacks' : row.work \in works'
  BY NewRows DEF Store, ReplaceRelations, IInv, RowsMatchAccepted
<1>5. RowsMatchAccepted'
  <2>1. ASSUME NEW v \in works'
        PROVE  /\ RowsOf(workImages', v) =
                    {row \in ImageRows(v, accepted'[v].list) : row.image \in images}
               /\ RowsOf(workStacks', v) = StackRows(v, accepted'[v].stacks)
               /\ thumb'[v] = IF accepted'[v].thumb \in images THEN accepted'[v].thumb ELSE Null
    <3>1. CASE v = w
      BY <1>2, <3>1
    <3>2. CASE v # w
      <4>1. v \in works /\ v \in Works
        BY <1>1, <3>2 DEF TypeOK
      <4> QED
        BY <1>2, <3>2, <4>1 DEF IInv, RowsMatchAccepted
    <3> QED
      BY <3>1, <3>2
  <2> QED
    BY <1>3, <1>4, <2>1 DEF RowsMatchAccepted, RowsOf
<1>6. AcceptedIsBody'
  <2>1. ASSUME NEW v \in works'
        PROVE  /\ accepted'[v] \in Body /\ accepted'[v].stacks # {}
               /\ ImagesOf(accepted'[v]) \subseteq images \union removedImages
    <3>1. CASE v = w
      BY <1>2, <3>1 DEF ReferencesHold
    <3>2. CASE v # w
      BY <1>1, <1>2, <3>2 DEF TypeOK, IInv, AcceptedIsBody
    <3> QED
      BY <3>1, <3>2
  <2> QED
    BY <2>1 DEF AcceptedIsBody
<1>7. ListedExisted' /\ ListedWithoutStackIsGone'
  BY DEF IInv, ListedExisted, ListedWorks, ListedWithoutStackIsGone, RowsOf
<1> QED
  BY <1>5, <1>6, <1>7 DEF IInv

\* handleDeleteWork: the rows of the work go with it, those of others stay.
LEMMA DeleteWorkStep ==
    ASSUME IInv, TypeOK', InFlight', NEW q \in Requests, CommitDeleteWork(q)
    PROVE  IInv'
<1> DEFINE w == req[q].work
<1>1. /\ works' = works \ {w} /\ removedWorks' = removedWorks \union {w}
      /\ workImages' = workImages \ RowsOf(workImages, w)
      /\ workStacks' = workStacks \ RowsOf(workStacks, w)
      /\ thumb' = [thumb EXCEPT ![w] = Null]
      /\ accepted' = [accepted EXCEPT ![w] = NoBody]
      /\ UNCHANGED <<images, removedImages, readPc, listed, readStacks, readImages>>
  BY DEF CommitDeleteWork, imageVars, readVars
<1> HIDE DEF w
<1>2. \A v \in works' : /\ v \in works /\ v # w
                        /\ thumb'[v] = thumb[v] /\ accepted'[v] = accepted[v]
  BY <1>1 DEF IInv, TypeOK
<1>3. ASSUME NEW v, v # w
      PROVE  RowsOf(workImages', v) = RowsOf(workImages, v)
  BY <1>1, <1>3 DEF RowsOf
<1>4. ASSUME NEW v, v # w
      PROVE  RowsOf(workStacks', v) = RowsOf(workStacks, v)
  BY <1>1, <1>4 DEF RowsOf
<1>5. /\ \A row \in workImages' : row.work \in works'
      /\ \A row \in workStacks' : row.work \in works'
  BY <1>1 DEF IInv, RowsMatchAccepted, RowsOf
<1>6. RowsMatchAccepted'
  <2>1. ASSUME NEW v \in works'
        PROVE  /\ RowsOf(workImages', v) =
                    {row \in ImageRows(v, accepted'[v].list) : row.image \in images}
               /\ RowsOf(workStacks', v) = StackRows(v, accepted'[v].stacks)
               /\ thumb'[v] = IF accepted'[v].thumb \in images THEN accepted'[v].thumb ELSE Null
    BY <1>2, <1>3, <1>4 DEF IInv, RowsMatchAccepted
  <2> QED
    BY <1>1, <1>5, <2>1 DEF RowsMatchAccepted, RowsOf
<1>7. AcceptedIsBody'
  BY <1>1, <1>2 DEF IInv, AcceptedIsBody
<1>8. ListedExisted' /\ ListedWithoutStackIsGone'
  BY <1>1 DEF IInv, ListedExisted, ListedWorks, ListedWithoutStackIsGone, RowsOf
<1> QED
  BY <1>6, <1>7, <1>8 DEF IInv

\* Deleting an image takes away just the rows and thumbnails that named it.
LEMMA DeleteImageStep ==
    ASSUME IInv, TypeOK', InFlight', NEW q \in Requests, CommitDeleteImage(q)
    PROVE  IInv'
<1> DEFINE i == req[q].image
<1>1. /\ images' = images \ {i} /\ removedImages' = removedImages \union {i}
      /\ thumb' = [w \in Works |-> IF thumb[w] = i THEN Null ELSE thumb[w]]
      /\ workImages' = {row \in workImages : row.image # i}
      /\ UNCHANGED <<works, removedWorks, workStacks, accepted,
                     readPc, listed, readStacks, readImages>>
  BY DEF CommitDeleteImage, readVars
<1> HIDE DEF i
<1>2. RowsMatchAccepted'
  <2> SUFFICES ASSUME NEW w \in works
               PROVE  /\ RowsOf(workImages', w) =
                           {row \in ImageRows(w, accepted[w].list) : row.image \in images'}
                      /\ thumb'[w] = IF accepted[w].thumb \in images'
                                     THEN accepted[w].thumb ELSE Null
    BY <1>1 DEF IInv, RowsMatchAccepted, RowsOf
  <2>1. w \in Works /\ accepted[w].thumb \in Images
    BY BodyType DEF IInv, TypeOK, AcceptedIsBody
  <2>2. RowsOf(workImages, w) =
            {row \in ImageRows(w, accepted[w].list) : row.image \in images}
    BY DEF IInv, RowsMatchAccepted
  <2>3. RowsOf(workImages', w) = {row \in RowsOf(workImages, w) : row.image # i}
    BY <1>1 DEF RowsOf
  <2>4. RowsOf(workImages', w) =
            {row \in ImageRows(w, accepted[w].list) : row.image \in images'}
    BY <1>1, <2>2, <2>3
  <2>5. thumb[w] = IF accepted[w].thumb \in images THEN accepted[w].thumb ELSE Null
    BY DEF IInv, RowsMatchAccepted
  <2>6. thumb'[w] = IF accepted[w].thumb \in images' THEN accepted[w].thumb ELSE Null
    BY <1>1, <2>1, <2>5
  <2> QED
    BY <2>4, <2>6
<1>3. AcceptedIsBody'
  BY <1>1 DEF IInv, AcceptedIsBody
<1>4. ListedExisted' /\ ListedWithoutStackIsGone'
  BY <1>1 DEF IInv, ListedExisted, ListedWorks, ListedWithoutStackIsGone, RowsOf
<1> QED
  BY <1>2, <1>3, <1>4 DEF IInv

\* A work that exists has a row for each tech stack accepted, hence one.
LEMMA HasStackRow ==
    ASSUME IInv, NEW w \in works
    PROVE  RowsOf(workStacks, w) # {}
<1>1. PICK s : s \in accepted[w].stacks
  BY DEF IInv, AcceptedIsBody
<1>2. [work |-> w, stack |-> s] \in StackRows(w, accepted[w].stacks)
  BY <1>1 DEF StackRows
<1> QED
  BY <1>2 DEF IInv, RowsMatchAccepted

\* A work has a stack row at every moment it exists, so a listing that saw the
\* work and then no stack row of it came too late.
LEMMA ReadStep ==
    ASSUME IInv, TypeOK', NEW r \in Readers, Read(r)
    PROVE  IInv'
<1> USE DEF Tables, imageVars, workVars, requestVars
<1>1. UNCHANGED <<Tables, requestVars>>
  BY DEF Read, ListWorks, PreloadStacks, PreloadImages, RespondWorks
<1>2. RowsMatchAccepted' /\ AcceptedIsBody' /\ InFlight'
  BY <1>1 DEF IInv, RowsMatchAccepted, AcceptedIsBody, InFlight, RowsOf
<1>3. ListedExisted'
  <2> SUFFICES ASSUME NEW p \in Readers
               PROVE  ListedWorks(p)' \subseteq works \union removedWorks
    BY <1>1 DEF ListedExisted
  <2>1. \/ listed'[p] = listed[p] \/ listed'[p] = {}
        \/ listed'[p] = {[work |-> w, thumb |-> thumb[w]] : w \in works}
    BY DEF Read, ListWorks, PreloadStacks, PreloadImages, RespondWorks, IInv, TypeOK
  <2>2. \A row \in listed[p] : row.work \in works \union removedWorks
    BY DEF IInv, ListedExisted, ListedWorks
  <2>3. \A row \in listed'[p] : row.work \in works \union removedWorks
    BY <2>1, <2>2
  <2> QED
    BY <2>3 DEF ListedWorks
<1>4. \A w \in works : RowsOf(workStacks, w) # {}
  BY HasStackRow
<1>5. ListedWithoutStackIsGone'
  <2> SUFFICES ASSUME NEW p \in Readers, readPc'[p] \in {"images", "done"},
                      NEW w \in ListedWorks(p)', RowsOf(readStacks'[p], w) = {}
               PROVE  w \in removedWorks
    BY <1>1 DEF ListedWithoutStackIsGone
  <2>1. CASE p = r /\ PreloadStacks(r)
    <3>0. ListedWorks(r)' = ListedWorks(r)
      BY <2>1 DEF PreloadStacks, ListedWorks
    <3>1. w \in ListedWorks(r) /\ RowsOf(workStacks, w) = {}
      BY <2>1, <3>0 DEF PreloadStacks, RowsOf, IInv, TypeOK
    <3>2. w \in works \union removedWorks
      BY <3>1 DEF IInv, ListedExisted
    <3> QED
      BY <1>4, <3>1, <3>2
  <2>2. CASE ~(p = r /\ PreloadStacks(r))
    <3>1. /\ readPc[p] \in {"images", "done"}
          /\ listed'[p] = listed[p] /\ readStacks'[p] = readStacks[p]
      BY <2>2 DEF Read, ListWorks, PreloadStacks, PreloadImages, RespondWorks, IInv, TypeOK
    <3> QED
      BY <3>1 DEF IInv, ListedWithoutStackIsGone, ListedWorks
  <2> QED
    BY <2>1, <2>2
<1> QED
  BY <1>2, <1>3, <1>5 DEF IInv

\* Every step preserves the invariant.
LEMMA NextIInv == IInv /\ [Next]_vars => IInv'
<1> SUFFICES ASSUME IInv, [Next]_vars PROVE IInv'
  OBVIOUS
<1> USE DEF Tables, imageVars, workVars, requestVars, readVars
<1>0. TypeOK /\ TypeOK' /\ InFlight
  BY TypeStep DEF IInv
<1>1. ASSUME NEW i \in Images, InsertImage(i) PROVE IInv'
  BY <1>0, <1>1, InsertImageStep
<1>2. ASSUME NEW s \in Stacks, CreateTechStack(s) PROVE IInv'
  <2>1. /\ UNCHANGED <<imageVars, workVars, readVars>>
        /\ InFlight'
    BY <1>0, <1>2 DEF CreateTechStack, InFlight
  <2> QED
    BY <1>0, <2>1 DEF IInv, RowsMatchAccepted, AcceptedIsBody, ListedExisted,
                      ListedWorks, ListedWithoutStackIsGone, RowsOf
<1>3. ASSUME NEW q \in Requests, NEW request \in Request, Arrive(q, request) PROVE IInv'
  <2>1. InFlight'
    BY <1>0, <1>3 DEF Arrive, TypeOK, InFlight
  <2> QED
    BY <1>0, <1>3, <2>1, RequestOnlyStep DEF Arrive
<1>4. ASSUME NEW q \in Requests, Check(q) PROVE IInv'
  <2>1. InFlight'
    <3>1. CASE CheckExists(q)
      <4>1. req[q] \in Request
        BY <1>0, <3>1, UnansweredRequest DEF CheckExists
      <4>2. req[q].op # "create"
        BY <1>0, <3>1 DEF CheckExists, TypeOK
      <4> QED
        BY <1>0, <3>1, <4>1, <4>2, InFlightStep, RequestType DEF CheckExists
    <3>2. CASE CheckImages(q)
      BY <1>0, <3>2, InFlightStep DEF CheckImages
    <3>3. CASE CheckStacks(q)
      BY <1>0, <3>3, InFlightStep DEF CheckStacks
    <3> QED
      BY <1>4, <3>1, <3>2, <3>3 DEF Check
  <2>2. UNCHANGED <<Tables, readVars>>
    BY <1>4 DEF Check, CheckExists, CheckImages, CheckStacks
  <2> QED
    BY <1>0, <2>1, <2>2, RequestOnlyStep
<1>5. ASSUME NEW q \in Requests, Commit(q) PROVE IInv'
  <2>1. pc[q] # "idle" /\ \E a \in {"done", "failed"} : Answer(q, a)
    BY <1>5 DEF Commit, CommitCreate, CommitUpdate, CommitDeleteWork, CommitDeleteImage,
                DatabaseFails
  <2>2. InFlight'
    BY <1>0, <2>1, InFlightStep
  <2>3. req[q] \in Request
    BY <1>0, <2>1, UnansweredRequest
  <2>4. CASE CommitCreate(q)
    <3>1. req[q].body \in Body /\ req[q].body.stacks # {}
      BY <1>0, <2>3, <2>4, RequestType DEF CommitCreate, InFlight
    <3>2. PICK w \in Works \ (works \union removedWorks) :
                 /\ works' = works \union {w}
                 /\ Store(w, req[q].body) /\ ReferencesHold(req[q].body)
      BY <1>0, <2>4, <3>1, CreateStores
    <3> QED
      BY <1>0, <2>2, <2>4, <3>1, <3>2, StoreStep DEF CommitCreate
  <2>5. CASE CommitUpdate(q)
    <3>1. /\ req[q].body \in Body /\ req[q].body.stacks # {}
          /\ req[q].work \in Works
      BY <1>0, <2>3, <2>5, RequestType DEF CommitUpdate, InFlight
    <3>2. /\ req[q].work \in works
          /\ Store(req[q].work, req[q].body) /\ ReferencesHold(req[q].body)
      BY <1>0, <2>5, <3>1, UpdateFindsWork
    <3>3. req[q].work \notin removedWorks /\ works' = works \union {req[q].work}
      BY <1>0, <2>5, <3>2 DEF CommitUpdate, TypeOK
    <3> QED
      BY <1>0, <2>2, <2>5, <3>1, <3>2, <3>3, StoreStep DEF CommitUpdate
  <2>6. CASE CommitDeleteWork(q)
    BY <1>0, <2>2, <2>6, DeleteWorkStep
  <2>7. CASE CommitDeleteImage(q)
    BY <1>0, <2>2, <2>7, DeleteImageStep
  <2>8. CASE DatabaseFails(q)
    BY <1>0, <2>2, <2>8, RequestOnlyStep DEF DatabaseFails
  <2> QED
    BY <1>5, <2>4, <2>5, <2>6, <2>7, <2>8 DEF Commit
<1>6. ASSUME NEW r \in Readers, Read(r) PROVE IInv'
  BY <1>0, <1>6, ReadStep
<1>7. CASE UNCHANGED vars
  BY <1>0, <1>7, RequestOnlyStep DEF vars, InFlight
<1> QED
  BY <1>1, <1>2, <1>3, <1>4, <1>5, <1>6, <1>7 DEF Next

-----------------------------------------------------------------------------
(* The theorems *)

\* IInv is an invariant of the whole system.
THEOREM Invariant == Spec => []IInv
BY InitIInv, NextIInv, PTL DEF Spec

\* Every variable keeps its type.
THEOREM TypeCorrect == Spec => []TypeOK
<1>1. IInv => TypeOK
  BY DEF IInv
<1> QED
  BY <1>1, Invariant, PTL

\* The tables hold what was last accepted, less the images deleted since.
THEOREM TablesAreExact == Spec => []RowsMatchAccepted
<1>1. IInv => RowsMatchAccepted
  BY DEF IInv
<1> QED
  BY <1>1, Invariant, PTL

\* No interleaving of edits and deletions leaves a work without a tech stack.
THEOREM StacksNeverNone == Spec => []EveryWorkHasStack
<1>1. IInv => EveryWorkHasStack
  <2> SUFFICES ASSUME IInv, NEW w \in works
               PROVE  \E row \in workStacks : row.work = w
    BY DEF EveryWorkHasStack
  <2>1. RowsOf(workStacks, w) # {}
    BY HasStackRow
  <2> QED
    BY <2>1 DEF RowsOf
<1> QED
  BY <1>1, Invariant, PTL

\* A piecemeal listing shows a work without tech stacks only if it was deleted.
THEOREM TornListing == Spec => []ListedWithoutStackIsGone
<1>1. IInv => ListedWithoutStackIsGone
  BY DEF IInv
<1> QED
  BY <1>1, Invariant, PTL

\* An edit answered with "ok" has been saved, whatever happened since its checks:
\* by InFlight its body names a tech stack, so by the foreign keys of the rows it
\* inserts its work is still there, and the UPDATE found its row.
THEOREM UpdateOk == Spec => UpdateOkMeansSaved
<1> DEFINE Saved == \A q \in Requests :
        pc[q] = "commit" /\ req[q].op = "update" /\ reply'[q] = "done" =>
            /\ req[q].work \in works'
            /\ thumb'[req[q].work] = req[q].body.thumb
            /\ RowsOf(workImages', req[q].work) = ImageRows(req[q].work, req[q].body.list)
            /\ RowsOf(workStacks', req[q].work) = StackRows(req[q].work, req[q].body.stacks)
<1>1. IInv /\ [Next]_vars => [Saved]_vars
  <2> SUFFICES ASSUME IInv, Next, NEW q \in Requests,
                      pc[q] = "commit", req[q].op = "update", reply'[q] = "done"
               PROVE  /\ req[q].work \in works'
                      /\ thumb'[req[q].work] = req[q].body.thumb
                      /\ RowsOf(workImages', req[q].work) =
                           ImageRows(req[q].work, req[q].body.list)
                      /\ RowsOf(workStacks', req[q].work) =
                           StackRows(req[q].work, req[q].body.stacks)
    OBVIOUS
  <2>1. TypeOK /\ reply[q] = "none"
    BY DEF IInv, InFlight
  <2>2. CommitUpdate(q)
    <3>1. ASSUME NEW p \in Requests, Commit(p) PROVE CommitUpdate(q)
      <4>1. \E a \in {"done", "failed"} : Answer(p, a)
        BY <3>1 DEF Commit, CommitCreate, CommitUpdate, CommitDeleteWork, CommitDeleteImage,
                    DatabaseFails
      <4>2. p = q
        BY <2>1, <4>1 DEF Answer, TypeOK
      <4>3. ~DatabaseFails(q)
        BY <2>1 DEF DatabaseFails, Answer, TypeOK
      <4> QED
        BY <3>1, <4>2, <4>3 DEF Commit, CommitCreate, CommitDeleteWork, CommitDeleteImage
    <3>2. ASSUME NEW p \in Requests, Check(p) PROVE FALSE
      BY <2>1, <3>2 DEF Check, CheckExists, CheckImages, CheckStacks, Goto, Answer, TypeOK
    <3>3. ASSUME NEW p \in Requests, NEW request \in Request, Arrive(p, request) PROVE FALSE
      BY <2>1, <3>3 DEF Arrive, TypeOK
    <3>4. ASSUME \/ \E i \in Images : InsertImage(i)
                 \/ \E s \in Stacks : CreateTechStack(s)
                 \/ \E r \in Readers : Read(r)
          PROVE  FALSE
      BY <2>1, <3>4 DEF InsertImage, CreateTechStack, Read, ListWorks, PreloadStacks,
                        PreloadImages, RespondWorks, requestVars
    <3> QED
      BY <3>1, <3>2, <3>3, <3>4 DEF Next
  <2>3. req[q].body \in Body /\ req[q].work \in Works /\ req[q].body.stacks # {}
    BY <2>1, UnansweredRequest, RequestType DEF IInv, InFlight
  <2>4. /\ req[q].work \in works
        /\ Store(req[q].work, req[q].body) /\ ReferencesHold(req[q].body)
    BY <2>1, <2>2, <2>3, UpdateFindsWork
  <2>5. works' = works
    BY <2>2 DEF CommitUpdate
  <2> QED
    BY <2>1, <2>3, <2>4, <2>5, StoreRows
<1> QED
  BY <1>1, Invariant, PTL DEF Spec, UpdateOkMeansSaved

-----------------------------------------------------------------------------
(***************************************************************************)
(* Counting in order                                                       *)
(***************************************************************************)

\* The members of S that ord puts before a.
Lesser(S, ord, a) == {c \in S : ord[c] < ord[a]}

\* In a finite set numbered without repetition, the number of members before a
\* member grows with the member's own number.
LEMMA Rank ==
    ASSUME NEW S, IsFiniteSet(S), NEW ord \in [S -> Nat],
           \A a, b \in S : ord[a] = ord[b] => a = b
    PROVE  /\ Cardinality(S) \in Nat
           /\ \A a \in S : /\ IsFiniteSet(Lesser(S, ord, a))
                           /\ Cardinality(Lesser(S, ord, a)) \in 0..Cardinality(S) - 1
           /\ \A a, b \in S :
                 ord[a] < ord[b] <=> Cardinality(Lesser(S, ord, a))
                                        < Cardinality(Lesser(S, ord, b))
<1>1. Cardinality(S) \in Nat
  BY FS_CardinalityType
<1>2. ASSUME NEW a \in S
      PROVE  /\ IsFiniteSet(Lesser(S, ord, a))
             /\ Cardinality(Lesser(S, ord, a)) \in 0..Cardinality(S) - 1
  <2>1. Lesser(S, ord, a) \in SUBSET S /\ a \notin Lesser(S, ord, a)
    BY DEF Lesser
  <2>2. /\ IsFiniteSet(Lesser(S, ord, a)) /\ Cardinality(Lesser(S, ord, a)) <= Cardinality(S)
        /\ Cardinality(S) = Cardinality(Lesser(S, ord, a)) => S = Lesser(S, ord, a)
    BY <2>1, FS_Subset
  <2>3. Cardinality(Lesser(S, ord, a)) \in Nat
    BY <2>2, FS_CardinalityType
  <2> QED
    BY <1>1, <2>1, <2>2, <2>3
<1>3. ASSUME NEW a \in S, NEW b \in S, ord[a] < ord[b]
      PROVE  Cardinality(Lesser(S, ord, a)) < Cardinality(Lesser(S, ord, b))
  <2>1. /\ Lesser(S, ord, a) \in SUBSET Lesser(S, ord, b)
        /\ a \in Lesser(S, ord, b) /\ a \notin Lesser(S, ord, a)
    <3>1. ord[a] \in Nat /\ ord[b] \in Nat /\ \A c \in S : ord[c] \in Nat
      OBVIOUS
    <3> QED
      BY <1>3, <3>1 DEF Lesser
  <2>2. /\ IsFiniteSet(Lesser(S, ord, b)) /\ Cardinality(Lesser(S, ord, b)) \in Nat
        /\ Cardinality(Lesser(S, ord, a)) \in Nat
    BY <1>2
  <2>3. /\ Cardinality(Lesser(S, ord, a)) <= Cardinality(Lesser(S, ord, b))
        /\ Cardinality(Lesser(S, ord, b)) = Cardinality(Lesser(S, ord, a))
              => Lesser(S, ord, b) = Lesser(S, ord, a)
    BY <2>1, <2>2, FS_Subset
  <2> QED
    BY <2>1, <2>2, <2>3
<1>4. ASSUME NEW a \in S, NEW b \in S
      PROVE  ord[a] < ord[b] <=> Cardinality(Lesser(S, ord, a)) < Cardinality(Lesser(S, ord, b))
  <2>1. ord[a] \in Nat /\ ord[b] \in Nat
    OBVIOUS
  <2>2. Cardinality(Lesser(S, ord, a)) \in Nat /\ Cardinality(Lesser(S, ord, b)) \in Nat
    BY <1>2
  <2>3. ord[a] = ord[b] => a = b
    OBVIOUS
  <2>4. /\ ord[a] < ord[b] => Cardinality(Lesser(S, ord, a)) < Cardinality(Lesser(S, ord, b))
        /\ ord[b] < ord[a] => Cardinality(Lesser(S, ord, b)) < Cardinality(Lesser(S, ord, a))
    BY <1>3
  <2> QED
    BY <2>1, <2>2, <2>3, <2>4
<1> QED
  BY <1>1, <1>2, <1>4

\* There is an enumeration of it in that order: the k-th member has k - 1
\* before it.
LEMMA Enumeration ==
    ASSUME NEW S, IsFiniteSet(S), NEW ord \in [S -> Nat],
           \A a, b \in S : ord[a] = ord[b] => a = b
    PROVE  \E e \in [1..Cardinality(S) -> S] :
              /\ \A k \in 1..Cardinality(S) : Cardinality(Lesser(S, ord, e[k])) = k - 1
              /\ \A a \in S : \E k \in 1..Cardinality(S) : e[k] = a
<1> DEFINE N == Cardinality(S)
           f == [a \in S |-> Cardinality(Lesser(S, ord, a))]
<1>1. N \in Nat /\ \A a \in S : Cardinality(Lesser(S, ord, a)) \in 0..N - 1
  BY Rank
<1>2. \A a, b \in S :
         ord[a] < ord[b] <=> Cardinality(Lesser(S, ord, a)) < Cardinality(Lesser(S, ord, b))
  BY Rank
<1>3. \A a, b \in S : f[a] = f[b] => a = b
  <2> SUFFICES ASSUME NEW a \in S, NEW b \in S, f[a] = f[b] PROVE a = b
    OBVIOUS
  <2>1. /\ Cardinality(Lesser(S, ord, a)) = Cardinality(Lesser(S, ord, b))
        /\ Cardinality(Lesser(S, ord, a)) \in Nat
    BY <1>1
  <2>2. ~(ord[a] < ord[b]) /\ ~(ord[b] < ord[a])
    BY <1>2, <2>1
  <2>3. ord[a] \in Nat /\ ord[b] \in Nat
    OBVIOUS
  <2> QED
    BY <2>2, <2>3
<1>4. f \in [S -> 0..N - 1]
  BY <1>1
<1>5. f \in Injection(S, 0..N - 1)
  <2> HIDE DEF f, N
  <2> QED
    BY <1>3, <1>4 DEF Injection, IsInjective
<1>6. IsFiniteSet(0..N - 1) /\ Cardinality(0..N - 1) = N
  <2> HIDE DEF N
  <2>1. 0 \in Int /\ N - 1 \in Int /\ (0 > N - 1 => N = 0) /\ (N - 1) - 0 + 1 = N
    BY <1>1
  <2> QED
    BY <1>1, <2>1, FS_Interval
<1>7. f \in Surjection(S, 0..N - 1)
  <2>1. Cardinality(S) = Cardinality(0..N - 1)
    BY <1>6
  <2> HIDE DEF f, N
  <2> QED
    BY <1>5, <1>6, <2>1, FS_Injection
<1> HIDE DEF f, N
<1>8. \A n \in 0..N - 1 : \E a \in S : f[a] = n
  BY <1>7 DEF Surjection
<1> DEFINE e == [k \in 1..N |-> CHOOSE a \in S : f[a] = k - 1]
<1>9. \A k \in 1..N : e[k] \in S /\ f[e[k]] = k - 1
  <2> SUFFICES ASSUME NEW k \in 1..N PROVE e[k] \in S /\ f[e[k]] = k - 1
    OBVIOUS
  <2>1. k - 1 \in 0..N - 1
    BY <1>1
  <2>2. \E a \in S : f[a] = k - 1
    BY <1>8, <2>1
  <2> QED
    BY <2>2
<1>10. e \in [1..N -> S]
  BY <1>9
<1> HIDE DEF e
<1>11. \A a \in S : \E k \in 1..N : e[k] = a
  <2> SUFFICES ASSUME NEW a \in S PROVE \E k \in 1..N : e[k] = a
    OBVIOUS
  <2>1. f[a] + 1 \in 1..N /\ (f[a] + 1) - 1 = f[a]
    BY <1>1, <1>4
  <2>2. f[e[f[a] + 1]] = f[a] /\ e[f[a] + 1] \in S
    BY <1>9, <2>1
  <2> QED
    BY <1>3, <2>1, <2>2
<1>12. \A k \in 1..N : Cardinality(Lesser(S, ord, e[k])) = k - 1
  BY <1>9, <1>10 DEF f
<1> QED
  BY <1>10, <1>11, <1>12 DEF N

(***************************************************************************)
(* Rows in their order                                                     *)
(***************************************************************************)

\* Rows of which no two have the same display_order.
Numbered(rows) ==
    /\ IsFiniteSet(rows) /\ \A r \in rows : r.order \in Nat
    /\ \A a, b \in rows : a.order = b.order => a = b

\* The rows that come before one.
RowsBefore(rows, row) == {r \in rows : r.order < row.order}

\* Numbered rows can be enumerated, the k-th with k - 1 before it.
LEMMA RowsEnumerated ==
    ASSUME NEW rows, Numbered(rows)
    PROVE  /\ Cardinality(rows) \in Nat
           /\ \A a, b \in rows :
                 a.order < b.order <=> Cardinality(RowsBefore(rows, a))
                                          < Cardinality(RowsBefore(rows, b))
           /\ \A a \in rows : Cardinality(RowsBefore(rows, a)) \in Nat
           /\ \E e \in [1..Cardinality(rows) -> rows] :
                /\ \A k \in 1..Cardinality(rows) : Cardinality(RowsBefore(rows, e[k])) = k - 1
                /\ \A a \in rows : \E k \in 1..Cardinality(rows) : e[k] = a
<1> DEFINE ord == [r \in rows |-> r.order]
<1>1. ord \in [rows -> Nat] /\ \A a, b \in rows : ord[a] = ord[b] => a = b
  BY DEF Numbered
<1>2. \A a \in rows : Lesser(rows, ord, a) = RowsBefore(rows, a)
  BY DEF Lesser, RowsBefore
<1>3. \A a \in rows : ord[a] = a.order
  OBVIOUS
<1>4. IsFiniteSet(rows)
  BY DEF Numbered
<1> HIDE DEF ord
<1>5. /\ Cardinality(rows) \in Nat
      /\ \A a \in rows : Cardinality(Lesser(rows, ord, a)) \in 0..Cardinality(rows) - 1
      /\ \A a, b \in rows :
            ord[a] < ord[b] <=> Cardinality(Lesser(rows, ord, a))
                                   < Cardinality(Lesser(rows, ord, b))
  BY <1>1, <1>4, Rank
<1>6. PICK e \in [1..Cardinality(rows) -> rows] :
         /\ \A k \in 1..Cardinality(rows) : Cardinality(Lesser(rows, ord, e[k])) = k - 1
         /\ \A a \in rows : \E k \in 1..Cardinality(rows) : e[k] = a
  BY <1>1, <1>4, Enumeration
<1>7. \A a \in rows : Cardinality(RowsBefore(rows, a)) \in Nat
  BY <1>2, <1>5
<1>8. \A a, b \in rows :
         a.order < b.order <=> Cardinality(RowsBefore(rows, a)) < Cardinality(RowsBefore(rows, b))
  BY <1>2, <1>3, <1>5
<1>9. \A k \in 1..Cardinality(rows) : Cardinality(RowsBefore(rows, e[k])) = k - 1
  BY <1>2, <1>6
<1> QED
  BY <1>5, <1>6, <1>7, <1>8, <1>9

\* ImagesInOrder follows any such enumeration, for there is one only.
LEMMA InOrderIs ==
    ASSUME NEW rows, Numbered(rows), NEW e \in [1..Cardinality(rows) -> rows],
           \A k \in 1..Cardinality(rows) : Cardinality(RowsBefore(rows, e[k])) = k - 1
    PROVE  ImagesInOrder(rows) = [k \in 1..Cardinality(rows) |-> e[k].image]
<1>1. ASSUME NEW k \in 1..Cardinality(rows)
      PROVE  (CHOOSE row \in rows : Cardinality({r \in rows : r.order < row.order}) = k - 1) = e[k]
  <2>1. e[k] \in rows /\ Cardinality(RowsBefore(rows, e[k])) = k - 1
    OBVIOUS
  <2>2. ASSUME NEW a \in rows, Cardinality(RowsBefore(rows, a)) = k - 1 PROVE a = e[k]
    <3>1. ~(a.order < e[k].order) /\ ~(e[k].order < a.order)
      BY <2>1, <2>2, RowsEnumerated
    <3>2. a.order \in Nat /\ e[k].order \in Nat
      BY <2>1 DEF Numbered
    <3> QED
      BY <2>1, <3>1, <3>2 DEF Numbered
  <2>3. (CHOOSE row \in rows : Cardinality(RowsBefore(rows, row)) = k - 1) = e[k]
    BY <2>1, <2>2
  <2> QED
    BY <2>3 DEF RowsBefore
<1>2. ImagesInOrder(rows) =
          [k \in 1..Cardinality(rows) |->
             (CHOOSE row \in rows : Cardinality({r \in rows : r.order < row.order}) = k - 1).image]
  BY DEF ImagesInOrder
<1> QED
  BY <1>1, <1>2

\* createWorkRelations numbers the rows as the list has them.
LEMMA ListInOrder ==
    ASSUME NEW w, NEW list \in Seq(Images)
    PROVE  Numbered(ImageRows(w, list)) /\ ImagesInOrder(ImageRows(w, list)) = list
<1> DEFINE rows == ImageRows(w, list)
           Row(k) == [work |-> w, image |-> list[k], order |-> k - 1]
           e == [k \in 1..Len(list) |-> Row(k)]
<1>1. rows = {Row(k) : k \in 1..Len(list)} /\ Len(list) \in Nat
  BY DEF ImageRows
<1>2. \A k \in 1..Len(list) : Row(k).order = k - 1 /\ Row(k).image = list[k] /\ k - 1 \in Nat
  OBVIOUS
<1>3. e \in Bijection(1..Len(list), rows)
  <2>1. e \in [1..Len(list) -> rows]
    BY <1>1
  <2>2. \A j, k \in 1..Len(list) : e[j] = e[k] => j = k
    <3> SUFFICES ASSUME NEW j \in 1..Len(list), NEW k \in 1..Len(list), e[j] = e[k] PROVE j = k
      OBVIOUS
    <3>1. j - 1 = k - 1
      BY <1>2
    <3> QED
      BY <3>1
  <2>3. \A r \in rows : \E k \in 1..Len(list) : e[k] = r
    BY <1>1
  <2> HIDE DEF e, rows
  <2> QED
    BY <2>1, <2>2, <2>3 DEF Bijection, Injection, Surjection, IsInjective
<1>4. IsFiniteSet(rows) /\ Cardinality(rows) = Len(list)
  <2>1. IsFiniteSet(1..Len(list)) /\ Cardinality(1..Len(list)) = Len(list)
    <3>1. 1 \in Int /\ Len(list) \in Int /\ (1 > Len(list) => Len(list) = 0)
            /\ Len(list) - 1 + 1 = Len(list)
      BY <1>1
    <3> QED
      BY <3>1, FS_Interval
  <2> HIDE DEF e, rows
  <2>2. ExistsBijection(1..Len(list), rows)
    BY <1>3 DEF ExistsBijection
  <2> QED
    BY <2>1, <2>2, FS_Bijection
<1>5. Numbered(rows)
  <2>1. ASSUME NEW a \in rows, NEW b \in rows, a.order = b.order PROVE a = b
    <3>1. PICK j \in 1..Len(list) : a = Row(j)
      BY <1>1
    <3>2. PICK k \in 1..Len(list) : b = Row(k)
      BY <1>1
    <3>3. j = k
      BY <1>2, <2>1, <3>1, <3>2
    <3> QED
      BY <3>1, <3>2, <3>3
  <2>2. \A a \in rows : a.order \in Nat
    BY <1>1, <1>2
  <2> HIDE DEF rows
  <2> QED
    BY <1>4, <2>1, <2>2 DEF Numbered
<1>6. ASSUME NEW k \in 1..Len(list) PROVE Cardinality(RowsBefore(rows, e[k])) = k - 1
  <2> DEFINE g == [j \in 1..k - 1 |-> Row(j)]
             before == RowsBefore(rows, e[k])
  <2>1. k - 1 \in Nat /\ \A j \in 1..k - 1 : j \in 1..Len(list) /\ j - 1 < k - 1
    BY <1>1
  <2>2. before = {r \in rows : r.order < k - 1}
    BY <1>2 DEF RowsBefore
  <2>3. \A j \in 1..k - 1 : Row(j) \in before
    BY <1>1, <1>2, <2>1, <2>2
  <2>4. \A r \in before : \E j \in 1..k - 1 : r = Row(j)
    <3> SUFFICES ASSUME NEW r \in before PROVE \E j \in 1..k - 1 : r = Row(j)
      OBVIOUS
    <3>1. PICK j \in 1..Len(list) : r = Row(j)
      BY <1>1, <2>2
    <3>2. j - 1 < k - 1
      BY <1>2, <2>2, <3>1
    <3>3. j \in 1..k - 1
      BY <1>1, <3>2
    <3> QED
      BY <3>1, <3>3
  <2>5. \A i, j \in 1..k - 1 : g[i] = g[j] => i = j
    <3> SUFFICES ASSUME NEW i \in 1..k - 1, NEW j \in 1..k - 1, g[i] = g[j] PROVE i = j
      OBVIOUS
    <3>1. i - 1 = j - 1
      BY <1>2, <2>1
    <3> QED
      BY <3>1
  <2>6. g \in [1..k - 1 -> before]
    BY <2>3
  <2>7. \A r \in before : \E j \in 1..k - 1 : g[j] = r
    BY <2>4
  <2>8. IsFiniteSet(1..k - 1) /\ Cardinality(1..k - 1) = k - 1
    <3>1. 1 \in Int /\ k - 1 \in Int /\ (1 > k - 1 => k - 1 = 0) /\ (k - 1) - 1 + 1 = k - 1
      BY <2>1
    <3> QED
      BY <3>1, FS_Interval
  <2> HIDE DEF g, before
  <2>9. g \in Bijection(1..k - 1, before)
    BY <2>5, <2>6, <2>7 DEF Bijection, Injection, Surjection, IsInjective
  <2>10. Cardinality(before) = k - 1
    BY <2>8, <2>9, FS_Bijection DEF ExistsBijection
  <2> QED
    BY <2>10 DEF before
<1>7. e \in [1..Cardinality(rows) -> rows]
  BY <1>1, <1>4
<1>8. \A k \in 1..Len(list) : e[k].image = list[k]
  BY <1>2
<1> HIDE DEF e, rows, Row
<1>9. ImagesInOrder(rows) = [k \in 1..Len(list) |-> e[k].image]
  BY <1>4, <1>5, <1>6, <1>7, InOrderIs
<1>10. [k \in 1..Len(list) |-> e[k].image] = list
  BY <1>8
<1> QED
  BY <1>5, <1>9, <1>10 DEF rows

\* The catalogue counts as WorkStore does.
LEMMA SameCount == \A S : Catalogue!Cardinality(S) = Cardinality(S)
BY DEF Catalogue!Cardinality, Cardinality

\* Without the rows of an image, the order is that of the list without it: the
\* gaps in display_order do not show.
LEMMA InOrderWithout ==
    ASSUME NEW rows, Numbered(rows), NEW i
    PROVE  ImagesInOrder({r \in rows : r.image # i}) = Catalogue!Reduced(ImagesInOrder(rows), i)
<1> DEFINE N == Cardinality(rows)
           left == {r \in rows : r.image # i}
<1>1. PICK e \in [1..N -> rows] :
         /\ \A k \in 1..N : Cardinality(RowsBefore(rows, e[k])) = k - 1
         /\ \A a \in rows : \E k \in 1..N : e[k] = a
  BY RowsEnumerated
<1>2. N \in Nat
  BY RowsEnumerated
<1> HIDE DEF N
<1> DEFINE l == [k \in 1..N |-> e[k].image]
           rest == {k \in 1..N : e[k].image # i}
           id == [k \in rest |-> k]
<1>3. ImagesInOrder(rows) = l
  BY <1>1, InOrderIs DEF N
\* The enumeration follows the numbers of the rows.
<1>4. \A j, k \in 1..N : j < k <=> e[j].order < e[k].order
  <2> SUFFICES ASSUME NEW j \in 1..N, NEW k \in 1..N
               PROVE  j < k <=> e[j].order < e[k].order
    OBVIOUS
  <2>1. e[j] \in rows /\ e[k] \in rows
    BY <1>1
  <2>2. e[j].order < e[k].order <=> j - 1 < k - 1
    BY <1>1, <2>1, RowsEnumerated
  <2> QED
    BY <2>2
<1>5. \A j, k \in 1..N : e[j] = e[k] => j = k
  <2> SUFFICES ASSUME NEW j \in 1..N, NEW k \in 1..N, e[j] = e[k] PROVE j = k
    OBVIOUS
  <2>1. j - 1 = k - 1
    BY <1>1
  <2> QED
    BY <2>1
\* The places in the list that are left, and an enumeration of them.
<1>6. IsFiniteSet(rest) /\ rest \subseteq 1..N
  <2>1. IsFiniteSet(1..N)
    BY <1>2, FS_Interval
  <2>2. rest \in SUBSET (1..N)
    OBVIOUS
  <2> HIDE DEF rest
  <2> QED
    BY <2>1, <2>2, FS_Subset
<1>7. id \in [rest -> Nat] /\ \A j, k \in rest : id[j] = id[k] => j = k
  BY <1>2
<1>8. \A k \in rest : Lesser(rest, id, k) = {j \in rest : j < k}
  BY DEF Lesser
<1> HIDE DEF id, rest
<1>9. PICK f \in [1..Cardinality(rest) -> rest] :
         /\ \A k \in 1..Cardinality(rest) : Cardinality(Lesser(rest, id, f[k])) = k - 1
         /\ \A a \in rest : \E k \in 1..Cardinality(rest) : f[k] = a
  <2>1. IsFiniteSet(rest)
    BY <1>6
  <2> QED
    BY <1>7, <2>1, Enumeration, SMTT(30)
<1>10. /\ Cardinality(rest) \in Nat
       /\ \A k \in rest : IsFiniteSet(Lesser(rest, id, k))
       /\ \A j, k \in rest : id[j] < id[k] <=> Cardinality(Lesser(rest, id, j))
                                                  < Cardinality(Lesser(rest, id, k))
  BY <1>6, <1>7, Rank
\* The rows that are left stand at these places.
<1> DEFINE h == [k \in rest |-> e[k]]
<1>11. h \in Bijection(rest, left)
  <2>1. h \in [rest -> left]
    BY <1>1 DEF rest
  <2>2. \A j, k \in rest : h[j] = h[k] => j = k
    BY <1>5, <1>6
  <2>3. \A r \in left : \E k \in rest : h[k] = r
    <3> SUFFICES ASSUME NEW r \in left PROVE \E k \in rest : e[k] = r
      OBVIOUS
    <3>1. PICK k \in 1..N : e[k] = r
      BY <1>1
    <3>2. k \in rest
      BY <3>1 DEF rest
    <3> QED
      BY <3>1, <3>2
  <2> HIDE DEF h, left
  <2> QED
    BY <2>1, <2>2, <2>3 DEF Bijection, Injection, Surjection, IsInjective
<1>12. IsFiniteSet(left) /\ Cardinality(left) = Cardinality(rest)
  <2> HIDE DEF h, left
  <2> QED
    BY <1>6, <1>11, FS_Bijection DEF ExistsBijection
<1>13. Numbered(left)
  <2>1. left \subseteq rows
    OBVIOUS
  <2> HIDE DEF left
  <2> QED
    BY <1>12, <2>1 DEF Numbered
<1> DEFINE g == [n \in 1..Cardinality(rest) |-> e[f[n]]]
<1>14. g \in [1..Cardinality(left) -> left]
  <2>1. \A n \in 1..Cardinality(rest) : f[n] \in rest
    BY <1>9
  <2>2. \A k \in rest : e[k] \in left
    BY <1>1 DEF rest
  <2> HIDE DEF left
  <2> QED
    BY <1>12, <2>1, <2>2
<1>15. ASSUME NEW n \in 1..Cardinality(rest)
       PROVE  Cardinality(RowsBefore(left, g[n])) = n - 1
  <2> DEFINE places == Lesser(rest, id, f[n])
             before == RowsBefore(left, g[n])
             b == [j \in places |-> e[j]]
  <2>1. f[n] \in rest /\ f[n] \in 1..N /\ g[n] = e[f[n]]
    BY <1>6, <1>9
  <2>2. places = {j \in rest : j < f[n]}
    BY <1>8, <2>1
  <2>3. before = {r \in left : r.order < e[f[n]].order}
    BY <2>1 DEF RowsBefore
  <2>4. b \in [places -> before]
    <3> SUFFICES ASSUME NEW j \in places PROVE e[j] \in before
      OBVIOUS
    <3>1. j \in rest /\ j \in 1..N /\ j < f[n]
      BY <1>6, <2>2
    <3>2. e[j] \in left /\ e[j].order < e[f[n]].order
      BY <1>1, <1>4, <2>1, <3>1 DEF rest
    <3> QED
      BY <2>3, <3>2
  <2>5. \A j, k \in places : b[j] = b[k] => j = k
    BY <1>5, <1>6, <2>2
  <2>6. \A r \in before : \E j \in places : b[j] = r
    <3> SUFFICES ASSUME NEW r \in before PROVE \E j \in places : e[j] = r
      OBVIOUS
    <3>1. r \in left /\ r.order < e[f[n]].order
      BY <2>3
    <3>2. PICK j \in 1..N : e[j] = r
      BY <1>1, <3>1
    <3>3. j \in rest /\ j < f[n]
      BY <1>4, <2>1, <3>1, <3>2 DEF rest
    <3> QED
      BY <2>2, <3>2, <3>3
  <2>7. IsFiniteSet(places) /\ Cardinality(places) = n - 1
    BY <1>9, <1>10, <2>1
  <2> HIDE DEF b, places, before
  <2>8. b \in Bijection(places, before)
    BY <2>4, <2>5, <2>6 DEF Bijection, Injection, Surjection, IsInjective
  <2>9. Cardinality(before) = n - 1
    BY <2>7, <2>8, FS_Bijection DEF ExistsBijection
  <2> QED
    BY <2>9 DEF before
<1>16. ImagesInOrder(left) = [n \in 1..Cardinality(rest) |-> e[f[n]].image]
  <2>1. ImagesInOrder(left) = [n \in 1..Cardinality(left) |-> g[n].image]
    <3> HIDE DEF g, left
    <3>1. \A k \in 1..Cardinality(left) : Cardinality(RowsBefore(left, g[k])) = k - 1
      BY <1>12, <1>15
    <3> QED
      BY <1>13, <1>14, <3>1, InOrderIs, ZenonT(30)
  <2> HIDE DEF left
  <2> QED
    BY <1>12, <2>1
\* The list without the image is read off at the same places.
<1>17. Catalogue!Reduced(l, i) = [n \in 1..Cardinality(rest) |-> e[f[n]].image]
  <2>1. Catalogue!Others(l, i) = rest
    BY DEF rest, Catalogue!Others
  <2>2. ASSUME NEW n \in 1..Cardinality(rest) PROVE Catalogue!Nth(rest, n) = f[n]
    <3>1. f[n] \in rest /\ Cardinality(Lesser(rest, id, f[n])) = n - 1
      BY <1>9
    <3>2. ASSUME NEW k \in rest, Cardinality(Lesser(rest, id, k)) = n - 1 PROVE k = f[n]
      <4>1. ~(id[k] < id[f[n]]) /\ ~(id[f[n]] < id[k])
        BY <1>10, <3>1, <3>2
      <4>2. id[k] \in Nat /\ id[f[n]] \in Nat
        BY <1>7, <3>1
      <4> QED
        BY <1>7, <3>1, <4>1, <4>2
    <3>3. \A k \in rest : Catalogue!Cardinality({j \in rest : j < k}) = n - 1 <=> k = f[n]
      BY <1>8, <3>1, <3>2, SameCount
    <3> QED
      BY <3>1, <3>3 DEF Catalogue!Nth
  <2>3. \A n \in 1..Cardinality(rest) : f[n] \in 1..N /\ l[f[n]] = e[f[n]].image
    BY <1>6, <1>9
  <2>4. Catalogue!Cardinality(rest) = Cardinality(rest)
    BY SameCount
  <2> HIDE DEF l
  <2> QED
    BY <2>1, <2>2, <2>3, <2>4 DEF Catalogue!Reduced
<1> QED
  BY <1>3, <1>16, <1>17

(***************************************************************************)
(* The tables implement the catalogue                                      *)
(***************************************************************************)

\* The rows of a work's images are numbered: they are some of those its list
\* was stored in.
LEMMA RowsNumbered ==
    ASSUME IInv, NEW w \in works
    PROVE  Numbered(RowsOf(workImages, w))
<1> DEFINE all == ImageRows(w, accepted[w].list)
           rows == RowsOf(workImages, w)
<1>1. accepted[w].list \in Seq(Images)
  BY BodyType DEF IInv, AcceptedIsBody, TypeOK
<1>2. Numbered(all)
  BY <1>1, ListInOrder
<1>3. rows \in SUBSET all
  BY DEF IInv, RowsMatchAccepted
<1> HIDE DEF all, rows
<1>4. IsFiniteSet(rows)
  BY <1>2, <1>3, FS_Subset DEF Numbered
<1>5. Numbered(rows)
  BY <1>2, <1>3, <1>4 DEF Numbered
<1> QED
  BY <1>5 DEF rows

\* The tech stacks read back are those the rows were made of.
LEMMA StackNames ==
    ASSUME NEW w, NEW S
    PROVE  {row.stack : row \in StackRows(w, S)} = S
<1>1. \A s \in S : [work |-> w, stack |-> s] \in StackRows(w, S)
  BY DEF StackRows
<1>2. \A row \in StackRows(w, S) : row.stack \in S
  BY DEF StackRows
<1>3. \A s \in S : \E row \in StackRows(w, S) : row.stack = s
  BY <1>1
<1> QED
  BY <1>2, <1>3

\* What is shown of a work just saved is its body, and the others stay.
LEMMA StoreShows ==
    ASSUME TypeOK, NEW w \in Works, NEW body \in Body, body.stacks # {},
           Store(w, body), ReferencesHold(body), works' = works \union {w}
    PROVE  \E e \in Catalogue!Saveable :
              Shown' = [v \in works \union {w} |-> IF v = w THEN e ELSE Shown[v]]
<1> DEFINE e == [thumb |-> body.thumb, list |-> body.list, stacks |-> body.stacks]
<1>1. /\ RowsOf(workImages', w) = ImageRows(w, body.list)
      /\ RowsOf(workStacks', w) = StackRows(w, body.stacks)
      /\ thumb'[w] = body.thumb
      /\ \A v \in Works \ {w} :
           /\ RowsOf(workImages', v) = RowsOf(workImages, v)
           /\ RowsOf(workStacks', v) = RowsOf(workStacks, v)
           /\ thumb'[v] = thumb[v]
  BY StoreRows
<1>2. body.thumb \in Images /\ body.list \in ImageLists /\ body.list \in Seq(Images)
        /\ body.stacks \in (SUBSET Stacks) \ {{}}
  BY BodyType DEF Body
<1>3. e \in Catalogue!Saveable
  <2>1. {body.thumb} \union Range(body.list) \subseteq images /\ body.stacks \subseteq stacks
    BY DEF ReferencesHold, ImagesOf
  <2>2. Catalogue!Range(body.list) = Range(body.list)
    BY DEF Range, Catalogue!Range
  <2> QED
    BY <1>2, <2>1, <2>2 DEF Catalogue!Saveable
<1>4. Shown' = [v \in works' |-> [thumb |-> thumb'[v],
                                  list |-> ImagesInOrder(RowsOf(workImages', v)),
                                  stacks |-> {row.stack : row \in RowsOf(workStacks', v)}]]
  BY DEF Shown, StacksOf, RowsOf, ImagesInOrder
<1>5. [thumb |-> thumb'[w], list |-> ImagesInOrder(RowsOf(workImages', w)),
       stacks |-> {row.stack : row \in RowsOf(workStacks', w)}] = e
  <2>1. ImagesInOrder(RowsOf(workImages', w)) = body.list
    BY <1>1, <1>2, ListInOrder
  <2>2. {row.stack : row \in RowsOf(workStacks', w)} = body.stacks
    BY <1>1, StackNames
  <2> QED
    BY <1>1, <2>1, <2>2
<1>6. ASSUME NEW v \in works, v # w
      PROVE  [thumb |-> thumb'[v], list |-> ImagesInOrder(RowsOf(workImages', v)),
              stacks |-> {row.stack : row \in RowsOf(workStacks', v)}] = Shown[v]
  <2>1. v \in Works \ {w}
    BY <1>6 DEF TypeOK
  <2> QED
    BY <1>1, <2>1 DEF Shown, StacksOf
<1> HIDE DEF e
<1>7. Shown' = [v \in works \union {w} |-> IF v = w THEN e ELSE Shown[v]]
  BY <1>4, <1>5, <1>6
<1> QED
  BY <1>3, <1>7

\* Where a table is read only for the works there are, its other rows do not
\* count.
LEMMA SameShown ==
    ASSUME works' = works, \A w \in works : thumb'[w] = thumb[w],
           \A w \in works : RowsOf(workImages', w) = RowsOf(workImages, w),
           \A w \in works : RowsOf(workStacks', w) = RowsOf(workStacks, w)
    PROVE  Shown' = Shown
<1>1. Shown' = [v \in works' |-> [thumb |-> thumb'[v],
                                  list |-> ImagesInOrder(RowsOf(workImages', v)),
                                  stacks |-> {row.stack : row \in RowsOf(workStacks', v)}]]
  BY DEF Shown, StacksOf, RowsOf, ImagesInOrder
<1> QED
  BY <1>1 DEF Shown, StacksOf

\* A deleted work is withdrawn; a second request that deletes it does nothing.
LEMMA DeleteWorkShows ==
    ASSUME IInv, NEW q \in Requests, CommitDeleteWork(q), req[q].work \in Works
    PROVE  Catalogue!Withdraw(req[q].work) \/ UNCHANGED <<images, stacks, Shown>>
<1> DEFINE w == req[q].work
<1>1. /\ works' = works \ {w}
      /\ workImages' = workImages \ RowsOf(workImages, w)
      /\ workStacks' = workStacks \ RowsOf(workStacks, w)
      /\ thumb' = [thumb EXCEPT ![w] = Null]
      /\ UNCHANGED <<images, stacks>>
  BY DEF CommitDeleteWork, imageVars
<1>2. w \in Works
  OBVIOUS
<1> HIDE DEF w
<1>3. ASSUME NEW v, v # w PROVE RowsOf(workImages', v) = RowsOf(workImages, v)
  BY <1>1, <1>3 DEF RowsOf
<1>4. ASSUME NEW v, v # w PROVE RowsOf(workStacks', v) = RowsOf(workStacks, v)
  BY <1>1, <1>4 DEF RowsOf
<1>5. \A v \in works : v # w => thumb'[v] = thumb[v]
  BY <1>1 DEF IInv, TypeOK
<1>6. CASE w \in works
  <2>1. Shown' = [v \in works' |-> [thumb |-> thumb'[v],
                                    list |-> ImagesInOrder(RowsOf(workImages', v)),
                                    stacks |-> {row.stack : row \in RowsOf(workStacks', v)}]]
    BY DEF Shown, StacksOf, RowsOf, ImagesInOrder
  <2>2. \A v \in works' : v \in works /\ v # w
    BY <1>1
  <2>3. Shown' = [v \in works \ {w} |-> Shown[v]]
    BY <1>1, <1>3, <1>4, <1>5, <2>1, <2>2 DEF Shown, StacksOf
  <2>4. DOMAIN Shown = works
    BY DEF Shown
  <2>5. Shown' = Catalogue!Restrict(Shown, DOMAIN Shown \ {w})
    BY <2>3, <2>4 DEF Catalogue!Restrict
  <2>6. Catalogue!Withdraw(w)
    BY <1>1, <1>6, <2>4, <2>5 DEF Catalogue!Withdraw
  <2> QED
    BY <2>6 DEF w
<1>7. CASE w \notin works
  <2>1. works' = works
    BY <1>1, <1>7
  <2>2. Shown' = Shown
    BY <1>3, <1>4, <1>5, <1>7, <2>1, SameShown
  <2> QED
    BY <1>1, <2>2
<1> QED
  BY <1>6, <1>7

\* A deleted image disappears from every work, and nothing else does.
LEMMA DeleteImageShows ==
    ASSUME IInv, NEW q \in Requests, CommitDeleteImage(q)
    PROVE  Catalogue!RemoveImage(req[q].image) \/ UNCHANGED <<images, stacks, Shown>>
<1> DEFINE i == req[q].image
<1>1. /\ images' = images \ {i}
      /\ thumb' = [w \in Works |-> IF thumb[w] = i THEN Null ELSE thumb[w]]
      /\ workImages' = {row \in workImages : row.image # i}
      /\ UNCHANGED <<stacks, works, workStacks>>
  BY DEF CommitDeleteImage
<1> HIDE DEF i
<1>2. \A w \in works : RowsOf(workImages', w) = {r \in RowsOf(workImages, w) : r.image # i}
  BY <1>1 DEF RowsOf
<1>3. \A w \in works : RowsOf(workStacks', w) = RowsOf(workStacks, w)
  BY <1>1 DEF RowsOf
<1>4. \A w \in works : w \in Works
  BY DEF IInv, TypeOK
<1>5. CASE i \in images
  <2>1. Shown' = [v \in works' |-> [thumb |-> thumb'[v],
                                    list |-> ImagesInOrder(RowsOf(workImages', v)),
                                    stacks |-> {row.stack : row \in RowsOf(workStacks', v)}]]
    BY DEF Shown, StacksOf, RowsOf, ImagesInOrder
  <2>2. ASSUME NEW w \in works
        PROVE  [thumb |-> thumb'[w], list |-> ImagesInOrder(RowsOf(workImages', w)),
                stacks |-> {row.stack : row \in RowsOf(workStacks', w)}]
                  = Catalogue!Without(Shown[w], i)
    <3> DEFINE list == ImagesInOrder(RowsOf(workImages, w))
    <3>1. ImagesInOrder(RowsOf(workImages', w)) = Catalogue!Reduced(list, i)
      BY <1>2, RowsNumbered, InOrderWithout
    <3>2. thumb'[w] = IF thumb[w] = i THEN Null ELSE thumb[w]
      BY <1>1, <1>4
    <3> HIDE DEF list
    <3>3. Shown[w] = [thumb |-> thumb[w], list |-> list, stacks |-> StacksOf(w)]
      BY DEF Shown, list
    <3>4. {row.stack : row \in RowsOf(workStacks', w)} = StacksOf(w)
      BY <1>3 DEF StacksOf
    <3>5. Shown[w].thumb = thumb[w] /\ Shown[w].list = list
      BY <3>3
    <3>6. Catalogue!Without(Shown[w], i) =
            [Shown[w] EXCEPT !.thumb = thumb'[w], !.list = Catalogue!Reduced(list, i)]
      BY <3>2, <3>5 DEF Catalogue!Without
    <3>7. ASSUME NEW x, NEW y
          PROVE  [Shown[w] EXCEPT !.thumb = x, !.list = y]
                      = [thumb |-> x, list |-> y, stacks |-> StacksOf(w)]
      <4> DEFINE e == Shown[w]  a == thumb[w]  c == StacksOf(w)
      <4>1. e = [thumb |-> a, list |-> list, stacks |-> c]
        BY <3>3
      <4> HIDE DEF e, a, c
      <4>2. e \in [thumb : {a}, list : {list}, stacks : {c}]
        BY <4>1
      <4>3. [e EXCEPT !.thumb = x, !.list = y] \in [thumb : {x}, list : {y}, stacks : {c}]
        BY <4>2
      <4>4. \A r \in [thumb : {x}, list : {y}, stacks : {c}] :
              r = [thumb |-> x, list |-> y, stacks |-> c]
        OBVIOUS
      <4>5. [e EXCEPT !.thumb = x, !.list = y] = [thumb |-> x, list |-> y, stacks |-> c]
        BY <4>3, <4>4
      <4> QED
        BY <4>5 DEF e, c
    <3> QED
      BY <3>1, <3>4, <3>6, <3>7
  <2>3. DOMAIN Shown = works
    BY DEF Shown
  <2>4. Shown' = [w \in DOMAIN Shown |-> Catalogue!Without(Shown[w], i)]
    BY <1>1, <2>1, <2>2, <2>3
  <2>5. Catalogue!RemoveImage(i)
    BY <1>1, <1>5, <2>4 DEF Catalogue!RemoveImage
  <2> QED
    BY <2>5 DEF i
<1>6. CASE i \notin images
  <2>1. ASSUME NEW w \in works PROVE RowsOf(workImages', w) = RowsOf(workImages, w)
    <3>1. \A row \in RowsOf(workImages, w) : row.image \in images
      BY DEF IInv, RowsMatchAccepted
    <3> QED
      BY <1>2, <1>6, <3>1
  <2>2. ASSUME NEW w \in works PROVE thumb'[w] = thumb[w]
    <3>1. thumb[w] \in images \union {Null}
      BY DEF IInv, RowsMatchAccepted
    <3>2. thumb[w] = i => thumb[w] = Null
      BY <1>6, <3>1
    <3> QED
      BY <1>1, <1>4, <3>2
  <2>3. Shown' = Shown
    BY <1>1, <1>3, <2>1, <2>2, SameShown
  <2> QED
    BY <1>1, <1>6, <2>3
<1> QED
  BY <1>5, <1>6

\* Every step is one of the catalogue, or does not show.
LEMMA RefinementStep ==
    IInv /\ [Next]_vars => [Catalogue!Next]_(<<images, stacks, Shown>>)
<1> SUFFICES ASSUME IInv, [Next]_vars
             PROVE  Catalogue!Next \/ UNCHANGED <<images, stacks, Shown>>
  OBVIOUS
<1> USE DEF Tables, imageVars, workVars, requestVars, readVars
<1>0. TypeOK /\ InFlight
  BY DEF IInv
<1>1. ASSUME UNCHANGED workVars PROVE Shown' = Shown
  BY <1>1, SameShown DEF RowsOf
<1>2. ASSUME NEW i \in Images, InsertImage(i) PROVE Catalogue!AddImage(i)
  BY <1>1, <1>2 DEF InsertImage, Catalogue!AddImage
<1>3. ASSUME NEW s \in Stacks, CreateTechStack(s) PROVE Catalogue!AddStack(s)
  BY <1>1, <1>3 DEF CreateTechStack, Catalogue!AddStack
<1>4. ASSUME NEW q \in Requests,
             Check(q) \/ DatabaseFails(q) \/ \E request \in Request : Arrive(q, request)
      PROVE  UNCHANGED <<images, stacks, Shown>>
  BY <1>1, <1>4 DEF Check, CheckExists, CheckImages, CheckStacks, DatabaseFails, Arrive
<1>5. ASSUME NEW q \in Requests, CommitCreate(q)
      PROVE  \E w \in Works : Catalogue!Publish(w)
  <2>1. req[q] \in Request /\ req[q].body \in Body /\ req[q].body.stacks # {}
    BY <1>0, <1>5, UnansweredRequest, RequestType DEF CommitCreate, InFlight
  <2>2. PICK w \in Works \ (works \union removedWorks) :
               /\ works' = works \union {w}
               /\ Store(w, req[q].body) /\ ReferencesHold(req[q].body)
    BY <1>0, <1>5, <2>1, CreateStores
  <2>3. UNCHANGED <<images, stacks>>
    BY <1>5 DEF CommitCreate
  <2>4. \E e \in Catalogue!Saveable :
           Shown' = [v \in works \union {w} |-> IF v = w THEN e ELSE Shown[v]]
    BY <1>0, <2>1, <2>2, <2>3, StoreShows
  <2>5. DOMAIN Shown = works
    BY DEF Shown
  <2> QED
    BY <2>2, <2>3, <2>4, <2>5 DEF Catalogue!Publish
<1>6. ASSUME NEW q \in Requests, CommitUpdate(q)
      PROVE  \E w \in Works : Catalogue!Revise(w)
  <2> DEFINE w == req[q].work
  <2>1. /\ req[q] \in Request /\ req[q].body \in Body /\ req[q].body.stacks # {}
        /\ w \in Works
    BY <1>0, <1>6, UnansweredRequest, RequestType DEF CommitUpdate, InFlight
  <2>2. /\ ReferencesHold(req[q].body) /\ UNCHANGED <<images, stacks>>
        /\ w \in works /\ works' = works \union {w} /\ Store(w, req[q].body)
    BY <1>0, <1>6, <2>1, UpdateFindsWork DEF CommitUpdate
  <2> HIDE DEF w
  <2>3. PICK e \in Catalogue!Saveable :
           Shown' = [v \in works \union {w} |-> IF v = w THEN e ELSE Shown[v]]
    BY <1>0, <2>1, <2>2, StoreShows
  <2>4. DOMAIN Shown = works
    BY DEF Shown
  <2>5. Shown = [v \in works |-> Shown[v]]
    BY DEF Shown
  <2>6. Shown' = [Shown EXCEPT ![w] = e]
    BY <2>2, <2>3, <2>5
  <2>7. Catalogue!Revise(w)
    BY <2>2, <2>4, <2>6 DEF Catalogue!Revise
  <2> QED
    BY <2>1, <2>7
<1>7. ASSUME NEW q \in Requests, CommitDeleteWork(q)
      PROVE  (\E w \in Works : Catalogue!Withdraw(w)) \/ UNCHANGED <<images, stacks, Shown>>
  <2>1. req[q].work \in Works
    BY <1>0, <1>7, UnansweredRequest, RequestType DEF CommitDeleteWork
  <2> QED
    BY <1>7, <2>1, DeleteWorkShows
<1>8. ASSUME NEW q \in Requests, CommitDeleteImage(q)
      PROVE  (\E i \in Images : Catalogue!RemoveImage(i)) \/ UNCHANGED <<images, stacks, Shown>>
  <2>1. req[q].image \in Images
    BY <1>0, <1>8, UnansweredRequest, RequestType DEF CommitDeleteImage
  <2> QED
    BY <1>8, <2>1, DeleteImageShows
<1>9. ASSUME NEW r \in Readers, Read(r) PROVE UNCHANGED <<images, stacks, Shown>>
  BY <1>1, <1>9 DEF Read, ListWorks, PreloadStacks, PreloadImages, RespondWorks
<1>10. CASE UNCHANGED vars
  BY <1>1, <1>10 DEF vars
<1> QED
  BY <1>2, <1>3, <1>4, <1>5, <1>6, <1>7, <1>8, <1>9, <1>10
     DEF Next, Commit, Catalogue!Next

\* ImplementsCatalogue: whatever requests interleave, the listing changes as if
\* each were carried out at once, and gaps in display_order never show.
THEOREM Refinement == Spec => ImplementsCatalogue
<1>1. Init => Catalogue!Init
  <2> SUFFICES ASSUME Init PROVE Catalogue!Init
    OBVIOUS
  <2>1. Shown = << >>
    BY DEF Init, Shown
  <2> QED
    BY <2>1 DEF Init, Catalogue!Init
<1>2. IInv /\ [Next]_vars => [Catalogue!Next]_Catalogue!vars
  BY RefinementStep DEF Catalogue!vars
<1> QED
  BY <1>1, <1>2, Invariant, PTL DEF Spec, ImplementsCatalogue, Catalogue!Spec
=============================================================================
