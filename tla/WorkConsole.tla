------------------------------ MODULE WorkConsole ------------------------------
(* The administrator's works page: the list of WorksContext, the edit form   *)
(* opened from it, the form for a new work, deletions, the image box of the  *)
(* form with its uploads and the list of ImagesContext.  A request is sent,  *)
(* carried out by the backend and answered in steps of their own, and only   *)
(* the answer starts the refresh of the list it concerns; refreshes overlap  *)
(* and their answers arrive in any order.                                    *)
(*                                                                           *)
(* Of a work's fields there is a text and the thumbnail; titles, dates,      *)
(* links, tech stacks and reference images are entered and reset like these. *)
EXTENDS FiniteSets, Integers

CONSTANTS
    Works, Images, Texts,
    StoredAtFirst,  \* works and images there when the page is opened
    FirstText,
    None,           \* no thumbnail, no work, no form
    MaxOperations,  \* bound on saves, deletions and uploads begun
    MaxMounts       \* bound on edit forms opened

\* What may follow a refresh: the end of a submission, or of a deletion.
Sequels == [what : {"saved"}, mount : Nat] \union [what : {"deleted"}]

ASSUME ConsoleAssumption ==
    /\ None \notin Works \union Images \union Sequels
    /\ StoredAtFirst \subseteq Works \union Images
    /\ FirstText \in Texts
    /\ MaxOperations \in Nat /\ MaxMounts \in Nat

Contexts == {"works", "images"}
Value == [text : Texts, thumb : Images \union {None}]
PostForm == 0    \* the mount of the form for a new work

VARIABLES
    imgs,       \* stored images
    uploaded,   \* images that are or were stored
    rows,       \* stored works, None for none
    list,       \* works of WorksContext
    shown,      \* images of ImagesContext
    error,      \* error of each context
    asks,       \* refreshes not yet over
    asked,      \* refreshes begun
    status,     \* fileUploadingStates, per image
    editing,    \* editingWorkId
    form,       \* the edit form that is mounted
    mounts,     \* edit forms mounted so far
    saves,      \* submissions not yet answered, and where they are
    submitting, \* mounts whose isSubmitting is set
    deletes,    \* deletions not yet answered, and where they are
    deleting,   \* deletingWorkId
    operations, \* saves, deletions and uploads begun
    \* history variables
    newest,     \* the newest refresh applied, per context
    crossed,    \* what is shown was applied after the answer of a later refresh
    unseen      \* refreshes asked for when works were last changed by others, or
                \* the answer to a change of them was lost

tableVars == <<imgs, uploaded, rows>>
contextVars == <<list, shown, error, asks, asked, newest, crossed>>
formVars == <<editing, form, mounts>>
requestVars == <<status, saves, submitting, deletes, deleting, operations>>
consoleVars == <<tableVars, contextVars, formVars, requestVars, unseen>>

\* A refresh asked for now; then is what awaits its end.
Ask(context, then) ==
    {[id |-> asked + 1, of |-> context, at |-> "asked", then |-> then]}

AnyOf(images) == IF images = {} THEN None ELSE CHOOSE i \in images : TRUE

ConsoleInit ==
    /\ imgs = Images \intersect StoredAtFirst /\ uploaded = imgs
    /\ rows = [w \in Works |-> IF w \in StoredAtFirst
                               THEN [text |-> FirstText, thumb |-> AnyOf(imgs)]
                               ELSE None]
    /\ list = [w \in Works |-> None] /\ shown = {}
    /\ error = [c \in Contexts |-> FALSE]
    /\ asks = {[id |-> 1, of |-> "works", at |-> "asked", then |-> None],
               [id |-> 2, of |-> "images", at |-> "asked", then |-> None]}
    /\ asked = 2
    /\ status = [i \in Images |-> "none"]
    /\ editing = None /\ form = None /\ mounts = 0
    /\ saves = {} /\ submitting = {} /\ deletes = {} /\ deleting = None
    /\ operations = 0
    /\ newest = [c \in Contexts |-> 0] /\ crossed = [c \in Contexts |-> FALSE]
    /\ unseen = 0

-----------------------------------------------------------------------------
(* WorksViewer renders the form of the work being edited, if it is listed.   *)
(* A form that stays mounted resets its fields when the values passed to it  *)
(* differ from the last ones (initialKey); its image box keeps the selection *)
(* it was mounted with.                                                       *)

Mount(w, v) == [mount |-> mounts + 1, work |-> w, base |-> v, text |-> v.text,
                thumb |-> v.thumb, box |-> v.thumb]

\* Mutant: every new object of values resets the form.
ResetAlways(v) == [form EXCEPT !.base = v, !.text = v.text, !.thumb = v.thumb]

Reset(v) == IF form.base = v THEN form
            ELSE [form EXCEPT !.base = v, !.text = v.text, !.thumb = v.thumb]

Render(ed, ls) ==
    /\ editing' = ed
    /\ form' = IF ed = None \/ (ed # None /\ ls[ed] = None) THEN None
               ELSE IF form # None /\ form.work = ed THEN Reset(ls[ed])
               ELSE Mount(ed, ls[ed])
    /\ mounts' = IF form' # None /\ (form = None \/ form'.mount # form.mount)
                 THEN mounts + 1 ELSE mounts

ToggleEdit(w) ==
    /\ list[w] # None
    /\ mounts < MaxMounts
    /\ Render(IF editing = w THEN None ELSE w, list)
    /\ UNCHANGED <<tableVars, contextVars, requestVars, unseen>>

Edit(t) ==
    /\ form # None /\ t # form.text
    /\ form' = [form EXCEPT !.text = t]
    /\ UNCHANGED <<tableVars, contextVars, requestVars, unseen, editing, mounts>>

\* The box, for one image; its effect hands every selection to the form.
ToggleImage(i) ==
    /\ form # None /\ i \in shown
    /\ LET chosen == IF form.box = i THEN None ELSE i
       IN  form' = [form EXCEPT !.box = chosen, !.thumb = chosen]
    /\ UNCHANGED <<tableVars, contextVars, requestVars, unseen, editing, mounts>>

-----------------------------------------------------------------------------
(* handleSubmit of both forms.  A form without a thumbnail sends nothing.    *)
(* Between the commit and the answer the page knows nothing of the change.   *)

Submit(mount, w, v) ==
    /\ operations < MaxOperations
    /\ mount \notin submitting
    /\ v.thumb # None
    /\ saves' = saves \union {[mount |-> mount, work |-> w, value |-> v, at |-> "sent"]}
    /\ submitting' = submitting \union {mount}
    /\ operations' = operations + 1
    /\ UNCHANGED <<tableVars, contextVars, formVars, status, deletes, deleting, unseen>>

SubmitEdit ==
    /\ form # None
    /\ Submit(form.mount, form.work, [text |-> form.text, thumb |-> form.thumb])

SubmitNew(w, i) ==
    /\ rows[w] = None /\ list[w] = None /\ i \in shown
    /\ \A s \in saves \union deletes : s.work # w
    /\ Submit(PostForm, w, [text |-> FirstText, thumb |-> i])

\* The backend's checks: the work is there unless it is new, and so is the image.
Acceptable(s) ==
    /\ s.value.thumb \in imgs
    /\ s.mount # PostForm => rows[s.work] # None

\* External: handleCreateWork, handleUpdateWork.
SaveCommits(s) ==
    /\ s.at = "sent" /\ Acceptable(s)
    /\ rows' = [rows EXCEPT ![s.work] = s.value]
    /\ saves' = (saves \ {s}) \union {[s EXCEPT !.at = "stored"]}
    /\ UNCHANGED <<imgs, uploaded, contextVars, formVars, status, submitting, deletes,
                   deleting, operations, unseen>>

SaveAnswered(s) ==
    /\ s.at = "stored"
    /\ saves' = saves \ {s}
    /\ asks' = asks \union Ask("works", [what |-> "saved", mount |-> s.mount])
    /\ asked' = asked + 1
    /\ error' = [error EXCEPT !["works"] = FALSE]
    /\ UNCHANGED <<tableVars, list, shown, newest, crossed, formVars, status,
                   submitting, deletes, deleting, operations, unseen>>

\* Refused, or the answer of a save that was made is lost.
SaveFails(s) ==
    /\ saves' = saves \ {s}
    /\ submitting' = submitting \ {s.mount}
    /\ unseen' = IF s.at = "stored" THEN asked ELSE unseen
    /\ UNCHANGED <<tableVars, contextVars, formVars, status, deletes, deleting, operations>>

-----------------------------------------------------------------------------
(* WorksViewer.handleDelete.  The handler compares the editingWorkId of the  *)
(* render it was created in.  Only the button of the work in deletingWorkId  *)
(* is disabled: a deletion begun or ended meanwhile frees the other one, and *)
(* a work may be asked to be deleted twice.                                  *)

HandleDelete(w) ==
    /\ operations < MaxOperations
    /\ list[w] # None /\ deleting # w
    /\ deletes' = deletes \union
          {[id |-> operations, work |-> w, editing |-> editing, at |-> "sent"]}
    /\ deleting' = w
    /\ operations' = operations + 1
    /\ UNCHANGED <<tableVars, contextVars, formVars, status, saves, submitting, unseen>>

\* External: handleDeleteWork looks the work up and then deletes its row, which
\* is no error if another request has done so in between.
DeleteFindsWork(d) ==
    /\ d.at = "sent" /\ rows[d.work] # None
    /\ deletes' = (deletes \ {d}) \union {[d EXCEPT !.at = "found"]}
    /\ UNCHANGED <<tableVars, contextVars, formVars, status, saves, submitting, deleting,
                   operations, unseen>>

DeleteCommits(d) ==
    /\ d.at = "found"
    /\ rows' = [rows EXCEPT ![d.work] = None]
    /\ deletes' = (deletes \ {d}) \union {[d EXCEPT !.at = "gone"]}
    /\ UNCHANGED <<imgs, uploaded, contextVars, formVars, status, saves, submitting,
                   deleting, operations, unseen>>

\* Mutant: the list is not asked for again after a deletion.
DeleteWithoutRefresh(d) ==
    /\ d.at = "gone"
    /\ deletes' = deletes \ {d}
    /\ deleting' = None
    /\ Render(IF d.editing = d.work THEN None ELSE editing, list)
    /\ UNCHANGED <<tableVars, contextVars, status, saves, submitting, operations, unseen>>

DeleteAnswered(d) ==
    /\ d.at = "gone"
    /\ deletes' = deletes \ {d}
    /\ asks' = asks \union Ask("works", [what |-> "deleted"])
    /\ asked' = asked + 1
    /\ error' = [error EXCEPT !["works"] = FALSE]
    /\ Render(IF d.editing = d.work THEN None ELSE editing, list)
    /\ UNCHANGED <<tableVars, list, shown, newest, crossed, status, saves, submitting,
                   deleting, operations, unseen>>

DeleteFails(d) ==
    /\ deletes' = deletes \ {d}
    /\ deleting' = None
    /\ unseen' = IF d.at = "gone" THEN asked ELSE unseen
    /\ UNCHANGED <<tableVars, contextVars, formVars, status, saves, submitting, operations>>

-----------------------------------------------------------------------------
(* useDragAndDropUploader: files are sent at once, each on its own.          *)

UploadFile(i) ==
    /\ operations < MaxOperations
    /\ i \notin uploaded /\ status[i] = "none"
    /\ status' = [status EXCEPT ![i] = "uploading"]
    /\ operations' = operations + 1
    /\ UNCHANGED <<tableVars, contextVars, formVars, saves, submitting, deletes,
                   deleting, unseen>>

\* External: handleUploadImage.
UploadCommits(i) ==
    /\ status[i] = "uploading" /\ i \notin uploaded
    /\ imgs' = imgs \union {i} /\ uploaded' = uploaded \union {i}
    /\ UNCHANGED <<rows, contextVars, formVars, requestVars, unseen>>

UploadAnswered(i) ==
    /\ status[i] = "uploading" /\ i \in uploaded
    /\ status' = [status EXCEPT ![i] = "success"]
    /\ asks' = asks \union Ask("images", None)
    /\ asked' = asked + 1
    /\ error' = [error EXCEPT !["images"] = FALSE]
    /\ UNCHANGED <<tableVars, list, shown, newest, crossed, formVars, saves, submitting,
                   deletes, deleting, operations, unseen>>

UploadFails(i) ==
    /\ status[i] = "uploading"
    /\ status' = [status EXCEPT ![i] = "error"]
    /\ UNCHANGED <<tableVars, contextVars, formVars, saves, submitting, deletes, deleting,
                   operations, unseen>>

\* ImagesViewer in another tab deletes an image; works lose it as a thumbnail.
DeleteImageElsewhere(i) ==
    /\ i \in imgs
    /\ imgs' = imgs \ {i}
    /\ rows' = [w \in Works |-> IF rows[w] # None /\ rows[w].thumb = i
                                THEN [rows[w] EXCEPT !.thumb = None] ELSE rows[w]]
    /\ unseen' = IF rows' # rows THEN asked ELSE unseen
    /\ UNCHANGED <<uploaded, contextVars, formVars, requestVars>>

-----------------------------------------------------------------------------
(* refreshWorks, refreshImages.                                              *)

Serve(r) ==
    /\ r.at = "asked"
    /\ asks' = (asks \ {r}) \union
          {[id |-> r.id, of |-> r.of, at |-> "served", then |-> r.then,
            reply |-> IF r.of = "works" THEN rows ELSE imgs]}
    /\ UNCHANGED <<tableVars, list, shown, error, asked, newest, crossed, formVars,
                   requestVars, unseen>>

\* What follows the await, whether or not the refresh has worked: a save closes
\* the open form, whichever that is, and ends; a deletion ends.
Continue(then, ls) ==
    LET saved == then # None /\ then.what = "saved"
    IN  /\ Render(IF saved /\ then.mount # PostForm THEN None ELSE editing, ls)
        /\ submitting' = IF saved THEN submitting \ {then.mount} ELSE submitting
        /\ deleting' = IF then # None /\ then.what = "deleted" THEN None ELSE deleting

RefreshArrives(r) ==
    /\ r.at = "served"
    /\ asks' = asks \ {r}
    /\ list' = IF r.of = "works" THEN r.reply ELSE list
    /\ shown' = IF r.of = "images" THEN r.reply ELSE shown
    /\ crossed' = [crossed EXCEPT ![r.of] = r.id < newest[r.of]]
    /\ newest' = [newest EXCEPT ![r.of] = IF r.id > @ THEN r.id ELSE @]
    /\ Continue(r.then, list')
    /\ UNCHANGED <<tableVars, error, asked, status, saves, deletes, operations, unseen>>

\* Mutant: a failed refresh ends without what was to follow it.
RefreshFailsForGood(r) ==
    /\ asks' = asks \ {r}
    /\ error' = [error EXCEPT ![r.of] = TRUE]
    /\ UNCHANGED <<tableVars, list, shown, asked, newest, crossed, formVars,
                   requestVars, unseen>>

RefreshFails(r) ==
    /\ asks' = asks \ {r}
    /\ error' = [error EXCEPT ![r.of] = TRUE]
    /\ Continue(r.then, list)
    /\ UNCHANGED <<tableVars, list, shown, asked, newest, crossed, status, saves,
                   deletes, operations, unseen>>

-----------------------------------------------------------------------------
Administrator ==
    \/ \E w \in Works : ToggleEdit(w) \/ HandleDelete(w)
    \/ \E t \in Texts : Edit(t)
    \/ \E i \in Images : ToggleImage(i) \/ UploadFile(i) \/ DeleteImageElsewhere(i)
    \/ SubmitEdit
    \/ \E w \in Works, i \in Images : SubmitNew(w, i)

Answers ==
    \/ \E s \in saves : SaveAnswered(s) \/ SaveFails(s)
    \/ \E d \in deletes : DeleteAnswered(d) \/ DeleteFails(d)
    \/ \E i \in Images : UploadAnswered(i) \/ UploadFails(i)
    \/ \E r \in asks : RefreshArrives(r) \/ RefreshFails(r)

Backend ==
    \/ \E s \in saves : SaveCommits(s)
    \/ \E d \in deletes : DeleteFindsWork(d) \/ DeleteCommits(d)
    \/ \E i \in Images : UploadCommits(i)
    \/ \E r \in asks : Serve(r)

ConsoleNext == Administrator \/ Backend \/ Answers

ConsoleSpec == ConsoleInit /\ [][ConsoleNext]_consoleVars

\* Every request is answered or fails in the end.
ConsoleFairSpec == ConsoleSpec /\ WF_consoleVars(Answers)

-----------------------------------------------------------------------------
(* Properties. *)

\* Types of all variables.
ConsoleTypeOK ==
    /\ imgs \subseteq uploaded /\ uploaded \subseteq Images /\ shown \subseteq Images
    /\ rows \in [Works -> Value \union {None}]
    /\ list \in [Works -> Value \union {None}]
    /\ error \in [Contexts -> BOOLEAN] /\ crossed \in [Contexts -> BOOLEAN]
    /\ \A r \in asks : r.id \in 1 .. asked /\ r.of \in Contexts
    /\ status \in [Images -> {"none", "uploading", "success", "error"}]
    /\ editing \in Works \union {None} /\ deleting \in Works \union {None}
    /\ form # None => /\ form.work = editing /\ form.mount = mounts
                      /\ [text |-> form.text, thumb |-> form.thumb] \in Value
                      /\ form.base = list[form.work]
    /\ \A s \in saves : s.mount \in submitting /\ s.value.thumb # None
    /\ submitting \subseteq 0 .. mounts
    /\ operations \in 0 .. MaxOperations /\ unseen \in 0 .. asked

\* The backend has changed a work and the page has not heard of it yet.
Unanswered ==
    \/ \E s \in saves : s.at = "stored"
    \/ \E d \in deletes : d.at = "gone"

Settled(context) ==
    /\ \A r \in asks : r.of # context
    /\ ~error[context] /\ ~crossed[context]

\* Once a change has been answered and its refresh is over, the list shows the
\* works as they are stored, and a file whose upload is reported as a success
\* can be selected: each save, deletion and upload is followed by a refresh
\* that sees it, and one refresh is enough to see also what others changed and
\* what was saved but not reported so.  Excepted are an error, which is kept,
\* and an answer on the screen that came in after that of a later refresh: the
\* last to arrive is shown, not the last asked for, until the next one.
ListsAreStored ==
    /\ (Settled("works") /\ ~Unanswered /\ newest["works"] > unseen) => list = rows
    /\ Settled("images") => \A i \in imgs : status[i] = "success" => i \in shown

\* What was typed and selected in an open form survives every refresh, made for
\* whatever reason, that brings the same values of its work.
RefreshKeepsForm ==
    [][(list' # list \/ asks' # asks) /\ form # None /\ form' # None
          /\ form'.mount = form.mount /\ list'[form.work] = list[form.work]
       => form' = form]_consoleVars

\* A submission ends: the button of a form does not stay disabled.
SubmissionEnds == \A m \in 0 .. MaxMounts : m \in submitting ~> m \notin submitting
=============================================================================
