# TLA+ verification of nextjs-go-admin-portfolio

A portfolio site: a Next.js frontend (public pages and an administrator's
console), a Go backend (Echo, Gorm, WebSocket), a Python service that computes
text embeddings for search, and PostgreSQL with pgvector. The repository has
no unit tests for any of it. This directory models the parts whose behaviour
depends on the order in which things happen, checks them with TLC on small
instances and proves their main properties with TLAPS.

    tlc -config SearchIndex.cfg SearchIndex              one run
    tlapm SearchIndex_proofs.tla                         one module of proofs

## The system

| component | state | operations | interacts with |
|---|---|---|---|
| work store (`backend/work_write.go`, `work_read.go`, `tech_stack_handler.go`, `db/init/001_schema.sql`) | tables of works, their images, links, tech stacks | create, edit, delete a work; create a tech stack; list | image store (foreign keys with CASCADE and SET NULL), search index (`search_dirty`) |
| image store (`backend/image_handler.go`) | files in `UPLOAD_DIR`, rows of `common_images` | upload, serve, delete | work store |
| search index (`embedding/app/db.py`, `reindex.py`, `main.py`, `db/init/002_search.sql`) | `search_dirty`, `search_index_error`, chunks with vectors | periodic or manual reindex run: fetch dirty works, embed, save | work store writes the flag, search reads the chunks |
| search and ranking (`backend/search.go`, `work_read.go`) | none | embed the query, nearest chunks, fetch works; order by clicks | embedding service over HTTP, work store |
| click limiter (`backend/click_limiter.go`) | map from visitor and work to the time of the last click, under a mutex | `isAllowedClick` | click requests |
| websocket hub (`backend/websocket.go`) | map of clients under a mutex, one channel per client, `wsSeq` | add, remove, broadcast; a reader and a writer goroutine per client | click requests, browsers |
| click recording (`handleCreateWorkClick`) | rows of `isirmt_work_clicks` | limit, insert, broadcast | limiter, hub |
| live feed (`frontend/.../realtimeWorld.tsx`) | socket, last sequence number, retry count, timers, falling boxes | connect, receive, reconnect, stop after 30 boxes | hub |
| public work list and dialogs (`components/works/*`, `useWorkListView.ts`, `useWorkTechFilter.ts`, `useBackButtonDismiss.ts`, `useScrollbarControl.ts`) | term, hits, order, ranking, filter; selected work, open window, style of the body, entries in the session history | type, sort, filter, open, close, Back, Forward | backend over `app/api`, the browser's history, the live feed (a clicked box opens a work) |
| console (`components/console/*`, `useDragAndDropUploader.ts`, `contexts/*`) | lists of works and images, open form, submissions, uploads | edit, submit, delete, upload, refresh | backend over `app/api` |
| hero deck (`components/hero/*`) | current page, animations, pagination timer, opening timeline | page, pause, play, seek | browser timers and animations |
| spotlight sketch (`useSpotlightSketch.ts`, `useTransitionState.ts`, `footer.tsx`) | canvas, WebGL objects, chain of animation frames, transitions | run effect, draw, hide, show, resize | browser frames and observers |
| admin access (`middleware.go`, `app/api/auth/route.ts`) | none | compare or add a secret header | all writing handlers |

### What is hard here, and what makes each part correct

* **Two transactions with work between them.** A reindex run reads works in
  one transaction, embeds for seconds to minutes and marks them clean in
  another. Handlers validate with separate queries and then open a
  transaction. *Correct*: an index entry is one whole saved text; the only
  stale index behind a clean flag comes from an edit in the gap; tables hold
  exactly the last accepted request; "ok" means saved.
* **Partial failure and restart.** A batch is lost to one deleted work, an
  exception or a restart. An upload stops anywhere between file and row.
  *Correct*: dirty works are indexed in the end; an indexed work stays
  findable; a row always has its whole file.
* **Torn reads.** A listing is several queries without a transaction.
  *Correct*: a work listed without a tech stack is one deleted meanwhile. That
  is all: an edit that falls between the queries leaves the old title and
  thumbnail beside the new images, and nothing in the code prevents it.
* **Goroutines that end each other.** Reader, writer and broadcasts race to
  remove a client; closing a channel twice would end the process, sending on a
  closed one panics. *Correct*: closed once; a connected client that a
  broadcast got past has the event; both goroutines of a removed client end. The
  clients left when a panic cuts a broadcast short do miss it.
* **Time read before a lock.** Clicks reach the limiter's map out of the order
  of their times, with evictions between them. *Correct*: accepted clicks are
  at least `minInterval` apart; the map forgets.
* **Ordering across processes.** Sequence numbers are taken before the
  broadcast and start again with the process, while browsers keep the highest
  they saw; overlapping fetches in the browser are answered in any order. *Correct*: a
  dropped event is explained by one that overtook it; hits answer the term in
  the box; lists catch up with the store.
* **Renders between events.** A handler uses the values of the last render, an
  effect may run again at any time, `history.back()` is done later than it is
  called. *Correct*: a dialog consumes its own history entry; two nested locks on
  the body leave it as it was; the deck is at rest exactly when nothing moves it;
  one chain of frames, no WebGL object left behind.

`PROJECT.json` lists every such hazard at its line with the properties that
cover it. Some hazards bite in the code as it is. The model then makes the step,
and the property excepts exactly that case by a history variable with a name;
what it checks is everything around it:

| property | excepts | which is |
|---|---|---|
| `LockedWhileOpen` | `crossed` | locks on the body released out of their order: the page stays locked |
| `NoDeadEntry` | `raced` | a dialog opened while the `back()` of the last is queued: it leaves a dead entry |
| `ListsAreStored` | `crossed` | an answer that came in after that of a later refresh, until the next refresh |
| `FlakesBlendInTheLight` | `jumped` | a frame as long as a transition: BLEND stays on |
| `PausedOnlyWhenWanted` | `wanted` | a cancelled pointer, a page made inert during a drag, a drag of a finished timeline: it stays paused |
| `HitsAnswerTheTerm` | `failed` | a failed search: the hits of an earlier term stay |

## Modules

### SearchIndex - the index behind search

State: the works table reduced to what a run reads (`content`: a version
number counted up by every edit, and whether the description is empty, which
decides the set of chunk kinds), the flag and error columns, the chunks, and
per run where it is (`runPc`), what it fetched (`batch`, `seen`). Actions:
`CreateWork`, `UpdateWork`, `DeleteWork` are the commits of the handlers;
`FetchDirtyWorks`, `EmbedPassages`, `SaveSearchChunks` are the three parts of
`main` in `reindex.py`, with `SaveBreaksForeignKey` (a work of the batch is
gone: the INSERT fails and everything rolls back), `RunFails` (any other
exception) and `Restart`. Several runs may overlap: nothing in the code
excludes a manual `python -m app.reindex` beside the periodic one.
`overtaken` is a history variable: works edited while some run held them.

Each transaction is one step. Under READ COMMITTED that is exact here because
no statement reads what an earlier one of the same transaction wrote, except by
the ids of the batch, and the rows it writes are locked until commit.

* `search` (2 works, 2 runs, 2 versions, 1 failure or restart):
  `ChunksAreOneVersion`, `CleanIsFreshUnlessOvertaken`,
  `IndexedStaysSearchable`, `DirtyIsReindexed`. Two runs and two versions
  allow an older text to be saved after a newer one and an edit between any
  two steps. `DirtyIsReindexed` holds under `FairSpec`: weak fairness of the
  periodic run's fetch, embedding and save, which `reindex_periodically`
  repeats in an endless loop that catches every exception. Nothing is assumed
  of manual runs, of the backend, or of failures beyond their being finite.
* `search_stale` is violated: fetch, edit, save leaves the flag clear and the
  old text indexed. The UPDATE in `save_search_chunks` does not ask whether
  the work changed since the fetch.

`search_index_error` is only ever cleared: no code writes an error into it, and
none reads it.

Proved (`SearchIndex_proofs`) for any sets of works and runs and any bounds:
type correctness and the three safety properties. The inductive invariant adds
what a run remembers (the version in `seen` is one the work had; equal to the
current one unless overtaken) to the properties; without it the save step
could write anything.

### WorkCatalogue, WorkStore, WorkStoreRefinement - the works API

`WorkCatalogue` is the promise: a set of published works, each shown as it was
last saved in one piece, except that a removed image disappears from every
work. `WorkStore` is the tables and the handlers: each request goroutine goes
through arrival, existence check, image check, tech stack check and its
transaction, interleaved with all others. `CommitUpdate` is the UPDATE of a row
(`UpdateRow`), which is no error when the row is gone, and `ReplaceRelations`,
the deletes and inserts of `replaceWorkRelations`; `CommitCreate` writes a new
row and its relations. What the handlers do not ask, the database does:
`ForeignKeys` is a conjunct of both, so that a transaction whose rows would refer
to nothing cannot commit, and `DatabaseFails` rolls it back and answers 500, as
it does for a query that fails. `CheckStacks` answers 400 also for a link of
which a part is missing, which the code finds out only then. `CommitDeleteWork`
and `CommitDeleteImage` cascade as the schema says; `InsertImage` and
`CreateTechStack` add rows. A listing goroutine reads the rows of the works, tech
stacks and images in separate steps. `accepted` is a history variable: what was
last saved of a work. The thumbnail stands for the columns of a row (title, texts
and dates are read and written with it); links are replaced in the same
transactions, refer to nothing and are left out. The fields checked before the
first query are taken as good.

`WorkStoreRefinement` maps tables to the catalogue the way `respondWorks` does
(images sorted by `display_order`).

* `store` (1 work, 2 images, 1 stack, 2 concurrent requests, 1 listing, lists
  of no image, of one and of four with repetitions): `RowsMatchAccepted`,
  `UpdateOkMeansSaved`, `ListedWithoutStackIsGone` and the refinement
  `ImplementsCatalogue`. The long list leaves every kind of gap in
  `display_order` when an image of it is deleted; one work is enough for two
  requests to collide, since rows of different works never meet. A body with no
  tech stack may be sent: `UpdateOkMeansSaved` is lost when `CheckStacks` lets it
  through, since an edit of a deleted work then has no row whose foreign key
  could fail. 596,596 states.

Proved (`WorkStore_proofs`): type correctness, the three safety properties, and
`EveryWorkHasStack`, for any sets and any image lists. The
inductive invariant says that the rows of a work are those of `accepted` less
the removed images, that a request past its stack check has a non-empty stack
set (`InFlight`), and what each listing has read relative to what is still there.
`UpdateOk` rests on the third part and on the schema: the body names a tech stack,
its row is inserted, so by `ForeignKeys` the work is there and the UPDATE found
it.

The refinement is proved too (`Refinement`: `Spec => ImplementsCatalogue`), for
lists of any length. `ImagesInOrder` places a row by counting the rows before
it, so what has to be shown is that in a finite set of rows with distinct
positions each count up to the size is taken exactly once (`Rank`,
`Enumeration`), that a saved list is read back as it was (`ListInOrder`), and
that a list read without the rows of a deleted image is the list without that
image (`InOrderWithout`), whatever gaps this leaves. Then each transaction is a
step of the catalogue (`StoreShows`, `DeleteWorkShows`, `DeleteImageShows`) and
every other step a stutter.

### ImageStore - file and row

Every step of `handleUploadImage` that can fail is an action, in the order of
the code: declared size, create, copy, size, seek, sync (its error ignored),
insert (whose success may be lost). `Restart` ends all requests; `PowerLoss`
also damages files that were not synced. Serving and deleting are two steps
each, with the query first.

* `image_safety` (3 uploads, 1 reader, 2 deleters, 2 crashes): `RowHasFile`,
  `ServingFindsFile`, `AnswerIsTrue`.

The model also shows what is *not* true and no property claims: failed uploads
and deletions leave files behind, and an upload answered with 500 may have
been stored. Proved (`Backend_proofs`): `ImageTypeOK` and the three invariants, from an
invariant that ties the file's state to the point the upload has reached.

### ClickLimiter

`Call` reads the clock, `Accept` or `Reject` is the critical section, in any
order among the waiting calls. `lastAccepted` is a history variable.

* `limiter_safety` (3 keys, 2 callers, interval 1, 2 entries, clock to 15):
  `AcceptedApart`, `EntriesAreRecent`. The clock passes the ten intervals
  after which entries are evicted, and evictions by size and by age happen.

Assumption `MaxWait <= 9 * MinInterval`: no call waits longer than 18 seconds
for the mutex. Without it a call can find that the entry it should be refused
by has been evicted. Proved (`Backend_proofs`) for all keys, callers and
intervals under that assumption.

### WsHub

Per connection the reader and the writer goroutine, per click request a
broadcast: number, snapshot under the mutex, one channel operation at a time.
A send to a closed channel panics, which `middleware.Recover` turns into a 500
(`SendPanics`).

* `hub` (1 connection, 2 broadcasts, buffer 1, 4 messages):
  `ClosedOnceWhenRemoved`, `PassedClientsHaveIt`, `RemovedGoroutinesEnd`,
  `DeadPeerLeaves`. Two messages overflow a buffer of one; two broadcasts and
  two goroutines make every pair of removers race, and connections meet each
  other only in the snapshot (the proofs are for any number). Fairness:
  goroutines that can go on do; a read fails in the end when the connection is
  closed or the browser is dead (the pong deadline), a write when the
  connection is closed (the next ping). Nothing is assumed of browsers or
  visitors.

`PassedClientsHaveIt` is about clients the loop of a broadcast has got past while
it runs. `EndBroadcast` ends it, by a panic too: the clients not reached then
never get the event, and no property says that they do.

Proved (`Backend_proofs`) for any number of clients, broadcasts and any buffer:
`TypeOK`, the two invariants and `PanicNeedsRemoval` (a broadcast is cut short
only when another goroutine removed a client of its snapshot), from an invariant on what a broadcast holds in
each of its states and that a client once removed never returns.

### ClickFeed

A click from `handleCreateWorkClick` to a box on another visitor's screen. A
request goes through limiter (`AllowClick`), INSERT (`InsertClick`,
`InsertFails`), the number from `atomic.AddUint64` (`NextSeq`) and
`Broadcast`, interleaved with the others. The browser is `WorkClickPhysics`:
`Connect` and its handlers `Open`, `Receive`, `SocketEnds`, the reconnect timer
`TimerFires`, the effects `Rerun` (cleanup and new run on a resize), `Unmount`,
`EnoughBoxes`, and the auto spawn interval. Each socket remembers the effect
run that made it, which is the closure over `disposed`. `RestartBackend`
forgets the limiter, the clients and `wsSeq`; events already sent may still
arrive. Hub and limiter appear as their own modules show them: a broadcast
reaches every client in one step (a client passed over is one removed, whose
socket ends: `LoseSocket`), a key is refused and later forgotten. The history
variables `shown` and `dropped` hold the events that made a box and those the
sequence filter turned away.

* `feed` (2 requests, 2 keys, 2 clicks, 2 boxes, 1 auto spawned box, 1 restart,
  1 loss, 2 effect runs): `LiveSocketIsCurrent`, `ShownIsStored`,
  `DropsExplained`, `EndedStaysEnded`, `Reconnects`. Two clicks let one
  overtake the other, or collide with numbers given out before a restart; one
  loss, one resize and the end of the feed meet each pending timer in any
  order. Fairness, for `Reconnects`: a backend that is up accepts a connect, a
  timer fires, a socket that is closing or whose process is gone closes (the
  exit of a process closes its connections). A server machine that vanishes
  without closing them is not covered: the browser sends nothing and has no
  timeout of its own.

Proved (`ClickFeed_proofs`) for any requests, keys, sockets and bounds: the
types and all four safety properties. The inductive invariant has three parts.
On sockets: a reconnect that is due is that of `wsRef` and `timerRef`, and a
socket being closed is one the page will not replace (without it a timer could
fire beside a live socket), and sockets are counted against runs, losses and
restarts. On numbers: each belongs to one request or one event of its process,
which a count of the requests still to draw one ties to `clicks`. On order: a
socket delivers the events of a process before those of the next, none twice
and none that is on the screen; only with that does a drop imply an event that
overtook it.

What the model shows and no property claims: after a restart of the backend
the browser drops every click until the numbers have caught up with the highest
it saw (the second case of `DropsExplained`); a resize after the feed has ended
opens a socket again, since `connect` does not ask `shouldReconnectRef`; a
resize stops the auto spawn early; a click whose INSERT failed is answered 202
and not stored when it is tried again within the interval.

### WorkDialogs - details, search window, Back and the scroll lock

`list.tsx` with `selectedDetailScreen.tsx`, the opening and closing of
`searchWindow.tsx`, and the two hooks they share. Every event of the visitor is
one step, since React finishes rendering and effects of a click, a key or a
popstate before the next: `ClickCard`, `ClickCube` (a falling box, passed on by
`SelectingCubeContext`), `ClickHit`, `DismissDetail`, `OpenSearch`,
`CloseSearch`. A box or a hit is selected by an effect, so the detail is not
rendered with the click: `Choose` leaves the work in `chosen`, and `RenderChosen`
opens it, locks the body and pushes the entry later, with other events and
traversals in between. The session history is external and is what makes it hard:
`entries` and `pos` are the browser's, `pushState` (`PushEntry`) acts at once,
`history.back()` (`TakeBackEntry`) and the visitor's buttons (`PressButton`)
only append to `travel`, and `Traverse` does the oldest of them later and calls
`handlePopState`. `body` holds the style and what each lock will restore.
History variables: `spent` counts Backs no dialog used up, `raced` and
`crossed` mark the two cases excepted below.

* `work_dialogs` (2 works, 4 pushes, 3 uses of Back or Forward; 1,503,751 states):
  `OpenHasEntry`, `NoDeadEntry`, `LeavingTakesABackOfItsOwn`, `LockedWhileOpen`.
  Two works give switching from one detail to the next, four pushes a dialog
  opened again behind a queued `back()`, three moves a Back that races CLOSE
  and a Forward to a dead entry.

Proved (`WorkDialogs_proofs`) for any works and any number of pushes and moves:
the types and the four properties. The inductive invariant accounts for every
step back: `spent` is what the visitor's position leaves over once the queued
`back()`s of closed dialogs and the entry of the open one are counted
(`StepsAreAccounted`), and while no dialog opened in the wake of another there
is at most one entry above the page's own (`OneEntryAbove`). For the body, the
locks are nested: the older one restores what the page had, the younger one
"hidden".

What it shows and the properties except by name: a search opened with "/" over
a detail and a detail closed first leaves the body locked when the search
closes (the younger lock restores "hidden"); a dialog opened again while the
`back()` of the last one is queued is dismissed by it and leaves a dead entry;
a Back pressed together with CLOSE leaves the page, since both are done.

### WorkBrowsing - what the public page fetches

`WorksContext`'s first fetch, `useWorkListView` with `useWorkTechFilter`, and
the search effect of `searchWindow.tsx`, against a server whose works are
created and deleted. `Type` is a run of the effect (cleanup of the last one
included), `DelayEnds` its timer, `HitsArrive`, `SearchFails` and `AbortEnds`
the ends of its fetch, each through `Settle`, the finally block that looks at
`searchRequestIdRef`. `RankingEffect` is the effect on order and works;
`VisibleWorks` and `FilteredWorks` are the two memos. A ranking is any set of
the right size: clicks come in all the time.

* `work_browsing` (2 works, one with the tech stack, 2 terms, 2 changes of the
  term, 3 of the order, 2 of the server): `HitsAnswerTheTerm`,
  `HiddenByNewcomersOnly`, `SearchEnds`. Two changes leave an abandoned search
  under a running one; three orders go to popular, away and back.
  Fairness, for `SearchEnds`: timers fire and a fetch ends, with an answer or
  an error, as the browser sees to it.

Proved (`WorksContext_proofs`) for any works, terms and bounds: the types,
`HitsAnswerTheTerm` and `HiddenByNewcomersOnly`. The inductive invariant says
that only the search of the last effect run is not aborted and that it asks for
what is in the box, and that a ranking asked for, served or shown was limited by
the number of works that are listed now (`RankingInv`): when these change the
effect runs again. The second property then is a count: a ranking that left
listed works out is full, and as many of its works are unknown to the page.

What it shows and no property claims: after a failed search the hits of an
earlier term stay on the screen without a word (excepted by `failed`);
`isRankingLoading` stays set when the order leaves "popular" during the fetch;
`rankingError` is shown nowhere; "not found" is shown while the first works are
still being fetched.

### WorkConsole - the administrator's page

`worksViewer.tsx`, `workRegisterForm.tsx` (for an edit and for a new work),
`imageSelectingBox.tsx`, `useDragAndDropUploader.ts` and the works and images
contexts, with the backend's tables as far as they answer. A request (`saves`,
`deletes`, `status`) is sent, carried out by the backend (`SaveCommits`,
`DeleteFindsWork` and `DeleteCommits`, `UploadCommits`, the handlers the other
modules show in detail) and answered (`SaveAnswered`, `DeleteAnswered`,
`UploadAnswered`) in separate steps; only the answer asks for the refresh, and at
any point the request may fail or its answer be lost. Refreshes (`asks`) are
served in one step and arrive in another, in any order, and `Continue` is what
follows their `await`. `HandleDelete` asks no more than that its own button is
enabled: a second deletion overwrites `deletingWorkId` and frees the button of
the first. `Render` mounts, resets or unmounts the edit form: `Reset` compares
with `initialKey`. Another tab deletes images. History variables: `newest` and
`crossed` say which refresh is shown and whether a later one was before it;
`unseen` is the number of refreshes asked for when works were last changed by
others, or when the answer to a change was lost.

* `work_console` (2 works, 2 images, 2 texts, 2 operations, 2 edit forms; 718,031
  states): `ListsAreStored`, `RefreshKeepsForm`, `SubmissionEnds`. Two operations
  beside the first two refreshes overlap in every order; two forms let a late save
  meet the next form. A second DELETE of one work takes three operations and is
  beyond this run; the proofs include it. Fairness: every request is answered or
  fails.

`ListsAreStored` is claimed once refreshes are over and every change the backend
has made is answered (`Unanswered` is false): between the commit and the answer
the page cannot know of it, and no refresh is pending. A change made by others, or
one whose answer was lost, is claimed to be shown by any refresh asked for after
it.

Proved (`WorksContext_proofs`) for any works, images, texts and bounds:
`ConsoleTypeOK`, `ListsAreStored` and `RefreshKeepsForm`. The inductive
invariant follows, per list, the refresh asked for last (`LastIsCurrent`): it is
still to be served, or brings what is stored (`PendingIsCurrent`), or was applied
and what it showed still is (`AppliedIsCurrent`), each unless a change is
unanswered or was made by others since (`Current`), unless one has failed, or its
answer was followed by that of an earlier one. `ListsAreStored` alone says nothing
while refreshes are under way. The other
parts say that the open form's `base` is what is listed of its work, and that a
submitting form has one save or the one refresh after it. A second invariant,
`DisabledHasAnEnd`, is what `SubmissionEnds` rests on: a submission or a
deletion that the page still shows as going has its request, or the refresh that
follows, under way. It needs `None` to differ from what may follow a refresh
(`Sequels`), which `ConsoleAssumption` says.

What it shows and no property claims: the last refresh to arrive is shown, not
the last asked for (`crossed`); a save that ends late closes whichever edit form is
open; `handleDelete` compares the `editingWorkId` of an older render; one
`deletingWorkId` stands for several deletions; what is typed during a
submission is lost when it ends; the image box keeps its own selection when
the form is reset; the form for a new work keeps its values; a deletion that
fails is not caught.

### HeroDeck - pages, animations, the opening

`deck.tsx`, the buttons of `section.tsx` and the timeline of
`openingPage.tsx`. The component's state is kept twice: `now` with every update
applied and `shown` as last rendered, since handlers and effects use the
rendered values. A click renders at once (`Commit`); what a timer or promise
sets is rendered by `Render`, and a click may come first. `PaginationEffect`
is the effect with its cleanup (the time left), `Animate` and `AnimationsSettle`
/ `SupersededSettle` the promise of a move and of those that
`activeAnimationsRef` no longer holds. `Tick` advances everything that runs;
what is due may be late. Of the opening page: `ClickPlay`, `SeekBarDown`,
`Seek`, `SeekBarUp`, and `SeekBarLost` for a pointer that is cancelled. What the
first two see is the status of the last render (`SnapshotStatus`), which may still
be "playing" when the timeline has finished.

* `hero_deck` (153,632 states; the two pages of the site, of 2 and 3 ticks, a move of 2, a
  timeline of 3, versions modulo 4; deadlock checked): `MovesWhileAnimated`,
  `StrokeShowsTheTimeLeft`, `PausedOnlyWhenWanted`, `KeepsPaging`. The
  durations differ and exceed a move, so that pauses, moves and drags fall
  before, on and after each moment they can race with. Fairness, for
  `KeepsPaging`: time passes, due timers and promises run, updates are
  rendered. The versions are only compared for equality with the last one
  rendered, which is at most two behind.

Proved (`HeroDeck_proofs`) for any pages, durations, timeline and length of a
move: the types and the three invariants. The inductive invariant says when a
timer exists (the rendered page rests and nothing newer is on its way), how much
time a page that moves in or is paused has left, that superseded animations end
no later than the one that counts, and what a drag will restore. Without the
first of these a timer set before a click could end a page it was not set for.

What it shows and no property claims: a click between the timer's move and its
render starts a second move, and the activation is counted twice;
`pointercancel` is not handled, so the timeline stays paused; a drag begun on a
finished timeline is not resumed.

### SpotlightSketch - the footer's canvas

`useSpotlightSketch.ts` with `useTransitionState.ts`, driven by `footer.tsx`.
`DrawingEffect` runs once for each value of `f`, the WebGL call that fails
(`Created`, `DeletedByProgram`, `DeletedOnFailure` say which objects exist and
which are deleted then); `RerunEffect` is cleanup and a new run, `Frame` one
animation frame, `Hide` and `Show` the visibility handler, `Resize` and
`Observe` the container and its observer, `Spot` a link entered or left.
Whether the effect runs again with each render depends on the compiler
(`next.config.ts` enables `reactCompiler`): its dependencies are new objects
unless memoised. The model allows both, at any time.

* `spotlight` (2 sides, sizes 0 to 2, transitions of 2 and 1 frames, a slow
  frame of 2, 3 effect runs, 2 resizes; deadlock checked): `OneLoop`,
  `NothingLeaks`, `FlakesBlendInTheLight`, `SpotlightFollows`. Three runs are a
  first, one after a failure and one after a success; a slow frame as long as
  the longer transition is the case in which the spotlight is not drawn once
  more. Fairness, for `SpotlightFollows`: a visible page gets frames and the
  observer reports.

Proved (`SpotlightSketch_proofs`) for any sides, sizes and durations and any
number of effect runs, from `SketchAssumption` and `FailureAssumption` (`None`
is not among the failures): the types and the three invariants. The inductive
invariant says that a sketch is that of the last run, that `animationFrameRef`
names the only frame asked for and that this frame is the current sketch's, and
that BLEND follows what was drawn last.

What it shows and no property claims: without memoisation each link entered
makes a new WebGL context, and none is given up explicitly; a frame as long as
a transition leaves BLEND enabled (excepted by `jumped`).

## Proved, checked only, not modelled

Proved by TLAPS, for all values of the constants: every safety property the
passing runs check, invariants and action properties alike, the refinement
`ImplementsCatalogue`, and the type invariant of every module but the
catalogue, each from an inductive invariant of its module. The proofs are in
the eight `_proofs` modules; `Backend_proofs` holds those of ClickLimiter, WsHub
and ImageStore, `WorksContext_proofs` those of WorkBrowsing and WorkConsole, one
after the other and without a step of one module that uses another. Modules
proved about together name their specifications apart (`LimiterSpec`,
`ImageSpec`, `ConsoleSpec`).

Assumptions are the `ASSUME`s of each module: constants are sets or numbers of
the right kind, `Periodic` is a run, `Null` and `None` are no member of the sets
they stand beside, some bounds are at least one, the limiter's bounded wait, the
deck has two pages or more. Every one is evaluated by TLC in a run. The bounds
are universally quantified like the rest, so the theorems hold whatever bounds
are chosen. The type invariants are left to the proofs; the runs check what
relates one part of the state to another.

Only model-checked: liveness (`DirtyIsReindexed`, `RemovedGoroutinesEnd`,
`DeadPeerLeaves`, `Reconnects`, `SearchEnds`, `SubmissionEnds`, `KeepsPaging`,
`SpotlightFollows`). Liveness under fairness needs ENABLED and is outside the
prover's reach. `StaleIsDirty` is refuted by its run.

Every bound (`MaxVersion`, `MaxFailures`, `MaxCrashes`, `MaxSeq`, `MaxTime`,
`MaxWait`, `MaxClicks`, `MaxRestarts`, `MaxLosses`, `MaxRuns`, `MaxPushes`,
`MaxMoves`, `MaxTyping`, `MaxSorts`, `MaxChanges`, `MaxOperations`,
`MaxMounts`, `Versions`, `MaxEffects`, `MaxResizes`, the sets of ids) is a
constant of its module, in the guard of the action it stops. `CHECK_DEADLOCK
FALSE` stands where these bounds let an instance run out of things to do.

Not modelled:

* search and ranking queries (`backend/search.go`, `handleGetWorksRanking`)
  keep no state; the ranking is `ServeRanking` of WorkBrowsing, and what a
  search can see in the index is `ChunksAreOneVersion` and
  `CleanIsFreshUnlessOvertaken`. Its vector distances are numbers of an
  external model; works deleted between its two queries are left out of the
  answer. If `SEARCH_EMBEDDING_MODEL` and `EMBEDDING_MODEL` of the two services
  differ, search finds nothing; no running step changes either.
* admin access: one comparison of a header, and a proxy that adds it.
* the embedding model, the generated query layer (`backend/internal/query`),
  migrations and deployment files: external, generated, or run once.
* static pages, profile cards, SVGs, in-view animations, the motion of
  snowflakes: drawing, without a state two events could disturb.
* in modelled components: the button that overrides the colours of the opening
  page, the creation of a tech stack inside the form, the drag highlight, the
  unfolding of the filter, hover states, the dates behind two of the orders; the
  tech stack context, which has the code of the image context.

## Plan

Done: all modules above, checked, and their safety proved. What is left:

1. What the temporal properties rest on, as `DisabledHasAnEnd` is proved for
   `SubmissionEnds`: the safety facts their fairness arguments use (a removed
   client's channel is closed, so its writer can go on; a search shown as going
   has a timer or a fetch; a footer in sight has a frame asked for).
2. The hazards without a property, where a property can be stated of what the
   code does: the limiter that has counted a click whose INSERT failed, and the
   late save that closes another form.
3. The frame between modules: that ClickFeed's `Broadcast` and `AllowClick` are
   what WsHub and ClickLimiter do, as a refinement.
