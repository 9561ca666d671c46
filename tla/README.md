# A TLA+ development of the JKB employee-offers app

The program is the Flutter app under `src/jkbempoffers/lib` (`OL` =
`offerslist.dart`, `RC` = `rescafeofferslist.dart`, `CA` = `categories.dart`,
`RCF` = `remoteconfigfirebase.dart`, `NS` = `notification_services.dart`, `NO` =
`notes.dart`). It shows bank employees the discount offers kept in Firestore: a
home screen with a choice of language, a login, a grid of categories, list
screens with a search field, and detail buttons (Offers, Menu, Call, Branches,
Notes) on each item. All it shows comes from listeners, and all it stores goes
through writes, of the Firestore client, whose C++ core is in the repository
under `src/jkbempoffers/ios/Pods/FirebaseFirestore/Firestore/core/src` (`RS` =
`remote/remote_store.cc`, `ST` = `remote/stream.cc`, `RE` =
`remote/remote_event.cc`, `SE` = `core/sync_engine.cc`, `OS` =
`remote/online_state_tracker.cc`, `GS` = `remote/grpc_stream.cc`, `MQ` =
`local/leveldb_mutation_queue.cc`). The other 5,500 files are vendored
libraries, generated platform projects and assets.

The app has no thread of its own. Its difficulty is in callbacks: every detail
button starts a Firestore listener that nobody cancels, several futures push
pages when they complete, notifications push lists at any moment, and all of
them use a `BuildContext` or a copy of a value captured earlier. The Firestore
client runs on one worker queue, so its difficulty is of the same kind: answers,
timers, credentials, the end of a stream and calls of the app come in any
order, and each finds the state that the others left.

## 1. Inventory

| Component | State it keeps | Operations | Interacts with | What makes it correct |
|---|---|---|---|---|
| List screens and their detail buttons (`OL`, `RC`) | routes on the outer navigator, one StreamBuilder per screen, the live listeners and what each captured, sign-ins under way | open from a tile or a notification, list stream answers, rebuild, type, tap a button, snapshot arrives, edit of a document, press in a dialog, back, end of an exit transition | Firestore, the navigator, Firebase Auth, phone and map apps | a late answer opens its page above the screen that asked, save in that screen's exit transition; pages pile up newest on top; a silenced listener stays silent; every tap is served and no spinner stays |
| Chains and galleries (`OL`, `RC`, `CA`, `picgridoffers.dart`, `fullimg.dart`) | none: the document's array is read and passed on | choose a branch by length, build the grid, zoom, dial, open a map | the navigator | every entry shown once, in order, and a tap yields the entry shown |
| App shell (`main.dart`, `loginpage.dart`, `CA`, `NS`) | GetStorage (`lang`, `pass`) and its file, locale, names the tiles captured, both navigators, pending callbacks of Categories | start, stop, flush, choose language, login, tap tile or label, Notes, Baraka Mall listener, notification tap, startup dialogs, back | list screens, update gate, notifications | nothing shown without a login; a list is searched by the index of its own language; the down dialog shuts the categories |
| Update gate (`RCF`, `main.dart` initState) | Remote Config's fetched and active values and their age, the Config document, dialogs shown | fetch, fail, activate and compare, document arrives, press Update, start, stop | Remote Config, Firestore | a newer version the device knows of is announced |
| Notifications (`NS`, `main.dart` initState) | the tap handler and the message it captured, delayed shows, posted notifications, the message the process was started from | message in the foreground or background, delayed show, tap in every state of the app, dismissal, restart | Firebase Messaging, the local notifications plug-in, the shell | a tap opens the list the notification was about; a message in the foreground is shown; an app started from a message opens its list |
| Feedback form (`NO`) | three text fields per form, notes sent and awaited | open, type, erase, press, answer of the server, back, stop | Firestore, the navigator | an answer empties the form its note came from, and only what was stored or typed since; a note acknowledged is not sent again; a press settles |
| List search (`Database` and `Offerslis1` in `OL`, `RC`) | query text, index, documents | build a query, convert documents | Firestore, StreamBuilder | a keystroke shows the offers that match it |
| Firestore writes (`SE`, `RS`, `write_stream.cc`, `MQ`) | the queue of batches of each user on disk, the next id, the pipeline, the callbacks, the write stream | write, open, handshake, answer, rejection, broken stream, backoff, idle timeout, network on and off, change of user, restart | the server, the app's `add` | every write ends once, in order, and only after the server decided on it, as stored only if it was stored; the pipeline is always the oldest batches; a stream runs exactly while there is work |
| Firestore listening (`event_manager.cc`, `SE`, `RS`, `RE`, `OS`) | listeners, views, targets, the watch stream, answers due for each target, the changes and tokens on disk, the online state | listen, stop, watch and unwatch requests, changes, current, snapshots, refusals, broken stream, timers, restart | the server, every `snapshots()` of the app | listeners, views and targets agree; the server's word that a target is current is not taken for another life of it; no token hides a change; every listener hears something and catches up |
| Firestore limbo resolution (`SE`, `view.cc`) | documents of a view that the server has not named, references, line, requests under way | view changes, query left, answer, refusal, offline | listening | what is in limbo is asked for or in line, and nothing else; everyone gets a turn |
| Translations | none | look up a key | GetX | both locales define the same keys |

Hard behaviours, in order of weight: listeners and futures that answer after the
screen that asked was covered, rebuilt or closed; notifications pushing on a
second navigator at any moment; values captured in closures and overwritten
there; process death between a write and its flush, or between a fetch and its
activation; nine branch chains copied by hand; in the Firestore client, streams that are
stopped, retried and started again while credentials, timers, requests and
answers of an earlier life are still on their way. `PROJECT.json` lists them one by
one with their lines under "hazards".

## 2. Modules

| Module | Models | Composition |
|---|---|---|
| `DetailTables` | every hand-written `if (count == k)` chain, one row per branch with its literal positions | extended by `OfferDetails` |
| `OfferDetails` | list screens, listeners, contexts, the outer navigator | extends `DetailTables`, refines `RouteStack` |
| `RouteStack` | abstract: what a navigator owes its screens | instantiated by `OfferDetails` |
| `AppShell` | storage, locale, tiles, both navigators | list pages opaque |
| `UpdateGate` | the two startup checks | alone |
| `Notifications` | messages, posted notifications, taps on them | alone; what a tap opens is in `AppShell` and `OfferDetails` |
| `Feedback` | the feedback form and its sends | alone; the buttons that open it are in `OfferDetails` and `AppShell`, the queue behind it in `WritePipeline` |
| `Outbox` | abstract: what a device owes the writes of its users | instantiated by `WritePipeline` |
| `Streams` | the life of a stream: state, credentials, timers (operators) | extended by the next two |
| `WritePipeline` | from a write of the app to its end | extends `Streams`, refines `Outbox` |
| `ListenPipeline` | from a listener to the server and back | extends `Streams`, `OnlineState` |
| `OnlineState` | the online state tracker (operators) | |
| `LimboQueue` | limbo resolution | alone |
| `MCOfferDetails`, `MCAppShell` | sets for TLC; what holds of the chains for every length (`ChainsInOrder`) | extend `OfferDetails`, `AppShell` |
| `OfferDetailsProofs`, `AppShellProofs`, `NotificationsProofs`, `FeedbackProofs`, `WritePipelineProofs`, `ListenPipelineProofs`, `LimboQueueProofs` | the theorems about the module of that name, and about the small modules next to it: `RouteStack` in the first, `UpdateGate` in the second, `Outbox` in `WritePipelineProofs` | each extends its module, those of the two pipelines also `StreamsProofs`; the small modules are instantiated |
| `StreamsProofs` | lemmas about `Streams` | |

A definition `X_Y` next to `X` is `X` with one plausible slip. No specification
uses it; `PROJECT.json` pairs each with the property that notices it. `TypeOK`
states the types of a module's variables; it is proved of `OfferDetails`,
`AppShell`, `UpdateGate`, `Notifications`, `Feedback`, `WritePipeline`,
`LimboQueue` and, as a part of `ClientIsSound`, which a run also checks, of
`ListenPipeline`.

### OfferDetails

Dart runs one callback to its end before the next, so one callback is one
action. Which callback is next, and when, is free.

| Variable | Code |
|---|---|
| `class`, `stack` | list screens opened so far; the routes of the outer navigator, each with the screen that opened it, the listener and document version it shows, and whether that screen was leaving by then (`late`, read by the properties alone) |
| `leaving` | list screens popped whose exit transition still runs |
| `view` | the StreamBuilder of each screen: spinner, list, error, gone when disposed |
| `dirty` | `setState` or a locale change waiting for its frame |
| `subs` | each `snapshots().listen`: screen, button, whether its item's context is alive, whether Firestore has answered, snapshots not delivered yet |
| `version` | changes of the documents |
| `signins` | `signInWithEmailAndPassword` calls of the Notes button |

* `Tap` / `Attach` / `Edit` / `Deliver`: a listener is started (`OL:201`, `457`,
  `1657`; `RC:213`, `467`, `1196`, `2403`), receives the current documents, and
  again after every change; an edit reaches any subset of the listeners, since
  each has its own query. `Deliver` is the callback's whole loop over the
  documents: for each one the chain is run, and the matching branch pushes,
  dials or does nothing. A document without the field throws inside the loop's
  `try` and is skipped.
* Offers and Menu push with the item's context, which dies when the item is
  unmounted: `Frame` (rebuild with a new stream, so the spinner replaces the
  list), `ListFails`, `ItemGone` (scrolled out), or the screen. Call
  and Branches use the State's context, which dies only with the screen. That
  is `CanPush`. A push on an unmounted context throws and is caught.
* A screen dies in two steps. `Back` pops its route; from then on it takes no
  taps, but Flutter keeps its State and the contexts below it mounted while the
  exit transition runs, and a listener or the sign-in that answers then still
  pushes. `Disposed` is the end of the transition.
* A call in a listener runs inside `setState`. On a disposed State it throws and
  is caught, in a debug build before the closure runs, in a release build after
  it, the call made; neither changes what the module keeps. A button of a dialog
  left behind its screen does the same.
* `HandleMessage`: `Get.updateLocale` marks every widget for rebuild, then
  `Get.to` pushes unless it takes the page for the current one.

### AppShell

`MyApp` nests a `MaterialApp` in a `GetMaterialApp`, so there are two
navigators: Home, Login, Categories and what they push with `Navigator.push` are
on `inner`; `Get.to` pushes on `outer`, which covers it. `disk` and `mem` are
GetStorage's file and memory: `write` is never awaited, so `Flush` is a step of
its own and `Stop` may come first. `tiles` is the name each tile's closures
captured: the tap on an Arabic name overwrites it with the English one
(`CA:79`), so a second tap before a rebuild opens the English list ("worn").
The tile of the restaurants opens `ResCafeOffersList` (`CA:100`, `149`) while its
label opens `OffersList` (`CA:594`, `642`), which has no menus: `TileClass` and
`LabelClass` keep that difference.

### UpdateGate

`fetched`, `recent` and `active` are what the Remote Config plug-in keeps on the
device; they survive `Stop`. `phase` follows the one `fetchAndActivate` call of
a process, `docPhase` the read of the Config document, which runs beside it.
`askedAt` remembers what was on the server when the check began and `told`
whether this process showed the version dialog. A value that cannot be parsed
takes the same catch as a failed fetch and is that step. Versions published only
grow, as store builds do.

### Notifications

| Variable | Code |
|---|---|
| `tray` | notifications the system posted: every message in the background, and on iOS also in the foreground, which `forgroundMessage` asks for at the start (`main.dart:95`) |
| `slot` | the notification the app posted itself, on Android in the foreground: always id 0 (`NS:136`), so there is one at most |
| `handler` | the message captured by `onDidReceiveNotificationResponse` (`NS:34`), replaced with each foreground message |
| `toShow` | `Future.delayed(Duration.zero, ...)` closures not run yet (`NS:134`) |
| `initial` | what `getInitialMessage` will answer (`NS:164`) |
| `tap` | the last tap: on which message, in which state of the app, which list it opened |

`Receive` is one message: the system's `Posted`, or the listener's `OnMessage`,
which installs the handler at once and leaves the notification to `Show`, one
event later. `ReceiveDataOnly` is a message without a notification part, on
which the listener throws at its second line (`NS:49`). `Started` is
`setupInteractMessage` after its `await`; until then the stream of background
taps has no listener and drops what it is given, so `TapTray` opens a list only
in a process that is `ready` or, through `initial`, one it starts. `Stop` ends
the process: handler and timers are gone, notifications stay. The debug
build's `print` of the Android count, which throws on iOS, is left out.

### Feedback

`text` holds the controllers of each form, `sends` the notes handed to
Firestore with what the server said, `waiting` those whose `validateAndSave` is
in its await (`NO:28`). Texts are numbered as they are typed, so that "newer"
can be said. `Press` is `validateAndSave` up to the await: validators, then the
add, which goes to Firestore's queue on the device. `ServerAnswers` is the
server's answer to the oldest note of the queue (what Firestore's own writes do,
by `WritePipeline`), `Resume` the rest of
`validateAndSave`: three clears, or nothing after an exception. Forms may cover
one another and be closed meanwhile; since nobody disposes of the controllers,
the clears work on a closed form too (the toast after them then throws, with no
effect on the state). `Stop` ends the process: the awaits are gone, the queue is
not.

### DetailTables

`DetailTables` has one row for each branch of the nine chains, and a row has the
numbers that are written out in that branch: the count it passes, the position
of each label and the position each tile or button leads to. Nothing in a row is
computed, so a number copied wrong in the source would be wrong there.
`EffectOf` is what a chain does with an array of some length, and `Entries` the
tiles of the grid or the buttons of the dialog that a branch puts up. `Home`
rebuilds the list with a chain of its own (`HomeShows`). Reading a position past
the end throws, while a route is built into an error page ("broken"), in a
dialog into the handler's `try`.

### Streams and OnlineState

A stream is a record: `state` (`ST`; Open and Healthy differ for a rejected
token only and are one), `delay` and `idle` for its two timers, and `asked` for
the credentials it requested and has not got. Credentials requested before the
last `Close` are "stale": `close_count_` has moved on (`ST:127-164`).
`CallbacksFindTheirState` collects the assertions of the callbacks. `OnlineState`
holds the three operations of `OS` on a tracker `[state, failures, timer,
broken]`; `broken` records that one of its assertions failed (`HardAssert`).

### WritePipeline

| Variable | Code |
|---|---|
| `user` | `current_user_` |
| `queue`, `nextId` | the batches of each user on disk, `next_batch_id_` (`MQ:58-125`) |
| `rs` | the remote store: `enabled`, the pipeline, the write stream, its handshake, and the call as gRPC sees it: requests and answers on their way, and how it ended |
| `callbacks`, `told` | `mutation_callbacks_`, and what each was called with |
| `made`, `fate`, `verdict` | history: who made which write, how it left the queue, what the server decided |

`WriteMutations` is `SE:207`: append to the queue, remember the callback, fill
the pipeline. `FillWritePipeline` (`RS:395`) takes batches after the last one in
the pipeline, sends them if the handshake is done, marks a stream without work
idle, and starts a stream where one is needed; every path that makes room ends
in it. `Finish` is `OnWriteStreamClose` (`RS:477-552`): a permanent error after
the handshake is charged to the head of the pipeline, any other is retried. `Read`
settles the head of the pipeline.

The end of a call is what `GS:218-323` makes of it. The first operation that fails
ends the call and cancels the others. If the pending read is that operation, all answers
have been read. If it is the write of a request, which fails on any call the
server has ended, the read becomes a no-op and the answers that had
arrived are never read (`StreamEnds` with requests left); requests sent after the
end stay in `call.requests` for that reason. `Garbled` is an answer that cannot be
decoded, at which the client itself ends the stream with a permanent status
(`ST:261-268`). In both, the status is charged to the head of the pipeline, which
the server may have stored.

`CredentialChange`, `TurnNetworkOff` and `On`,
`ConnectivityChanges` and `ProcessRestart` are the faults that start it all over.

### ListenPipeline

`c` is the client in memory: `listener` (each screen's phase: waiting for its
first event, shown, failed), `view`, `targets` (`listen_targets_`), `stream`,
`call`, `aggregator` (for each target the answers due, current, the changes
gathered, and in `pending` this query's part of `pending_document_updates_`),
`online`. `cache` is the disk: changes applied and the resume token;
`server` is the number of changes committed to each query's result.

Operations are functions from a client to the next, so that a handler is their
composition in the order of the code: `AddQueryListener` makes the view, tells
the listener what the cache has, and listens; `RemoveQueryListener` stops with
the last listener; `OnWatchStreamChange` reads one answer, which first proves
the client online. `RaiseWatchSnapshot` raises the whole map of document updates
(`RE:400-408`), which goes to disk whatever has become of the targets they came
for, with the tokens of the active targets only, and tells the views. A removal
erases a target but not its updates (`RemoveTarget`), an addition drops the
changes gathered but neither the updates nor "current" (`HandleAdded`).
`EndStream` includes `OnWatchStreamClose` and so the restart and the change of
the online state.

### LimboQueue

`view` keeps for each query whether it is current, its documents the server has
not named (`unexplained`), and `limbo_documents_`; `refs`, `enqueued` and
`active` are the three containers of `SE:523-587`. `refused` is history: see
section 5. An answer (`Resolved`) takes the document out of every view, or
`HandleRejectedListen` does, which frees the slot before the views change.
`Without` is the line after keys were given up: the others, in their order.

## 3. Runs

| Run | Question | Bounds |
|---|---|---|
| `offer_details` | what late listeners and sign-ins leave behind, order of the pages, silence of replaced items; refinement of `RouteStack`; every tap served, no spinner stays; before it, the nine chains for every length (`ChainsInOrder`) | one class, 2 screens, 1 listener, 1 edit, 1 document, 1 sign-in per screen: 0.41 million states |
| `app_shell` | the shell in every order | 2 tiles, 5 inner and 2 outer routes |
| `failed_fetch` | a message of `RCF` that the code contradicts; violated | versions 25 (the default) to 28, first build 26 |
| `notifications` | delivery, shows and taps on both platforms | 4 messages, one of a type nobody knows: 10,700 states |
| `terminated_tap` | a comment of `NS` that the code contradicts; violated | as `notifications`, 1 message |
| `feedback` | the form while earlier sends wait | 2 forms, 2 fields, 4 texts, 3 sends: 0.56 million states |
| `write_pipeline` | safety, refinement of `Outbox`, and the end of every write | 2 users, pipeline of 2, 4 writes, 2 faults: 0.12 million states |
| `failed_write` | a comment of `RS` that the code contradicts; violated | 1 user, pipeline of 3, 3 writes, no faults |
| `listen_pipeline` | whose word "current" is; everyone hears and catches up | 1 query, 2 listeners, 1 change, made meanwhile, 2 listens, 2 faults; no refusals: 0.28 million states |
| `listen_two_queries` | what holds with two queries on a stream and a server that refuses one of them; the other's answers and changes | 2 queries, 1 change each, made before, 2 listens, 1 fault: 2.7 million states |
| `kept_current` | two comments of `RE` that the code contradicts; violated | 1 query, 1 listener, 1 change before and 1 meanwhile, 2 listens, no faults |
| `limbo_queue` | references, line and slots, and a turn for everyone | 3 documents, 2 queries, 1 slot, 2 arrivals: 36,000 states |

Why the bounds are enough. In `OfferDetails` two screens give one that covers
the other, one closed while another lives, and a screen reopened; a sign-in
gives an answer that comes beside the listener's, for the same screen or the
other; one edit gives a second snapshot that can arrive in any later situation.
Lengths 1, 2 and 11 take each kind of branch of `OffersList` (a single entry,
several, no branch); `ChainsInOrder` covers the other lengths one by one.
`ResCafeOffersList` has the same listeners with one button more and longer
chains; the theorems are about both classes, and any number of screens and
listeners. In `AppShell` the tiles differ only in being the restaurants or not;
five inner routes hold home, login, categories and two pages or dialogs over
them. In `UpdateGate` four versions give a build below, at and above the
published, fetched and default values, with one publication between fetch and
comparison. In `Notifications` four messages give a notification left by an
earlier process, one shown by this one, and two shows waiting behind each other.
In `Feedback` two forms give one that covers the other or follows it, two fields
a form half changed, four texts a form filled twice, three sends a duplicate and
what comes after it.

In `WritePipeline` a pipeline of two has a head, a batch behind it and no room
for a third; with four writes the queue is refilled twice, or two users have two
each; two faults put one on top of another: a restart between a broken call and
its retry, a user who leaves and comes back. In `ListenPipeline` two listeners
share a view; one that listens twice comes back on the same stream while the
answer to its leaving is still due, or on the next; one change that is made at
any moment comes before or after a view, a target or a snapshot; two faults as
above. Two changes, one on each side of it, are in `kept_current`, whose trace
needs them. `FirstChanges` says how many were made before the app began to
listen. Two queries need a run of their own since a snapshot speaks of both and
a refusal of one comes between the answers of the other; it has one fault less,
and only the safety of the whole client is asked of it. In `LimboQueue` one slot
makes all but one document wait, two queries share a document, and three
documents keep a line of two.

Deadlock is not checked where the bounds or the user leaving the app end a
behaviour (`OfferDetails`, `AppShell`, and the Firestore modules, which come to
rest when all is written and heard); `Notifications` and `Feedback` are checked
for it.

What the runs show:

* `OrphansAreLate`, `ServesScreens`, `SilencedByRebuild`: late answers are kept
  in place by the contexts alone. A page, dialog or form stands above the screen
  that opened it, however late it was pushed, with one exception that the code
  leaves open: what is pushed during that screen's exit transition stays behind
  it, and nothing else does. The buttons of such a dialog then call `setState`
  on a disposed screen (`OL:484`). Items once rebuilt or failed silence their
  Offers and Menu listeners for good.
* `NewestOnTop`: the pages one listener piles up are in the order of the edits.
* `ArabicListSearchedInArabic`, `DownShutsTiles`, and `EnglishListExplained`,
  which leaves exactly two ways to an English list searched by the Arabic index:
  a notification switched the locale but not the stored language, or a worn tile
  was tapped again.
* `ChainsInOrder`, an assumption of `MCOfferDetails` that TLC evaluates: in all
  branches of all chains the test, the positions, the count passed and `Home`'s
  own chain agree, and only the menu of 20 pictures fails (`RC:1106` reads
  position 20). The tables are constants and longer arrays open nothing, so
  nothing is left to a bound.
* `failed_fetch`: when the check ends by a failed fetch, `CachedIsUsed` fails:
  the comparison is skipped, although the value activated by an earlier start is
  on the device and the message printed says that it will be used (`RCF:49`).
  Two more comments of `RCF` say more than the code does: the fetch is not
  forced (`RCF:25`; the interval is an hour), and the dialog "to force user to
  update" (`RCF:53`) closes on its button.
* `OpensTapped`: a tap opens the list of the notification tapped or none, with
  one exception the code leaves open: between a foreground message and its
  delayed show, the notification still on screen already opens the newer
  message's list. `SlotMatchesHandler` says the exception ends with the queue.
  `StartedFromMessage`: an app started from a message opens its list, whatever
  arrives meanwhile.
* `ClearsOnlyStored`, `NotSentAgain`, `PressSettles`: the form loses text typed
  while a note is under way, and a second press meanwhile stores it twice; the
  properties say that nothing else is lost and nothing else is sent twice. What
  the form takes for granted of Firestore's queue, that it keeps each note until
  it ends and sends them in order, is `Outbox`, which `WritePipeline` implements
  (`KeepsPromise`).
* `PipelineIsOldest`, `AnswersMeetTheirBatch`, `EndsAreDecided`,
  `ToldWhenSettled`: answers carry no name, and yet each settles the write it is
  about, over broken streams, rejections, restarts, reused batch ids and changes
  of user; none leaves the device before the server decided on it, or as stored
  without being stored. `failed_write`: the converse fails. A write the server
  stored may be given up, and its app told that it failed, when its answer was
  lost with the cancelled read and the refusal of a later write is charged to
  it: `FailedWasRefused`, which the comment at `RS:538` takes for granted.
  `StreamServesPipeline`: no callback finds a state it is not for, no stream is
  stopped while needed or missing where there is work. `EveryWriteEnds`: no
  write is stuck.
* `ClientIsSound`, `AllAgreeOnQueries`, `OfflineIsShown`: the assertions of the
  listening side hold, whatever the server answers and when. `DueIsOnTheWay`,
  `CurrentIsEarned`, `NoHoles`, of every query outside `Refusable`: no answer of
  an earlier life of a target is taken for this one's, its "current" included,
  and nothing is hidden by a token, also when the query next to it on the stream
  is refused. `kept_current`: the aggregator's own memory is not as careful. A
  target asked for again before the answer to its removal was read keeps
  "current" (`RE:160-164`), so that a snapshot before the server says it again
  makes the new view pass for synced without changes that preceded it:
  `SyncedHasSeen`, against the comments at `RE:161` and
  `remote_event.h:165-168`. `EveryListenerHears`, `CatchesUp`: once faults end,
  a screen leaves its spinner and shows every change.
* `OnlyReferenced`, `LimboIsTracked`, `EveryoneIsAsked`: the references of
  several queries to one document are counted right. Nothing is asked for in
  vain, no document waits that nobody would ask for, in a view that is no longer
  current either, and each gets its turn.
* `terminated_tap`: a notification the app posted itself, tapped after the
  process ended, starts the app and opens nothing, since nothing asks the local
  notifications plug-in what started it. The comment at `NS:160` promises that
  taps on a terminated app are handled.

### Fairness

`OfferDetails!Fairness` is weak fairness of `ListAnswers`, `Frame`, `Attach` and
`Deliver`, one by one: Firestore answers listeners (from its cache if need be),
the engine draws frames that were asked for and the event loop runs queued
callbacks. Nothing is assumed of the user, editors, sign-ins or notifications.
`Notifications!FairSpec` is weak
fairness of `Started` (the plug-in answers `getInitialMessage`) and `Show`
(timers fire). `Feedback!Fairness` is weak fairness of `ServerAnswers` and
`Resume`: Firestore retries until it has an answer, stored or refused, and the
event loop delivers it.

`WritePipeline!Fairness` is weak fairness of `Connect` (credentials come),
`Read` and `StreamEnds` (gRPC delivers what arrived), `BackoffElapses` (the
timer fires) and `ServerTakes` (a request that reached the server is answered);
`ListenPipeline!Fairness` adds that the server goes on sending changes, calls a
target current and sends snapshots. The credentials may fail, the call may
break, and the process may restart, each counted as a fault; faults end with
their bound, which is what "once faults end" means. Idle timers and the online
timer need not fire. `LimboQueue!FairSpec` is weak fairness, for each document,
of its answer or refusal.

## 4. Proofs

`OfferDetailsProofs` proves, for every set of lengths and every bound, from the
named assumptions on the constants only (`ClassesAssumption`, `SizesAssumption`,
`BoundsAssumption`):

* `TypeCorrect`: `Spec => []TypeOK`, one step per action (`TypeStep`).
* `OnlyLateOrphans` (`OrphansAreLate`) and `Silenced` (`SilencedByRebuild`).
  Neither is inductive alone. `OrphansAreLate` needs `SilencedByRebuild`, because
  a page is pushed on the strength of a captured item context; both need
  `ScreensKnown` (every screen named by a route, a listener or a transition has been
  opened), or a new screen could be confused with a name already in use; and
  `RootsApart`, that a list screen has one place, on the stack or leaving it, so
  that what is pushed while it leaves is above no route of that screen, and what
  is pushed before keeps the one it has until it is popped itself.
  `IInv` is their conjunction with `TypeOK`; `SafetyStep` has a step per action,
  and `SameStack`, `PushedPages`, `PushedList` and `Popped` say once what
  each change of the stack preserves.
* `Newest`: `Spec => []NewestOnTop`. A page shows the snapshot its listener was
  given, and an edit appends to what the listener has yet to be given; so the
  invariant, `Ordered`, adds that the snapshots of a listener still to come
  ascend (`PendingAscend`) and are not older than any page it pushed
  (`PagesSeen`), nor newer than the documents.
* `Implements`: `Spec => ServesScreens`. `StackStep` reduces every step to one of
  the changes in `StackMoves` and `MappedStep` maps each to `Open`, `Show`,
  `ShowFromTop`, `Pop`, `Gone` or a stutter; the mapped stack keeps each route's
  screen, whether it is a list and whether it was late.
* `RootsKept`: what `RouteStack` promises follows from its steps, and so
  holds of the list screens: each page not opened late above its own screen
  (`RootBelow`), no screen twice, nor on the stack while it leaves
  (`RootsDistinct`).

`AppShellProofs` proves, for any categories and navigators of any depth,
`TypeCorrect`, `ArabicSearched` (`ArabicListSearchedInArabic`),
`EnglishExplained` (`EnglishListExplained`) and `DownShuts` (`DownShutsTiles`).
A list carries the language its tile was in, and is searched by the language
stored now. That the two agree needs a chain of facts: home is at the bottom of
the inner navigator and nowhere else (`HomeFirst`), so that nobody chooses a
language while a login, Categories or a list is open; once it is chosen, the
locale is the stored language unless a notification switched it (`Localised`);
hence what the tiles captured fits what is stored (`TilesFit`), and so do the
lists they opened (`ListsFit`). `DownShutsTiles` needs that above the down dialog
there is nothing but what opens by itself (`DownShut`), or a tile would be on top
again. `Extends` says once what a push, a pop and the pushes of a callback do to
a stack.

Its last section is about `UpdateGate`, for any default, builds and versions:
`GateTypes` has `TypeOK`, under `VersionsAssumption`; that there are two dialogs
at most needs to be counted (`DialogsFit`: one for the check, one for the
document, none while the process is down).

`NotificationsProofs` proves, for any number of messages on either platform:

* `TypeCorrect`: `Spec => []TypeOK`.
* `Agree`: `Spec => []SlotMatchesHandler`. `IInv` adds what makes it inductive:
  the handler holds the newest message of the queue (`HandlerIsNewest`), and the
  queue ascends from above the notification shown (`ShownInOrder`), so that the
  last show leaves the handler's own message.
* `Tapped`: `Spec => OpensTapped`, from the same invariant: where the handler
  differs from the notification shown, the queue is not empty and ends in a
  newer message.

`FeedbackProofs` proves, for any fields and bounds, `TypeCorrect`, `SentOnce`
(`Spec => NotSentAgain`) and `ClearsOwn` (`Spec => ClearsOnlyStored`). The
invariant behind both action properties, `ShowsLater`, says that a form shows
nothing older than the notes sent from it, and nothing as old once they were
acknowledged; it needs `QueuedIsAwaited`, since an answer to a note no longer
awaited empties no form, and `Bounded`, so that a new text is newer.

`StreamsProofs` has the three lemmas both sides need: starting (`StartSound`),
closing (`CloseSound`) and the other operations on a stream (`StreamSteps`)
keep `CallbacksFindTheirState`.

`ListenPipelineProofs` proves, for any finite set of queries, any listeners and
any server that answers with what its messages can say, refusals and snapshots
at any moment included, `Soundness` (`Spec => []ClientIsSound`) and from it
`Agreement` and `Offline`. `ClientIsSound` is inductive as it stands, none of
the tracker's assertions failing included (`TimerHasStream`: without a failure
behind it the online timer runs only for a stream, so that the next stream finds
none running): the types, the tracker, the stream, the targets and the views are
needed for one another (a listener that leaves may watch no more because its
view had a target; the stream that closes then may stay closed because the last
target is gone). Most of the code is in operations that several handlers share,
and between two calls of one handler the parts do not all hold. So each
operation has a lemma (`StartWatchStreamKeeps`, `EndStreamKeeps`, `ListenKeeps`,
...) over `Base`, what always holds, and over those of `TimersFit`, `Running`
and `Agreed` that it needs or restores, and each action has one that composes
them.

Three more theorems are about what is on its way: `Counts` (`DueIsOnTheWay`),
`Seamless` (`NoHoles`) and `Earned` (`CurrentIsEarned`), for every query outside
`Refusable`, whatever the server refuses beside it on the same stream. Section 5
says what happens to a refused query. A refusal of one query is no part of another's
line, but it removes a target, may end the stream and shares its snapshots, so
that its lemmas (`RefusalTells`, `RefusesFlows`, `GrantsFlows`) say that it leaves
the others' lines, gathered changes and views as they were.
The invariant, `Flowing`, describes the line between client and server, query
by query. `Line` has three parts. `Counted`: the answers a target waits for are those
to its requests and those on their way, at most the former being lost with a
broken call. `LastWord`: the last of them says whether the target is
wanted, and asks from the token on disk. `Hears`: the answers lead from what the
client has, one by one (`History`), to what the server has sent, so that what a
target in its present life is told next continues what it was told. `Joined`
ties the line to the disk and to the views (`Timely`). Of the disk it says
(`Gathered`) that the changes a token stands for are there, and perhaps more, since the
updates of a target that was removed are written without its token; and that the
changes gathered are the ones after the token, each on disk already or among the
updates that the next snapshot writes. Reading
an answer is a step along the history, a request adds to one end of the line, and the
server's steps to the other; a stream that ends leaves neither line nor
gathered changes (`Quiet`), so that the next begins from the disk.

`WritePipelineProofs` proves, for any users, pipeline size, number of writes and
faults, `StreamServes` (`Spec => []StreamServesPipeline`) and `AnswersMeet`
(`Spec => []AnswersMeetTheirBatch`). Neither is inductive alone. That an answer
is for the head of the pipeline needs the stream (no handshake without an open
stream, no call without one), and that the answers and requests on their way are
the pipeline needs what becomes of them at the end of a call: requests left on
it are lost and count no longer (`Pending`, in `Meets`), and the answers left
are still for the first batches. `Sound` is `Typed /\ Serves(rs) /\ Meets(rs)`.
`Typed` leaves open what an id is (a member of some set), since ids are given
again after a restart and their order plays no part in either theorem. As above
there is one lemma for each operation (`FillStarted`, `AddStarted`, `TailMeets`,
`CutMeets`, ...) and one for each group of actions.

The second part of `WritePipelineProofs` builds on it and proves two more.

* `OldestFirst`: `Spec => []PipelineIsOldest`. The pipeline is filled by id, so
  the proof needs `Ordered`: the queue of every user ascends, and the next id is
  above all of them. That is why the client takes the highest id on disk of
  *all* users when a process or a user begins (`NextIdAbove`; that the highest
  exists is `MaxIs`, by well-founded induction). The invariant is
  `Complete == Sound /\ Ordered /\ PipelineIsOldest`; `AfterPrefix` and `Joined`
  say that what follows the last of the pipeline by id, appended to it, is again
  the beginning of the queue, and `HeadSettled` that settling the head of the
  pipeline is taking the first of the queue.
* `Keeps`: `Spec => KeepsPromise`, the refinement of `Outbox`. `QueueSteps`
  reduces every step to a new write, the end of the oldest batch of who is
  signed in, or nothing of the queues; `PromiseStep` maps these to `Accept`,
  `End` and a stutter. `Numbered` says that a new write is above all that were
  made.
* `OwedOnce`: what `Outbox` promises, carried to the queues by `Keeps`. A write in
  line has not ended, is there once, and is behind what its user wrote before
  (`LineIsOwed`); what has ended keeps its end (`EndsOnce`). `AcceptOwes` and
  `EndOwes` say what its two steps do to the lines.

The third part completes the safety of `WritePipeline`: `DecidedFirst`
(`Spec => []EndsAreDecided`) and `Told` (`Spec => []ToldWhenSettled`). `Decided`
adds to `Complete` what is left of each user's writes in each queue (`Left`), that
a callback is for a batch that is still queued, with its id and its write
(`Awaited`; an id is not enough, it may be given again), and `Faithful`: the answers
not yet read are for batches the server stored, and after a permanent error there
is a batch behind them, the one it refused. So the head of the pipeline has been decided
whenever an answer, lost answers and a status, or a garbled answer settle it by
position; that it was decided *as it is settled* holds of answers only, and is
what `failed_write` refutes of the rest. `TypeCorrect` (`Spec => []TypeOK`) comes
last, since it rests on all of these: what a queue holds are writes that were made, the
pipeline is a part of a queue, and ids, which `Typed` left open, are below the
next one, which never passes the number of writes (`Counted`), although it is
taken anew from the disk.

`LimboQueueProofs` proves, for any finite set of documents, any queries and any
number of requests at a time, `TypeCorrect`, `NothingIdle` (`OnlyReferenced`),
`NoneForgotten` (`LimboIsTracked`) and `Slots` (`SlotsAreUsed`, which no run
checks: no more are asked for than permitted, and nobody is in line while there
is room). The two directions need each other and what the three containers are:
the references are exactly the pairs of a document in limbo and its view, which
while current has in limbo what it cannot explain (`Viewed`), and the line has no
document twice and none that is asked for (`Lined`), so that what leaves the line
is asked for and nothing else is. `LineOf` and the lemmas after it say what the
operators on the line do.

Every invariant and every action property that holds is stated by a theorem. Only
model-checked is liveness, which the prover does not do under
fairness: `TapAnswered`, `SpinnerEnds`, `StartedFromMessage`,
`PressSettles`, `EveryWriteEnds`, `EveryListenerHears`, `CatchesUp`,
`EveryoneIsAsked`.

## 5. Assumptions, limits, what is external or left out

**The app.** External, modelled from their use: `Get.to` with
`preventDuplicates` (a page of the current class is dropped; below a dialog it
may take an older page for the current one, hence the second disjunct of
`HandleMessage`); AwesomeDialog, which closes on its buttons unless `autoDismiss`
is switched off; unmounting of contexts, for a popped route when its exit
transition has run; Firestore's delivery to the app, in
order for each listener; Remote Config's cache; GetStorage's late flush; the
system's notifications, which outlive the process, and a stream without a
listener, which drops what it is given.

Left out: drawing and layout; wording; query contents; permission requests and
the token listener, which change nothing the app reads; a second press on a
button during the transition of the first; the pages inside list screens as seen
by `AppShell` (one opaque "page").

**The server and gRPC**, as the Firestore client takes them to be. The server
decides on a write when it first sees it and says the same again; it takes the
requests of a call in order and answers each or ends the call with an error
about it; a call that the server ends without an error while work is left is
left out. The last answers before the end of a call may be lost on the way, and
what the client makes of those that arrive is in `WritePipeline` and
`ListenPipeline`. Each watch and unwatch request is answered once; a target's
changes are sent in order from the one its token names, and versions never go
back. Documents are numbered changes; the token of the write stream, the lengths
of backoffs and the quality of credentials are left out.

**Findings.** Four texts of the repository say what the code does not do:
`terminated_tap`, `failed_fetch`, `failed_write`, `kept_current` (section 3, and
"findings" in `PROJECT.json`).

**Limits of the client met while modelling.** They say where a property stops.

* When the last target goes while the stream is starting or in backoff, the
  online state becomes unknown and its timer is cancelled (`RS:182-189`), and
  only the next start of the stream sets it again (`OS:54`): a
  screen that listens meanwhile waits without a timer. `EveryListenerHears`
  therefore rests on the stream's own steps and not on the timer.
* A refusal is dropped without being counted if its target has been removed
  (`RS:369`), so that a target added again may wait for one answer too many for
  the rest of that stream; one that is counted forgets the answers still due to
  earlier requests, which may then be taken for a later life's. With refusals
  and five listens `DueIsOnTheWay` and `NoHoles` fail in the model for a query that
  is refused, so these two and `CurrentIsEarned` speak of the queries outside
  `Refusable`; the others of all.
* A document the server refused to answer about, and that returns to a view
  that was not current meanwhile, is not asked for again; `LimboIsTracked`
  excuses it (`refused`), and since `refused` is never cleared, one refusal
  excuses a document for good.
* A listener, or the sign-in of the Notes button, that answers during an exit
  transition leaves its page behind (`OrphansAreLate`), and one that dials in a
  release build dials for a screen that is gone (`OL:472`).

**Not modelled** of the Firestore client: existence filters, bloom filters, resets,
limits and orderings of a query, what a mutation does to local documents,
transactions, bundles, aggregate queries, `waitForPendingWrites`, garbage
collection, the conversion of messages. Not modelled at all: the translations
(constant tables), the platform projects, and the other Pods. gRPC, BoringSSL,
abseil, LevelDB, nanopb and the other Firebase products are libraries without
any of this program's logic, and nine tenths of the C and C++ lines of the
repository; the two that matter here, gRPC and LevelDB, appear as what the client
sees of them. The share of lines covered is small for that reason.

## 6. Plan

Done: the app's screens, shell, gate, notifications and form; the Firestore
client's writes, listeners and limbo; the proofs above, of all their safety.
What is left, in order:

1. Existence filters: a mismatch resets the target on the live stream
   (`HandleExistenceFilter` in `RE`), a third life of a target beside those of
   `ListenPipeline`; and limbo resolutions as targets of the same stream.
2. A composition of `AppShell` with `OfferDetails` (outer navigator shared) and
   with `UpdateGate` (dialogs shared).
3. `OfferSearch`: `Database`'s streams, index and range, conversion of
   documents; one bad document, which replaces a whole list by an error.
