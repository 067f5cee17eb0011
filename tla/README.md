# Otlyra: models and proofs

Otlyra is an experimental web browser written in Rust. This directory holds TLA+ models of the
parts of it where several threads, files or half-finished operations meet, the TLC configurations
that check them, and TLAPS proofs of what matters most about them. Every definition is a reading
of the source; `PROJECT.json` ("map") names the lines behind each one, and the hazards the models
are aimed at, at the line where it bites.

1. [The system](#1-the-system): components, state, interactions, what is hard, what must hold
2. [The modules](#2-the-modules): what each models and how it corresponds to the code
3. [The runs](#3-the-runs): what each checks, bounds, fairness
4. [The proofs](#4-the-proofs): theorems, assumptions, arguments
5. [Where the code and its words disagree](#5-where-the-code-and-its-words-disagree)
6. [What is not modelled, and the plan](#6-what-is-not-modelled-and-the-plan)

To run: `tlc -workers 2 -config Fetcher_all.cfg Fetcher`, `tlapm FetcherProofs.tla`.

## 1. The system

A native window runs on the process's main thread; its documents live on a content owner thread;
a Tokio runtime of two workers runs transports and download writes; a render thread rasterizes;
the cookie file, the disk cache and web storage each have writer threads; every page worker is a
thread. They meet in channels, mailboxes, mutexes and files.

| component | state | operations | talks to | hard to test | what makes it correct |
|---|---|---|---|---|---|
| **Window and content owner** `browser/threaded.rs`, `threaded/owner.rs`, `tabs.rs` | window: its copy of the strip, unacknowledged intents, scenes, what it put away; owner: tabs, documents, last serial | open, close, select, move, navigate, reopen, duplicate, page events, publish, receive | a FIFO channel of numbered inputs one way, a mailbox of one snapshot and a FIFO of native requests the other | projection over a stale snapshot, moves coalesced in place, an event for a document that is being replaced | the reader's strip is a strip; both sides converge; no scene of a page left behind; inputs in order |
| **Scene damage** `threaded.rs`, `threaded/owner.rs`, `otlyra-gfx/src/composition.rs` | each page's unconfirmed changes, the window's scene of each tab, the retained surface and the scene it is trusted to show | capture, publish, select, compose, draw, confirm, hide | the owner's mailbox one way, the render thread the other | a snapshot replaced unread, a cached scene come back to, a frame that failed, a window that hides | what is on the surface is what the next frame believes is there |
| **Frame scheduler** `otlyra-platform/src/event_loop.rs`, `render_thread.rs` | a frame owed, a frame in flight, three timers, visibility, refusals | request, start, report, hide, retry | render thread, window system | a request lost between two flags; a refused frame with no event after it | a visible window's owed frame is drawn; damage is kept until it is seen |
| **Cookie persistence** `cookies.rs`, `cookies/writer.rs` | `State` under a mutex, the jar's kept revision, the sealed file, its temporary, the plain file of older builds | schedule, flush, migrate, drop; write, retry, exit | mutex and one condition variable shared by worker and flusher; the file system; the keychain | a crash between sync, rename and directory sync; a notification taken by the wrong waiter; shutdown in a failing write | what was acknowledged survives; nobody sleeps with work; a flush answers; a drop ends |
| **Cookie jar** `otlyra-net/src/cookie` | cookies, kept revision, capacity | set by a response or a script, read, evict, expire, clear, write and read back | network tasks and the owner under one mutex | eviction against the revision, identity across write and take-over | one cookie per identity; every change of a kept cookie reaches the file; a noisy domain evicts itself |
| **Fetch pool** `fetcher.rs` | lanes of permits, tasks, held requests, the list of exchanges, a reply channel | fetch, cancel, resume, fulfil, fail, poll, shutdown, drop | Tokio tasks, the owner's waker, a driver's gate | cancel at any await, a sweep of lanes with permits out, a reply between a Wake and the clearing of its flag | one answer per request; none unannounced; lanes keep their size; nothing after shutdown |
| **HTTP cache** `otlyra-net/src/cache`, `loader.rs` | memory entries and their order, disk index, a queue of jobs, files | look up, adopt, disown, store, refresh, evict, clear | a writing thread; loads that drop the lock to read a file | whatever happens while the lock is dropped; a queue that is full; two addresses whose files have one name | an answer is the address's own; what was cleared leaves no file; what is listed is there |
| **Page loading** `browser/world`, `pump.rs` | a slot per tab: page, scripts, pending load with its outstanding requests and a stopped parse | start, stop, receive, resume the parse, finish | pool, parser, scripts, window events | replies of loads that were replaced, a script and a sheet waiting for each other | every load ends; a script that came runs once, in its place and after its sheets (for three kinds it does not: section 5); a picture stays with its document |
| **Navigation and tab history** `navigation.rs`, `loading.rs`, `tabs.rs`, `dom/js/location.js` | the tab's entries and position; the page's own entries and index | travel, reload, push, replace, record, restore | page loading, the page's own history calls | two lists of the same moves, told to each other turns later | Back given to the page lands where the browser says |
| **Web storage** `otlyra-script/src/storage.rs` | items, dirty flag, file, log of changes | set, flush, record, read the log | a new writer thread per flush, all pages | a failed or cut write, two writes at once, a change during a write, a log that is full | the file is one whole moment and in the end the last, but for writes that met (section 5); documents hear of each change once |
| **Downloads** `downloads.rs` | list, destination, part files, tasks | save, retry, finish | runtime, file system, window | names claimed by two at once, shutdown with writes under way | no download replaces another; a finished one is whole |
| **Bookmarks, visits, settings, preferences** | lists and a text file each | save whole | file system | a crash in a write | a list is whole |
| **Scripts, workers, timers, sockets** `otlyra-script` | inboxes, running workers, interrupt handles, deadlines | post, terminate, drain, answer, take due | the engine, page loading | terminate while the worker is being built, answers for the dead | nothing of a terminated worker is heard; timers are served in turn |
| **Frames, fonts, backgrounds** `world/frames.rs`, `fonts.rs` | a slot per frame, shared faces and pictures | start, arrive, redraw | page loading | an arrival for a page that went | what shows it is drawn again |
| **DOM and mutation observers** `otlyra-dom` | tree, registrations, records | mutate, observe, take | scripts, parser | changes made while walking | tree shape, records in order |
| **HTML parser** `otlyra-html` | tokenizer, node it is stopped at | feed, supply or skip a script, finish | page loading | `document.write`, resumption | a parse ends once |
| **Automation** `bidi`, `mcp.rs` | session, interceptions | commands, disconnect | pool's gate, page loading | a driver that leaves | no load waits for it |
| **Layout, style, text, painting, interface, inspector, addresses** | pure data, or one thread's | compute | | | left to the repository's references |

## 2. The modules

    DurableStore  <--implements--  CookieWriter   ---+--  CookieProofs
                                   CookieJar      ---+
    TabStrip      <--implements--  WindowOwner    ------  WindowOwnerProofs
                                   SceneDamage    ------  SceneDamageProofs
                                   FrameScheduler ------  FrameSchedulerProofs
                                   Fetcher        ------  FetcherProofs
                                   HttpCache      ------  HttpCacheProofs
                                   PageLoad       ---+--  PageProofs
                                   SessionHistory ---+
                                   LocalStorage   ------  LocalStorageProofs

A definition `X_Something` just before `X` is a plausible bug in the code behind `X`; it is never
part of a specification. `PROJECT.json` says which property finds it. `MCCookieJar`, `MCSceneDamage`,
`MCHttpCache`, `MCPageLoad` and `MCSessionHistory` give the constants of their modules values that a
`.cfg` cannot; the others are checked as they are. Every detailed module states a type invariant, and
all of them are proved; the runs check the properties that say more.

**DurableStore** is what the cookie store promises with no thread or file in it: a jar numbered by
revision, the revision a crash preserves, and the newest one somebody was told is safe.

**CookieWriter** is how it is kept. `wanted, written, moved, last, retryAt, stopping, finished` are
`writer.rs`'s `State`; `wpc` and `opc` are the places where the worker and the owner release the
mutex, so one action is one critical section or one file operation of `write_atomic`. Contents are
the revision that names them (`jar`, `snap`, `file`), an instant is whether a deadline is set and
past. `file` is what the name shows now, `durable` what a crash cannot take back; between a rename
and the directory's sync a crash may leave either, and `fileWhole` says whether what was renamed
had been synced. The keychain may refuse, any file operation may fail, the worker may fail to spawn or
panic, and either condition wait may return for no reason. Migration of an older build's plain file, which
may not be readable, and the drop of the store are the owner's longer operations.

**CookieJar** is the jar itself, the text it is written to and read back from, and the revision the
writer goes by. A save is a single step that may be put off (its inside is CookieWriter's); a
restart may come at any moment. Which host may set a cookie for which domain is a constant, as
is the site of a host; a clock of a few ticks moves forward only. All cookies are of one path, so an
identity is a name and a scope; which of a host's cookies a request sends and touches is a choice
(`HeaderFor`), since path, Secure and SameSite decide it in the code. `SetIn` and `SetFromScript`
are whole: refusal, replacement by identity, eviction and the revision. `displaced` is a history of what
stores evicted since the file was last written or read; no action depends on it. Its specification is `JarSpec`
(`JarInit`, `JarNext`), and `Without`, which drops the places of a list that `Expired`, `ToText`, an
eviction or a removal name, is what every loss of a cookie goes through.

**TabStrip** is what a reader is promised of the strip: it changes when they open, close, select or
drag, then and only then.

**WindowOwner** is the window and its owner. The window's variables are `WindowBrowser`'s; an input
is an intent, a navigation, a page event, or a request that only the owner can carry out (reopen,
duplicate). `Send` numbers and projects, `Post` coalesces a pointer move into the last one's place,
`Receive` is `receive`: `Unacknowledged` drops the intents the snapshot acknowledges, `Reproject` applies
the others to its strip in their order, each a fold written as a recursive function. `Handle` is
one command of the owner's loop, with the check of the context an event was made for, and
`Publish` fills the mailbox, replacing a snapshot nobody read. A document is named by the
navigation that loaded it; `Arrive` is the moment it replaces its predecessor (`Started` and `Arrived`
are what the two moments make of the tab).

**SceneDamage** is the other half of the same traffic: not which tab is shown but which part of it
is drawn again. `Edit` (a change of a page) and `Hear` (one command of the window, taken in order; a select
carries the serial by which the window knows whether a snapshot has heard of it) are turns of the owner,
each with the capture and publication that ends it; `Select` and `Turn` are the window changing tabs and
hiding or coming back, `Take` its merge of a snapshot into the scenes it keeps, `Compose` the choice of
what the frame's damage is, `Draw` the render thread's partial redraw and `Report` the confirmation
that lets the window forget damage. Pixels are known by the tab and the epoch that drew them, so a
region left undrawn is visible as an older epoch.

**FrameScheduler** is when a frame is built. `RequestNow`, `RequestFrame`, `Issue` and
`FrameFinished` are the scheduler's methods, as operators from the loop's state to its next one;
the actions are the events of `WindowedApp` (`Event`, `Redraw`, `Wake`, `Occlusion`, `Ready`, `Report`),
the render thread (`Device`, `Draw`) and the window system (`Occlude`, `Lose`), which may refuse a
frame, say late or never that a window is hidden, and lose the launch redraw once.

**Fetcher** is the pool and the thread that owns it. A task is at one of the awaits of `launch`; an
abort that meets it between two of them takes effect at the second. A lane is a page's host, or
the documents', and its semaphore is named by the request it was made for, which makes the sweep of
`Lanes::lane` visible: a lane given up and made again has another name. The two ways the pool is
embedded are the two initial states: a window's has a waker and ends by an awaited `shutdown`; a
driver's has a gate, no waker, a loop that turns by itself, and ends by being dropped. The order
in which a semaphore's waiters get a permit is abstracted to any order, which adds behaviours. The
`Blocking` seam, for loaders that block, is not modelled: tests and tools use it.

**HttpCache** is both tiers, the writing thread and the loads. A load is at one of the places where
`load` lets go of the lock: it reads a file, waits for the server, or has been given a 304 for an
entry that may have gone. `jobs` is the thread's queue with its current job first, `step` how far it is in
it (take, written beside, filled), `files` the directory, a function from every name, the temporary
ones included, to what is there or `None`. A file's name is a hash of the address, one of finitely many
that every behaviour chooses anew, so that two addresses may share one. A response is known by its
`Status` as far as `Serve` tells them apart. `Ends` says what a name would hold once the queue is played
to its end, which is what the directory's properties speak of. A crash may cut any
file short, since none is synced; the next run begins with memory and index empty, until
`AttachDisk` scans what it finds.

**PageLoad** is one tab's slot. A document is a sequence of things in it; `DocumentArrives` starts its
parse, which goes on (`Step`, and `Onward` as often as it can: `Resume`) to the next script that stops it; the
deferred scripts run at the end, `Sorted` by their place in the document. A script whose text is in the
document (`inline`) runs as the parse passes it (`Inline`), whatever is on its way. The deferred scripts after the
first stop are requested and waited for as every other resource, and are in no list (`Adopted`, `Built`); `came` is a
history of which of them came. An answer
(`SubresourceArrives`, `SubresourceFails`) feeds every resource its request was for and may uncover a sheet
that one imports. Everything that can
replace or end a load is there: another start, a stop, a system page, a document the page may
not reach the scripts of. What pages ask for outside the load's own table (`fetches`) is known by the
asker and the generation it was asked under, which is all the code has to tell a late answer by.

**SessionHistory** puts the browser's list of a tab's entries beside the list the page keeps of its
own: `tab` is the browser's, `shown` the page on screen, `loading` the load under way. `Travel` decides between a
step inside the page and a load, `Navigate`, `Arrive`, `FinishLoad`, `Fail`, `StopLoading`, `Reload`, `Refuse`,
`Attachment` and `Restore` are the browser's operations, `Input` a turn in which the page may push,
replace or go and after which the browser is told, `Turn` one of a timer, a worker or an answer, after which
nobody looks, and `TakeStep` the page's task that lands a step.
Two opaque origins compare equal, as they do in the code (`location.js:141`). Its specification is
`HistorySpec`.

**LocalStorage** is the shared area, its file and its listeners. `Script` is one call that changes
it, `Pump` the flush that takes the text and starts a writer (`Creates`, `Writes`, `Renames`, `Fails`), `Ready` and
the log what other documents hear: `Since` is what of it a document has yet to hear, `Unheard` when a
change is one. As in the code no flush waits for the writer before it, and the drop (`Quit`) waits for none:
any finite set of writing threads may be at work at once, and the process may end under them. Files are inodes and
names, so two writers of one partial file are seen to share it; the text is the number of the change it holds, or
cut short, or mixed. A writer's `solo` and the variable `crossed` are histories: whether a write has met another,
and whether the one that last gave the file its name had.

*How they fit.* WindowOwner, SceneDamage and FrameScheduler are one window from three sides: each
names in its head comment what it leaves to another. PageLoad takes from Fetcher that each
request is answered or cancelled (`Answered` and `OnePlace` there are the fairness assumed here);
CookieJar takes from CookieWriter that a save is a step; SessionHistory takes from PageLoad that a
load arrives, fails or is stopped.

## 3. The runs

| run | shows | bounds | states |
|---|---|---|---|
| `cookie_writer` | every interleaving of changes, owner calls, file operations and crashes keeps what was acknowledged and implements DurableStore; flush answers, what is wanted gets written | 3 revisions, 2 crashes | 230 905 |
| `cookie_jar` | no kept cookie is lost unnoticed, none that was replaced, deleted or cleared comes back from the file, identities are unique, a noisy domain evicts its own | 2 hosts, 1 name, room for 2 cookies, 1 or 2 per domain, clock 0..2, 5 revisions, 1 restart | 197 484 |
| `window_strip` | the strip is a TabStrip whatever snapshots it was rebuilt on; inputs keep their order and never reach a later navigation's page | 4 inputs, 1 navigation by a page | 750 543 |
| `window_settles` | with tabs the owner opens on its own: both sides agree once quiet, every input is acknowledged, no old scene on show | 3 inputs, 1 navigation by a page | 94 663 |
| `window_replacement` | the finding of section 5 | 4 inputs | to the violation |
| `scene_damage` | the surface is what the next frame believes it is, and the page as it is once nothing is under way, over unread snapshots, cached scenes, failed frames and a hidden window | 2 tabs, 2 regions, 2 edits, 2 selections, 1 hiding, 1 failed frame; symmetric | 1 176 075 |
| `frame_scheduler` | a frame owed is carried, damage is kept until shown, the screen catches up | 2 changes, 3 flips of visibility, 2 dropped frames, retry limit 1 | 186 246 |
| `fetcher` | one reply each, announced, within the lanes, none left behind, over cancels, panics, a gate, a driver and both ends | 2 requests, 2 hosts, every limit at 1 (idle lanes 0) | 159 018 |
| `http_cache` | answers are the address's own, forgotten entries leave no file, listed ones are there, over clears, evictions, late 304s, a full queue, failures, quits and crashes | 2 addresses (one with Vary, one with ETag), 2 loads at once of 3, rooms 1, 2 and 1, 2 events; symmetric | 2 158 561 |
| `page_load` | every load ends; exactly which scripts have run by then, once and in order, and after which sheets; a document is cut only at a script that is lost; pictures stay with their document | 2 loads, 1 fetch by a page, 5 documents of up to 5 parts | 142 930 |
| `session_history` | the two lists agree wherever the page stands | 4 addresses of 3 origins, one redirect, a page's list of 2, 7 acts | 2 031 762 |
| `local_storage` | the file is one moment unless two writes met over it; documents hear once, in order; what is held is saved in the end | 2 documents, 2 origins, 2 writing threads and the owner, a log of 2, 3 changes, 2 openings, 1 failure, 1 restart | 1 857 010 |

*Why these bounds.* Two revisions are needed for a write to be out of date and a third for
that to happen to its successor; a second crash falls into the recovery from the first. Two
cookies fill the jar of two, so every further one evicts; one restart separates what was kept from
what was not. Three inputs are a request the owner answers on its own (a duplicate, a page's
navigation) and two steps of the reader made without hearing of it; a fourth lets two of them be
acknowledged and two projected. For the pool two requests meet at every limit, each set to its
smallest: they want one permit, each launch sweeps, the second held pushes the first out, the
second exchange takes the first one's place. For damage two regions are enough to draw one and
trust the other, two edits let one be in flight and one in the mailbox, two selections leave a tab and come
back to it. Three flips hide a window, show it and hide it again around one report. One entry of
memory and two of disk make every third response evict; a queue of one is full with any job behind
the current one. Two loads let one replace the other at every stage. A page's list of two is cut by
its second push, and seven acts reach Back and Forward over that. Three changes overflow a log of two; the
owner's write at a quit with two threads under way is the third at one partial file. Documents of that run
open in the order of their numbers, which loses nothing: before it opens a document is only its number. The five
documents of `page_load` have an inline script on either side of a sheet and of a stop, and a deferred one
before the first stop, after it, and after a script that may be lost.

*Constants that state an assumption.* Three instances rule a known disorder out, so that what
holds without it can be checked; with the constant turned the same run fails, and section 5 says how:
`HideInFlight = FALSE` (a window does
not hide between a frame's commit and its report), `Patient = TRUE` (a step through the history ends before
the next move), and `Legacy = <<>>` (no plain cookie file is taken over twice).

*Stopping.* Deadlock is checked in every run. A `Terminated`, `Settled`, `Stopped`, `Quiet`, `Over` or
`Done` step stands for a system that has nothing left to do, and each is guarded by what must then be true.

*Fairness.* Safety is checked and proved of `Spec`, without any. `FairSpec` adds:
- CookieWriter: both threads run when they can (`WF` of each thread's steps) and time passes. That
  what is wanted gets written also needs `DiskRecovers`, an assumption on the environment stated
  in the property itself: no file operation that is tried again and again fails for ever.
- WindowOwner: the owner's loop takes commands and publishes after each batch, and the mailbox's
  waker makes the window read it. Nothing is fair to the reader, the network or a page.
- Fetcher: the runtime polls a task that is ready and a waiter gets a free permit; a transport that
  is not aborted ends, because `loader.rs:436` puts a timeout on it; the owner takes the wakes and
  replies in its channels; a connected driver's loop turns. Nobody has to navigate, cancel, answer
  for a driver or close. This is why `Answered` excepts held requests and a driver that is away.
- PageLoad: the pool answers what it was asked (`Answers`), with a response or an error, by the
  timeout if by nothing else; which of them comes next is free. Nothing is fair to what starts or stops loads.
- FrameScheduler: the window system delivers the redraw it was asked for and the news it has, both
  threads run and time passes. It need not redraw unasked, and no event of the reader need come.
- LocalStorage: the loop pumps, a second passes, every thread runs. Nobody has to quit; a write that
  failed is excepted in `SavedInTheEnd`, because nothing tries it again, and so is a file that two writes
  crossed over, because the older text may be the one that stays (section 5).

## 4. The proofs

Every theorem holds for every value of the constants (of the bounds too) that the named assumptions
of the modules allow: `BoundsAssumption` (CookieWriter), `JarAssumption` and `LegacyAssumption` (CookieJar),
`PlainAssumption` (WindowOwner), `DamageAssumption` (SceneDamage), `FrameAssumption` (FrameScheduler),
`LimitAssumption` (Fetcher), `CacheAssumption` (HttpCache), `LoadAssumption` (PageLoad), `HistoryAssumption`
(SessionHistory) and `StorageAssumption` (LocalStorage). They say which sets the constants are from, and
TLC evaluates each in a run. A theorem that needs more says so itself, by an ASSUME of its own; each of those
is one of the constants of section 3 that rule a known disorder out, or `Plain = {}`, explained below.
Every invariant and action property a passing run checks is proved, and so are both refinements.

Two modules hold the proofs of two components each, CookieProofs and PageProofs, for the lemmas on lists
they share. The two components have no variable in common, and nothing is claimed of their composition.

**CookieProofs, the writer.** `TypeCorrect`; `AcknowledgedIsDurable`, `MigrationKeepsCookies`,
`NoSleeperForgotten`; `ImplementsDurableStore`. *Argument:* "acknowledged is durable" is not
inductive, because an acknowledgement is read from `written`, which the worker set from what it
was told by the file system, about a snapshot it took earlier. `DurabilityInv` follows that chain
in four conjuncts: the file is whole and between durable and jar; the snapshot in hand is
between file and jar and durable once its success is reported; `written` and `acked` never exceed
what is durable; a migration in progress waits for the revision that holds the import. The
refinement then needs one step each: a directory sync is `Persist`, an answer `Acknowledge`, a
crash `Crash`, all else stutters. `NoLostWakeup` is inductive with the types: every step that makes
a sleeper's condition true also wakes it.

**CookieProofs, the jar.** `JarTypeCorrect`. `NothingKeptIsLost` rests on `SavedInv`: the revision of the file is
never ahead of the jar's, what the file holds is what would be read back, and while the revisions are equal each
lasting live cookie of the jar is in it. A store replaces, touches and evicts in one step, so its lemmas
follow the list through the three. `EachCookieOnce` rests on `IdentityInv` (no plain file
pending; jar and file without a repetition and no longer than the jar's room), and has `Legacy = << >>`
because with a plain file it is false (section 5). `WhatIsRemovedStaysRemoved` adds `RemovedInv`: while the revisions are
equal each cookie that would be read back is in the jar with the same value, or is in `displaced`. Its lemmas are the same
list of operations, read the other way: a step that leaves the revision alone takes no lasting cookie out but by
eviction. `NoisyDomainPays` is about one step, and counts. A victim of the jar's capacity is the least recently used of all of them, so when it belongs to another
domain the jar was full, and the storing domain's own eviction, which comes first, had found it within its room.
It too has `Legacy = << >>`: a plain file may hold more cookies than the jar has room for.

**WindowOwnerProofs.** `OldScenesStayAway`: inductive together with the shape of the two per-tab
functions; a navigation raises `invalidated` above every serial a published snapshot can carry, and
`Receive` compares before it shows. `InputsKeepOrder`: the serials in the channel rise
and stay between what was received and what was sent (`OrderInv`). Coalescing in place keeps that only
because the pointer input a slot remembers is the last command in the channel (`PointerLast`), which every
other kind of input ends by closing the slot.

`InputsReachWhatTheyMeant` (`NavInv`): a page event in the channel names a navigation that had a name when it was
sent (`Meant`), no tab of either side has one that was not given out, and a tab's document is no younger than its
navigation; the check in `Handle` does the rest. It needs every operation on a strip, of the window and of the
owner, to keep a strip well formed. `SettledWindowsAgree` (`SettleInv`): what is newest, of the owner's tabs, of
the unread snapshot and of the window's, is where it should be, and pending intents are those of unhandled serials.

`ReadersStripIsKept` is the refinement of TabStrip: the window's strip, rebuilt from a snapshot of any age, is
the strip the reader saw a moment ago. *Argument:* there is a history `H` of strips, one for each serial between
the last snapshot and the window, each made from the one before by the intent of its number (`Told`). The owner is at
`H[received]`, an unread snapshot at `H[latest.serial]`, the window at `H[serial]`; so reapplying to the
snapshot what it does not acknowledge walks the same way to the same end. That needs the window's
projection and the owner's application to be one function of the strip's identities (`ProjectOnIds`,
`ApplyOnIds`), which is true when the intent was made from the strip it is applied to (`Fits`). `Plain = {}`, because a tab
the owner reopens or duplicates appears in the strip when the owner has made it, not by a step of the reader.

`TypeCorrect` has no such condition, and that is what makes it long: with `Plain` the two strips differ, and what
is to be shown is that no strip holds a tab twice all the same, whatever is applied to it. `TypeInv` has a bound on what
each input may give out (two identities: one of the window's, one of the owner's), and says that an identity which an
intent brings to the owner is in no strip the owner has shown so far (`Named`); `Gains` says of each operation which
identities a strip may gain by it.

**SceneDamageProofs.** `TypeCorrect` from `Base`, which holds of every run: the scenes of a tab in page, mailbox, window,
frame and surface are builds of one page in that order of age (`Ages`); what the owner holds published is what the
window takes next or took last (`Published`), with damage that covers the way from the window's scene to
it (`MailDamage`); the selects the owner has not heard are the last the window made (`Selects`). `TheSurfaceIsTrusted`
and `WhatSettlesIsThePage` add `Shown`: the damage a window's scene keeps covers every change since what is on the
surface or about to be drawn there (`Covered`), and the window knows what that is (`Presented`, `Reported`) unless it
owes a frame (`Owed`). They have `HideInFlight = FALSE`: a window that hides before the report no longer knows
(section 5).

**FrameSchedulerProofs.** `TypeCorrect`, `OwedFrameIsCarried`, `DamageIsKept`. *Argument:* the
scheduler is a set of operators, so the first half is a lemma for each (`IssueSettles` to
`FrameFinishedSettles`): it turns a sound loop into a sound loop, whatever was called before it, and
neither starts a frame nor ends one. A sound loop carries what it owes (`Carried`), and its launch retry is off
once a frame was built (`RetrySpent`), without which a spent retry would count as a carrier. A report is the
one call that takes a carrier away, and it alone must ask again. The second half is what the window,
the painter and the render thread have between them: `Flight` (the one frame in flight is the one
composed last, as a job or as its outcome, and once drawn it is what the screen shows) and `InOrder` (screen behind
painter, painter's confirmed version behind screen).

**FetcherProofs**, in layers, each using those before:
`Typed` (types without a bound on replies); `OneReply` (where each request is and that its places sum
to one) gives `TypeCorrect` and `EachIsInOnePlace`; `Phased` (what teardown has already done)
gives `ShutdownIsQuiet` and `TeardownStartsNothing`; `Waits` (what is wanted is not aborted and is
somewhere a reply comes from) gives `SomethingWillAnswer`; `Announced` (a set `wake_pending` stands for
a Wake under way or just taken) gives `RepliesAreAnnounced`; `Laned` (all live tasks of a host share
the semaphore the table has for it, no semaphore serves two hosts, none gave out more than its
permits) gives `LanesKeepToTheirSize`. The last is the subtle one: the sweep may only drop a lane
no live task has, or a host would have two semaphores at once.

**HttpCacheProofs.** `TypeCorrect` and `AnswersAreTheirOwn` from `Sound`, which types every place a response can be
on its way: what is read from a shared file is compared with the address before it is taken in, and nothing else can
bring one address's body to another. `ForgottenIsGone` and `ListedIsOnFile` from `Tier`. Neither the directory nor the index
is right at any moment: only what the directory will be, `Ends`, once the queue is played, agrees with the index. So the lemmas say how
an operation on the tier changes `Ends` for each name (`EndsRemovals`, `EndsWritten`), that each carries the agreement
over (`Carries`), and that a step of the writing thread, which takes a job off the queue and does it in two, changes no `Ends` at
all (`WriterKeeps`). The exceptions after a failed write or a crash are those of the properties.

**PageProofs, the load.** `TypeCorrect`, `ScriptsThatCameRan`, `OnlyALossCuts`, `ScriptsFollowTheirStyle` and `PicturesStay`
from one `Inv`, most of which is of a load and is proved of each thing that can be done to one. A load is `Good` when a
script is asked for once and only where the parse stands or where it is deferred, so that a script that came and is
not deferred lies behind the parse, and ran, or is the one it stands at (`RanAll`); when the one it stands at is on its
way, came or failed (`Stands`); and when no sheet from before a stop the parse has passed is awaited (`Styled`). The
last is all the style there is: an inline script ran behind such a stop and may be in front of sheets still on
their way. A load is `Idle` when it stands at a script that came only for a sheet's sake. With no request left there is no
sheet, so a load that ends stands at no script that came: it has run all it is going to, and if it is cut, then at a loss. For `PicturesStay`: a picture asked for under the slot's generation was
asked for by the page on screen, or that page's load is not over (`Pictures`).

**PageProofs, the history.** `HistoryTypeCorrect` and `ListsStayTogether` (`Patient = TRUE`) from `HistInv`: what the browser
will have when it has been told of the page's changes agrees with the page's list, entry by entry from the first the
page has (`Paired`), for any limit on the page's entries; and a page's index is at an entry of its list
after each step it has before it (`PageFits`).

**LocalStorageProofs.** `TypeCorrect` (for any finite number of writing threads there is always an inode for one more
partial file) and `OthersHear` from `Base`: the log is the newest of what was changed, numbered in order, and
a document has heard once and in order of what is meant for it up to where it has seen. `OneMomentOnFile` is of any
number of writers over one partial file, and assumes nothing of them. *Argument:* a thread that has met no
other is the only one (`Solo`), so what it writes to is the partial file and what it renames is its whole text (`Wrote`); what
it made the file nobody writes to afterwards (`Kept`), since a later thread creates a partial file of its own. A file
two threads met over stays excepted until one alone has made the next.

*Induction over lists.* The library's induction theorems take an operator as a parameter, which the installed
provers cannot instantiate. Where a fact has to be carried along a list (the parse, the reapplied intents, the unheard changes,
an eviction), the proofs look at the first place it would fail: `CarriedThrough` says that a function which starts in a
set, and stays in it from each place to the next, is in it at every place; `Stepwise`, that a recursive function of the
numbers up to n has the values its equation says. Both follow from the least counterexample, and every fold of
the models is written as such a function.

*Model-checked only:* the liveness properties (`FlushAnswers`, `WantedIsWritten`, `Acknowledged`, `Answered`,
`ScreenCatchesUp`, `LoadEnds`, `SavedInTheEnd`), since neither fairness nor ENABLED is within the provers' reach, and
with them that no model deadlocks; and `OnlyClosedTabsGo`, which is false and is there to be violated. *Next to
prove:* a property for each hazard of `PROJECT.json` that has none yet, and the abstract pool and surface of section 6 with
their refinements.

## 5. Where the code and its words disagree

`window_replacement` checks one such sentence: `threaded.rs:153` says of the replacement of a closed last tab that
"no document uses the replacement". The window decides by its own count of tabs that one is needed
(`threaded.rs:722`, `737`); when the owner has another tab the window has not heard of, the replacement
overwrites it. One weaker property follows: a window can come to have no tab, so the properties of
WindowOwner that speak of its front tab do so while it has one (`WindowLives`).

What else was met, and where the models make room for it. Those marked *run* were seen by TLC in an
instance that is not kept; the others were read.

*Cookies.* A write of an older revision that fails while the store is dropped ends the worker at once, the latest
revision untried (`writer.rs:125`; `docs/interface.md:271` says the drop drains it) (*run*). A session
cookie that evicts a kept one does not raise `kept_revision` (`jar.rs:648`, doc at `jar.rs:262`), so the
evicted one is back after a restart (*run*; excepted in `RemovedStaysRemoved` by `displaced`). A plain file that
survives its first take-over is put into the jar again: two cookies of one identity, of which a
server's deletion removes one (`cookies.rs:242`, `jar.rs:639`) (*run*; `Legacy`).

*Window.* `navigation` changes when a load starts, so a press made on the old page while its successor
loads is delivered to the successor (`loading.rs:100`; a test is named for the opposite at
`threaded/tests.rs:519`) (*run*). A window that hides between a frame's commit and its report
confirms nothing (`threaded.rs:1426-1433` returns early), so `presented_content` names the tab before, and a
later partial frame trusts a surface that shows another (*run*; `HideInFlight`).

*Pool.* A task cancelled before it is first polled has no `FetchCompletion` to drop, so its exchange stays
"pending" for good (`fetcher.rs:1042`, against `208` and `1093`) (*run*). No load is harmed
(`NobodyWaitsInVain` holds); the network list is.

*Page loading.* `page_fetch.rs:17` says an answer is delivered only to the document that asked; between a
load's arrival and its end, and after a stop, the slot's scripts are the old document's over the new document, and
answers reach them; one that comes while the successor is on its way is lost (*run*). A load that ends with its parse
stopped at a script the page may not reach loses its deferred scripts (*run*; excepted in `ArrivedScriptsRan`).
A deferred script after the first script that stops the parse is fetched and waited for and never run: the list
`finish_load` walks is made with the document (`load.rs:689-697`, `756`, `1309`), where `driver.rs:864-869` says that deferred
scripts run after the parse (`early` in `ArrivedScriptsRan`). A script that stops the parse and whose fetch fails leaves it
stopped, and the document is cut there: the error branch resumes nothing (`load.rs:997-1007`), where `load.rs:1060` says that
a failed fetch "must not stop the page for ever" (`CutAtALostScript` says that nothing else cuts a document but a script that
may not be reached). A script with its text in the document does not wait for the sheets since the last stop: the parser
runs it at once (`driver.rs:896-926`), where `load.rs:1051` says that a script runs against the style the sheets before it
give (`ScriptsSeeStyle` says which sheets that holds of). Each of the three was seen: the property as the sentence has it
is violated (*run*).
After a stop, a picture of the document before may reach the one on screen (*run*; excepted in
`PictureStaysWithItsDocument`).

*History.* `location.replace` leaves the old entry's address in the list (`loading.rs:236` says Back "should go past it").
A reload before the first arrival leaves that arrival unrecorded; a navigation to b overtaken by one to a
records a twice (`navigation.rs:325`). Two quick Backs schedule the same step of the page twice (*run*; `Patient`).
A page that moves in a timer is heard of at the next input only. `travel` moves the position before its load
(`navigation.rs:114`), and a load that is stopped or fails leaves it there; a push of the old page meanwhile edits the
target's entry. A reload of a browser's page leaves `next_cache_mode` set for the next navigation (`navigation.rs:163`).
These are why `ListsAgree` speaks of a page that is the one its entry stands for (`home`).

*Web storage.* `storage.rs:126` promises the file "whole or not at all"; each flush has a thread of its own that nobody
joins (`storage.rs:206-215`), the drop writes without waiting for one (`storage.rs:84-90`), and all write one `.partial`. A
writer slower than a second meets the next one there, and a quit right after a flush meets it on any disk: the file may be cut,
mixed, or the older text for good (*run*; `crossed` in `TornOnlyByTwo` and `SavedInTheEnd`). A write that
failed is not tried again until another change; forgetting a site is not told to documents; the process may end
with a writer still at work.

*HTTP cache.* A 304 for an entry cleared or evicted meanwhile is given out bare, with no body (`loader.rs:705`); a late 304
may refresh another response's body; what a load adopts from a file after a clear or a no-store answer is kept
again; a file left beside its name by a crash can bring back what was cleared since (excepted in
`ForgottenLeavesNoFile`).

## 6. What is not modelled, and the plan

| part | why |
|---|---|
| Downloads | one writing thread; the claiming of names (a rename into a name another claimed between the look and the creation of its part file, `downloads.rs:555`) would be a small module and comes first of what is left |
| Scripts, workers, timers, sockets | message channels around an engine that is external; termination while a worker is built is the case worth having, and comes second |
| Frames, fonts, backgrounds | a frame is a slot with a parent: PageLoad twice, with the outer load's end waiting for the inner |
| Automation | the gate, a driver's answers and its departure are in Fetcher; `wait_for_load`, whose thread may be the one that would open the gate (`world/mod.rs:891`), is not |
| Bookmarks, settings, preferences | one thread and whole files |
| DOM, parser | one thread; suspension at a script is in PageLoad |
| Layout, style, text, painting, interface, inspector, addresses | functions from data to data, without interleavings, tested against references. They are most of the lines of the repository, which is why the models stand for a twentieth of them |

Within the modelled parts: the chrome's focus, find bar, context menu, clipboard and file
dialogs (WindowOwner); scrolling by moving pixels, resizing and the interface's own layers (SceneDamage);
accessibility, menus and the trace (FrameScheduler); freshness arithmetic, which is a choice, redirects, the
blocking fetch and decoding (HttpCache); module graphs within a load and `document.write` (PageLoad);
scroll positions and titles (SessionHistory); keys, values and the quota, and `sessionStorage` (LocalStorage).

Still planned: what section 4 names as next to prove; an abstract pool, implemented by Fetcher and driving PageLoad
in place of its fairness; an abstract surface, implemented by SceneDamage with FrameScheduler deciding when a frame is built.
