# Verification of libdvbsubdec

TLA+ specifications of the DVB subtitle decoder in `src/libdvbsubdec`, TLC
configurations that check them on small instances, and TLAPS proofs of the
results that hold for every instance.  `PROJECT.json` maps every definition to
the lines it models and lists the runs, the mutants, the hazards and the theorems.

## 1. The system

The library decodes DVB subtitle PES packets (EN 300 743) into pages of pixmaps
and shows them on the application's OSD when their time (PTS) comes.  It has no
thread of its own: an application calls it, and the application's timers call
it back.

| Component | State | Operations | Hard part | What makes it correct |
|---|---|---|---|---|
| Service (`lssubdec.c`) | state VOID/NULL/READY/PLAYING/PAUSED, speed, mute, DDS switch, OSD callbacks | New, Delete, Start, Stop, Play, Pause, Resume, Mute, UnMute, SetSpeed, Reset, customer DDS | any call in any state; each call undoes or carries over what earlier calls and timers left | Stop and Delete leave nothing behind; pausing freezes what resuming restarts |
| Display page list (`lssubdecoder.c`) | `displayPageList`, `latestDisplayPage`, `displayPageOnScreen` | ProcessPESPayLoad, processDisplayPTS, ptsCommandHandler, ServiceInstanceReset | three references to one page, deleted by five different functions | the list holds the pages in use; no reference outlives its page, no page outlives its last reference |
| Page (`lssubsegdec.c`) | status, visibility, two timers | New, Delete, page time-out, suicide | a timer fires for a page that other code already replaced | a page in use is awaited, shown or the base of the next one |
| Screen (`lssubdisplay.c`) | pixels on the OSD | DisplayPageOnScreen, RemovePageFromScreen | drawing is skipped when it is too early | the OSD shows the page on screen and nothing else |
| PTS manager (`lsptsmgr.c`) | per client a list of requests with timer, speed, remaining time | Register, Cancel, Reset, SetSpeed, timer callback | speed changes of running timers, PCR wrap, lateness | one request per waiting page; a request fires at its PTS |
| Factory and port (`lssubdec.c`, `lssubdecoder.c`, `lssubport.c`, `lsptsmgr.c`) | factory, PTS manager, host function table, service list | Init, Finalize, ServiceNew, ServiceDelete | the host refuses memory or a mutex at any step | what each call took is given back, wherever it stops |
| List (`lslist.c`) | anchor, count, nodes | append, prepend, remove, find, empty, destroy | a count and a chain that must agree; a node that cannot be allocated | it is a sequence; each node and each data block has one owner |
| Heap (`lsmemory.c`) | arena and free list in address order, or a count of bytes | malloc, free, realloc | splitting and merging over many calls; a resize that fails | blocks tile the arena |
| Priority queue (`lspqueue.c`) | array | none: nothing calls it | | |
| Decoder (`lssubsegparser.c`, `lssubdecoder.c`, `lssubsegdec.c`) | display set, page, regions, versions, composition and pixel buffers | parse the segments, decode an epoch, decode a normal case on copies of the latest page | memory ends between any two steps; one display set has two owners; copies of regions share records | each block is freed once; a queued page keeps its pixels; the page shows what was sent |
| Pixels (`lssubpixmap.c`, `lssubconverter.c`, `lssubgfx.c`, `lssuben300743.c`, `lssubutils.c`) | none but the pixmaps' memory | arithmetic | none for a model checker | unit tests |
| SDL demo (`demo_app_sdl`) | PES queue, feeding thread, timer table, player | create, feed, stop, destroy, main loop | two threads share a circular buffer and one condition variable; creation fails half way | packets arrive in order; stopping returns; nothing is left behind |
| Qt demo (`demo_app_qt`) | widgets | the same calls | its timers report seconds and milliseconds | |

Interaction.  `Play` decodes a packet into a page, appends it to
`displayPageList`, makes it `latestDisplayPage` (the page on which the next
normal-case display set is decoded) and registers its PTS.  The PTS manager arms
a host timer; when that fires, `ServicePTSNotificationCB` either presents the
page (draws it, replaces the one on screen, arms its time-out) or, in rewind,
drops it.  The time-out clears it again.  The suicide timer, two hours, drops a
page whose request never fired.

Everything lives in memory of three buffers that `ServiceNew` makes a heap of
(composition, pixel, coded data) or of the system heap of the factory; lists of
`lslist.c` hold the services, the pages, the requests and the regions.  The SDL
demo wraps the life of the library in its own: `main()` initialises it, makes a
queue, a window and a service, feeds packets, and takes all of it down again.

## 2. Modules

| Module | Models |
|---|---|
| `SubtitleService` | the contract an application sees: subtitles are submitted in order, shown once their time is signalled, one at a time, expire or are given up; all is gone when the service closes |
| `DVBService` | one service in detail: every API call and every timer callback is an action, with its own guards and effects |
| `MCDVBService` | constants for TLC: sets of calls and speeds, symmetry |
| `PTSMgr` | the PTS manager for one client, with time as numbers: a request's timer from registration over changes of speed to firing, against the point at which it is due |
| `MCPTSMgr` | constants for TLC: speeds and stream times |
| `DisplaysetDecoder` | how one packet is parsed and decoded into a page, one step per segment and region, with the memory each step takes, against what the broadcaster defined |
| `MCDecoder` | constants for TLC: drawings, symmetry and view |
| `Heap` | the two allocators as operators on a heap: what malloc, realloc and free may yield |
| `ListContract` | what a list promises: a sequence |
| `LinkedList` | the list in detail: nodes in a heap, and a client that keeps its blocks in it; implements `ListContract`, EXTENDS `Heap` |
| `MCLinkedList` | constants for TLC: sizes of blocks |
| `Library` | Init, ServiceNew, ServiceDelete, Finalize: what each takes from the host and gives back when a step is refused |
| `PESQueue` | the SDL demo's circular buffer with its mutex and condition variable, as operators |
| `SDLPlayer` | `main()` and the threads of the SDL demo: composes `Library` and `PESQueue` |
| `MCSDLPlayer` | constants for TLC: the threads |
| `SequenceFacts` | lemmas about removing from and appending to sequences |
| `DVBServiceProofs` | what holds whatever the application calls, what holds under the documented use, and that `DVBService` implements `SubtitleService` under it |
| `PTSMgrProofs` | types, timers and deadlines of the PTS manager |
| `HeapProofs` | lemmas: what malloc, realloc and free yield from a sound heap in either build |
| `LinkedListProofs` | the chain, its owners and the heap; a list implements `ListContract` |
| `DisplaysetDecoderProofs` | the latest page and the queued pages, ownership of pixmaps, types, one owner for every block of the service's buffers |
| `DecodedPageProofs` | the latest page shows what was sent |
| `SDLPlayerProofs` | the circular buffer, the order of packets and the exit of `main()`; the library gives back what it takes |

Correspondence of `DVBService` with the code.

* `state`, `displayPageList`, `latestDisplayPage`, `displayPageOnScreen`,
  `serviceSpeed`, `muteState`, `DDSFlag` are the fields of `struct _LS_Service`;
  `pcrFunc` says whether the registered `osdRender` has a PCR callback.
* `page[p]` is the memory of page `p`: `magic` is TRUE from `LS_DisplayPageNew`
  to `LS_DisplayPageDelete`, which stops the timers and zeroes the record.  The
  module models the build with the library's own heap (`LS_INTERNAL_HEAP`), in which
  the memory of a freed page stays readable; code that reads a freed page therefore
  reads zeroes in the model too.  In the default build, which wraps the C library's
  allocator, such a read is undefined, and `any_use`, in which it happens, says nothing
  about that build; under the documented use every reference leads to a page in use
  (`PagesListed`, `OnScreenIsDisplaying`, `LatestIsLast`).
* `requests` is the client's list in the PTS manager; a request's timer runs
  unless its `current_speed` is 0.
* `screen` is the set of pages whose pixels are on the OSD, a variable of the
  application, changed only by the draw and clean callbacks.
* A call is one step and a callback is one step.  Both demo applications run the
  timers on the thread that calls the library (the SDL main loop polls
  `check_and_fire_timers`, Qt uses `QTimer`), and `src/README.md:108-110` recommends
  it: no `SDL_AddTimer`, whose callbacks run in a thread of their own.
* Decoding is abstracted to its result; how a packet becomes a page is
  `DisplaysetDecoder`.  A packet that is rejected before its
  page is queued changes none of the variables and is left out; one whose PTS
  cannot be registered after its page was queued is `ServicePlayUnregistered`.
* Delays are abstracted: an armed timer may fire at any time and in any order.

Correspondence of `PTSMgr` with the code.  It is not composed with `DVBService`, whose
delays are arbitrary.

* `requests` is the client's list of `LS_PTSMgrTimerInfo`; `timers` counts the host's
  timers, so that one that no record keeps is seen.  `base` is `s_pts_base` and
  `first_subtitle_done` the static of that name.  `timeout_ms`, which only an
  assertion reads, is left out.
* The unit is the millisecond; the code's division of 90 kHz values by 90 is not
  modelled.  `video` is the environment: where the video is, in hundredths of a
  millisecond, so that every product of a time and a speed is exact.
* `due` is a ghost field: where the video should be when the request fires.  It is
  computed from the stream time of the subtitle, not from the manager's delay, so that
  the arithmetic on PTS, PCR, base and wrap is checked and not assumed.
* The client calls `LS_PTSMgrSetSpeed` when the video changes its speed.  The service
  does so only in Pause and Resume; its own SetSpeed passes the previous speed (run
  `speed_zero`).
* The arithmetic has the code's width: `Signed` is what an `int32_t` holds of a number in
  a word of 32 bits, `PTSms` a PTS relative to the base, which underflows in 64 bits if it is
  before it (`Underflow` is 2^64 / 90 in 32 bits; the fraction of a millisecond is left out),
  `Scaled` the product by 100 in an `int32_t`, divided towards zero, and `Delay` what the clamp
  makes of it.
* `Occurring` names what the manager's authors did not expect: a PTS that wraps ("PTS wraps"),
  a PTS registered late over a wrap, a PTS so far from the PCR that the product by 100
  overflows, and a host that splits the remaining time in two fields.  The product overflows
  from 5 h 58 min on, although the code's own test for the wrap admits distances of 12 h: a PTS
  7 h ahead fires after a millisecond and one 7 h late after a minute.  `deadlines` leaves all
  four out; two runs show what the first and the last do, and with "hours apart" TLC refutes
  `NeverLate` and `NeverEarly`.

Correspondence of `DisplaysetDecoder` with the code.

* `job` is the call of `ProcessPESPayLoad` that is under way: the segments that are left,
  the display set parsed so far, the page it has become and the regions that are still to be
  decoded.  The segments left are a set: those of the lowest `Rank`, the order of EN 300
  743, may be the next (`Parsing`), in any order within a type.  Each segment and each
  region is a step because each may run out of memory; nothing else happens between the
  steps, as the service's mutex is held.
* `page[p]` holds a page's display set, its regions and its PCS's page id (`ours`) and
  version.  `pixmap` holds what the regions' pixmaps show, one value for all pixels of a
  region: blank, or the object drawn last.  `composition` and `coded` count the blocks
  taken from the composition buffer and those of object data.  What a page or a display
  set gives back is the number of blocks it holds, each named by what it is for and whose
  it is (`SegmentBlocks`, `ObjectBlocks`, `PageBlocks`; `BlocksOf` and `CodedOf` for several
  pages), so that a block that nobody owns, or one given back twice, makes the two counts
  differ.
* Every allocation may fail (`Failing`) and the code's reaction is the model's: a PCS keeps
  the region infos it has, an RCS lacks its object, an ODS its data, a segment that
  cannot be made ends the packet, which is then decoded as if it were complete.
* Without a PCS the page gets a copy of the latest page's PCS.  The region infos of the
  copy are allocated and not written: `Compositions` lets them name any regions.
* `decodeNormalCaseDisplayset` copies the latest page's regions (`CopyRegion`) and
  decodes those RCSs into the copies whose version differs, or all of them when the page
  version differs (`Outdated`).
* A failed pixmap is a read of NULL (`Crashes`), and so is a display set without PCS when
  there is no latest page.  The process is gone then, and the model stops.
* `CleanUp` deletes the display set by itself and then with its page; the second time the
  magic numbers are gone and the memory refused.  As above this is the internal heap; in
  the default build the second time reads memory that has been freed.
* What the broadcaster sends: an epoch with any regions, or none, which the code ignores (it
  rejects the display set, and the page of the epoch before stays); updates of them with or
  without a PCS, in which every region comes again as it was or changed, and with its CDS or
  without; display sets of another page, of which the code rejects an epoch and takes a
  normal case for one of its own; and the reserved page state.  A CDS comes only with the RCS
  of its region.
* `stream` is a ghost: the regions, pixels and colours as EN 300 743 defines them, computed
  from what the broadcaster sends (`Broadcast`) and not from the code.  `intact` is a ghost
  that an epoch sets and that is FALSE once something was lost: an allocation, the rest of a
  packet, or the page by a reset.  Nothing that the code does with what it has got makes it
  FALSE.
* `PageIsWhatWasSent` therefore speaks of legal display sets too that the code does not
  decode as the standard has it, and says in each case what is true of the page.  Regions
  and pixels are always those that were sent.  Which regions are shown (`stream.composed`)
  is right after a PCS for this page; after a display set without one it is "implied", and
  wrong (run `page_update`); after a normal case of another page it is that page's
  ("other").  Colours are right as long as no region is sent without a CDS that it has had;
  the code then falls back to the default colours, and the property is silent about that
  region's colours ("dropped").
* `Retire` stands for what `DVBService` does in detail: a page is deleted after its display
  unless it is the latest.

Correspondence of `Heap` and `LinkedList` with the code.

* Addresses and sizes of the internal heap are in units of `LS_MEM_NODE_SIZE`, as in the
  code; a unit stands for a whole header.  `heap.free` is the free list in address
  order, `heap.header` what stands before each block in use.  `BestFit`, `Taken` (the
  block's end is given out), `Joined` and `Inserted` (a block before the first free
  one is put in front of it and not merged) are the branches of `__heap_malloc` and
  `__heap_free`.
* The tracked heap counts bytes.  The C library may refuse at any time.  Its resize wipes the
  magic number before it asks (`TrackedReallocs`), so that a resize that fails leaves a
  block that `LS_Free` refuses: `OneOwner` excepts such blocks and nothing else.
* `node` maps addresses to nodes, `list` has the anchor and the count.  The operations walk
  the chain as the code does; `Items` is the refinement mapping to `ListContract`.
* `held` is the client: blocks allocated and not in the list.

Correspondence of `Library`, `PESQueue` and `SDLPlayer` with the code.

* A call of the library that takes things from the host is a sequence of steps in the
  code's order (`ServiceFactoryNew`, `ptsMgrNew`, `ServiceInstanceNew`, ...).  The
  host may refuse any of them; `Fatal` says which refusals end the call.  Of the mutexes
  only those of the factory, the PTS manager and the heaps do: the others are
  `Dispensable`, either because nobody looks whether they were made or because, in
  `LS_ListInit`, only `LS_ERROR_GENERAL` counts as a failure and both demos' hosts report
  another error.  A list without its mutex refuses every node (`Impossible`).
* `held` is what the library has taken, `globals` its static pointers; `Reachable` is what
  these and the service lead to.  `LS_ResetSystemFuncs` loses its own mutex (`Lost`).
* `main` is the point at which `main()` is; `Refuses` stands for SDL, threads, timers and
  files.  After `gaveUp` the process ends or, like a player embedded in another program,
  runs `main()` again.
* A critical section of the queue is one step.  `waiting` are the threads in
  `pthread_cond_wait`; `pthread_cond_signal` wakes any one of them (`Signal`), and
  any of them may wake up without it (`WakesUp`).
* `sdl_player_start_feeding` and `sdl_player_stop_feeding` are functions the demo offers
  and its `main()` does not call; the reader of the queue is external, since the demo's
  timer callback for it is empty.  Starting is two steps, the thread and the timer
  (`AddFeedTimer`): the thread feeds while its caller still makes the timer, and stays if that
  fails.  The embedding program starts no second thread before it has stopped the first.  The
  code does not check that; it would overwrite the first thread's handle, which nobody could
  then join.  `got` and `fed` are ghosts.

## 3. Runs

`deadlines`, `seconds` and `pts_wrap` use `MCPTSMgr`, `containers` `MCLinkedList`, `decoder`
and `page_update` `MCDecoder`, `application` `MCSDLPlayer` and the others `MCDVBService`.

| Run | Result | Question |
|---|---|---|
| `documented_use` | passes, about 15,700 states | With a PCR, without PTS gating, at forward speeds, playing only when started, and without mute and reset: does the service implement `SubtitleService`, do list, requests, timers and screen stay in step, is every page resolved, does every subtitle expire? |
| `any_use` | passes, about 440,000 states | With any call in any state, negative and zero speeds, PCR errors and gating: does a page leak, does Delete leave something armed, does a page's status go back? |
| `early_page` | `WaitingPageIsResolved` violated | Is a page that was found too early shown later?  No: its request is consumed and only its time-out is armed. |
| `speed_zero` | `SpeedZeroPauses` violated | Does speed 0 pause?  No: `SetSpeed` applies the previous speed to the pending requests. |
| `rewind` | `NullStateHasNoScreenPage` violated | Is the page on screen gone when the service is reset?  Not by `SetSpeed` with a negative speed. |
| `deadlines` | passes, about 373,000 states | Across pauses, changes of speed, rewinding, late requests, the clamp and the wrap of the PCR: does a request fire neither before nor after its time, and is every timer kept? |
| `seconds` | `NeverEarly` violated | With a host like the Qt demo's, is the remaining time kept over a change of speed?  No: whole seconds are dropped. |
| `pts_wrap` | `NeverLate` violated | Is a PTS that has wrapped to below the first one met?  No: it underflows, its distance is arbitrary, and it fires late by up to the clamp. |
| `containers` | passes, about 160,000 states | In either build, with a heap that runs full: is a list a sequence, do count and chain agree, has every block one owner, do the heap's blocks tile its arena? |
| `decoder` | passes, about 690,000 states | Over display sets that begin epochs and update them, with and without PCS and CDS and for another page, with one allocation failing or a packet cut short: is every block owned once, do queued pages keep their pixels, is the latest page there to be decoded upon, does it show what was sent? |
| `page_update` | `UpdateIsComposed` violated | Does a display set without a PCS leave the same regions shown?  No: the region infos it takes over are not written. |
| `application` | passes, about 27,600 states | Over two runs of `main()`, with any two requests to the host refused: is everything given back, do the packets arrive in order, does stopping return? |

Bounds.  Three pages let one be on screen, one wait and one be queued (or be
the retired base of the next); no function looks at more than three pages at a
time (latest, on screen, fired).  Two PTS values give pages with equal and with
different times.  `MaxQueued` and `MaxRequests` bound the list and the requests;
in `documented_use` they equal the number of pages and so exclude nothing.  In
`any_use` a deleted page may stay in the list and be allocated again, so that
there the list is longer than the number of pages: `MaxQueued` is 3 for two pages.

In `MCPTSMgr` the period is 16 ms, half a day 8 and the clamp 4, the same order as
26.5 h, 12 h and 60 s; in `deadlines` the word is 1300, so that as in the code a distance
whose hundredfold fits an `int32_t` (up to 6) is longer than the clamp and shorter than half
a day; the video runs over one wrap to 22 ms, so that requests are made on both sides of it,
early, late and beyond the clamp.  Two requests and two changes of speed cover every pair of
speeds and both orders of rounding.  `Rounding`, 1 ms of video for the registration and for
each change, is what one division of milliseconds loses at double speed.  No fairness: the
host is punctual by its guard.

In `MCLinkedList` the arena has 14 units and blocks take two or three with their
header (`BlockBytes` 1 and 3, list and node 2): room for a list, two nodes and two
blocks, and exhaustion with one more.  A free list of three blocks occurs, with every
pair of neighbours free and not, an exact fit and one that leaves a rest; no branch of
`__heap_free` looks further than one block to either side.  The tracked build uses the
same constants as bytes.  `MaxHeld` 2 allows one block to be resized while another is
in the way.

In `MCDecoder` two pages are enough: the code sees the page being decoded and the
latest one, and a page that is older is only retired.  Two regions let one be copied
and the other updated, or one be lost.  With two versions the wrap comes at the second
change, where 16 would hide it.  An object has one content: pixels are blank, old or
drawn.  Three packets make an epoch, an update and an update of that; of the regions
one is sent per update (`MaxSent`).  A failure, of which there may be one at any place, costs
one of the three packets (`MaxPackets`): an epoch or an update is decoded with it, not a second
update, which would meet the same code.
Pages and regions are interchangeable; the view leaves out of a queued page its DDS and its
segments but the region infos (a copy of the PCS reads their number), of a page that is not
the latest all but the pixmaps, and the counts of blocks when they agree with what is
owned (`MemoryIsOwned` itself is in the view), which no later step and no property reads;
the regions shown while nothing is promised of them, since each new page decides them
anew, and colours that have been dropped; and after a loss, when nothing is promised of what
the page shows, pixels, colours and the regions shown, which steps only copy.  States that
differ in those alone are explored once; what the properties say of them is proved for all
(section 4).

In `MCSDLPlayer` the queue has room for two of four packets, so that it runs full and its
indices go round twice.  Two refusals reach every pair of failures in one call; the
second run of `main()` starts with what the first has left.

Fairness.  `WF` on the timers only: the host fires every armed timer in the
end, whichever of several requests with one PTS comes first (`FireOneOf`).  No
call of the application is fair; the leads-to properties therefore hold "unless
the service pauses".  The suicide timer needs no fairness.

In `SDLPlayer`, `WF` on the steps of `main()` from one call to the next (`MainSteps`), on the
feeding thread and on the reader: they are threads the system schedules.  No fairness on
what the user or the embedding program decides (`Quit`, starting and stopping the
feeding, running again) and none on wake-ups without a signal.  `PacketsArrive` and
`StopReturns` are thereby due to the queue's own signals.  Weak fairness does for the
reader because its call stays enabled until it has been made.

Deadlock is checked in every run but `decoder` and `page_update`, whose process ends in a read
of NULL or with the last packet.  In `application` the end of the last run of `main()` is a step
that changes nothing (`Done`).

Every property of a passing run has a mutant in `PROJECT.json`: a variant of one
definition, the way a plausible slip in that function would change it, that TLC
finds to violate the property.  The variants stand beside the definition they vary.

## 4. Proofs

TLAPS checks the following for every value of the constants that satisfies the
ASSUMEs of the module concerned; for `DVBService` these are that `Nil` is no page, speeds
are integers, PTS values are naturals, calls and states are known ones and the host's
switches Boolean.  The number of pages, the bounds and the length of the list are arbitrary.

Whatever the application calls (`DVBServiceProofs`): `TypeCorrect`,
`NoPageLeaks`, `DeleteIsQuiet`, `StatusOnlyAdvances`.  The invariant is `Safe`:
types, well-formed page memory (a freed page is all zero, so that its status can
never match and its timers never fire), no page in use outside the list, and
quiet after Delete.  Types alone are not inductive: that a status never goes
back needs freed memory to be zeroed, and that Delete is quiet needs the pages
in use to be in the list.  Each action is shown to touch pages in one of three
ways: it only frees some, it only moves some onward, or it allocates one.

Under `DocumentedUse`, in the same module: `QueueIsSound`, `LatestPageIsLast`, `ScreenIsOwned`,
`ScreenPageIsDisplaying`, `RequestsMatchPages`, `NothingIsForgotten`,
`TimeOutRunsForScreenPage`, `StoppedServiceIsQuiet`.  The
invariant `Contract` conjoins them, and strengthens them by
`Matched`: there is a bijection between the pending requests and the waiting
pages that preserves the PTS.  The counting property is not inductive in a form
the provers can use (cardinalities of sets that lose one element by an index
shift); the bijection is: removing a request and its partner leaves a bijection,
and when a request fires for another page of the same PTS the two partners are
exchanged.  Cardinalities are compared only at the end.

In the same module `ServiceImplementsPromise`: under the documented use every step of
`DVBService` is a step or a stutter of `SubtitleService` under the mapping
given in `DVBService` (open when started, phase from the page's status).

For `PTSMgr` (`PTSMgrProofs`), for every number of requests and changes, every set of speeds
that contains 100 and every word that holds the longest delay, the clamp and the lead time
(`TimeAssumption`): `ManagerTypeCorrect`, `EveryRequestHasTimer` and
`OnlyFrozenLeavesTimers`. The invariant is `TypeOK` with `TimersCover`: there are at least
as many timers of the host as requests.  The types need that a new delay is bounded by the
clamp and a remaining time reduced modulo the word.

In the same module `RequestsAreNeverLate` and `RequestsAreNeverEarly`, for every period of
the PTS, clamp, word and set of speeds, under the hypothesis `Foreseen`: nothing `Unusual`
happens, so that no PTS is as far from the PCR as 5 h 58 min, where the product by 100
overflows; the first PTS is above 0, so that it becomes the base; half a day is at most half
the period; a timer's milliseconds of video fit the word at every speed (with the code's
60000 ms and 32 bits, at up to 690 times the normal speed); and `Rounding` is at least 100,
half of every speed, and what reading a timer at one speed and starting it again at another
loses.  The run `deadlines` is such an instance (the losses are then at most 100), and for
any speeds `Rounding` may be 100 more than the fastest (`RoundingOfFastest`).  The first two
hypotheses and the word are what the findings `seconds`, `pts_wrap` and the hazards on the
base and on the two products in 32 bits are about: without them the theorem is false.  The
two properties are about the video when a request fires; the invariant `Deadlines` says what
holds while it waits: what is left of its timer, times the speed it was started for, or of
its time while the video is paused, leads from where the video is to where the request is
due, but for `Slack`.  `DeltaIs` shows that the manager's distance between PTS and PCR is
that of the stream times, also when the PCR has wrapped before the request or will before it
fires, and that the product by 100 is exact then (`SignedSmall`); `FiresWhenDue` bounds what
the scaling, the clamp and the millisecond of a late request lose; `ToGoIs` shows that the
product in unsigned arithmetic does not wrap as long as no speed is negative.

For `DisplaysetDecoder` (`DisplaysetDecoderProofs`), for any number of pages, regions,
packets and failures: `LatestCanBeDecodedUpon`, `PixmapsHaveOneOwner`, `QueuedPagesAreKept`.
The invariant `DecoderInv` says that a pixmap is named after the page and region it was
made for, that the page being decoded is the only new one and not the latest, that it
has a composition from the stage on at which that is read, and that the regions which
are still to be copied exist in the latest page.

In the same module `DecoderTypeCorrect` and `BlocksHaveOneOwner` say that the two
counts are those of the blocks owned, wherever memory ends.  The types are inductive once
the segments still to parse are known to be ones of a display set that was sent
(`LeftIsSent`), since an RCS or ODS is taken over as it comes.  The counts are not: a step
that adds one to the count adds one block only if the block was not there before, and
`With` replaces a segment or region that is.  So `MemoryInv` says besides that a
segment still to parse is not in the display set yet (`SegmentsAreNew`), that a region still
to be decoded or copied is not in the page (`RegionsAreNew`), and that the sets are
finite.  What a deleted page gives back is then the difference of two
cardinalities (`CountWithout`); no sum over pages is needed, as blocks are named.

`LatestShowsWhatWasSent` (`DecodedPageProofs`), for any number of versions from two.
`PageIsWhatWasSent` speaks only of the moments between two packets; `ContentInv` says what
is known at each stage of one, as long as nothing was lost (`Known`): that the segments
parsed and those still to parse define what the broadcaster has defined (`IsSent`), that a
region still to be updated becomes what was sent when its RCS is decoded, or is so already
if that is skipped (`Due`), that the others are done (`Done`), and that those regions are
visible which the stream shows, while its composition is that of a PCS that was sent
(`Seen`).  A display set of another page changes no region (`Changes`) but may compose the
page, and one without a PCS changes regions but says nothing of which are shown
(`Composes`); the colours of a region are known until they may have been dropped (`Fits`,
`ColoursSent`).  Two facts about the stream carry it: a changed region has another version
than before, so that skipping those whose version is the same is right; and drawing a region
twice is the same as drawing it once (`DrawnTwice`), so that decoding all of them when the
page version differs is right too.

For `SDLPlayer` (`SDLPlayerProofs`), for every capacity, length of the file, number of runs
and of refusals: `PlayerTypeCorrect`, `SlotsOwnPackets`, `PacketsStayInOrder`,
`ExitLeavesNothing`.  The types need that the library's calls take and give back what they are
known to (`LibraryTyped`) and that each thread stands where its call may be (`ThreadsTyped`).  The
invariant `PlayerInv` describes the buffer by the place of each packet (`Slots`, `Line`,
with lemmas on the remainder of a division), says that the feeding thread stands
where the last packet went in as long as the queue is open (`Fed`), without which a
second start could feed a packet twice, and in which stages of `main()` there are a queue,
threads and a service (`Staged`).

For the library under `SDLPlayer`, in the same module, for every number of refusals and of runs:
`LibraryLeaksNothing`.  `NothingLeaks` is inductive as it stands.  The proof says what each
sequence of steps consists of, that the parts share no name, that a call which
succeeds has taken all its steps but the dispensable ones, and that one which fails
has not taken its last step, which is the only one its clean-up leaves out.

For `LinkedList` and `Heap` (`LinkedListProofs`, on the lemmas of `HeapProofs`), in both
builds, for every size of the arena, of nodes and of blocks and every number of them:
`ListTypeCorrect`, `FreeBlocksStayInOrder`, `ArenaStaysTiled`, `CountStaysLength`,
`BlocksOfAListHaveOneOwner`, and `ListsAreSequences`, the refinement of `ListContract`.
All rest on `ListKeepsItsBlocks`, the invariant `ListInv`, whose three parts need each
other.  `Linked`: the nodes are one chain without repetitions, which the anchor begins.
`Divided`: nodes, data, client and list have no block in common, and no block with its
magic number is left over.  `Sound`: the headers account for the count of what is
allocated, and in the internal heap the free blocks and those in use tile the arena.  A
node that is unlinked may be freed because it is nobody's data; a new one lengthens the
chain by one because its address was in nobody's hands, which is so because the heap is
sound; and a freed block fits between two free ones because no block in use overlaps it.
The properties speak of cardinalities and the free list of places in a sequence; the
argument is about sets of units and compares cardinalities only at the end (`CountUnion`).
What `Chain` computes by walking is shown once, for any linked nodes (`ChainIs`).

Only model-checked: the leads-to properties (liveness under fairness is out of the
prover's reach) and the violations.

## 5. What is not modelled

* Time in `DVBService`, several clients in `PTSMgr`, several services and nested users in
  `Library`, and its logger.  `LS_DVBSubDecSetupLogger` is declared (`lssubdec.h:643`)
  and not defined anywhere.
* What a muted service shows.  `Mute` takes the page off the screen and sets `muteState`, which
  nothing reads, so that every subtitle that comes up afterwards is shown, although
  `lssubdec.h:745` promises that a muted service displays nothing.  The model does the same.
* Two feeding threads at once in the SDL demo's player (section 2).
* Hosts that run timer callbacks on another thread.  `src/README.md` promises that all API
  functions are protected by mutexes; the PTS manager takes its mutex in the callback but
  not in Register, Cancel, Reset or SetSpeed.  The hazards list both consequences.
* In `DVBService`, a timer that the host refuses: `LS_DisplayPageNew` hides it, and a page
  without timers may be shown and stay.  The SDL demo's table of 1024 timers, which are
  never reused, brings it about.
* In the decoder: the PES header, the disparity segment, objects made of characters, the
  window offset of a DDS, the position of regions, more than one PCS or DDS in a display
  set, CLUTs and objects that several regions share,
  and list nodes that run out (the system heap).
* `LS_ListFindNode` returns LS_OK also when nothing was found, against `lslist.h`; its one
  result that counts, the pointer, is what `FindUserNode` models.
* The build that calls the C library directly (`LS_USE_SYSTEM_MALLOC`), and the dump and the
  peak of the others.
* The priority queue: nothing calls it.
* Pixels: run-length decoding, colour conversion, scaling, the default colour tables.
* The demos' renderers and user interface.
* `SetDisplayResolution` and `CurrentState`: two numbers for layout and a getter.

## 6. Plan

Done: `DVBService` with its abstract contract, refinement and proofs; `PTSMgr` with the
proofs of its types, timers and deadlines; `Heap` and `LinkedList` with the refinement of a
sequence and the proofs of both;
`DisplaysetDecoder` with the proofs of types, of ownership and of what the page shows; `Library`,
`PESQueue` and `SDLPlayer` with the proofs of types, order and exit.

To come, in order:

1. Timers that the host refuses, in `DVBService`, and the SDL demo's table.
2. `ThreadedHost`: calls and callbacks on two threads, at the grain of the mutexes, with the
   order in which they are taken.
3. `PTSMgr` with several clients, composed with `Library`.
4. The disparity segment and character objects in the decoder.
