----------------------------- MODULE DVBService -----------------------------
(***************************************************************************)
(* One subtitle service of libdvbsubdec: the calls of lssubdec.c, the      *)
(* display page list of lssubdecoder.c, the page timers of lssubsegdec.c,  *)
(* the screen of lssubdisplay.c and the presentation requests of           *)
(* lsptsmgr.c.                                                             *)
(*                                                                         *)
(* The host runs the timers on the thread that calls the library, as the   *)
(* two demo applications do (the SDL main loop, Qt's QTimer), so a call    *)
(* and a timer callback are one step each.  Time is abstracted: an armed   *)
(* timer may expire at any moment and in any order (delays are clamped,    *)
(* late requests fire at once and the host polls), and never when stopped. *)
(*                                                                         *)
(* What is decoded is abstracted to the page a PES packet yields; a packet *)
(* that is rejected before its page is queued changes no variable here.    *)
(***************************************************************************)
EXTENDS Integers, SequencesExt

CONSTANTS
  Pages,         \* display pages the composition heap can hold at a time
  Nil,           \* the NULL page pointer
  PTSValues,     \* presentation times in the stream
  Speeds,        \* arguments the application passes to SetSpeed
  Calls,         \* the optional calls the application makes
  PlayStates,    \* service states in which the application calls Play
  HasPCR,        \* osdRender.getCurrentPCRFunc is set
  PCRFails,      \* getCurrentPCRFunc may return an error
  PtsSync,       \* osdRender.ptsSyncEnabled
  MaxQueued,     \* bound: pages in displayPageList
  MaxRequests    \* bound: requests of the PTS manager's client

OptionalCalls == {"Pause", "Resume", "Mute", "UnMute", "SetSpeed", "Reset", "DDS"}
ServiceStates == {"VOID", "NULL", "READY", "PLAYING", "PAUSED"}

ASSUME NilAssumption == Nil \notin Pages
ASSUME InputAssumption ==
  /\ PTSValues \subseteq Nat
  /\ Speeds \subseteq Int
  /\ Calls \subseteq OptionalCalls
  /\ PlayStates \subseteq ServiceStates \ {"VOID"}
ASSUME HostAssumption == HasPCR \in BOOLEAN /\ PCRFails \in BOOLEAN /\ PtsSync \in BOOLEAN

VARIABLES
  state,                \* "VOID" when there is no service instance
  displayPageList,      \* decoded pages, oldest first
  latestDisplayPage,    \* the page the next display set builds on
  displayPageOnScreen,
  page,                 \* memory and timers of every page
  requests,             \* the PTS manager's list for this client
  serviceSpeed,
  pcrFunc,              \* the registered osdRender has getCurrentPCRFunc
  muteState,
  DDSFlag,
  screen                \* pages whose pixels are on the application's OSD

vars == << state, displayPageList, latestDisplayPage, displayPageOnScreen, page,
           requests, serviceSpeed, pcrFunc, muteState, DDSFlag, screen >>

\* What the OSD configuration, the speed and the switches of a call leave alone.
settings == << serviceSpeed, pcrFunc, muteState, DDSFlag >>

NormalSpeed == 100      \* LS_DECODER_SPEED_NORMAL
Started == {"READY", "PLAYING", "PAUSED"}

-----------------------------------------------------------------------------
(* Display pages.  LS_DisplayPageDelete stops and deletes both timers and  *)
(* zeroes the memory, so that deleting a page twice does nothing (its      *)
(* magic number is gone).  The library's own heap (LS_INTERNAL_HEAP)       *)
(* leaves that memory readable, which is the build modelled here.          *)

PageStatus == {"NEW", "PTS_REGISTERED", "DISPLAYING", "RETIRED"}

Page == [magic : BOOLEAN, status : PageStatus, ptsValue : Nat, visible : BOOLEAN,
         page_time_out_timer : BOOLEAN, suicide_timer : BOOLEAN]

FreedPage == [magic |-> FALSE, status |-> "NEW", ptsValue |-> 0, visible |-> FALSE,
              page_time_out_timer |-> FALSE, suicide_timer |-> FALSE]

\* Variant: the status is left as decoding set it.
RegisteredPageAsDecoded(pts) ==
  [FreedPage EXCEPT !.magic = TRUE, !.status = "DECODED",
                    !.ptsValue = pts, !.suicide_timer = TRUE]

RegisteredPage(pts) ==
  [FreedPage EXCEPT !.magic = TRUE, !.status = "PTS_REGISTERED",
                    !.ptsValue = pts, !.suicide_timer = TRUE]

LivePages == {p \in Pages : page[p].magic}

\* Variant: a page that is still visible is not deleted.
DeletePagesNotVisible(pages, deleted) ==
  [p \in Pages |-> IF p \in deleted /\ ~pages[p].visible THEN FreedPage ELSE pages[p]]

DeletePages(pages, deleted) ==
  [p \in Pages |-> IF p \in deleted THEN FreedPage ELSE pages[p]]

Shown(p) == p \in Pages /\ page[p].visible /\ page[p].status = "DISPLAYING"

\* Variant: the page time-out is left running.
RemovedFromScreenStillTimed(p) ==
  [q \in Pages |->
     IF q = p /\ Shown(p)
       THEN [page[q] EXCEPT !.visible = FALSE, !.status = "RETIRED"]
       ELSE page[q]]

\* LS_RemovePageFromScreen: what it does to the page's record, and the pixels it clears.
RemovedFromScreen(p) ==
  [q \in Pages |->
     IF q = p /\ Shown(p)
       THEN [page[q] EXCEPT !.visible = FALSE, !.status = "RETIRED",
                            !.page_time_out_timer = FALSE]
       ELSE page[q]]

\* Variant: nothing is cleared.
CleanedNothing(p) == {}

Cleaned(p) == IF Shown(p) THEN {p} ELSE {}

\* Variant: the timer is stopped and never started again.
WithTimeOutStopped(pages, p, running) ==
  [q \in Pages |-> IF q = p THEN [pages[q] EXCEPT !.page_time_out_timer = FALSE]
                            ELSE pages[q]]

\* LS_TimerStart and LS_TimerStop of page_time_out_timer (a freed page has none).
WithTimeOut(pages, p, running) ==
  [q \in Pages |->
     IF q = p THEN [pages[q] EXCEPT !.page_time_out_timer = running /\ pages[q].magic]
              ELSE pages[q]]

-----------------------------------------------------------------------------
(* Presentation requests.  A request's timer runs unless its current_speed *)
(* is 0.                                                                   *)

Request == [ptsValue : Nat, reason : {"PTS_PRESENTED", "PTS_INVALID"}, current_speed : Int]

Reason(speed) == IF speed < 0 THEN "PTS_INVALID" ELSE "PTS_PRESENTED"

\* LS_PTSMgrRegisterPTS: at speed 0 the request is not kept, yet LS_OK is returned.
Registered(pts, speed) ==
  IF speed = 0 THEN << >>
  ELSE << [ptsValue |-> pts, reason |-> Reason(speed), current_speed |-> speed] >>

\* Variant: a request that was paused stays paused.
AtSpeedUnlessPaused(speed) ==
  [i \in DOMAIN requests |->
     IF requests[i].current_speed = 0 THEN requests[i]
     ELSE [requests[i] EXCEPT !.current_speed = speed, !.reason = Reason(speed)]]

\* LS_PTSMgrSetSpeed
AtSpeed(speed) ==
  [i \in DOMAIN requests |->
     [requests[i] EXCEPT !.current_speed = speed, !.reason = Reason(speed)]]

\* Variant: the request of a page that is given up is left pending.
CancelledNothing(pts) == requests

\* LS_PTSMgrCancelPTS
Cancelled(pts) == RemoveFirstMatch(requests, LAMBDA r : r.ptsValue = pts)

-----------------------------------------------------------------------------
Init ==
  /\ state = "VOID"
  /\ displayPageList = << >>
  /\ latestDisplayPage = Nil
  /\ displayPageOnScreen = Nil
  /\ page = [p \in Pages |-> FreedPage]
  /\ requests = << >>
  /\ serviceSpeed = NormalSpeed
  /\ pcrFunc = FALSE
  /\ muteState = FALSE
  /\ DDSFlag = FALSE
  /\ screen = {}

ServiceNew ==
  /\ state = "VOID"
  /\ state' = "NULL"
  /\ UNCHANGED << displayPageList, latestDisplayPage, displayPageOnScreen, page,
                  requests, settings, screen >>

\* Variant: the list is emptied with LS_ListEmpty, which deletes no page.
InstanceResetWithoutDelete(deleted) ==
  /\ page' = DeletePages(page, deleted)
  /\ displayPageList' = << >>
  /\ latestDisplayPage' = Nil

\* Variant: latestDisplayPage is not cleared.
InstanceResetKeepingLatest(deleted) ==
  /\ page' = DeletePages(page, deleted \cup ToSet(displayPageList))
  /\ displayPageList' = << >>
  /\ UNCHANGED latestDisplayPage

\* ServiceInstanceReset on top of the pages its caller deleted itself.
InstanceReset(deleted) ==
  /\ page' = DeletePages(page, deleted \cup ToSet(displayPageList))
  /\ displayPageList' = << >>
  /\ latestDisplayPage' = Nil

ServiceDelete ==
  /\ state = "NULL"
  /\ state' = "VOID"
  /\ InstanceReset({})
  /\ requests' = << >>
  /\ displayPageOnScreen' = Nil
  /\ serviceSpeed' = NormalSpeed
  /\ pcrFunc' = FALSE
  /\ muteState' = FALSE
  /\ DDSFlag' = FALSE
  /\ UNCHANGED screen

ServiceStart ==
  /\ state # "VOID"
  /\ state' = IF state = "NULL" THEN "READY" ELSE state
  /\ pcrFunc' = HasPCR
  /\ UNCHANGED << displayPageList, latestDisplayPage, displayPageOnScreen, page,
                  requests, serviceSpeed, muteState, DDSFlag, screen >>

ServiceStop ==
  /\ state \in Started
  /\ state' = "NULL"
  /\ InstanceReset({displayPageOnScreen})
  /\ displayPageOnScreen' = Nil
  /\ screen' = screen \ Cleaned(displayPageOnScreen)
  /\ requests' = << >>
  /\ UNCHANGED settings

-----------------------------------------------------------------------------
(* Play: a decoded page is appended to displayPageList and becomes the     *)
(* latest one; the previous latest page goes if it was only kept as the    *)
(* base of this one.  Play does not look at the service's state.           *)

\* Variant: the previous latest page goes whatever its status.
SupersededAlways(p) == {q \in Pages \ {p} : q = latestDisplayPage}

\* Variant: the previous latest page is never deleted.
SupersededNever(p) == {}

\* The previous latest page, when it was only kept as the base of the next one.
Superseded(p) ==
  {q \in Pages \ {p} : q = latestDisplayPage /\ page[q].status = "RETIRED"}

QueuePage(p) ==
  /\ state \in PlayStates
  /\ ~page[p].magic
  /\ Len(displayPageList) < MaxQueued
  /\ displayPageList' = IF Superseded(p) = {} THEN Append(displayPageList, p)
                        ELSE RemoveFirst(Append(displayPageList, p), latestDisplayPage)
  /\ latestDisplayPage' = p
  /\ displayPageOnScreen' = IF displayPageOnScreen \in Superseded(p) THEN Nil
                            ELSE displayPageOnScreen
  /\ UNCHANGED << state, settings, screen >>

ServicePlay(p, pts) ==
  /\ pcrFunc
  /\ Len(requests) < MaxRequests
  /\ QueuePage(p)
  /\ page' = [DeletePages(page, Superseded(p)) EXCEPT ![p] = RegisteredPage(pts)]
  /\ requests' = requests \o Registered(pts, serviceSpeed)

\* LS_PTSMgrRegisterPTS fails: the page is deleted where it was queued.
ServicePlayUnregistered(p) ==
  /\ pcrFunc => PCRFails
  /\ QueuePage(p)
  /\ page' = DeletePages(page, Superseded(p))
  /\ UNCHANGED requests

-----------------------------------------------------------------------------
ServicePause ==
  /\ "Pause" \in Calls
  /\ state \in {"READY", "PLAYING"}
  /\ state' = "PAUSED"
  /\ requests' = AtSpeed(0)
  /\ page' = WithTimeOut(page, displayPageOnScreen, FALSE)
  /\ UNCHANGED << displayPageList, latestDisplayPage, displayPageOnScreen, settings, screen >>

ServiceResume ==
  /\ "Resume" \in Calls
  /\ state = "PAUSED"
  /\ state' = "PLAYING"
  /\ requests' = AtSpeed(serviceSpeed)
  /\ page' = WithTimeOut(page, displayPageOnScreen, TRUE)
  /\ UNCHANGED << displayPageList, latestDisplayPage, displayPageOnScreen, settings, screen >>

\* The page is deleted but stays in displayPageList; nothing ever reads muteState.
ServiceMute ==
  /\ "Mute" \in Calls
  /\ state \in {"PLAYING", "PAUSED"}
  /\ displayPageOnScreen # Nil
  /\ page' = IF displayPageOnScreen = latestDisplayPage
               THEN RemovedFromScreen(displayPageOnScreen)
               ELSE DeletePages(page, {displayPageOnScreen})
  /\ screen' = screen \ Cleaned(displayPageOnScreen)
  /\ displayPageOnScreen' = Nil
  /\ muteState' = TRUE
  /\ UNCHANGED << state, displayPageList, latestDisplayPage, requests,
                  serviceSpeed, pcrFunc, DDSFlag >>

ServiceUnMute ==
  /\ "UnMute" \in Calls
  /\ state # "VOID"
  /\ muteState' = FALSE
  /\ UNCHANGED << state, displayPageList, latestDisplayPage, displayPageOnScreen, page,
                  requests, serviceSpeed, pcrFunc, DDSFlag, screen >>

\* LS_DVBSubDecServiceEnableCustomerDDS and LS_DVBSubDecServiceDisableCustomerDDS
ServiceCustomerDDS ==
  /\ "DDS" \in Calls
  /\ state # "VOID"
  /\ DDSFlag' = TRUE
  /\ UNCHANGED << state, displayPageList, latestDisplayPage, displayPageOnScreen, page,
                  requests, serviceSpeed, pcrFunc, muteState, screen >>

\* The pending requests are given the speed the service had before the call.
ServiceSetSpeed(speed) ==
  /\ "SetSpeed" \in Calls
  /\ state # "VOID"
  /\ requests' = AtSpeed(serviceSpeed)
  /\ serviceSpeed' = speed
  /\ IF speed < 0 THEN InstanceReset({}) /\ state' = "NULL"
                  ELSE UNCHANGED << page, displayPageList, latestDisplayPage, state >>
  /\ UNCHANGED << displayPageOnScreen, pcrFunc, muteState, DDSFlag, screen >>

ServiceReset ==
  /\ "Reset" \in Calls
  /\ state # "VOID"
  /\ state' = "NULL"
  /\ InstanceReset({displayPageOnScreen})
  /\ displayPageOnScreen' = Nil
  /\ screen' = screen \ Cleaned(displayPageOnScreen)
  /\ UNCHANGED << requests, settings >>

-----------------------------------------------------------------------------
(* A request's timer expires.                                              *)

\* PTS_PRESENTED shows the first page that awaits this time, or else acts on the last.
Awaits(p, pts) == page[p].status = "PTS_REGISTERED" /\ page[p].ptsValue = pts

\* Variant: the search does not stop at the page it found.
FiredAtLast(pts, i) == i = Len(displayPageList)

FiredAt(pts, i) ==
  /\ Awaits(displayPageList[i], pts) \/ i = Len(displayPageList)
  /\ \A k \in 1..(i - 1) : ~Awaits(displayPageList[k], pts)

\* ShouldDisplaySubtitleByPTS may say no only when it can compare with the PCR.
TooEarly == IF PtsSync /\ pcrFunc THEN BOOLEAN ELSE {FALSE}

\* Variant: a page that was already displayed is displayed again.
DueAgain(p) == page[p].status \in {"PTS_REGISTERED", "RETIRED"}

Due(p) == page[p].status = "PTS_REGISTERED"

\* Variant: the page is drawn but not marked visible.
PresentedInvisible(p, early) ==
  IF early THEN WithTimeOut(page, p, TRUE)
  ELSE [RemovedFromScreen(displayPageOnScreen) EXCEPT
          ![p] = [page[p] EXCEPT !.status = "DISPLAYING",
                                 !.page_time_out_timer = TRUE, !.suicide_timer = FALSE]]

\* LS_DisplayPageOnScreen, and the page time-out that is armed whether or not it drew.
Presented(p, early) ==
  IF early THEN WithTimeOut(page, p, TRUE)
  ELSE [RemovedFromScreen(displayPageOnScreen) EXCEPT
          ![p] = [page[p] EXCEPT !.visible = TRUE, !.status = "DISPLAYING",
                                 !.page_time_out_timer = TRUE, !.suicide_timer = FALSE]]

PutOnScreen(fired, early) ==
  LET due == Due(fired)
      shown == IF due THEN Presented(fired, early) ELSE page
      obsolete == {displayPageOnScreen} \ {Nil, latestDisplayPage}
  IN  /\ due => serviceSpeed # 0     \* the time-out is divided by it
      /\ page' = DeletePages(shown, obsolete)
      /\ displayPageList' = IF obsolete = {} THEN displayPageList
                            ELSE RemoveFirst(displayPageList, displayPageOnScreen)
      /\ displayPageOnScreen' = fired
      /\ screen' = IF due /\ ~early
                     THEN (screen \ Cleaned(displayPageOnScreen)) \cup {fired}
                     ELSE screen
      /\ UNCHANGED latestDisplayPage

PresentPTS(pts) ==
  IF displayPageList = << >>
    THEN UNCHANGED << page, displayPageList, latestDisplayPage, displayPageOnScreen, screen >>
    ELSE \E i \in DOMAIN displayPageList, early \in TooEarly :
           FiredAt(pts, i) /\ PutOnScreen(displayPageList[i], early)

\* PTS_INVALID drops the first page of this time; the latest page is kept as a base.
HasPTS(i, pts) ==
  /\ page[displayPageList[i]].ptsValue = pts
  /\ \A k \in 1..(i - 1) : page[displayPageList[k]].ptsValue # pts

InvalidatePTS(pts) ==
  /\ \/ /\ \A i \in DOMAIN displayPageList : ~HasPTS(i, pts)
        /\ UNCHANGED << page, displayPageList, displayPageOnScreen >>
     \/ \E i \in DOMAIN displayPageList :
          LET fired == displayPageList[i]
          IN  /\ HasPTS(i, pts)
              /\ \/ /\ fired # latestDisplayPage
                    /\ page' = DeletePages(page, {fired})
                    /\ displayPageList' = RemoveFirst(displayPageList, fired)
                    /\ displayPageOnScreen' = IF displayPageOnScreen = fired THEN Nil
                                              ELSE displayPageOnScreen
                 \/ /\ fired = latestDisplayPage
                    /\ page' = [page EXCEPT ![fired].status = "RETIRED"]
                    /\ UNCHANGED << displayPageList, displayPageOnScreen >>
  /\ UNCHANGED << latestDisplayPage, screen >>

FirePTS(i) ==
  /\ i \in DOMAIN requests
  /\ requests[i].current_speed # 0
  /\ requests' = RemoveAt(requests, i)
  /\ IF requests[i].reason = "PTS_PRESENTED" THEN PresentPTS(requests[i].ptsValue)
                                             ELSE InvalidatePTS(requests[i].ptsValue)
  /\ UNCHANGED << state, settings >>

\* pageTimeOutCallbackFunc: it blanks its own page, but drops whichever is on screen.
PageTimeOut(p) ==
  /\ page[p].page_time_out_timer
  /\ LET blank == WithTimeOut(RemovedFromScreen(p), p, FALSE)
     IN  IF displayPageOnScreen = latestDisplayPage
           THEN page' = blank /\ UNCHANGED displayPageList
           ELSE /\ page' = DeletePages(blank, {displayPageOnScreen})
                /\ displayPageList' = RemoveFirst(displayPageList, displayPageOnScreen)
  /\ screen' = screen \ Cleaned(p)
  /\ displayPageOnScreen' = Nil
  /\ UNCHANGED << state, latestDisplayPage, requests, settings >>

\* pageSuicideCallbackFunc: a page whose request never fired.  The latest page is kept,
\* its timer restarted, which changes nothing.
PageSuicide(p) ==
  /\ page[p].suicide_timer
  /\ \/ /\ page[p].status # "PTS_REGISTERED"
        /\ page' = [page EXCEPT ![p].suicide_timer = FALSE]
        /\ UNCHANGED << displayPageList, requests >>
     \/ /\ page[p].status = "PTS_REGISTERED"
        /\ p # latestDisplayPage
        /\ requests' = Cancelled(page[p].ptsValue)
        /\ displayPageList' = RemoveFirst(displayPageList, p)
        /\ page' = DeletePages(page, {p})
  /\ UNCHANGED << state, latestDisplayPage, displayPageOnScreen, settings, screen >>

-----------------------------------------------------------------------------
Call ==
  \/ ServiceNew \/ ServiceDelete \/ ServiceStart \/ ServiceStop
  \/ \E p \in Pages, pts \in PTSValues : ServicePlay(p, pts)
  \/ \E p \in Pages : ServicePlayUnregistered(p)
  \/ ServicePause \/ ServiceResume \/ ServiceMute \/ ServiceUnMute
  \/ ServiceCustomerDDS \/ ServiceReset
  \/ \E speed \in Speeds : ServiceSetSpeed(speed)

Timer ==
  \/ \E i \in DOMAIN requests : FirePTS(i)
  \/ \E p \in Pages : PageTimeOut(p) \/ PageSuicide(p)

Next == Call \/ Timer

Spec == Init /\ [][Next]_vars

\* The host's timer thread or main loop runs every armed timer's callback in the end; the
\* application need not make any call.
FireOneOf(pts) == \E i \in DOMAIN requests : requests[i].ptsValue = pts /\ FirePTS(i)

Fairness ==
  /\ \A pts \in PTSValues : WF_vars(FireOneOf(pts))
  /\ \A p \in Pages : WF_vars(PageTimeOut(p))

FairSpec == Spec /\ Fairness

-----------------------------------------------------------------------------
(* What a correct service promises.  The first group is stated of the      *)
(* documented use of the library: the PCR is available, the display is not *)
(* gated on it, and the application neither mutes, resets nor rewinds.     *)

DocumentedUse ==
  /\ HasPCR /\ ~PCRFails /\ ~PtsSync
  /\ "Mute" \notin Calls /\ "Reset" \notin Calls
  /\ \A speed \in Speeds : speed > 0
  /\ PlayStates \subseteq Started

\* Every variable keeps its C type; pages and requests are well-formed records.
TypeOK ==
  /\ state \in ServiceStates
  /\ displayPageList \in Seq(Pages)
  /\ latestDisplayPage \in Pages \cup {Nil}
  /\ displayPageOnScreen \in Pages \cup {Nil}
  /\ page \in [Pages -> Page]
  /\ requests \in Seq(Request)
  /\ serviceSpeed \in Int
  /\ pcrFunc \in BOOLEAN /\ muteState \in BOOLEAN /\ DDSFlag \in BOOLEAN
  /\ screen \subseteq Pages

\* displayPageList holds every page in use exactly once and no page that was deleted:
\* what Play appends and the timers, Stop and the next Play delete stay in step.
PagesListed ==
  /\ ToSet(displayPageList) = LivePages
  /\ \A i, j \in DOMAIN displayPageList :
       displayPageList[i] = displayPageList[j] => i = j

\* The page the next display set is decoded upon is the last one queued, and a listed page
\* (decodeNormalCaseDisplayset reads its regions): never one a timer already deleted.
LatestIsLast ==
  latestDisplayPage = IF displayPageList = << >> THEN Nil ELSE Last(displayPageList)

\* displayPageOnScreen is a page in use that is being displayed, or NULL: no callback
\* leaves the pointer on a deleted, a waiting or an already blanked page.
OnScreenIsDisplaying ==
  displayPageOnScreen # Nil => Shown(displayPageOnScreen) /\ page[displayPageOnScreen].magic

\* The OSD shows exactly the pages that believe they are visible, at most the one on
\* screen: no subtitle stays on the OSD once its page is replaced, timed out or deleted.
ScreenOwned ==
  /\ screen = {p \in Pages : page[p].visible}
  /\ screen \subseteq {displayPageOnScreen}

\* DEBUG_CHECK(page == page->service->displayPageOnScreen) of pageTimeOutCallbackFunc
\* holds whenever that callback can run.
TimeOutIsOnScreen ==
  \A p \in Pages : page[p].page_time_out_timer => p = displayPageOnScreen

\* For every PTS there are as many pending requests as pages awaiting it: a request never
\* fires for a page that is gone, and no queued page waits for a request that is gone.
RequestPerWaitingPage ==
  \A pts \in PTSValues :
    Cardinality({i \in DOMAIN requests : requests[i].ptsValue = pts})
      = Cardinality({p \in LivePages : Awaits(p, pts)})

\* A page in use is the latest one, awaits its time or is on screen: the heap holds no
\* page that nothing will ever delete.
NoForgottenPage ==
  \A p \in LivePages : \/ p = latestDisplayPage
                       \/ page[p].status = "PTS_REGISTERED"
                       \/ p = displayPageOnScreen

\* A service that is not started has no page, no request and nothing on the OSD.
StoppedIsQuiet ==
  state \notin Started =>
    /\ displayPageList = << >> /\ requests = << >> /\ screen = {}
    /\ latestDisplayPage = Nil /\ displayPageOnScreen = Nil

\* Unless the service pauses, a page that awaits its time is shown or deleted.
WaitingPageIsResolved ==
  \A p \in Pages : page[p].status = "PTS_REGISTERED"
                     ~> page[p].status # "PTS_REGISTERED" \/ state = "PAUSED"

\* Unless the service pauses, a subtitle leaves the OSD without any further call.
SubtitleExpires ==
  \A p \in Pages : p \in screen ~> p \notin screen \/ state = "PAUSED"

\* The service implements SubtitleService: the PTS manager, the timers, the speed changes
\* and the pauses are invisible but for the moment at which a subtitle comes and goes.
Phase(p) ==
  CASE page[p].status = "PTS_REGISTERED" -> "waiting"
    [] page[p].status = "DISPLAYING" -> "shown"
    [] page[p].status = "RETIRED" -> "kept"
    [] OTHER -> "free"

Promise == INSTANCE SubtitleService
  WITH Subtitles <- Pages, Times <- PTSValues,
       open <- state \in Started, queue <- displayPageList,
       phase <- [p \in Pages |-> Phase(p)], time <- [p \in Pages |-> page[p].ptsValue]

ImplementsPromise == Promise!Spec

-----------------------------------------------------------------------------
(* Whatever the application does.                                          *)

\* Deleting the service leaves no page and no request behind, so no timer can fire into
\* the freed service and heap.
QuietAfterDelete == state = "VOID" => LivePages = {} /\ requests = << >>

\* Every page in use is in displayPageList, where Stop, Reset and Delete find it.
NoPageLeak == LivePages \subseteq ToSet(displayPageList)

\* A page that was displayed or retired never awaits its time again, and a retired one is
\* never displayed again.
StatusAdvances ==
  [][\A p \in LivePages : page'[p].magic =>
       /\ page[p].status # "PTS_REGISTERED" => page'[p].status # "PTS_REGISTERED"
       /\ page[p].status = "RETIRED" => page'[p].status = "RETIRED"]_vars

-----------------------------------------------------------------------------
(* What a comment or the API documentation says and the code does not do.  *)

\* "Speed multiplier (100 = normal, 0 = paused)": at speed 0 no pending request runs.  One
\* that does reaches the division by serviceSpeed in processDisplayPTS.
SpeedZeroPauses ==
  serviceSpeed = 0 => \A i \in DOMAIN requests : requests[i].current_speed = 0

\* "displayPageOnScreen should be destroyed when service stopped", with its DEBUG_CHECK.
NullStateHasNoScreenPage == state = "NULL" => displayPageOnScreen = Nil

=============================================================================
