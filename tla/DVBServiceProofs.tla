-------------------------- MODULE DVBServiceProofs --------------------------
(***************************************************************************)
(* What holds of a service for every value of the constants.               *)
(*                                                                         *)
(* Whatever the application does: types, no leaked page, a quiet deletion, *)
(* and statuses that only advance.  A deleted page is inert (Inert), every *)
(* step but Play only deletes pages and advances their status (Onward),    *)
(* and a page leaves displayPageList only in the step that deletes it      *)
(* (OnlyDeletedPagesLeave), so the list still holds every page in use when *)
(* a reset empties it.                                                     *)
(*                                                                         *)
(* In the documented use (DocumentedUse): the queue, the screen and the    *)
(* pending requests agree with the pages, and the service implements       *)
(* SubtitleService.  None of these invariants is inductive alone.  A       *)
(* request that fires shows the page it was made for only if that page     *)
(* still waits, which is what Matched says: the requests and the waiting   *)
(* pages are in bijection, each pair with one time.  Registering a time,   *)
(* presenting a page and giving one up move both sides together; two pages *)
(* of one time may be served in either order, so the bijection is chosen   *)
(* again (MatchSwapped) when one fires.  With these invariants every step  *)
(* is one of SubtitleService, or leaves its variables alone.               *)
(***************************************************************************)
EXTENDS DVBService, SequenceFacts, FiniteSetTheorems

\* A deleted page has no timer that could fire, and is not waiting for its time.
Inert(r) == ~r.page_time_out_timer /\ ~r.suicide_timer /\ r.status \in {"NEW", "RETIRED"}

\* The page memory has its type, and what was deleted in it is inert.
WellFormed(f) ==
  /\ f \in [Pages -> Page]
  /\ \A p \in Pages : ~f[p].magic => Inert(f[p])

\* g is f after some pages were deleted and others advanced: none is created.
Onward(f, g) ==
  \A p \in Pages : g[p].magic =>
    /\ f[p].magic
    /\ f[p].status # "PTS_REGISTERED" => g[p].status # "PTS_REGISTERED"
    /\ f[p].status = "RETIRED" => g[p].status = "RETIRED"

\* Changes of the page memory compose, as they do inside the callbacks.
LEMMA OnwardIsTransitive ==
  ASSUME NEW f, NEW g, NEW h, Onward(f, g), Onward(g, h)
  PROVE  Onward(f, h)
BY DEF Onward

\* LS_DisplayPageDelete leaves an inert record.
LEMMA FreedPageIsInert == FreedPage \in Page /\ ~FreedPage.magic /\ Inert(FreedPage)
BY DEF FreedPage, Page, PageStatus, Inert

\* Deleting pages keeps the memory well-formed and creates no page.
LEMMA DeletePagesFacts ==
  ASSUME NEW f, WellFormed(f), NEW deleted
  PROVE  /\ WellFormed(DeletePages(f, deleted))
         /\ Onward(f, DeletePages(f, deleted))
         /\ \A p \in deleted \cap Pages : ~DeletePages(f, deleted)[p].magic
<1>1. \A p \in Pages :
        DeletePages(f, deleted)[p] = IF p \in deleted THEN FreedPage ELSE f[p]
  BY DEF DeletePages
<1>2. DeletePages(f, deleted) \in [Pages -> Page]
  BY FreedPageIsInert DEF DeletePages, WellFormed
<1> QED  BY <1>1, <1>2, FreedPageIsInert DEF WellFormed, Onward

\* So does LS_RemovePageFromScreen,
LEMMA RemovedFromScreenFacts ==
  ASSUME WellFormed(page), NEW p
  PROVE  /\ WellFormed(RemovedFromScreen(p))
         /\ Onward(page, RemovedFromScreen(p))
         /\ \A q \in Pages : q # p => RemovedFromScreen(p)[q] = page[q]
<1> DEFINE g == RemovedFromScreen(p)
<1>1. \A q \in Pages : \/ g[q] = page[q]
                       \/ /\ q = p
                          /\ page[q].status = "DISPLAYING"
                          /\ g[q] = [page[q] EXCEPT !.visible = FALSE, !.status = "RETIRED",
                                                    !.page_time_out_timer = FALSE]
  BY DEF RemovedFromScreen, Shown
<1>2. \A q \in Pages : page[q] \in Page
  BY DEF WellFormed
<1>3. ASSUME NEW q \in Pages, page[q].status = "DISPLAYING",
             g[q] = [page[q] EXCEPT !.visible = FALSE, !.status = "RETIRED",
                                    !.page_time_out_timer = FALSE]
      PROVE  /\ g[q] \in Page
             /\ g[q].magic = page[q].magic
             /\ g[q].status = "RETIRED"
             /\ g[q].page_time_out_timer = FALSE
             /\ g[q].suicide_timer = page[q].suicide_timer
  BY <1>2, <1>3 DEF Page, PageStatus
<1>4. g = [q \in Pages |-> g[q]]
  BY DEF RemovedFromScreen
<1> HIDE DEF g
<1>5. \A q \in Pages : g[q] \in Page
  BY <1>1, <1>2, <1>3
<1>6. WellFormed(g)
  BY <1>1, <1>3, <1>4, <1>5 DEF WellFormed, Inert
<1>7. Onward(page, g)
  BY <1>1, <1>3 DEF Onward
<1> QED  BY <1>1, <1>6, <1>7 DEF g

\* starting or stopping a page time-out,
LEMMA WithTimeOutFacts ==
  ASSUME NEW f, WellFormed(f), NEW p, NEW running \in BOOLEAN
  PROVE  /\ WellFormed(WithTimeOut(f, p, running))
         /\ Onward(f, WithTimeOut(f, p, running))
<1> DEFINE g == WithTimeOut(f, p, running)
<1>1. \A q \in Pages : f[q] \in Page
  BY DEF WellFormed
<1>2. \A q \in Pages :
        g[q] = IF q = p THEN [f[q] EXCEPT !.page_time_out_timer = running /\ f[q].magic]
                        ELSE f[q]
  BY DEF WithTimeOut
<1>3. ASSUME NEW q \in Pages
      PROVE  /\ g[q] \in Page
             /\ g[q].magic = f[q].magic
             /\ g[q].status = f[q].status
             /\ g[q].suicide_timer = f[q].suicide_timer
             /\ ~f[q].magic /\ ~f[q].page_time_out_timer => ~g[q].page_time_out_timer
  BY <1>1, <1>2 DEF Page
<1>4. g = [q \in Pages |-> g[q]]
  BY DEF WithTimeOut
<1> HIDE DEF g
<1>5. WellFormed(g)
  BY <1>3, <1>4 DEF WellFormed, Inert
<1>6. Onward(f, g)
  BY <1>3 DEF Onward
<1> QED  BY <1>5, <1>6 DEF g

\* and LS_DisplayPageOnScreen of a page that waits for its time.
LEMMA PresentedFacts ==
  ASSUME WellFormed(page), NEW p \in Pages, NEW early \in BOOLEAN, Due(p)
  PROVE  /\ WellFormed(Presented(p, early))
         /\ Onward(page, Presented(p, early))
<1>1. CASE early
  BY <1>1, WithTimeOutFacts DEF Presented
<1>2. CASE ~early
  <2> DEFINE g == RemovedFromScreen(displayPageOnScreen)
             r == [page[p] EXCEPT !.visible = TRUE, !.status = "DISPLAYING",
                                  !.page_time_out_timer = TRUE, !.suicide_timer = FALSE]
             h == [g EXCEPT ![p] = r]
  <2>1. Presented(p, early) = h
    BY <1>2 DEF Presented
  <2>2. WellFormed(g) /\ Onward(page, g)
    BY RemovedFromScreenFacts
  <2>3. r \in Page /\ r.magic = page[p].magic /\ r.status = "DISPLAYING"
    BY DEF WellFormed, Page, PageStatus
  <2>4. page[p].magic /\ page[p].status = "PTS_REGISTERED"
    BY DEF Due, WellFormed, Inert
  <2> HIDE DEF g, r
  <2>5. h \in [Pages -> Page] /\ h[p] = r /\ \A q \in Pages \ {p} : h[q] = g[q]
    BY <2>2, <2>3 DEF WellFormed
  <2> HIDE DEF h
  <2>6. WellFormed(h)
    BY <2>2, <2>3, <2>4, <2>5 DEF WellFormed
  <2>7. Onward(page, h)
    BY <2>2, <2>3, <2>4, <2>5 DEF Onward
  <2> QED  BY <2>1, <2>6, <2>7
<1> QED  BY <1>1, <1>2

\* LS_PTSMgrCancelPTS removes the first request of that time, or nothing.
LEMMA CancelledCases ==
  ASSUME NEW S, requests \in Seq(S), NEW pts
  PROVE  \/ /\ \A k \in 1..Len(requests) : requests[k].ptsValue # pts
            /\ Cancelled(pts) = requests
         \/ \E i \in 1..Len(requests) :
              /\ requests[i].ptsValue = pts
              /\ \A k \in 1..(i - 1) : requests[k].ptsValue # pts
              /\ Cancelled(pts) = RemoveAt(requests, i)
<1> DEFINE found == {k \in 1..Len(requests) : requests[k].ptsValue = pts}
<1>1. found \subseteq Nat /\ Len(requests) \in Nat
  BY LenProperties
<1>2. CASE found = {}
  BY <1>2 DEF RemoveFirstMatch, Cancelled
<1>3. CASE found # {}
  <2>1. Min(found) \in found /\ \A k \in found : Min(found) <= k
    BY <1>1, <1>3, MinIsLeast
  <2>2. SelectInSeq(requests, LAMBDA r : r.ptsValue = pts) = Min(found)
    BY <1>3 DEF SelectInSeq
  <2>3. Cancelled(pts) = RemoveAt(requests, Min(found))
    BY <1>3, <2>2 DEF RemoveFirstMatch, Cancelled
  <2> HIDE DEF found
  <2> QED
    <3>1. found \subseteq 1..Len(requests) /\ \A k \in 1..Len(requests) : k \in found <=> requests[k].ptsValue = pts
      BY DEF found
    <3>2. ASSUME NEW k \in 1..(Min(found) - 1) PROVE requests[k].ptsValue # pts
      <4>1. Min(found) \in 1..Len(requests)
        BY <2>1, <3>1
      <4>2. k \in 1..Len(requests) /\ ~(Min(found) <= k)
        BY <1>1, <4>1
      <4> QED  BY <2>1, <3>1, <4>2
    <3> QED  BY <2>1, <2>3, <3>1, <3>2
<1> QED  BY <1>2, <1>3

\* The inductive invariant.  NoPageLeak is what makes the resets of Stop and Delete
\* complete, and inertness what keeps the timers quiet after Delete.
Safe == TypeOK /\ WellFormed(page) /\ NoPageLeak /\ QuietAfterDelete

\* The action StatusAdvances allows.
Advance ==
  \A p \in LivePages : page'[p].magic =>
    /\ page[p].status # "PTS_REGISTERED" => page'[p].status # "PTS_REGISTERED"
    /\ page[p].status = "RETIRED" => page'[p].status = "RETIRED"

\* A step in which only deleted pages leave the list keeps every page in use listed.
LEMMA OnwardStep ==
  ASSUME Safe, Onward(page, page'),
         \A p \in ToSet(displayPageList) \ ToSet(displayPageList') : p \in Pages => ~page'[p].magic
  PROVE  NoPageLeak' /\ Advance /\ LivePages' \subseteq LivePages
BY DEF Safe, NoPageLeak, LivePages, Onward, Advance

\* ServiceInstanceReset deletes every page in use.
LEMMA InstanceResetFacts ==
  ASSUME Safe, NEW deleted, InstanceReset(deleted)
  PROVE  /\ WellFormed(page')
         /\ Onward(page, page')
         /\ LivePages' = {}
<1>1. page' = DeletePages(page, deleted \cup ToSet(displayPageList))
  BY DEF InstanceReset
<1>2. /\ WellFormed(page')
      /\ Onward(page, page')
      /\ \A p \in ToSet(displayPageList) \cap Pages : ~page'[p].magic
  BY <1>1, DeletePagesFacts DEF Safe
<1>3. \A p \in Pages : page'[p].magic => p \in ToSet(displayPageList)
  BY <1>2 DEF Safe, NoPageLeak, LivePages, Onward
<1> QED  BY <1>2, <1>3 DEF LivePages

\* The operations of the PTS manager keep its list well-typed.
LEMMA RequestTypes ==
  ASSUME TypeOK
  PROVE  /\ \A speed \in Int : AtSpeed(speed) \in Seq(Request)
         /\ \A pts \in Nat : Cancelled(pts) \in Seq(Request)
         /\ \A i \in DOMAIN requests : RemoveAt(requests, i) \in Seq(Request)
         /\ \A pts \in Nat, speed \in Int : Registered(pts, speed) \in Seq(Request)
<1>1. requests \in Seq(Request) /\ Len(requests) \in Nat /\ DOMAIN requests = 1..Len(requests)
  BY LenProperties DEF TypeOK
<1>2. \A i \in DOMAIN requests : RemoveAt(requests, i) \in Seq(Request)
  BY <1>1, RemoveAtProperties
<1>3. ASSUME NEW speed \in Int PROVE AtSpeed(speed) \in Seq(Request)
  <2>1. \A i \in 1..Len(requests) : requests[i] \in Request
    BY <1>1, ElementOfSeq
  <2>2. ASSUME NEW i \in 1..Len(requests)
        PROVE  [requests[i] EXCEPT !.current_speed = speed, !.reason = Reason(speed)] \in Request
    BY <2>1 DEF Request, Reason
  <2>3. AtSpeed(speed) \in [1..Len(requests) -> Request]
    BY <1>1, <2>2 DEF AtSpeed
  <2> QED  BY <1>1, <2>3, SeqDef
<1>4. ASSUME NEW pts \in Nat PROVE Cancelled(pts) \in Seq(Request)
  BY <1>1, <1>2, CancelledCases
<1>5. ASSUME NEW pts \in Nat, NEW speed \in Int PROVE Registered(pts, speed) \in Seq(Request)
  <2>1. [ptsValue |-> pts, reason |-> Reason(speed), current_speed |-> speed] \in Request
    BY DEF Request, Reason
  <2> QED  BY <2>1 DEF Registered
<1> QED  BY <1>2, <1>3, <1>4, <1>5

\* The process starts without a service.
LEMMA InitIsSafe == Init => Safe
<1> SUFFICES ASSUME Init PROVE Safe
  OBVIOUS
<1>1. WellFormed(page) /\ LivePages = {}
  BY FreedPageIsInert DEF Init, WellFormed, LivePages
<1>2. TypeOK
  <2>1. state \in ServiceStates
    BY DEF Init, ServiceStates
  <2>2. displayPageList \in Seq(Pages) /\ requests \in Seq(Request)
    BY EmptySeq DEF Init
  <2>3. latestDisplayPage \in Pages \cup {Nil} /\ displayPageOnScreen \in Pages \cup {Nil}
    BY DEF Init
  <2>4. page \in [Pages -> Page] 
    BY <1>1 DEF WellFormed
  <2>5. serviceSpeed \in Int
    BY DEF Init, NormalSpeed
  <2>6. pcrFunc \in BOOLEAN /\ muteState \in BOOLEAN /\ DDSFlag \in BOOLEAN
    BY DEF Init
  <2>7. screen \subseteq Pages
    BY DEF Init
  <2> QED  BY <2>1, <2>2, <2>3, <2>4, <2>5, <2>6, <2>7 DEF TypeOK
<1> QED  BY <1>1, <1>2 DEF Safe, NoPageLeak, QuietAfterDelete, Init

\* What every step is shown to do.
SafeStep == Safe' /\ Advance

\* A step that leaves the pages and their list alone.
LEMMA PagesUntouched ==
  ASSUME Safe, UNCHANGED << page, displayPageList >>
  PROVE  WellFormed(page)' /\ NoPageLeak' /\ Advance /\ LivePages' = LivePages
BY DEF Safe, NoPageLeak, LivePages, Advance

\* The calls that leave the pages alone, and stuttering.
LEMMA CallsWithoutPages ==
  ASSUME Safe,
         \/ ServiceNew \/ ServiceStart \/ ServiceUnMute \/ ServiceCustomerDDS
         \/ UNCHANGED vars
  PROVE  SafeStep
<1>1. UNCHANGED << page, displayPageList >>
  BY DEF ServiceNew, ServiceStart, ServiceUnMute, ServiceCustomerDDS, vars
<1>2. WellFormed(page)' /\ NoPageLeak' /\ Advance /\ LivePages' = LivePages
  BY <1>1, PagesUntouched
<1>3. CASE ServiceNew
  BY <1>2, <1>3 DEF ServiceNew, SafeStep, Safe, TypeOK, QuietAfterDelete, settings, ServiceStates
<1>4. CASE ServiceStart
  BY <1>2, <1>4, HostAssumption
     DEF ServiceStart, SafeStep, Safe, TypeOK, QuietAfterDelete, ServiceStates
<1>5. CASE ServiceUnMute
  BY <1>2, <1>5 DEF ServiceUnMute, SafeStep, Safe, TypeOK, QuietAfterDelete
<1>6. CASE ServiceCustomerDDS
  BY <1>2, <1>6 DEF ServiceCustomerDDS, SafeStep, Safe, TypeOK, QuietAfterDelete
<1>7. CASE UNCHANGED vars
  BY <1>2, <1>7 DEF vars, SafeStep, Safe, TypeOK, QuietAfterDelete
<1> QED  BY <1>3, <1>4, <1>5, <1>6, <1>7

\* ServiceInstanceReset, for the four calls that make it.
LEMMA ResetKeepsPageInvariants ==
  ASSUME Safe, NEW deleted, InstanceReset(deleted)
  PROVE  /\ WellFormed(page)' /\ NoPageLeak' /\ Advance /\ LivePages' = {}
         /\ page' \in [Pages -> Page]
         /\ displayPageList' \in Seq(Pages) /\ latestDisplayPage' \in Pages \cup {Nil}
<1>1. WellFormed(page') /\ Onward(page, page') /\ LivePages' = {}
  BY InstanceResetFacts
<1>2. displayPageList' = << >> /\ latestDisplayPage' = Nil
  BY DEF InstanceReset
<1>3. NoPageLeak' /\ Advance
  BY <1>1 DEF NoPageLeak, Advance, LivePages, Onward
<1> QED  BY <1>1, <1>2, <1>3, EmptySeq DEF WellFormed

\* LS_DVBSubDecServiceDelete
LEMMA DeleteIsSafe ==
  ASSUME Safe, ServiceDelete
  PROVE  SafeStep
<1>1. InstanceReset({})
  BY DEF ServiceDelete
<1>2. pcrFunc' \in BOOLEAN /\ muteState' \in BOOLEAN /\ DDSFlag' \in BOOLEAN
  BY DEF ServiceDelete
<1>3. /\ state' \in ServiceStates /\ displayPageOnScreen' \in Pages \cup {Nil}
      /\ requests' \in Seq(Request) /\ requests' = << >> /\ serviceSpeed' \in Int
      /\ screen' \subseteq Pages
  BY EmptySeq DEF ServiceDelete, ServiceStates, NormalSpeed, Safe, TypeOK
<1>4. TypeOK'
  BY <1>1, <1>2, <1>3, ResetKeepsPageInvariants DEF TypeOK
<1> QED
  BY <1>1, <1>3, <1>4, ResetKeepsPageInvariants DEF SafeStep, Safe, QuietAfterDelete

\* LS_DVBSubDecServiceStop
LEMMA StopIsSafe ==
  ASSUME Safe, ServiceStop
  PROVE  SafeStep
<1>1. InstanceReset({displayPageOnScreen})
  BY DEF ServiceStop
<1> QED
  BY <1>1, ResetKeepsPageInvariants, EmptySeq
     DEF ServiceStop, SafeStep, Safe, TypeOK, QuietAfterDelete, ServiceStates, settings

\* LS_DVBSubDecServiceReset
LEMMA ResetIsSafe ==
  ASSUME Safe, ServiceReset
  PROVE  SafeStep
<1>1. InstanceReset({displayPageOnScreen})
  BY DEF ServiceReset
<1> QED
  BY <1>1, ResetKeepsPageInvariants
     DEF ServiceReset, SafeStep, Safe, TypeOK, QuietAfterDelete, ServiceStates, settings

\* LS_DVBSubDecServiceSetSpeed, which resets the instance when the speed is negative.
LEMMA SetSpeedIsSafe ==
  ASSUME Safe, NEW speed \in Speeds, ServiceSetSpeed(speed)
  PROVE  SafeStep
<1>1. speed \in Int /\ requests' \in Seq(Request)
  BY InputAssumption, RequestTypes DEF ServiceSetSpeed, Safe, TypeOK
<1>2. CASE speed < 0
  <2>1. InstanceReset({}) /\ state' = "NULL"
    BY <1>2 DEF ServiceSetSpeed
  <2> QED
    BY <1>1, <2>1, ResetKeepsPageInvariants
       DEF ServiceSetSpeed, SafeStep, Safe, TypeOK, QuietAfterDelete, ServiceStates
<1>3. CASE ~(speed < 0)
  <2>1. UNCHANGED << page, displayPageList, latestDisplayPage, state >>
    BY <1>3 DEF ServiceSetSpeed
  <2> QED
    BY <1>1, <2>1, PagesUntouched
       DEF ServiceSetSpeed, SafeStep, Safe, TypeOK, QuietAfterDelete, ServiceStates
<1> QED  BY <1>2, <1>3

\* What queueing a page does, whether or not its time can be registered.
LEMMA QueuePageFacts ==
  ASSUME Safe, NEW p \in Pages, QueuePage(p)
  PROVE  /\ displayPageList' \in Seq(Pages)
         /\ ToSet(displayPageList) \ Superseded(p) \subseteq ToSet(displayPageList')
         /\ p \in ToSet(displayPageList')
         /\ WellFormed(DeletePages(page, Superseded(p)))
         /\ Onward(page, DeletePages(page, Superseded(p)))
         /\ \A q \in Superseded(p) : ~DeletePages(page, Superseded(p))[q].magic
         /\ ~page[p].magic /\ p \notin Superseded(p)
         /\ state \in ServiceStates /\ state # "VOID" /\ state' = state
         /\ displayPageOnScreen' \in Pages \cup {Nil}
         /\ latestDisplayPage' \in Pages \cup {Nil}
<1> DEFINE longer == Append(displayPageList, p)
<1>1. longer \in Seq(Pages) /\ ToSet(longer) = ToSet(displayPageList) \cup {p}
  <2>1. /\ longer \in Seq(Pages) /\ Len(longer) = Len(displayPageList) + 1
        /\ longer[Len(displayPageList) + 1] = p
        /\ \A i \in 1..Len(displayPageList) : longer[i] = displayPageList[i]
    BY AppendProperties DEF Safe, TypeOK
  <2>2. /\ Len(displayPageList) \in Nat /\ DOMAIN displayPageList = 1..Len(displayPageList)
        /\ DOMAIN longer = 1..(Len(displayPageList) + 1)
    BY <2>1, LenProperties DEF Safe, TypeOK
  <2> HIDE DEF longer
  <2> QED  BY <2>1, <2>2 DEF ToSet
<1>2. Superseded(p) \subseteq Pages \ {p} /\ \A q \in Superseded(p) : q = latestDisplayPage
  BY DEF Superseded
<1>3. /\ displayPageList' \in Seq(Pages)
      /\ ToSet(longer) \ Superseded(p) \subseteq ToSet(displayPageList')
  <2>1. CASE Superseded(p) = {}
    BY <1>1, <2>1 DEF QueuePage
  <2>2. CASE Superseded(p) # {}
    <3>1. displayPageList' = RemoveFirst(longer, latestDisplayPage)
      BY <2>2 DEF QueuePage
    <3>2. Superseded(p) = {latestDisplayPage}
      BY <1>2, <2>2
    <3> QED  BY <1>1, <3>1, <3>2, RemoveFirstElements
  <2> QED  BY <2>1, <2>2
<1>4. /\ state \in ServiceStates /\ state # "VOID" /\ state' = state
      /\ displayPageOnScreen' \in Pages \cup {Nil} /\ latestDisplayPage' \in Pages \cup {Nil}
      /\ ~page[p].magic
  BY InputAssumption DEF QueuePage, Safe, TypeOK
<1>5. /\ WellFormed(DeletePages(page, Superseded(p)))
      /\ Onward(page, DeletePages(page, Superseded(p)))
      /\ \A q \in Superseded(p) : ~DeletePages(page, Superseded(p))[q].magic
  BY <1>2, DeletePagesFacts DEF Safe
<1> HIDE DEF longer
<1> QED  BY <1>1, <1>2, <1>3, <1>4, <1>5

\* LS_DVBSubDecServicePlay of a page whose time is registered
LEMMA PlayIsSafe ==
  ASSUME Safe, NEW p \in Pages, NEW pts \in PTSValues, ServicePlay(p, pts)
  PROVE  SafeStep
<1> DEFINE f == DeletePages(page, Superseded(p))
<1>1. QueuePage(p) /\ page' = [f EXCEPT ![p] = RegisteredPage(pts)]
  BY DEF ServicePlay
<1>2. /\ WellFormed(f) /\ Onward(page, f) /\ ~page[p].magic
      /\ \A q \in Superseded(p) : ~f[q].magic
  BY <1>1, QueuePageFacts
<1>3. RegisteredPage(pts) \in Page /\ RegisteredPage(pts).magic
  BY InputAssumption DEF RegisteredPage, FreedPage, Page, PageStatus
<1> HIDE DEF f
<1>4. /\ page' \in [Pages -> Page] /\ page'[p] = RegisteredPage(pts)
      /\ \A q \in Pages \ {p} : page'[q] = f[q]
  BY <1>1, <1>2, <1>3 DEF WellFormed
<1>5. WellFormed(page)'
  BY <1>2, <1>3, <1>4 DEF WellFormed
<1>6. Advance
  BY <1>2, <1>4 DEF Advance, Onward, LivePages
<1>7. NoPageLeak'
  BY <1>1, <1>2, <1>4, QueuePageFacts DEF NoPageLeak, LivePages, Onward, Safe
<1>8. requests' \in Seq(Request)
  <2>1. Registered(pts, serviceSpeed) \in Seq(Request) /\ requests \in Seq(Request)
    BY InputAssumption, RequestTypes DEF Safe, TypeOK
  <2> QED  BY <2>1, ConcatProperties DEF ServicePlay
<1>9. TypeOK'
  BY <1>1, <1>4, <1>8, QueuePageFacts DEF Safe, TypeOK, QueuePage, settings
<1> QED  BY <1>1, <1>5, <1>6, <1>7, <1>9, QueuePageFacts DEF SafeStep, Safe, QuietAfterDelete

\* and of one whose time is not.
LEMMA PlayUnregisteredIsSafe ==
  ASSUME Safe, NEW p \in Pages, ServicePlayUnregistered(p)
  PROVE  SafeStep
<1>1. QueuePage(p) /\ page' = DeletePages(page, Superseded(p)) /\ requests' = requests
  BY DEF ServicePlayUnregistered
<1>2. WellFormed(page') /\ Onward(page, page') /\ \A q \in Superseded(p) : ~page'[q].magic
  BY <1>1, QueuePageFacts
<1>3. NoPageLeak' /\ Advance
  BY <1>1, <1>2, QueuePageFacts DEF NoPageLeak, LivePages, Onward, Safe, Advance
<1>4. TypeOK'
  BY <1>1, <1>2, QueuePageFacts DEF Safe, TypeOK, QueuePage, settings, WellFormed
<1> QED  BY <1>1, <1>2, <1>3, <1>4, QueuePageFacts DEF SafeStep, Safe, QuietAfterDelete, WellFormed

\* LS_DVBSubDecServicePause
LEMMA PauseIsSafe ==
  ASSUME Safe, ServicePause
  PROVE  SafeStep
<1>1. page' = WithTimeOut(page, displayPageOnScreen, FALSE) /\ displayPageList' = displayPageList
  BY DEF ServicePause
<1>2. WellFormed(page') /\ Onward(page, page')
  BY <1>1, WithTimeOutFacts DEF Safe
<1>3. NoPageLeak' /\ Advance
  BY <1>1, <1>2, OnwardStep
<1>4. requests' \in Seq(Request)
  BY RequestTypes DEF ServicePause, Safe
<1> QED
  BY <1>2, <1>3, <1>4
     DEF ServicePause, SafeStep, Safe, TypeOK, QuietAfterDelete, ServiceStates, settings, WellFormed

\* LS_DVBSubDecServiceResume
LEMMA ResumeIsSafe ==
  ASSUME Safe, ServiceResume
  PROVE  SafeStep
<1>1. page' = WithTimeOut(page, displayPageOnScreen, TRUE) /\ displayPageList' = displayPageList
  BY DEF ServiceResume
<1>2. WellFormed(page') /\ Onward(page, page')
  BY <1>1, WithTimeOutFacts DEF Safe
<1>3. NoPageLeak' /\ Advance
  BY <1>1, <1>2, OnwardStep
<1>4. requests' \in Seq(Request)
  BY RequestTypes DEF ServiceResume, Safe, TypeOK
<1> QED
  BY <1>2, <1>3, <1>4
     DEF ServiceResume, SafeStep, Safe, TypeOK, QuietAfterDelete, ServiceStates, settings, WellFormed

\* LS_DVBSubDecServiceMute
LEMMA MuteIsSafe ==
  ASSUME Safe, ServiceMute
  PROVE  SafeStep
<1>1. WellFormed(page') /\ Onward(page, page')
  <2>1. CASE displayPageOnScreen = latestDisplayPage
    BY <2>1, RemovedFromScreenFacts DEF ServiceMute, Safe
  <2>2. CASE displayPageOnScreen # latestDisplayPage
    BY <2>2, DeletePagesFacts DEF ServiceMute, Safe
  <2> QED  BY <2>1, <2>2
<1>2. NoPageLeak' /\ Advance
  BY <1>1, OnwardStep DEF ServiceMute
<1>3. muteState' \in BOOLEAN
  BY DEF ServiceMute
<1>4. TypeOK'
  BY <1>1, <1>3 DEF ServiceMute, Safe, TypeOK, WellFormed
<1> QED  BY <1>1, <1>2, <1>4 DEF ServiceMute, SafeStep, Safe, QuietAfterDelete

\* What a callback does to the pages and the screen, whatever it does to the rest.
SafeCallback ==
  /\ WellFormed(page') /\ NoPageLeak' /\ Advance /\ LivePages' \subseteq LivePages
  /\ displayPageList' \in Seq(Pages)
  /\ latestDisplayPage' \in Pages \cup {Nil}
  /\ displayPageOnScreen' \in Pages \cup {Nil}
  /\ screen' \subseteq Pages

\* A callback that takes one page off the list deleted it.
LEMMA OnlyDeletedPagesLeave ==
  ASSUME Safe, Onward(page, page'), NEW e, displayPageList' = RemoveFirst(displayPageList, e),
         e \in Pages => ~page'[e].magic
  PROVE  displayPageList' \in Seq(Pages) /\ NoPageLeak' /\ Advance /\ LivePages' \subseteq LivePages
<1>1. /\ displayPageList' \in Seq(Pages)
      /\ ToSet(displayPageList) \ {e} \subseteq ToSet(displayPageList')
  BY RemoveFirstElements DEF Safe, TypeOK
<1> QED  BY <1>1, OnwardStep

\* processDisplayPTS
LEMMA PresentIsSafe ==
  ASSUME Safe, NEW pts, PresentPTS(pts)
  PROVE  SafeCallback
<1>1. CASE displayPageList = << >>
  BY <1>1, PagesUntouched DEF PresentPTS, SafeCallback, Safe, TypeOK
<1>2. CASE displayPageList # << >>
  <2>1. PICK i \in DOMAIN displayPageList, early \in TooEarly :
          PutOnScreen(displayPageList[i], early)
    BY <1>2 DEF PresentPTS
  <2> DEFINE fired == displayPageList[i]
             shown == IF Due(fired) THEN Presented(fired, early) ELSE page
             obsolete == {displayPageOnScreen} \ {Nil, latestDisplayPage}
  <2>2. fired \in Pages /\ early \in BOOLEAN
    <3>1. fired \in Pages
      BY ElementOfSeq, LenProperties DEF Safe, TypeOK
    <3>2. early \in BOOLEAN
      BY DEF TooEarly
    <3> QED  BY <3>1, <3>2
  <2>3. WellFormed(shown) /\ Onward(page, shown)
    BY <2>2, PresentedFacts DEF Safe, Onward
  <2>4. /\ page' = DeletePages(shown, obsolete)
        /\ displayPageList' = IF obsolete = {} THEN displayPageList
                              ELSE RemoveFirst(displayPageList, displayPageOnScreen)
        /\ displayPageOnScreen' = fired
        /\ screen' \subseteq screen \cup {fired}
        /\ latestDisplayPage' = latestDisplayPage
    BY <2>1 DEF PutOnScreen
  <2> HIDE DEF fired, shown
  <2>5. /\ WellFormed(page') /\ Onward(page, page')
        /\ \A q \in obsolete \cap Pages : ~page'[q].magic
    BY <2>3, <2>4, DeletePagesFacts, OnwardIsTransitive
  <2>6. /\ displayPageList' \in Seq(Pages) /\ NoPageLeak' /\ Advance
        /\ LivePages' \subseteq LivePages
    <3>1. CASE obsolete = {}
      BY <2>4, <2>5, <3>1, OnwardStep DEF Safe, TypeOK
    <3>2. CASE obsolete # {}
      <4>1. obsolete = {displayPageOnScreen}
        BY <3>2
      <4> QED  BY <2>4, <2>5, <3>2, <4>1, OnlyDeletedPagesLeave
    <3> QED  BY <3>1, <3>2
  <2> QED  BY <2>2, <2>4, <2>5, <2>6 DEF SafeCallback, Safe, TypeOK
<1> QED  BY <1>1, <1>2

\* processInvalidPTS
LEMMA InvalidateIsSafe ==
  ASSUME Safe, NEW pts, InvalidatePTS(pts)
  PROVE  SafeCallback
<1>1. /\ latestDisplayPage' \in Pages \cup {Nil} /\ screen' \subseteq Pages
  BY DEF InvalidatePTS, Safe, TypeOK
<1>2. CASE UNCHANGED << page, displayPageList, displayPageOnScreen >>
  BY <1>1, <1>2, PagesUntouched DEF SafeCallback, Safe, TypeOK
<1>3. ASSUME NEW i \in DOMAIN displayPageList, displayPageList[i] # latestDisplayPage,
             page' = DeletePages(page, {displayPageList[i]}),
             displayPageList' = RemoveFirst(displayPageList, displayPageList[i]),
             displayPageOnScreen' = IF displayPageOnScreen = displayPageList[i] THEN Nil
                                    ELSE displayPageOnScreen
      PROVE  SafeCallback
  <2>1. /\ WellFormed(page') /\ Onward(page, page')
        /\ displayPageList[i] \in Pages => ~page'[displayPageList[i]].magic
    BY <1>3, DeletePagesFacts DEF Safe
  <2>2. displayPageOnScreen' \in Pages \cup {Nil}
    BY <1>3 DEF Safe, TypeOK
  <2> QED  BY <1>1, <1>3, <2>1, <2>2, OnlyDeletedPagesLeave DEF SafeCallback
<1>4. ASSUME NEW i \in DOMAIN displayPageList,
             page' = [page EXCEPT ![displayPageList[i]].status = "RETIRED"],
             UNCHANGED << displayPageList, displayPageOnScreen >>
      PROVE  SafeCallback
  <2> DEFINE fired == displayPageList[i]
  <2>1. fired \in Pages /\ page[fired] \in Page
    BY ElementOfSeq, LenProperties DEF Safe, TypeOK
  <2> HIDE DEF fired
  <2>2. page' = [page EXCEPT ![fired] = [page[fired] EXCEPT !.status = "RETIRED"]]
    BY <1>4 DEF fired
  <2> DEFINE r == [page[fired] EXCEPT !.status = "RETIRED"]
  <2>3. /\ r \in Page /\ r.status = "RETIRED" /\ r.magic = page[fired].magic
        /\ r.page_time_out_timer = page[fired].page_time_out_timer
        /\ r.suicide_timer = page[fired].suicide_timer
    BY <2>1 DEF Page, PageStatus
  <2>4. /\ page' \in [Pages -> Page] /\ page'[fired] = r
        /\ \A q \in Pages \ {fired} : page'[q] = page[q]
    BY <2>1, <2>2, <2>3 DEF Safe, TypeOK
  <2> HIDE DEF r
  <2>5. WellFormed(page')
    BY <2>1, <2>3, <2>4 DEF WellFormed, Inert, Safe
  <2>6. Onward(page, page')
    BY <2>1, <2>3, <2>4 DEF Onward
  <2>7. NoPageLeak' /\ Advance /\ LivePages' \subseteq LivePages
    BY <1>4, <2>6, OnwardStep
  <2> QED  BY <1>1, <1>4, <2>5, <2>7 DEF SafeCallback, Safe, TypeOK
<1> QED
  BY <1>2, <1>3, <1>4 DEF InvalidatePTS

\* A request's timer
LEMMA FirePTSIsSafe ==
  ASSUME Safe, NEW i \in DOMAIN requests, FirePTS(i)
  PROVE  SafeStep
<1>1. SafeCallback
  BY PresentIsSafe, InvalidateIsSafe DEF FirePTS
<1>2. requests' \in Seq(Request)
  BY RequestTypes DEF FirePTS, Safe
<1>3. state # "VOID"
  <2>1. requests # << >>
    BY EmptySeq
  <2> QED  BY <2>1 DEF Safe, QuietAfterDelete
<1>4. TypeOK'
  BY <1>1, <1>2 DEF FirePTS, SafeCallback, Safe, TypeOK, settings, WellFormed
<1> QED  BY <1>1, <1>3, <1>4 DEF FirePTS, SafeCallback, SafeStep, Safe, QuietAfterDelete

\* pageTimeOutCallbackFunc
LEMMA PageTimeOutIsSafe ==
  ASSUME Safe, NEW p \in Pages, PageTimeOut(p)
  PROVE  SafeStep
<1> DEFINE blank == WithTimeOut(RemovedFromScreen(p), p, FALSE)
<1>1. WellFormed(blank) /\ Onward(page, blank)
  <2>1. WellFormed(RemovedFromScreen(p)) /\ Onward(page, RemovedFromScreen(p))
    BY RemovedFromScreenFacts DEF Safe
  <2> QED  BY <2>1, WithTimeOutFacts, OnwardIsTransitive
<1>2. \/ page' = blank /\ UNCHANGED displayPageList
      \/ /\ page' = DeletePages(blank, {displayPageOnScreen})
         /\ displayPageList' = RemoveFirst(displayPageList, displayPageOnScreen)
  BY DEF PageTimeOut
<1> HIDE DEF blank
<1>3. CASE page' = blank /\ UNCHANGED displayPageList
  BY <1>1, <1>3, OnwardStep DEF PageTimeOut, SafeStep, Safe, TypeOK, QuietAfterDelete, settings, WellFormed
<1>4. CASE /\ page' = DeletePages(blank, {displayPageOnScreen})
           /\ displayPageList' = RemoveFirst(displayPageList, displayPageOnScreen)
  <2>1. /\ WellFormed(page') /\ Onward(page, page')
        /\ displayPageOnScreen \in Pages => ~page'[displayPageOnScreen].magic
    BY <1>1, <1>4, DeletePagesFacts, OnwardIsTransitive
  <2>2. displayPageList' \in Seq(Pages) /\ NoPageLeak' /\ Advance /\ LivePages' \subseteq LivePages
    BY <1>4, <2>1, OnlyDeletedPagesLeave
  <2> QED
    BY <2>1, <2>2 DEF PageTimeOut, SafeStep, Safe, TypeOK, QuietAfterDelete, settings, WellFormed
<1> QED  BY <1>2, <1>3, <1>4

\* pageSuicideCallbackFunc
LEMMA PageSuicideIsSafe ==
  ASSUME Safe, NEW p \in Pages, PageSuicide(p)
  PROVE  SafeStep
<1>1. UNCHANGED << state, latestDisplayPage, displayPageOnScreen, serviceSpeed, pcrFunc,
                   muteState, DDSFlag, screen >>
  BY DEF PageSuicide, settings
<1>2. CASE /\ page' = [page EXCEPT ![p].suicide_timer = FALSE]
           /\ UNCHANGED << displayPageList, requests >>
  <2> DEFINE r == [page[p] EXCEPT !.suicide_timer = FALSE]
  <2>1. /\ page[p] \in Page /\ r \in Page /\ r.status = page[p].status
        /\ r.magic = page[p].magic /\ ~r.suicide_timer
        /\ r.page_time_out_timer = page[p].page_time_out_timer
    BY DEF Safe, TypeOK, Page
  <2>2. /\ page' \in [Pages -> Page] /\ page'[p] = r
        /\ \A q \in Pages \ {p} : page'[q] = page[q]
    BY <1>2, <2>1 DEF Safe, TypeOK
  <2> HIDE DEF r
  <2>3. WellFormed(page') /\ Onward(page, page')
    BY <2>1, <2>2 DEF WellFormed, Inert, Safe, Onward
  <2> QED
    BY <1>1, <1>2, <2>2, <2>3, OnwardStep DEF SafeStep, Safe, TypeOK, QuietAfterDelete
<1>3. CASE /\ requests' = Cancelled(page[p].ptsValue)
           /\ displayPageList' = RemoveFirst(displayPageList, p)
           /\ page' = DeletePages(page, {p})
  <2>1. WellFormed(page') /\ Onward(page, page') /\ ~page'[p].magic
    BY <1>3, DeletePagesFacts DEF Safe
  <2>2. displayPageList' \in Seq(Pages) /\ NoPageLeak' /\ Advance /\ LivePages' \subseteq LivePages
    BY <1>3, <2>1, OnlyDeletedPagesLeave
  <2>3. page[p].magic
    BY DEF PageSuicide, WellFormed, Inert, Safe
  <2>4. state # "VOID"
    BY <2>3 DEF Safe, QuietAfterDelete, LivePages
  <2>5. requests' \in Seq(Request)
    <3>1. page[p].ptsValue \in Nat
      BY DEF Safe, TypeOK, Page
    <3> QED  BY <1>3, <3>1, RequestTypes DEF Safe
  <2> QED  BY <1>1, <2>1, <2>2, <2>4, <2>5 DEF SafeStep, Safe, TypeOK, QuietAfterDelete, WellFormed
<1> QED  BY <1>2, <1>3 DEF PageSuicide

\* Every step keeps the invariant and advances the pages.
LEMMA StepIsSafe == Safe /\ [Next]_vars => SafeStep
<1> SUFFICES ASSUME Safe, [Next]_vars PROVE SafeStep
  OBVIOUS
<1>1. CASE Call
  BY <1>1, CallsWithoutPages, DeleteIsSafe, StopIsSafe, PlayIsSafe, PlayUnregisteredIsSafe,
     PauseIsSafe, ResumeIsSafe, MuteIsSafe, ResetIsSafe, SetSpeedIsSafe DEF Call
<1>2. CASE Timer
  BY <1>2, FirePTSIsSafe, PageTimeOutIsSafe, PageSuicideIsSafe DEF Timer
<1>3. CASE UNCHANGED vars
  BY <1>3, CallsWithoutPages
<1> QED  BY <1>1, <1>2, <1>3 DEF Next

\* The inductive invariant holds in every reachable state.
LEMMA AlwaysSafe == Spec => []Safe
<1>1. Safe /\ [Next]_vars => Safe'
  BY StepIsSafe DEF SafeStep
<1> QED  BY <1>1, InitIsSafe, PTL DEF Spec

\* Every variable keeps its type and every page its record, whatever the calls and the
\* callbacks do.
THEOREM TypeCorrect == Spec => []TypeOK
<1>1. Safe => TypeOK
  BY DEF Safe
<1> QED  BY <1>1, AlwaysSafe, PTL

\* Every page in use is in displayPageList, where Stop, Reset and Delete find it: no call
\* and no callback takes a page off the list and forgets to delete it.
THEOREM NoPageLeaks == Spec => []NoPageLeak
<1>1. Safe => NoPageLeak
  BY DEF Safe
<1> QED  BY <1>1, AlwaysSafe, PTL

\* LS_DVBSubDecServiceDelete leaves no page and no request, hence no timer that could fire
\* into the freed service, in whatever state the application left it.
THEOREM DeleteIsQuiet == Spec => []QuietAfterDelete
<1>1. Safe => QuietAfterDelete
  BY DEF Safe
<1> QED  BY <1>1, AlwaysSafe, PTL

\* A displayed or retired page never awaits its time again, and a retired one is never
\* displayed again, in whatever order the timers fire.
THEOREM StatusOnlyAdvances == Spec => StatusAdvances
<1>1. Safe /\ [Next]_vars => [Advance]_vars
  BY StepIsSafe DEF SafeStep
<1> QED  BY <1>1, AlwaysSafe, PTL DEF Spec, StatusAdvances, Advance

-----------------------------------------------------------------------------
(* The documented use                                                       *)

\* The pages that wait for their time.
Waiting(f) == {p \in Pages : f[p].status = "PTS_REGISTERED"}

\* m gives every request of reqs the waiting page of f it was made for.
Matches(m, reqs, f) ==
  /\ m \in [DOMAIN reqs -> Waiting(f)]
  /\ \A i, j \in DOMAIN reqs : m[i] = m[j] => i = j
  /\ \A p \in Waiting(f) : \E i \in DOMAIN reqs : m[i] = p
  /\ \A i \in DOMAIN reqs : reqs[i].ptsValue = f[m[i]].ptsValue

\* The pending requests and the waiting pages are in bijection.
Matched(reqs, f) == \E m : Matches(m, reqs, f)

\* Requests of one time are interchangeable: any waiting page of that time may be taken to
\* be the one request i was made for.
LEMMA MatchSwapped ==
  ASSUME NEW reqs, NEW f, Matched(reqs, f),
         NEW i \in DOMAIN reqs, NEW w \in Waiting(f), f[w].ptsValue = reqs[i].ptsValue
  PROVE  \E m : Matches(m, reqs, f) /\ m[i] = w
<1>1. PICK m : Matches(m, reqs, f)
  BY DEF Matched
<1>2. PICK j \in DOMAIN reqs : m[j] = w
  BY <1>1 DEF Matches
<1> DEFINE n == [k \in DOMAIN reqs |-> IF k = i THEN w ELSE IF k = j THEN m[i] ELSE m[k]]
<1>3. m \in [DOMAIN reqs -> Waiting(f)]
  BY <1>1 DEF Matches
<1>4. n \in [DOMAIN reqs -> Waiting(f)]
  BY <1>3
<1>5. /\ n[i] = w
      /\ j # i => n[j] = m[i]
      /\ \A k \in DOMAIN reqs \ {i, j} : n[k] = m[k]
  OBVIOUS
<1> HIDE DEF n
<1>6. ASSUME NEW k \in DOMAIN reqs, NEW l \in DOMAIN reqs, n[k] = n[l] PROVE k = l
  BY <1>1, <1>2, <1>5, <1>6 DEF Matches
<1>7. ASSUME NEW p \in Waiting(f) PROVE \E k \in DOMAIN reqs : n[k] = p
  BY <1>1, <1>2, <1>5 DEF Matches
<1>8. ASSUME NEW k \in DOMAIN reqs PROVE reqs[k].ptsValue = f[n[k]].ptsValue
  BY <1>1, <1>2, <1>5 DEF Matches
<1>9. Matches(n, reqs, f)
  BY <1>4, <1>6, <1>7, <1>8 DEF Matches
<1> QED  BY <1>5, <1>9

\* Removing a request and the page it was made for.
LEMMA MatchedRemoveAt ==
  ASSUME NEW reqs \in Seq(Request), NEW f, NEW g, Matched(reqs, f),
         NEW i \in DOMAIN reqs, NEW w \in Waiting(f), f[w].ptsValue = reqs[i].ptsValue,
         Waiting(g) = Waiting(f) \ {w},
         \A p \in Waiting(g) : g[p].ptsValue = f[p].ptsValue
  PROVE  Matched(RemoveAt(reqs, i), g)
<1>1. PICK m : Matches(m, reqs, f) /\ m[i] = w
  BY MatchSwapped
<1> DEFINE r == RemoveAt(reqs, i)
           up(k) == IF k < i THEN k ELSE k + 1
           n == [k \in DOMAIN r |-> m[up(k)]]
<1>2. Len(reqs) \in Nat /\ DOMAIN reqs = 1..Len(reqs)
  BY LenProperties
<1>3. /\ r \in Seq(Request)
      /\ Len(r) = Len(reqs) - 1
      /\ \A k \in 1..(Len(reqs) - 1) : r[k] = reqs[up(k)]
  BY <1>2, RemoveAtProperties
<1>4. DOMAIN r = 1..(Len(reqs) - 1)
  BY <1>3, LenProperties
<1> HIDE DEF r
<1>5. \A k \in DOMAIN r : up(k) \in DOMAIN reqs \ {i}
  BY <1>2, <1>4
<1>6. \A k, l \in DOMAIN r : up(k) = up(l) => k = l
  BY <1>2, <1>4
<1>7. \A j \in DOMAIN reqs \ {i} : \E k \in DOMAIN r : up(k) = j
  <2>1. SUFFICES ASSUME NEW j \in DOMAIN reqs \ {i} PROVE \E k \in DOMAIN r : up(k) = j
    OBVIOUS
  <2>2. CASE j < i
    BY <1>2, <1>4, <2>2
  <2>3. CASE ~(j < i)
    <3>1. i \in Int /\ 1 <= i /\ j \in Int /\ i < j /\ j <= Len(reqs) /\ Len(reqs) \in Int
      <4>1. Len(reqs) \in Nat
        BY <1>2
      <4>2. j \in 1..Len(reqs) /\ i \in 1..Len(reqs) /\ j # i
        BY <1>2
      <4> QED  BY <4>1, <4>2, <2>3
    <3>2. j - 1 \in DOMAIN r /\ up(j - 1) = j
      BY <3>1, <1>4
    <3> QED  BY <3>2
  <2> QED  BY <2>2, <2>3
<1>8. \A k \in DOMAIN r : r[k] = reqs[up(k)]
  BY <1>3, <1>4
<1> HIDE DEF up
<1>9. \A k \in DOMAIN r : m[up(k)] \in Waiting(g)
  BY <1>1, <1>5 DEF Matches
<1>10. n \in [DOMAIN r -> Waiting(g)] /\ \A k \in DOMAIN r : n[k] = m[up(k)]
  BY <1>9
<1> HIDE DEF n
<1>11. \A k, l \in DOMAIN r : n[k] = n[l] => k = l
  BY <1>1, <1>5, <1>6, <1>10 DEF Matches
<1>12. \A p \in Waiting(g) : \E k \in DOMAIN r : n[k] = p
  <2>1. SUFFICES ASSUME NEW p \in Waiting(g) PROVE \E k \in DOMAIN r : n[k] = p
    OBVIOUS
  <2>2. PICK j \in DOMAIN reqs : m[j] = p
    BY <1>1 DEF Matches
  <2>3. j # i
    BY <1>1, <2>2
  <2> QED  BY <1>7, <1>10, <2>2, <2>3
<1>13. \A k \in DOMAIN r : r[k].ptsValue = g[n[k]].ptsValue
  BY <1>1, <1>5, <1>8, <1>9, <1>10 DEF Matches
<1>14. Matches(n, r, g)
  BY <1>10, <1>11, <1>12, <1>13 DEF Matches
<1> QED  BY <1>14 DEF Matched, r

\* Adding a request with the page it is made for.
LEMMA MatchedAppend ==
  ASSUME NEW reqs \in Seq(Request), NEW f, NEW g, Matched(reqs, f),
         NEW req \in Request, NEW w, w \notin Waiting(f), g[w].ptsValue = req.ptsValue,
         Waiting(g) = Waiting(f) \cup {w},
         \A p \in Waiting(f) : g[p].ptsValue = f[p].ptsValue
  PROVE  Matched(Append(reqs, req), g)
<1>1. PICK m : Matches(m, reqs, f)
  BY DEF Matched
<1> DEFINE r == Append(reqs, req)
           last == Len(reqs) + 1
           n == [k \in DOMAIN r |-> IF k = last THEN w ELSE m[k]]
<1>2. Len(reqs) \in Nat /\ DOMAIN reqs = 1..Len(reqs)
  BY LenProperties
<1>3. /\ r \in Seq(Request) /\ Len(r) = last /\ r[last] = req
      /\ \A k \in 1..Len(reqs) : r[k] = reqs[k]
  BY <1>2, AppendProperties
<1>4. DOMAIN r = 1..last
  BY <1>3, LenProperties
<1> HIDE DEF r
<1>5. last \notin DOMAIN reqs /\ DOMAIN r = DOMAIN reqs \cup {last}
  BY <1>2, <1>4
<1>6. /\ r[last] = req /\ \A k \in DOMAIN reqs : r[k] = reqs[k]
  BY <1>2, <1>3
<1> HIDE DEF last
<1>7. /\ n \in [DOMAIN r -> Waiting(g)] /\ n[last] = w
      /\ \A k \in DOMAIN reqs : n[k] = m[k]
  BY <1>1, <1>5 DEF Matches
<1> HIDE DEF n
<1>8. \A k, l \in DOMAIN r : n[k] = n[l] => k = l
  BY <1>1, <1>5, <1>7 DEF Matches
<1>9. \A p \in Waiting(g) : \E k \in DOMAIN r : n[k] = p
  BY <1>1, <1>5, <1>7 DEF Matches
<1>10. \A k \in DOMAIN r : r[k].ptsValue = g[n[k]].ptsValue
  BY <1>1, <1>5, <1>6, <1>7 DEF Matches
<1>11. Matches(n, r, g)
  BY <1>7, <1>8, <1>9, <1>10 DEF Matches
<1> QED  BY <1>11 DEF Matched, r

\* Changing neither the times nor the waiting pages.
LEMMA MatchedSame ==
  ASSUME NEW reqs, NEW other, NEW f, NEW g, Matched(reqs, f),
         DOMAIN other = DOMAIN reqs,
         \A i \in DOMAIN reqs : other[i].ptsValue = reqs[i].ptsValue,
         Waiting(g) = Waiting(f),
         \A p \in Waiting(f) : g[p].ptsValue = f[p].ptsValue
  PROVE  Matched(other, g)
<1>1. PICK m : Matches(m, reqs, f)
  BY DEF Matched
<1>2. Matches(m, other, g)
  BY <1>1 DEF Matches
<1> QED  BY <1>2 DEF Matched

\* Statuses, visibility and deletion agree in every page.
Shape(f) ==
  \A p \in Pages :
    /\ ~f[p].magic => f[p] = FreedPage
    /\ f[p].magic => f[p].status # "NEW"
    /\ f[p].visible <=> f[p].status = "DISPLAYING"

\* No request is PTS_INVALID and every page queued has a PCR to be registered with.
Presenting ==
  /\ serviceSpeed > 0
  /\ state \in Started => pcrFunc
  /\ \A i \in DOMAIN requests : requests[i].reason = "PTS_PRESENTED"

\* The inductive invariant, on top of Safe.
Promised ==
  /\ PagesListed
  /\ LatestIsLast
  /\ OnScreenIsDisplaying
  /\ ScreenOwned
  /\ TimeOutIsOnScreen
  /\ NoForgottenPage
  /\ StoppedIsQuiet
  /\ Shape(page)
  /\ Matched(requests, page)
  /\ Presenting

\* The whole invariant.
Contract == Safe /\ Promised

\* A bijection is a count.
LEMMA MatchedCounts ==
  ASSUME Safe, Matched(requests, page)
  PROVE  RequestPerWaitingPage
<1> SUFFICES ASSUME NEW pts \in PTSValues
             PROVE  Cardinality({i \in DOMAIN requests : requests[i].ptsValue = pts})
                      = Cardinality({p \in LivePages : Awaits(p, pts)})
  BY DEF RequestPerWaitingPage
<1>1. PICK m : Matches(m, requests, page)
  BY DEF Matched
<1> DEFINE pending == {i \in DOMAIN requests : requests[i].ptsValue = pts}
           waiting == {p \in LivePages : Awaits(p, pts)}
           n == [i \in pending |-> m[i]]
<1>2. IsFiniteSet(pending)
  <2>1. DOMAIN requests = 1..Len(requests) /\ Len(requests) \in Nat
    BY LenProperties DEF Safe, TypeOK
  <2>2. IsFiniteSet(DOMAIN requests)
    BY <2>1, FS_Interval
  <2> QED  BY <2>2, FS_Subset
<1>3. \A p \in Pages : p \in waiting <=> p \in Waiting(page) /\ page[p].ptsValue = pts
  BY DEF Waiting, LivePages, Awaits, Safe, WellFormed, Inert
<1>4. waiting \subseteq Pages /\ Waiting(page) \subseteq Pages
  BY DEF LivePages, Waiting
<1>5. \A i \in pending : m[i] \in waiting
  BY <1>1, <1>3, <1>4 DEF Matches
<1>6. \A p \in waiting : \E i \in pending : m[i] = p
  BY <1>1, <1>3, <1>4 DEF Matches
<1>7. \A i, j \in pending : m[i] = m[j] => i = j
  BY <1>1 DEF Matches
<1> HIDE DEF pending, waiting
<1>8. n \in Bijection(pending, waiting)
  BY <1>5, <1>6, <1>7 DEF Bijection, Injection, Surjection, IsInjective
<1>9. Cardinality(waiting) = Cardinality(pending)
  BY <1>2, <1>8, FS_Bijection DEF ExistsBijection
<1> QED  BY <1>9 DEF pending, waiting

\* The states before Start and after Stop and Delete.
Quiet ==
  /\ state \notin Started
  /\ displayPageList = << >> /\ requests = << >> /\ screen = {}
  /\ latestDisplayPage = Nil /\ displayPageOnScreen = Nil
  /\ \A p \in Pages : page[p] = FreedPage
  /\ serviceSpeed > 0

\* They have nothing to promise.
LEMMA QuietIsPromised == Quiet => Promised
<1> SUFFICES ASSUME Quiet PROVE Promised
  OBVIOUS
<1>1. LivePages = {} /\ Waiting(page) = {}
  BY DEF Quiet, LivePages, Waiting, FreedPage
<1>2. DOMAIN requests = {} /\ DOMAIN displayPageList = {}
  BY DEF Quiet
<1>3. PagesListed
  BY <1>1, <1>2 DEF PagesListed, ToSet
<1>4. Matched(requests, page)
  <2>1. Matches(<< >>, requests, page)
    BY <1>1, <1>2 DEF Matches, Quiet
  <2> QED  BY <2>1 DEF Matched
<1>5. ScreenOwned
  BY DEF Quiet, ScreenOwned, FreedPage
<1>6. /\ LatestIsLast /\ OnScreenIsDisplaying /\ TimeOutIsOnScreen
      /\ NoForgottenPage /\ StoppedIsQuiet
  BY <1>1 DEF Quiet, LatestIsLast, OnScreenIsDisplaying, TimeOutIsOnScreen,
              NoForgottenPage, StoppedIsQuiet, FreedPage
<1>7. Shape(page) /\ Presenting
  BY <1>2 DEF Quiet, Shape, Presenting, FreedPage
<1> QED  BY <1>3, <1>4, <1>5, <1>6, <1>7 DEF Promised

\* LS_PTSMgrSetSpeed keeps the times of the pending requests.
LEMMA AtSpeedFacts ==
  ASSUME TypeOK, NEW speed \in Int, ~(speed < 0)
  PROVE  /\ DOMAIN AtSpeed(speed) = DOMAIN requests
         /\ \A i \in DOMAIN requests : /\ AtSpeed(speed)[i].ptsValue = requests[i].ptsValue
                                       /\ AtSpeed(speed)[i].reason = "PTS_PRESENTED"
         /\ requests = << >> => AtSpeed(speed) = << >>
<1>1. \A i \in DOMAIN requests : requests[i] \in Request
  BY ElementOfSeq, LenProperties DEF TypeOK
<1>2. ASSUME NEW i \in DOMAIN requests
      PROVE  /\ AtSpeed(speed)[i].ptsValue = requests[i].ptsValue
             /\ AtSpeed(speed)[i].reason = "PTS_PRESENTED"
  BY <1>1 DEF AtSpeed, Reason, Request
<1>3. DOMAIN AtSpeed(speed) = DOMAIN requests
  BY DEF AtSpeed
<1>4. ASSUME requests = << >> PROVE AtSpeed(speed) = << >>
  <2>1. AtSpeed(speed) \in Seq(Request)
    BY RequestTypes
  <2>2. Len(AtSpeed(speed)) = 0
    BY <1>3, <1>4, <2>1, LenProperties, EmptySeq
  <2> QED  BY <2>1, <2>2, EmptySeq
<1> QED  BY <1>2, <1>3, <1>4

\* Two records of a page that differ in their timers at most.
Alike(r, s) ==
  /\ s.magic = r.magic /\ s.status = r.status
  /\ s.visible = r.visible /\ s.ptsValue = r.ptsValue

\* A step that changes timers, speeds and switches only.
LEMMA QueueUntouched ==
  ASSUME Contract, 
         UNCHANGED << displayPageList, latestDisplayPage, displayPageOnScreen, screen >>,
         \A p \in Pages : /\ Alike(page[p], page'[p])
                          /\ page'[p].page_time_out_timer => p = displayPageOnScreen
                          /\ ~page[p].magic => page'[p] = page[p],
         state' \notin Started => state \notin Started,
         DOMAIN requests' = DOMAIN requests,
         \A i \in DOMAIN requests : requests'[i].ptsValue = requests[i].ptsValue,
         requests = << >> => requests' = << >>,
         Presenting'
  PROVE  Promised'
<1>1. LivePages' = LivePages
  BY DEF LivePages, Alike
<1>2. PagesListed' /\ LatestIsLast' /\ TimeOutIsOnScreen'
  BY <1>1 DEF Contract, Promised, PagesListed, LatestIsLast, TimeOutIsOnScreen
<1>3. OnScreenIsDisplaying'
  BY DEF Contract, Promised, OnScreenIsDisplaying, Shown, Alike, Safe, TypeOK
<1>4. ScreenOwned'
  BY DEF Contract, Promised, ScreenOwned, Alike
<1>5. NoForgottenPage'
  BY <1>1 DEF Contract, Promised, NoForgottenPage, Alike, LivePages
<1>6. StoppedIsQuiet'
  BY DEF Contract, Promised, StoppedIsQuiet
<1>7. Shape(page)'
  BY DEF Contract, Promised, Shape, Alike
<1>8. Matched(requests, page)'
  <2>1. Waiting(page') = Waiting(page)
    BY DEF Waiting, Alike
  <2>2. \A p \in Waiting(page) : page'[p].ptsValue = page[p].ptsValue
    BY DEF Waiting, Alike
  <2>3. Matched(requests', page')
    BY <2>1, <2>2, MatchedSame DEF Contract, Promised
  <2> QED  BY <2>3 DEF Matched, Matches, Waiting
<1> QED  BY <1>2, <1>3, <1>4, <1>5, <1>6, <1>7, <1>8 DEF Promised

\* Pause and Resume stop and start the page time-out.
LEMMA WithTimeOutAlike ==
  ASSUME Contract, NEW running \in BOOLEAN, NEW p \in Pages,
         page' = WithTimeOut(page, displayPageOnScreen, running)
  PROVE  /\ Alike(page[p], page'[p])
         /\ page'[p].page_time_out_timer => p = displayPageOnScreen
         /\ ~page[p].magic => page'[p] = page[p]
<1>1. page'[p] = IF p = displayPageOnScreen
                   THEN [page[p] EXCEPT !.page_time_out_timer = running /\ page[p].magic]
                   ELSE page[p]
  BY DEF WithTimeOut
<1>2. page[p] \in Page
  BY DEF Contract, Safe, TypeOK
<1>3. Alike(page[p], page'[p])
  BY <1>1, <1>2 DEF Alike, Page
<1>4. page'[p].page_time_out_timer => p = displayPageOnScreen
  BY <1>1 DEF Contract, Promised, TimeOutIsOnScreen
<1>5. ~page[p].magic => p # displayPageOnScreen
  BY NilAssumption DEF Contract, Promised, OnScreenIsDisplaying
<1> QED  BY <1>1, <1>3, <1>4, <1>5

\* New, Start, UnMute, the custom DDS, and stuttering.
LEMMA SwitchesKeepPromise ==
  ASSUME DocumentedUse, Contract,
         \/ ServiceNew \/ ServiceStart \/ ServiceUnMute \/ ServiceCustomerDDS
         \/ UNCHANGED vars
  PROVE  Promised'
<1>1. UNCHANGED << displayPageList, latestDisplayPage, displayPageOnScreen, screen, page, requests,
                   serviceSpeed >>
  BY DEF ServiceNew, ServiceStart, ServiceUnMute, ServiceCustomerDDS, vars, settings
<1>2. \A p \in Pages : /\ Alike(page[p], page'[p])
                       /\ page'[p].page_time_out_timer => p = displayPageOnScreen
                       /\ ~page[p].magic => page'[p] = page[p]
  BY <1>1 DEF Alike, Contract, Promised, TimeOutIsOnScreen
<1>3. /\ state' \notin Started => state \notin Started
      /\ state' \in Started => pcrFunc'
  <2>1. CASE ServiceNew
    BY <2>1 DEF ServiceNew, Started
  <2>2. CASE ServiceStart
    BY <2>2 DEF ServiceStart, Started, DocumentedUse, Contract, Promised, Presenting
  <2>3. CASE UNCHANGED << state, pcrFunc >>
    BY <2>3 DEF Contract, Promised, Presenting
  <2> QED  BY <2>1, <2>2, <2>3 DEF ServiceUnMute, ServiceCustomerDDS, vars
<1>4. Presenting'
  BY <1>1, <1>3 DEF Presenting, Contract, Promised
<1> QED  BY <1>1, <1>2, <1>3, <1>4, QueueUntouched

\* ServiceInstanceReset frees every page.
LEMMA ResetIsQuiet ==
  ASSUME Contract, NEW deleted, InstanceReset(deleted), NEW p \in Pages
  PROVE  page'[p] = FreedPage
<1>1. page' = DeletePages(page, deleted \cup ToSet(displayPageList))
  BY DEF InstanceReset
<1>2. p \in ToSet(displayPageList) \/ page[p] = FreedPage
  BY DEF Contract, Promised, PagesListed, LivePages, Shape
<1> QED  BY <1>1, <1>2 DEF DeletePages

\* LS_DVBSubDecServiceDelete
LEMMA DeleteKeepsPromise ==
  ASSUME Contract, ServiceDelete
  PROVE  Promised'
<1>1. InstanceReset({})
  BY DEF ServiceDelete
<1>2. screen = {}
  BY DEF ServiceDelete, Contract, Promised, StoppedIsQuiet, Started
<1>3. Quiet'
  BY <1>1, <1>2, ResetIsQuiet DEF ServiceDelete, InstanceReset, Quiet, Started, NormalSpeed
<1> QED  BY <1>3, QuietIsPromised, PTL

\* LS_DVBSubDecServiceStop
LEMMA StopKeepsPromise ==
  ASSUME Contract, ServiceStop
  PROVE  Promised'
<1>1. InstanceReset({displayPageOnScreen})
  BY DEF ServiceStop
<1>2. screen' = {}
  <2>1. Cleaned(displayPageOnScreen) = IF displayPageOnScreen = Nil THEN {} ELSE {displayPageOnScreen}
    BY NilAssumption DEF Cleaned, Shown, Contract, Promised, OnScreenIsDisplaying
  <2>2. screen \subseteq {displayPageOnScreen} /\ screen \subseteq Pages
    BY DEF Contract, Promised, ScreenOwned
  <2> QED  BY <2>1, <2>2, NilAssumption DEF ServiceStop
<1>3. Quiet'
  BY <1>1, <1>2, ResetIsQuiet
     DEF ServiceStop, InstanceReset, Quiet, Started, settings, Contract, Promised, Presenting
<1> QED  BY <1>3, QuietIsPromised, PTL

\* LS_DVBSubDecServiceSetSpeed, forward
LEMMA SetSpeedKeepsPromise ==
  ASSUME DocumentedUse, Contract, NEW speed \in Speeds, ServiceSetSpeed(speed)
  PROVE  Promised'
<1>1. speed > 0 /\ speed \in Int /\ ~(speed < 0)
  BY InputAssumption DEF DocumentedUse
<1>2. UNCHANGED << page, displayPageList, latestDisplayPage, displayPageOnScreen, screen, state, pcrFunc >>
  BY <1>1 DEF ServiceSetSpeed
<1>3. \A p \in Pages : /\ Alike(page[p], page'[p])
                       /\ page'[p].page_time_out_timer => p = displayPageOnScreen
                       /\ ~page[p].magic => page'[p] = page[p]
  BY <1>2 DEF Alike, Contract, Promised, TimeOutIsOnScreen
<1>4. requests' = AtSpeed(serviceSpeed) /\ serviceSpeed \in Int /\ ~(serviceSpeed < 0) /\ TypeOK
  BY DEF ServiceSetSpeed, Contract, Safe, TypeOK, Promised, Presenting
<1>5. /\ DOMAIN requests' = DOMAIN requests
      /\ \A i \in DOMAIN requests : /\ requests'[i].ptsValue = requests[i].ptsValue
                                    /\ requests'[i].reason = "PTS_PRESENTED"
      /\ requests = << >> => requests' = << >>
  BY <1>4, AtSpeedFacts
<1>6. Presenting'
  BY <1>1, <1>2, <1>5 DEF ServiceSetSpeed, Presenting, Contract, Promised
<1> QED  BY <1>2, <1>3, <1>5, <1>6, QueueUntouched

\* LS_DVBSubDecServicePause
LEMMA PauseKeepsPromise ==
  ASSUME Contract, ServicePause
  PROVE  Promised'
<1>1. page' = WithTimeOut(page, displayPageOnScreen, FALSE) /\ requests' = AtSpeed(0)
  BY DEF ServicePause
<1>2. \A p \in Pages : /\ Alike(page[p], page'[p])
                       /\ page'[p].page_time_out_timer => p = displayPageOnScreen
                       /\ ~page[p].magic => page'[p] = page[p]
  BY <1>1, WithTimeOutAlike
<1>3. /\ DOMAIN requests' = DOMAIN requests
      /\ \A i \in DOMAIN requests : /\ requests'[i].ptsValue = requests[i].ptsValue
                                    /\ requests'[i].reason = "PTS_PRESENTED"
      /\ requests = << >> => requests' = << >>
  BY <1>1, AtSpeedFacts DEF Contract, Safe
<1>4. Presenting' /\ state' \in Started
  BY <1>3 DEF ServicePause, settings, Started, Presenting, Contract, Promised
<1> QED  BY <1>2, <1>3, <1>4, QueueUntouched DEF ServicePause

\* LS_DVBSubDecServiceResume
LEMMA ResumeKeepsPromise ==
  ASSUME Contract, ServiceResume
  PROVE  Promised'
<1>1. page' = WithTimeOut(page, displayPageOnScreen, TRUE) /\ requests' = AtSpeed(serviceSpeed)
  BY DEF ServiceResume
<1>2. \A p \in Pages : /\ Alike(page[p], page'[p])
                       /\ page'[p].page_time_out_timer => p = displayPageOnScreen
                       /\ ~page[p].magic => page'[p] = page[p]
  BY <1>1, WithTimeOutAlike
<1>3. /\ DOMAIN requests' = DOMAIN requests
      /\ \A i \in DOMAIN requests : /\ requests'[i].ptsValue = requests[i].ptsValue
                                    /\ requests'[i].reason = "PTS_PRESENTED"
      /\ requests = << >> => requests' = << >>
  <2>1. TypeOK /\ serviceSpeed \in Int /\ ~(serviceSpeed < 0)
    BY DEF Contract, Safe, TypeOK, Promised, Presenting
  <2> QED  BY <1>1, <2>1, AtSpeedFacts
<1>4. Presenting' /\ state' \in Started
  BY <1>3 DEF ServiceResume, settings, Started, Presenting, Contract, Promised
<1> QED  BY <1>2, <1>3, <1>4, QueueUntouched DEF ServiceResume

\* The queue after Play.
LEMMA QueuePageKeeps ==
  ASSUME DocumentedUse, Contract, NEW p \in Pages, QueuePage(p)
  PROVE  /\ displayPageList' \in Seq(Pages) /\ Unique(displayPageList')
         /\ ToSet(displayPageList') = (LivePages \ Superseded(p)) \cup {p}
         /\ displayPageList' # << >> /\ Last(displayPageList') = p
         /\ p \notin LivePages /\ page[p] = FreedPage
         /\ \A q \in Superseded(p) : /\ q = latestDisplayPage /\ q \in LivePages
                                     /\ page[q].status = "RETIRED"
         /\ displayPageOnScreen' = displayPageOnScreen
         /\ displayPageOnScreen \notin Superseded(p) /\ displayPageOnScreen # p
         /\ state \in Started /\ state' = state /\ latestDisplayPage' = p
<1>1. p \notin LivePages /\ page[p] = FreedPage
  BY DEF QueuePage, LivePages, Contract, Promised, Shape
<1>2. /\ displayPageList \in Seq(Pages) /\ Unique(displayPageList)
      /\ ToSet(displayPageList) = LivePages
  BY DEF Contract, Safe, TypeOK, Promised, PagesListed, Unique
<1> DEFINE longer == Append(displayPageList, p)
<1>3. /\ longer \in Seq(Pages) /\ Unique(longer) /\ ToSet(longer) = LivePages \cup {p}
      /\ longer # << >> /\ Last(longer) = p
  BY <1>1, <1>2, AppendUnique
<1>4. ASSUME NEW q \in Superseded(p)
      PROVE  /\ q = latestDisplayPage /\ q # p /\ q \in LivePages
             /\ page[q].status = "RETIRED"
  BY DEF Superseded, LivePages, Contract, Promised, Shape, FreedPage
<1>5. displayPageOnScreen \notin Superseded(p) /\ displayPageOnScreen # p
  <2>1. displayPageOnScreen \in Pages =>
          page[displayPageOnScreen].status = "DISPLAYING" /\ page[displayPageOnScreen].magic
    BY NilAssumption DEF Contract, Promised, OnScreenIsDisplaying, Shown
  <2> QED  BY <1>1, <2>1 DEF Superseded, LivePages
<1>6. displayPageOnScreen' = displayPageOnScreen
  BY <1>5 DEF QueuePage
<1> HIDE DEF longer
<1>7. /\ displayPageList' \in Seq(Pages) /\ Unique(displayPageList')
      /\ ToSet(displayPageList') = (LivePages \ Superseded(p)) \cup {p}
      /\ displayPageList' # << >> /\ Last(displayPageList') = p
  <2>1. CASE Superseded(p) = {}
    BY <1>3, <2>1 DEF QueuePage, longer
  <2>2. CASE Superseded(p) # {}
    <3>1. displayPageList' = RemoveFirst(longer, latestDisplayPage)
      BY <2>2 DEF QueuePage, longer
    <3>2. Superseded(p) = {latestDisplayPage} /\ latestDisplayPage # p
      BY <1>4, <2>2
    <3> QED  BY <1>3, <3>1, <3>2, RemoveFirstUnique
  <2> QED  BY <2>1, <2>2
<1>8. state \in Started /\ state' = state /\ latestDisplayPage' = p
  BY DEF QueuePage, DocumentedUse
<1> QED  BY <1>1, <1>4, <1>5, <1>6, <1>7, <1>8

\* LS_DVBSubDecServicePlay
LEMMA PlayKeepsPromise ==
  ASSUME DocumentedUse, Contract, NEW p \in Pages, NEW pts \in PTSValues, ServicePlay(p, pts)
  PROVE  Promised'
<1>1. QueuePage(p)
  BY DEF ServicePlay
<1>2. /\ page'[p] = RegisteredPage(pts)
      /\ \A q \in Pages \ {p} : page'[q] = IF q \in Superseded(p) THEN FreedPage ELSE page[q]
  BY DEF ServicePlay, DeletePages
<1>3. /\ FreedPage.magic = FALSE /\ FreedPage.status = "NEW" /\ FreedPage.visible = FALSE
      /\ FreedPage.page_time_out_timer = FALSE
  BY DEF FreedPage
<1>4. /\ page'[p].magic = TRUE /\ page'[p].status = "PTS_REGISTERED" /\ page'[p].visible = FALSE
      /\ page'[p].page_time_out_timer = FALSE /\ page'[p].ptsValue = pts
  BY <1>2 DEF RegisteredPage, FreedPage
<1>5. /\ p \notin Superseded(p) /\ Superseded(p) \subseteq Pages
      /\ page[p] = FreedPage
      /\ \A q \in Superseded(p) : page[q].status = "RETIRED" /\ page[q].magic
  BY <1>1, QueuePageKeeps DEF Superseded, LivePages
<1>6. LivePages' = (LivePages \ Superseded(p)) \cup {p}
  BY <1>2, <1>3, <1>4, <1>5 DEF LivePages
<1>7. PagesListed' /\ LatestIsLast'
  BY <1>1, <1>6, QueuePageKeeps DEF PagesListed, LatestIsLast, Unique
<1>8. OnScreenIsDisplaying' /\ TimeOutIsOnScreen'
  <2>1. displayPageOnScreen' = displayPageOnScreen /\ displayPageOnScreen # p
        /\ displayPageOnScreen \notin Superseded(p)
    BY <1>1, QueuePageKeeps
  <2>2. TimeOutIsOnScreen'
    BY <1>2, <1>3, <1>4, <2>1 DEF Contract, Promised, TimeOutIsOnScreen
  <2>3. OnScreenIsDisplaying'
    BY <1>2, <2>1 DEF Contract, Promised, OnScreenIsDisplaying, Shown
  <2> QED  BY <2>2, <2>3
<1>9. ScreenOwned'
  <2>1. displayPageOnScreen' = displayPageOnScreen /\ screen' = screen
    BY <1>1, QueuePageKeeps DEF QueuePage
  <2>2. \A q \in Pages : page'[q].visible <=> page[q].visible
    BY <1>2, <1>3, <1>4, <1>5 DEF Contract, Promised, Shape
  <2> QED  BY <2>1, <2>2 DEF Contract, Promised, ScreenOwned
<1>10. NoForgottenPage'
  <2>1. latestDisplayPage' = p /\ displayPageOnScreen' = displayPageOnScreen
    BY <1>1, QueuePageKeeps
  <2>2. ASSUME NEW q \in LivePages, q # p, q \notin Superseded(p)
        PROVE  page[q].status = "PTS_REGISTERED" \/ q = displayPageOnScreen
    <3>1. q \in Pages /\ page[q].status \in PageStatus \ {"NEW"}
      BY DEF LivePages, Contract, Safe, TypeOK, Page, Promised, Shape
    <3>2. CASE page[q].status = "DISPLAYING"
      BY <3>1, <3>2 DEF Contract, Promised, Shape, ScreenOwned
    <3>3. CASE page[q].status = "RETIRED"
      <4>1. q # latestDisplayPage
        BY <2>2, <3>1, <3>3 DEF Superseded
      <4> QED  BY <2>2, <4>1 DEF Contract, Promised, NoForgottenPage
    <3> QED  BY <3>1, <3>2, <3>3 DEF PageStatus
  <2>3. ASSUME NEW q \in LivePages' \ {p}
        PROVE  page'[q].status = "PTS_REGISTERED" \/ q = displayPageOnScreen
    BY <1>2, <1>6, <2>2 DEF LivePages
  <2> QED  BY <2>1, <2>3 DEF NoForgottenPage
<1>11. StoppedIsQuiet'
  BY <1>1, QueuePageKeeps DEF StoppedIsQuiet
<1>12. Shape(page)'
  BY <1>2, <1>3, <1>4 DEF Contract, Promised, Shape
<1>13. serviceSpeed > 0 /\ serviceSpeed \in Int /\ pts \in Nat
  BY InputAssumption DEF Contract, Promised, Presenting, Safe, TypeOK
<1> DEFINE req == [ptsValue |-> pts, reason |-> Reason(serviceSpeed), current_speed |-> serviceSpeed]
<1>14. req \in Request /\ req.ptsValue = pts /\ req.reason = "PTS_PRESENTED"
  BY <1>13 DEF Request, Reason
<1>15. requests \in Seq(Request) /\ requests' = Append(requests, req)
  <2>1. requests' = requests \o << req >>
    BY <1>13 DEF ServicePlay, Registered
  <2>2. requests \in Seq(Request)
    BY DEF Contract, Safe, TypeOK
  <2> HIDE DEF req
  <2> QED  BY <1>14, <2>1, <2>2, AppendIsConcat
<1> HIDE DEF req
<1>16. Matched(requests', page')
  <2>1. Waiting(page') = Waiting(page) \cup {p} /\ p \notin Waiting(page)
    BY <1>2, <1>3, <1>4, <1>5 DEF Waiting
  <2>2. \A q \in Waiting(page) : page'[q].ptsValue = page[q].ptsValue
    BY <1>2, <1>5, <2>1 DEF Waiting
  <2>3. page'[p].ptsValue = req.ptsValue
    BY <1>4, <1>14
  <2> QED  BY <1>14, <1>15, <2>1, <2>2, <2>3, MatchedAppend DEF Contract, Promised
<1>17. Presenting'
  <2>1. \A i \in DOMAIN requests' : requests'[i].reason = "PTS_PRESENTED"
    <3>1. /\ Len(requests) \in Nat /\ DOMAIN requests = 1..Len(requests)
          /\ DOMAIN requests' = 1..(Len(requests) + 1)
          /\ requests'[Len(requests) + 1] = req
          /\ \A i \in 1..Len(requests) : requests'[i] = requests[i]
      BY <1>14, <1>15, AppendProperties, LenProperties
    <3> QED  BY <1>14, <3>1 DEF Contract, Promised, Presenting
  <2> QED  BY <2>1 DEF ServicePlay, QueuePage, settings, Contract, Promised, Presenting
<1> QED
  BY <1>7, <1>8, <1>9, <1>10, <1>11, <1>12, <1>16, <1>17 DEF Promised

\* The page processDisplayPTS finds waits for the time of the request that fired: the search
\* never falls through to the last page.
LEMMA FiredPageAwaits ==
  ASSUME Contract, NEW i \in DOMAIN requests, NEW k \in DOMAIN displayPageList,
         FiredAt(requests[i].ptsValue, k)
  PROVE  /\ displayPageList[k] \in Waiting(page)
         /\ page[displayPageList[k]].ptsValue = requests[i].ptsValue
<1> DEFINE pts == requests[i].ptsValue
<1>1. PICK m : Matches(m, requests, page)
  BY DEF Contract, Promised, Matched
<1>2. m[i] \in Pages /\ Awaits(m[i], pts)
  BY <1>1 DEF Matches, Waiting, Awaits
<1>3. m[i] \in ToSet(displayPageList)
  BY <1>2 DEF Awaits, Contract, Safe, WellFormed, Inert, Promised, PagesListed, LivePages
<1>4. PICK j \in DOMAIN displayPageList : displayPageList[j] = m[i]
  BY <1>3 DEF ToSet
<1>5. /\ Len(displayPageList) \in Nat /\ DOMAIN displayPageList = 1..Len(displayPageList)
      /\ displayPageList[k] \in Pages
  BY LenProperties, ElementOfSeq DEF Contract, Safe, TypeOK
<1>6. Awaits(displayPageList[k], pts)
  <2>1. CASE k = Len(displayPageList)
    <3>1. j <= k
      BY <1>5, <2>1
    <3>2. ~(j \in 1..(k - 1))
      BY <1>2, <1>4 DEF FiredAt
    <3>3. j = k
      <4>1. k \in Nat /\ j \in 1..k
        BY <1>5, <2>1
      <4> QED  BY <3>2, <4>1
    <3> QED  BY <1>2, <1>4, <3>3
  <2>2. CASE k # Len(displayPageList)
    BY <2>2 DEF FiredAt
  <2> QED  BY <2>1, <2>2
<1> QED  BY <1>5, <1>6 DEF Awaits, Waiting

\* The page on screen is displayed, and no other is visible.
LEMMA OnScreenPage ==
  ASSUME Contract
  PROVE  /\ displayPageOnScreen \in Pages \cup {Nil}
         /\ displayPageOnScreen # Nil =>
              /\ page[displayPageOnScreen].status = "DISPLAYING"
              /\ page[displayPageOnScreen].visible /\ page[displayPageOnScreen].magic
              /\ displayPageOnScreen \in LivePages
         /\ \A p \in Pages : page[p].visible => p = displayPageOnScreen
         /\ Nil \notin Pages
BY NilAssumption DEF Contract, Safe, TypeOK, Promised, OnScreenIsDisplaying, Shown, ScreenOwned, LivePages

\* The pages after a request was presented.
LEMMA PresentedPages ==
  ASSUME Contract, NEW w \in Waiting(page), PutOnScreen(w, FALSE)
  PROVE  LET o == displayPageOnScreen IN
         /\ w \in Pages /\ w # o
         /\ /\ page'[w].magic = TRUE /\ page'[w].status = "DISPLAYING" /\ page'[w].visible = TRUE
            /\ page'[w].ptsValue = page[w].ptsValue
         /\ o \in Pages /\ o = latestDisplayPage =>
              /\ page'[o].magic = TRUE /\ page'[o].status = "RETIRED" /\ page'[o].visible = FALSE
              /\ page'[o].page_time_out_timer = FALSE /\ page'[o].ptsValue = page[o].ptsValue
         /\ o \in Pages /\ o # latestDisplayPage => page'[o] = FreedPage
         /\ \A q \in Pages : q # w /\ q # o => page'[q] = page[q]
<1> DEFINE o == displayPageOnScreen
           obsolete == {o} \ {Nil, latestDisplayPage}
           removed == RemovedFromScreen(o)
           r == [page[w] EXCEPT !.visible = TRUE, !.status = "DISPLAYING",
                                !.page_time_out_timer = TRUE, !.suicide_timer = FALSE]
<1>1. w \in Pages /\ page[w].status = "PTS_REGISTERED" /\ page[w].magic
  BY DEF Waiting, Contract, Safe, WellFormed, Inert
<1>2. w # o /\ Nil \notin Pages
  BY <1>1, OnScreenPage
<1>3. page' = DeletePages([removed EXCEPT ![w] = r], obsolete)
  BY <1>1 DEF PutOnScreen, Due, Presented
<1>4. \A q \in Pages : page'[q] = IF q \in obsolete THEN FreedPage ELSE IF q = w THEN r ELSE removed[q]
  BY <1>3 DEF DeletePages, RemovedFromScreen
<1>5. page[w] \in Page /\ \A q \in Pages : page[q] \in Page
  BY <1>1 DEF Contract, Safe, TypeOK
<1>6. /\ r.magic = TRUE /\ r.status = "DISPLAYING" /\ r.visible = TRUE
      /\ r.ptsValue = page[w].ptsValue
  BY <1>1, <1>5 DEF Page
<1>7. \A q \in Pages : q # o => removed[q] = page[q]
  BY DEF RemovedFromScreen
<1>8. ASSUME o \in Pages
      PROVE  /\ removed[o].magic = TRUE /\ removed[o].status = "RETIRED" /\ removed[o].visible = FALSE
             /\ removed[o].page_time_out_timer = FALSE /\ removed[o].ptsValue = page[o].ptsValue
  <2>1. Shown(o) /\ page[o].magic /\ page[o] \in Page
    BY <1>2, <1>5, <1>8, OnScreenPage DEF Shown
  <2>2. removed[o] = [page[o] EXCEPT !.visible = FALSE, !.status = "RETIRED",
                                     !.page_time_out_timer = FALSE]
    BY <1>8, <2>1 DEF RemovedFromScreen
  <2> QED  BY <2>1, <2>2 DEF Page
<1> HIDE DEF removed, r
<1> QED  BY <1>1, <1>2, <1>4, <1>6, <1>7, <1>8

\* A page leaves the OSD: dropped when it is not the latest page.
LEMMA QueueWithout ==
  ASSUME Contract, NEW e, NEW after, e # latestDisplayPage,
         displayPageList' = RemoveFirst(displayPageList, e),
         latestDisplayPage' = latestDisplayPage,
         after = LivePages \ {e}, LivePages' = after
  PROVE  PagesListed' /\ LatestIsLast'
<1>1. displayPageList \in Seq(Pages) /\ Unique(displayPageList) /\ ToSet(displayPageList) = LivePages
  BY DEF Contract, Safe, TypeOK, Promised, PagesListed, Unique
<1>2. /\ Unique(displayPageList') /\ ToSet(displayPageList') = LivePages \ {e}
      /\ displayPageList # << >> /\ Last(displayPageList) # e =>
           displayPageList' # << >> /\ Last(displayPageList') = Last(displayPageList)
      /\ displayPageList' \in Seq(Pages)
  BY <1>1, RemoveFirstUnique
<1>3. PagesListed'
  BY <1>2 DEF PagesListed, Unique
<1>4. CASE displayPageList = << >>
  <2>1. ToSet(displayPageList) = {}
    BY <1>4 DEF ToSet
  <2>2. displayPageList' = << >>
    <3>1. ToSet(displayPageList') = {}
      BY <1>1, <1>2, <2>1
    <3>2. Len(displayPageList') \in Nat /\ DOMAIN displayPageList' = 1..Len(displayPageList')
      BY <1>2, LenProperties
    <3>3. \A k \in DOMAIN displayPageList' : displayPageList'[k] \in ToSet(displayPageList')
      BY DEF ToSet
    <3>4. ~(1 \in 1..Len(displayPageList'))
      BY <3>1, <3>2, <3>3
    <3>5. Len(displayPageList') = 0
      BY <3>2, <3>4
    <3> QED  BY <1>2, <3>5, EmptySeq
  <2> QED  BY <1>3, <1>4, <2>2 DEF LatestIsLast, Contract, Promised
<1>5. CASE displayPageList # << >>
  BY <1>2, <1>3, <1>5 DEF LatestIsLast, Contract, Promised
<1> QED  BY <1>4, <1>5

\* A request that fired or was cancelled leaves the others as they are.
LEMMA RemovedRequest ==
  ASSUME Contract, NEW i \in DOMAIN requests, requests' = RemoveAt(requests, i),
         UNCHANGED << state, serviceSpeed, pcrFunc >>
  PROVE  Presenting'
<1>1. requests \in Seq(Request) /\ Len(requests) \in Nat /\ DOMAIN requests = 1..Len(requests)
  BY LenProperties DEF Contract, Safe, TypeOK
<1>2. /\ requests' \in Seq(Request) /\ Len(requests') = Len(requests) - 1
      /\ \A k \in 1..(Len(requests) - 1) :
           requests'[k] = IF k < i THEN requests[k] ELSE requests[k + 1]
  BY <1>1, RemoveAtProperties
<1>3. DOMAIN requests' = 1..(Len(requests) - 1)
  BY <1>2, LenProperties
<1>4. ASSUME NEW k \in DOMAIN requests' PROVE requests'[k].reason = "PTS_PRESENTED"
  <2>1. k \in DOMAIN requests /\ k + 1 \in DOMAIN requests
    BY <1>1, <1>3
  <2> QED  BY <1>2, <1>3, <2>1 DEF Contract, Promised, Presenting
<1> QED  BY <1>4 DEF Contract, Promised, Presenting

\* With a pending request or a page in use the service is started.
LEMMA BusyIsStarted ==
  ASSUME Contract, requests # << >> \/ displayPageOnScreen # Nil \/ displayPageList # << >>
  PROVE  state \in Started
BY DEF Contract, Promised, StoppedIsQuiet

\* A request's timer
LEMMA FirePTSKeepsPromise ==
  ASSUME DocumentedUse, Contract, NEW i \in DOMAIN requests, FirePTS(i)
  PROVE  Promised'
<1> DEFINE o == displayPageOnScreen
           pts == requests[i].ptsValue
<1>1. PresentPTS(pts) /\ requests' = RemoveAt(requests, i)
      /\ UNCHANGED << state, serviceSpeed, pcrFunc >>
  BY DEF FirePTS, Contract, Promised, Presenting, settings
<1>2. displayPageList # << >>
  <2>1. PICK m : Matches(m, requests, page)
    BY DEF Contract, Promised, Matched
  <2>2. m[i] \in LivePages
    BY <2>1 DEF Matches, Waiting, LivePages, Contract, Safe, WellFormed, Inert
  <2>3. ToSet(displayPageList) # {}
    BY <2>2 DEF Contract, Promised, PagesListed
  <2> QED  BY <2>3 DEF ToSet
<1>3. TooEarly = {FALSE}
  BY DEF TooEarly, DocumentedUse
<1>4. PICK k \in DOMAIN displayPageList :
        FiredAt(pts, k) /\ PutOnScreen(displayPageList[k], FALSE)
  BY <1>1, <1>2, <1>3 DEF PresentPTS
<1> DEFINE w == displayPageList[k]
<1>5. w \in Waiting(page) /\ page[w].ptsValue = pts
  BY <1>4, FiredPageAwaits
<1> HIDE DEF w
<1>6. PutOnScreen(w, FALSE)
  BY <1>4 DEF w
<1>7. /\ w \in Pages /\ w # o
      /\ /\ page'[w].magic = TRUE /\ page'[w].status = "DISPLAYING" /\ page'[w].visible = TRUE
         /\ page'[w].ptsValue = page[w].ptsValue
      /\ o \in Pages /\ o = latestDisplayPage =>
           /\ page'[o].magic = TRUE /\ page'[o].status = "RETIRED" /\ page'[o].visible = FALSE
           /\ page'[o].page_time_out_timer = FALSE /\ page'[o].ptsValue = page[o].ptsValue
      /\ o \in Pages /\ o # latestDisplayPage => page'[o] = FreedPage
      /\ \A q \in Pages : q # w /\ q # o => page'[q] = page[q]
  BY <1>5, <1>6, PresentedPages
<1>8. page[w].status = "PTS_REGISTERED" /\ page[w].magic /\ w \in LivePages
  BY <1>5 DEF Waiting, Contract, Safe, WellFormed, Inert, LivePages
<1>9. FreedPage.magic = FALSE /\ FreedPage.visible = FALSE
      /\ FreedPage.page_time_out_timer = FALSE /\ FreedPage.status = "NEW"
  BY DEF FreedPage
<1>10. displayPageOnScreen' = w /\ latestDisplayPage' = latestDisplayPage
  BY <1>6 DEF PutOnScreen
<1>11. /\ o \in Pages \cup {Nil} /\ Nil \notin Pages
       /\ o \in Pages => o \in LivePages /\ page[o].status = "DISPLAYING" /\ page[o].visible
       /\ \A p \in Pages : page[p].visible => p = o
  BY OnScreenPage
<1>12. LivePages' = LivePages \ ({o} \ {Nil, latestDisplayPage})
  BY <1>7, <1>8, <1>9, <1>11 DEF LivePages
<1>13. PagesListed' /\ LatestIsLast'
  <2>1. CASE o = Nil \/ o = latestDisplayPage
    <3>1. displayPageList' = displayPageList /\ LivePages' = LivePages
      BY <1>6, <1>12, <2>1 DEF PutOnScreen
    <3> QED  BY <3>1, <1>10 DEF PagesListed, LatestIsLast, Contract, Promised
  <2>2. CASE ~(o = Nil \/ o = latestDisplayPage)
    <3>1. displayPageList' = RemoveFirst(displayPageList, o) /\ LivePages' = LivePages \ {o}
      BY <1>6, <1>12, <2>2 DEF PutOnScreen
    <3> QED  BY <3>1, <2>2, <1>10, QueueWithout
  <2> QED  BY <2>1, <2>2
<1>14. OnScreenIsDisplaying'
  BY <1>7, <1>10 DEF OnScreenIsDisplaying, Shown
<1>15. \A p \in Pages : page'[p].visible <=> p = w
  BY <1>7, <1>9, <1>11
<1>16. ScreenOwned'
  <2>1. Cleaned(o) = {o} \cap Pages
    BY <1>11 DEF Cleaned, Shown
  <2>2. screen' = (screen \ ({o} \cap Pages)) \cup {w}
    BY <1>5, <1>6, <2>1 DEF PutOnScreen, Due, Waiting
  <2>3. screen' = {w}
    BY <2>2 DEF Contract, Promised, ScreenOwned
  <2> QED  BY <2>3, <1>7, <1>10, <1>15 DEF ScreenOwned
<1>17. TimeOutIsOnScreen'
  BY <1>7, <1>9, <1>10 DEF TimeOutIsOnScreen, Contract, Promised
<1>18. NoForgottenPage'
  BY <1>7, <1>9, <1>10, <1>12 DEF NoForgottenPage, Contract, Promised, LivePages
<1>19. StoppedIsQuiet'
  <2>1. state \in Started
    BY <1>2, BusyIsStarted
  <2> QED  BY <2>1, <1>1 DEF StoppedIsQuiet
<1>20. Shape(page)'
  BY <1>7, <1>9 DEF Shape, Contract, Promised
<1>21. Matched(requests', page')
  <2>1. Waiting(page') = Waiting(page) \ {w}
    BY <1>7, <1>9, <1>11 DEF Waiting
  <2>2. \A p \in Waiting(page') : page'[p].ptsValue = page[p].ptsValue
    BY <1>7, <1>9, <1>11, <2>1 DEF Waiting
  <2>3. requests \in Seq(Request)
    BY DEF Contract, Safe, TypeOK
  <2> QED  BY <1>1, <1>5, <2>1, <2>2, <2>3, MatchedRemoveAt DEF Contract, Promised
<1>22. Presenting'
  BY <1>1, RemovedRequest
<1> QED
  BY <1>13, <1>14, <1>16, <1>17, <1>18, <1>19, <1>20, <1>21, <1>22 DEF Promised

\* pageTimeOutCallbackFunc
LEMMA PageTimeOutKeepsPromise ==
  ASSUME Contract, NEW p \in Pages, PageTimeOut(p)
  PROVE  Promised'
<1>1. p = displayPageOnScreen /\ p \in LivePages /\ page[p].status = "DISPLAYING" /\ page[p].magic
      /\ page[p].visible /\ \A q \in Pages : page[q].visible => q = p
  BY OnScreenPage DEF PageTimeOut, Contract, Promised, TimeOutIsOnScreen
<1> DEFINE blank == WithTimeOut(RemovedFromScreen(p), p, FALSE)
<1>2. /\ blank[p].magic = TRUE /\ blank[p].status = "RETIRED" /\ blank[p].visible = FALSE
      /\ blank[p].page_time_out_timer = FALSE
      /\ \A q \in Pages : q # p => blank[q] = page[q]
  <2>1. page[p] \in Page
    BY DEF Contract, Safe, TypeOK
  <2>2. RemovedFromScreen(p)[p] = [page[p] EXCEPT !.visible = FALSE, !.status = "RETIRED",
                                                 !.page_time_out_timer = FALSE]
    BY <1>1 DEF RemovedFromScreen, Shown
  <2> DEFINE r == RemovedFromScreen(p)[p]
  <2>3. /\ r \in Page /\ r.magic = TRUE /\ r.status = "RETIRED" /\ r.visible = FALSE
        /\ blank[p] = [r EXCEPT !.page_time_out_timer = FALSE]
    <3>1. blank[p] = [r EXCEPT !.page_time_out_timer = FALSE]
      BY DEF WithTimeOut
    <3>2. r \in Page /\ r.magic = TRUE /\ r.status = "RETIRED" /\ r.visible = FALSE
      BY <1>1, <2>1, <2>2 DEF Page, PageStatus
    <3> QED  BY <3>1, <3>2
  <2>4. \A q \in Pages : q # p => blank[q] = page[q]
    BY DEF WithTimeOut, RemovedFromScreen
  <2> HIDE DEF r, blank
  <2>5. /\ blank[p].magic = TRUE /\ blank[p].status = "RETIRED" /\ blank[p].visible = FALSE
        /\ blank[p].page_time_out_timer = FALSE
    BY <2>3 DEF Page
  <2> QED  BY <2>4, <2>5
<1> HIDE DEF blank
<1>3. FreedPage.magic = FALSE /\ FreedPage.visible = FALSE
      /\ FreedPage.page_time_out_timer = FALSE /\ FreedPage.status = "NEW"
  BY DEF FreedPage
<1>4. \/ /\ p = latestDisplayPage
         /\ page' = blank /\ displayPageList' = displayPageList
      \/ /\ p # latestDisplayPage
         /\ page' = DeletePages(blank, {p}) /\ displayPageList' = RemoveFirst(displayPageList, p)
  BY <1>1 DEF PageTimeOut, blank
<1>5. /\ displayPageOnScreen' = Nil /\ latestDisplayPage' = latestDisplayPage
      /\ requests' = requests /\ UNCHANGED << state, serviceSpeed, pcrFunc >>
      /\ screen' = {}
  <2>1. Cleaned(p) = {p}
    BY <1>1 DEF Cleaned, Shown
  <2> QED  BY <1>1, <2>1 DEF PageTimeOut, settings, Contract, Promised, ScreenOwned
<1>6. /\ page'[p] = IF p = latestDisplayPage THEN blank[p] ELSE FreedPage
      /\ \A q \in Pages : q # p => page'[q] = page[q]
  BY <1>2, <1>4 DEF DeletePages
<1>7. LivePages' = LivePages \ ({p} \ {latestDisplayPage})
  BY <1>1, <1>2, <1>3, <1>6 DEF LivePages
<1>8. PagesListed' /\ LatestIsLast'
  <2>1. CASE p = latestDisplayPage
    BY <1>4, <1>5, <1>7, <2>1 DEF PagesListed, LatestIsLast, Contract, Promised
  <2>2. CASE p # latestDisplayPage
    BY <1>4, <1>5, <1>7, <2>2, QueueWithout
  <2> QED  BY <2>1, <2>2
<1>9. OnScreenIsDisplaying' /\ ScreenOwned' /\ TimeOutIsOnScreen'
  BY <1>1, <1>2, <1>3, <1>5, <1>6
     DEF OnScreenIsDisplaying, ScreenOwned, TimeOutIsOnScreen, Contract, Promised
<1>10. NoForgottenPage'
  BY <1>1, <1>3, <1>5, <1>6, <1>7 DEF NoForgottenPage, Contract, Promised, LivePages
<1>11. StoppedIsQuiet'
  <2>1. displayPageOnScreen # Nil
    BY <1>1, NilAssumption
  <2> QED  BY <1>5, <2>1, BusyIsStarted DEF StoppedIsQuiet
<1>12. Shape(page)'
  BY <1>2, <1>3, <1>6 DEF Shape, Contract, Promised
<1>13. Matched(requests', page')
  <2>1. Waiting(page') = Waiting(page)
    BY <1>1, <1>2, <1>3, <1>6 DEF Waiting
  <2>2. \A q \in Waiting(page) : page'[q].ptsValue = page[q].ptsValue
    BY <1>1, <1>6 DEF Waiting
  <2> QED  BY <1>5, <2>1, <2>2, MatchedSame DEF Contract, Promised
<1>14. Presenting'
  BY <1>5 DEF Presenting, Contract, Promised
<1> QED
  BY <1>8, <1>9, <1>10, <1>11, <1>12, <1>13, <1>14 DEF Promised

\* pageSuicideCallbackFunc
LEMMA PageSuicideKeepsPromise ==
  ASSUME Contract, NEW p \in Pages, PageSuicide(p)
  PROVE  Promised'
<1>1. UNCHANGED << state, latestDisplayPage, displayPageOnScreen, serviceSpeed, pcrFunc, screen >>
  BY DEF PageSuicide, settings
<1>2. CASE /\ page' = [page EXCEPT ![p].suicide_timer = FALSE]
           /\ page[p].suicide_timer
           /\ UNCHANGED << displayPageList, requests >>
  <2>1. page'[p] = [page[p] EXCEPT !.suicide_timer = FALSE] /\ page[p] \in Page
        /\ \A q \in Pages : q # p => page'[q] = page[q]
    BY <1>2 DEF Contract, Safe, TypeOK
  <2>2. Alike(page[p], page'[p]) /\ page'[p].page_time_out_timer = page[p].page_time_out_timer
    BY <2>1 DEF Alike, Page
  <2>3. page[p].magic
    BY <1>2 DEF Contract, Safe, WellFormed, Inert
  <2>4. \A q \in Pages : /\ Alike(page[q], page'[q])
                         /\ page'[q].page_time_out_timer => q = displayPageOnScreen
                         /\ ~page[q].magic => page'[q] = page[q]
    BY <2>1, <2>2, <2>3 DEF Alike, Contract, Promised, TimeOutIsOnScreen
  <2>5. Presenting'
    BY <1>1, <1>2 DEF Presenting, Contract, Promised
  <2> QED  BY <1>1, <1>2, <2>4, <2>5, QueueUntouched
<1>3. CASE /\ page[p].status = "PTS_REGISTERED"
           /\ p # latestDisplayPage
           /\ requests' = Cancelled(page[p].ptsValue)
           /\ displayPageList' = RemoveFirst(displayPageList, p)
           /\ page' = DeletePages(page, {p})
  <2>1. page[p].magic /\ p \in LivePages /\ p \in Waiting(page)
    BY <1>3 DEF Contract, Safe, WellFormed, Inert, LivePages, Waiting
  <2>2. page'[p] = FreedPage /\ \A q \in Pages : q # p => page'[q] = page[q]
    BY <1>3 DEF DeletePages
  <2>3. FreedPage.magic = FALSE /\ FreedPage.visible = FALSE
        /\ FreedPage.page_time_out_timer = FALSE /\ FreedPage.status = "NEW"
    BY DEF FreedPage
  <2>4. LivePages' = LivePages \ {p}
    BY <2>2, <2>3 DEF LivePages
  <2>5. PagesListed' /\ LatestIsLast'
    BY <1>1, <1>3, <2>4, QueueWithout
  <2>6. p # displayPageOnScreen
    BY <1>3, OnScreenPage, NilAssumption
  <2>7. OnScreenIsDisplaying' /\ TimeOutIsOnScreen'
    BY <1>1, <2>2, <2>3, <2>6
       DEF OnScreenIsDisplaying, Shown, TimeOutIsOnScreen, Contract, Promised
  <2>8. ScreenOwned'
    <3>1. page[p].visible = FALSE
      BY <1>3 DEF Contract, Promised, Shape, Safe, TypeOK, Page
    <3>2. \A q \in Pages : page'[q].visible <=> page[q].visible
      BY <3>1, <2>2, <2>3
    <3> QED  BY <3>2, <1>1 DEF ScreenOwned, Contract, Promised
  <2>9. NoForgottenPage'
    BY <1>1, <2>2, <2>4 DEF NoForgottenPage, Contract, Promised, LivePages
  <2>10. PICK i \in 1..Len(requests) : /\ requests[i].ptsValue = page[p].ptsValue
                                       /\ requests' = RemoveAt(requests, i)
    <3>1. PICK m : Matches(m, requests, page)
      BY DEF Contract, Promised, Matched
    <3>2. PICK j \in DOMAIN requests : m[j] = p
      BY <3>1, <2>1 DEF Matches
    <3>3. requests \in Seq(Request) /\ DOMAIN requests = 1..Len(requests)
      BY LenProperties DEF Contract, Safe, TypeOK
    <3>4. j \in 1..Len(requests) /\ requests[j].ptsValue = page[p].ptsValue
      BY <3>1, <3>2, <3>3 DEF Matches
    <3> QED  BY <1>3, <3>3, <3>4, CancelledCases
  <2>11. requests \in Seq(Request) /\ i \in DOMAIN requests
    BY LenProperties DEF Contract, Safe, TypeOK
  <2>12. StoppedIsQuiet'
    <3>1. requests # << >>
      BY <2>11, EmptySeq
    <3> QED  BY <1>1, <3>1, BusyIsStarted DEF StoppedIsQuiet
  <2>13. Shape(page)'
    BY <2>2, <2>3 DEF Shape, Contract, Promised
  <2>14. Matched(requests', page')
    <3>1. Waiting(page') = Waiting(page) \ {p}
      BY <2>2, <2>3 DEF Waiting
    <3>2. \A q \in Waiting(page') : page'[q].ptsValue = page[q].ptsValue
      BY <2>2, <3>1 DEF Waiting
    <3> QED  BY <2>1, <2>10, <2>11, <3>1, <3>2, MatchedRemoveAt DEF Contract, Promised
  <2>15. Presenting'
    BY <1>1, <2>10, <2>11, RemovedRequest
  <2> QED
    BY <2>5, <2>7, <2>8, <2>9, <2>12, <2>13, <2>14, <2>15 DEF Promised
<1> QED  BY <1>2, <1>3 DEF PageSuicide

\* Every step keeps the invariant.
LEMMA StepKeepsContract ==
  ASSUME DocumentedUse
  PROVE  Contract /\ [Next]_vars => Contract'
<1> SUFFICES ASSUME Contract, [Next]_vars PROVE Contract'
  OBVIOUS
<1>1. Safe'
  BY StepIsSafe DEF Contract, SafeStep
<1>2. Promised'
  <2>1. CASE Call
    <3>1. ASSUME NEW p \in Pages PROVE ~ServicePlayUnregistered(p)
      BY DEF ServicePlayUnregistered, QueuePage, DocumentedUse, Contract, Promised, Presenting
    <3>2. ~ServiceMute /\ ~ServiceReset
      BY DEF ServiceMute, ServiceReset, DocumentedUse
    <3> QED
      BY <2>1, <3>1, <3>2, SwitchesKeepPromise, DeleteKeepsPromise, StopKeepsPromise,
         PlayKeepsPromise, PauseKeepsPromise, ResumeKeepsPromise, SetSpeedKeepsPromise DEF Call
  <2>2. CASE Timer
    BY <2>2, FirePTSKeepsPromise, PageTimeOutKeepsPromise, PageSuicideKeepsPromise DEF Timer
  <2>3. CASE UNCHANGED vars
    BY <2>3, SwitchesKeepPromise
  <2> QED  BY <2>1, <2>2, <2>3 DEF Next
<1> QED  BY <1>1, <1>2 DEF Contract

\* It holds before the first service.
LEMMA InitKeepsContract == Init => Contract
<1> SUFFICES ASSUME Init PROVE Contract
  OBVIOUS
<1>1. Quiet
  BY DEF Init, Quiet, Started, NormalSpeed
<1> QED  BY <1>1, InitIsSafe, QuietIsPromised DEF Contract

\* So it always holds.
LEMMA ContractHolds ==
  ASSUME DocumentedUse
  PROVE  Spec => []Contract
BY InitKeepsContract, StepKeepsContract, PTL DEF Spec

\* displayPageList holds every page in use once and no deleted one.
THEOREM QueueIsSound == DocumentedUse => (Spec => []PagesListed)
<1> SUFFICES ASSUME DocumentedUse PROVE Spec => []PagesListed
  OBVIOUS
<1>1. Contract => PagesListed
  BY DEF Contract, Promised
<1> QED  BY <1>1, ContractHolds, PTL

\* The page the next display set is decoded upon is the last in displayPageList, so that
\* decodeNormalCaseDisplayset never reads the regions of a page a timer has deleted.
THEOREM LatestPageIsLast == DocumentedUse => (Spec => []LatestIsLast)
<1> SUFFICES ASSUME DocumentedUse PROVE Spec => []LatestIsLast
  OBVIOUS
<1>1. Contract => LatestIsLast
  BY DEF Contract, Promised
<1> QED  BY <1>1, ContractHolds, PTL

\* The OSD shows exactly the page displayPageOnScreen points to, if any: no subtitle
\* outlives its page on the OSD.
THEOREM ScreenIsOwned == DocumentedUse => (Spec => []ScreenOwned)
<1> SUFFICES ASSUME DocumentedUse PROVE Spec => []ScreenOwned
  OBVIOUS
<1>1. Contract => ScreenOwned
  BY DEF Contract, Promised
<1> QED  BY <1>1, ContractHolds, PTL

\* displayPageOnScreen never points to a page that is deleted, waiting or blanked, whichever
\* of the five functions that delete pages ran last.
THEOREM ScreenPageIsDisplaying == DocumentedUse => (Spec => []OnScreenIsDisplaying)
<1> SUFFICES ASSUME DocumentedUse PROVE Spec => []OnScreenIsDisplaying
  OBVIOUS
<1>1. Contract => OnScreenIsDisplaying
  BY DEF Contract, Promised
<1> QED  BY <1>1, ContractHolds, PTL

\* For every time there are as many pending requests as pages that wait for it: no request
\* fires for a page that is gone and no page waits for a request that is gone.
THEOREM RequestsMatchPages == DocumentedUse => (Spec => []RequestPerWaitingPage)
<1> SUFFICES ASSUME DocumentedUse PROVE Spec => []RequestPerWaitingPage
  OBVIOUS
<1>1. Contract => RequestPerWaitingPage
  BY MatchedCounts DEF Contract, Promised
<1> QED  BY <1>1, ContractHolds, PTL

\* No page in use is one that nothing would ever delete.
THEOREM NothingIsForgotten == DocumentedUse => (Spec => []NoForgottenPage)
<1> SUFFICES ASSUME DocumentedUse PROVE Spec => []NoForgottenPage
  OBVIOUS
<1>1. Contract => NoForgottenPage
  BY DEF Contract, Promised
<1> QED  BY <1>1, ContractHolds, PTL

\* The page time-out only ever runs for the page on screen (the callback's DEBUG_CHECK).
THEOREM TimeOutRunsForScreenPage == DocumentedUse => (Spec => []TimeOutIsOnScreen)
<1> SUFFICES ASSUME DocumentedUse PROVE Spec => []TimeOutIsOnScreen
  OBVIOUS
<1>1. Contract => TimeOutIsOnScreen
  BY DEF Contract, Promised
<1> QED  BY <1>1, ContractHolds, PTL

\* A service that is not started holds no page and no request and shows nothing.
THEOREM StoppedServiceIsQuiet == DocumentedUse => (Spec => []StoppedIsQuiet)
<1> SUFFICES ASSUME DocumentedUse PROVE Spec => []StoppedIsQuiet
  OBVIOUS
<1>1. Contract => StoppedIsQuiet
  BY DEF Contract, Promised
<1> QED  BY <1>1, ContractHolds, PTL

-----------------------------------------------------------------------------
(* Refinement                                                              *)

\* The refinement mapping of phase and time.
phases == [p \in Pages |-> Phase(p)]
times == [p \in Pages |-> page[p].ptsValue]

\* The phase of a page says its status.
LEMMA PhaseCases ==
  TypeOK => \A p \in Pages :
    /\ phases[p] = "waiting" <=> page[p].status = "PTS_REGISTERED"
    /\ phases[p] = "shown" <=> page[p].status = "DISPLAYING"
    /\ phases[p] = "kept" <=> page[p].status = "RETIRED"
    /\ phases[p] = "free" <=> page[p].status = "NEW"
    /\ phases[p] \in {"waiting", "shown", "kept", "free"}
<1> SUFFICES ASSUME TypeOK, NEW p \in Pages
             PROVE  /\ phases[p] = "waiting" <=> page[p].status = "PTS_REGISTERED"
                    /\ phases[p] = "shown" <=> page[p].status = "DISPLAYING"
                    /\ phases[p] = "kept" <=> page[p].status = "RETIRED"
                    /\ phases[p] = "free" <=> page[p].status = "NEW"
                    /\ phases[p] \in {"waiting", "shown", "kept", "free"}
  OBVIOUS
<1>1. page[p].status \in PageStatus /\ phases[p] = Phase(p)
  BY DEF TypeOK, Page, phases
<1>2. CASE page[p].status = "PTS_REGISTERED"
  BY <1>1, <1>2 DEF Phase
<1>3. CASE page[p].status = "DISPLAYING"
  BY <1>1, <1>3 DEF Phase
<1>4. CASE page[p].status = "RETIRED"
  BY <1>1, <1>4 DEF Phase
<1>5. CASE page[p].status = "NEW"
  BY <1>1, <1>5 DEF Phase
<1> QED  BY <1>1, <1>2, <1>3, <1>4, <1>5 DEF PageStatus

\* The initial state is one of SubtitleService.
LEMMA InitRefines == Init => Promise!Init
<1> SUFFICES ASSUME Init PROVE Promise!Init
  OBVIOUS
<1>1. phases = [p \in Pages |-> "free"] /\ times = [p \in Pages |-> 0]
  BY DEF Init, phases, times, Phase, FreedPage
<1> QED  BY <1>1 DEF Init, Promise!Init, phases, times, Started

\* The sequence operators of the instance are those of this module.
LEMMA SameOperators ==
  ASSUME NEW s, NEW e
  PROVE  /\ Promise!RemoveFirst(s, e) = RemoveFirst(s, e)
         /\ Promise!Last(s) = Last(s)
         /\ Promise!Front(s) = Front(s)
<1>1. Promise!Last(s) = Last(s) /\ Promise!Front(s) = Front(s)
  BY DEF Promise!Last, Last, Promise!Front, Front
<1>2. Promise!RemoveFirst(s, e) = RemoveFirst(s, e)
  BY Zenon DEF Promise!RemoveFirst, RemoveFirst, Promise!RemoveAt, RemoveAt, Promise!SelectInSeq,
         SelectInSeq, Promise!Min, Min
<1> QED  BY <1>1, <1>2

\* A step that SubtitleService does not see.
LEMMA PromisedStutter ==
  ASSUME Contract, displayPageList' = displayPageList,
         state' \in Started <=> state \in Started,
         \A p \in Pages : Alike(page[p], page'[p])
  PROVE  UNCHANGED Promise!vars
<1>1. ASSUME NEW p \in Pages PROVE Phase(p)' = Phase(p)
  BY DEF Phase, Alike
<1>2. phases' = phases /\ times' = times
  BY <1>1 DEF phases, times, Alike
<1>3. (state \in Started)' = (state \in Started)
  OBVIOUS
<1> QED  BY <1>2, <1>3 DEF Promise!vars, phases, times

\* latestDisplayPage is the base of the next subtitle.
LEMMA BaseIsLatest ==
  ASSUME Contract, NEW p \in Pages
  PROVE  Promise!IsBase(p) <=> p = latestDisplayPage
<1>1. latestDisplayPage = IF displayPageList = << >> THEN Nil ELSE Last(displayPageList)
  BY DEF Contract, Promised, LatestIsLast
<1>2. Promise!Last(displayPageList) = Last(displayPageList)
  BY SameOperators
<1>3. Promise!IsBase(p) <=> displayPageList # << >> /\ p = Promise!Last(displayPageList)
  BY DEF Promise!IsBase
<1> QED  BY <1>1, <1>2, <1>3, NilAssumption

\* Stop closes the service.
LEMMA StopRefines ==
  ASSUME Contract, ServiceStop
  PROVE  Promise!Close
<1>1. \A p \in Pages : page'[p] = FreedPage
  BY ResetIsQuiet DEF ServiceStop
<1>2. \A p \in Pages : phases'[p] = "free" /\ times'[p] = 0
  BY <1>1 DEF phases, times, Phase, FreedPage
<1>3. phases' = [p \in Pages |-> "free"] /\ times' = [p \in Pages |-> 0]
  BY <1>2 DEF phases, times
<1>4. state \in Started /\ state' \notin Started /\ displayPageList' = << >>
  BY DEF ServiceStop, InstanceReset, Started
<1> QED  BY <1>3, <1>4 DEF Promise!Close, Promise!Dropped, phases, times

\* Delete finds nothing left to drop.
LEMMA DeleteRefines ==
  ASSUME Contract, ServiceDelete
  PROVE  UNCHANGED Promise!vars
<1>1. \A p \in Pages : page'[p] = FreedPage
  BY ResetIsQuiet DEF ServiceDelete
<1>2. state \notin Started /\ state' \notin Started
  BY DEF ServiceDelete, Started
<1>3. displayPageList = << >> /\ LivePages = {}
  <2>1. displayPageList = << >>
    BY <1>2 DEF Contract, Promised, StoppedIsQuiet
  <2> QED  BY <2>1 DEF Contract, Promised, PagesListed, ToSet
<1>4. \A p \in Pages : page[p] = FreedPage
  BY <1>3 DEF LivePages, Contract, Promised, Shape
<1> QED
  BY <1>1, <1>2, <1>3, <1>4, PromisedStutter DEF Alike, ServiceDelete, InstanceReset

\* Play submits a subtitle.
LEMMA PlayRefines ==
  ASSUME DocumentedUse, Contract, Contract', NEW p \in Pages, NEW pts \in PTSValues,
         ServicePlay(p, pts)
  PROVE  Promise!Submit(p, pts)
<1> DEFINE base == {b \in Pages : Promise!IsBase(b) /\ phases[b] = "kept"}
<1>1. QueuePage(p)
  BY DEF ServicePlay
<1>2. /\ page'[p] = RegisteredPage(pts)
      /\ \A q \in Pages \ {p} : page'[q] = IF q \in Superseded(p) THEN FreedPage ELSE page[q]
  BY DEF ServicePlay, DeletePages
<1>3. page[p] = FreedPage /\ state \in Started /\ state' \in Started
  BY <1>1, QueuePageKeeps
<1>4. base = Superseded(p)
  <2>1. \A q \in Pages : phases[q] = "kept" <=> page[q].status = "RETIRED"
    BY PhaseCases DEF Contract, Safe
  <2> QED  BY <1>3, <2>1, BaseIsLatest DEF Superseded, FreedPage
<1>5. /\ \A q \in Pages : phases[q] = Phase(q) /\ phases'[q] = Phase(q)'
      /\ \A q \in Pages : times[q] = page[q].ptsValue /\ times'[q] = page'[q].ptsValue
  BY DEF phases, times
<1>6. phases[p] = "free" /\ phases'[p] = "waiting" /\ times'[p] = pts
  <2>1. FreedPage.status = "NEW"
    BY DEF FreedPage
  <2>2. RegisteredPage(pts).status = "PTS_REGISTERED" /\ RegisteredPage(pts).ptsValue = pts
    BY DEF RegisteredPage, FreedPage
  <2>3. phases[p] = "free"
    BY <1>3, <1>5, <2>1 DEF Phase
  <2>4. phases'[p] = "waiting"
    BY <1>2, <1>5, <2>2 DEF Phase
  <2> QED  BY <1>2, <1>5, <2>2, <2>3, <2>4
<1>7. \A q \in Pages \ {p} : phases'[q] = IF q \in base THEN "free" ELSE phases[q]
  BY <1>2, <1>4, <1>5 DEF Phase, FreedPage
<1>8. \A q \in Pages \ {p} : times'[q] = IF q \in base THEN 0 ELSE times[q]
  BY <1>2, <1>4, <1>5 DEF FreedPage
<1>9. displayPageList' = Append(IF base = {} THEN displayPageList ELSE Front(displayPageList), p)
  <2>1. CASE base = {}
    BY <1>1, <1>4, <2>1 DEF QueuePage
  <2>2. CASE base # {}
    <3>1. PICK b \in base : TRUE
      BY <2>2
    <3>2. b = latestDisplayPage /\ b # p /\ b \in LivePages
      BY <1>1, <1>3, <1>4, <3>1, QueuePageKeeps DEF Superseded
    <3>3. displayPageList # << >> /\ latestDisplayPage = Last(displayPageList)
      BY <3>2, NilAssumption DEF Contract, Promised, LatestIsLast, LivePages
    <3>4. displayPageList \in Seq(Pages) /\ Unique(displayPageList)
      BY DEF Contract, Safe, TypeOK, Promised, PagesListed, Unique
    <3>5. displayPageList' = RemoveFirst(Append(displayPageList, p), Last(displayPageList))
      BY <1>1, <1>4, <2>2, <3>3 DEF QueuePage
    <3> QED  BY <2>2, <3>2, <3>3, <3>4, <3>5, ReplaceLast
  <2> QED  BY <2>1, <2>2
<1>10. /\ phases' = [Promise!Dropped(phases, base, "free") EXCEPT ![p] = "waiting"]
       /\ times' = [Promise!Dropped(times, base, 0) EXCEPT ![p] = pts]
  <2>1. DOMAIN phases' = Pages /\ DOMAIN times' = Pages /\ phases' = [q \in Pages |-> phases'[q]] /\ times' = [q \in Pages |-> times'[q]]
    BY DEF phases, times
  <2> QED  BY <1>6, <1>7, <1>8, <2>1 DEF Promise!Dropped
<1>11. Promise!Front(displayPageList) = Front(displayPageList)
  BY SameOperators
<1>12. (state \in Started)' = (state \in Started)
  BY <1>3
<1> QED
  BY <1>3, <1>6, <1>9, <1>10, <1>11, <1>12 DEF Promise!Submit, phases, times

\* Hiding what is on the OSD.
LEMMA HideRefines ==
  ASSUME Contract,
         displayPageList' = IF displayPageOnScreen \in {Nil, latestDisplayPage} THEN displayPageList
                            ELSE RemoveFirst(displayPageList, displayPageOnScreen),
         \A p \in Pages : page'[p].ptsValue =
           IF p = displayPageOnScreen /\ p # latestDisplayPage THEN 0 ELSE page[p].ptsValue
  PROVE  Promise!Hide({displayPageOnScreen} \cap Pages)
<1> DEFINE hidden == {displayPageOnScreen} \cap Pages
           gone == {s \in hidden : ~Promise!IsBase(s)}
<1>1. displayPageOnScreen \in Pages \cup {Nil} /\ Nil \notin Pages
  BY OnScreenPage
<1>2. gone = {displayPageOnScreen} \ {Nil, latestDisplayPage}
  BY <1>1, BaseIsLatest
<1>3. \A p \in Pages : times[p] = page[p].ptsValue /\ times'[p] = page'[p].ptsValue
  BY DEF times
<1>4. \A p \in Pages : times'[p] = IF p \in gone THEN 0 ELSE times[p]
  BY <1>1, <1>2, <1>3
<1>5. times' = Promise!Dropped(times, gone, 0)
  <2>1. times' = [p \in Pages |-> times'[p]]
    BY DEF times
  <2> QED  BY <1>4, <2>1 DEF Promise!Dropped
<1>6. displayPageList' = IF gone = {} THEN displayPageList
                         ELSE RemoveFirst(displayPageList, CHOOSE s \in gone : TRUE)
  <2>1. CASE gone = {}
    BY <1>2, <2>1
  <2>2. CASE gone # {}
    <3>1. gone = {displayPageOnScreen}
      BY <1>2, <2>2
    <3>2. (CHOOSE s \in gone : TRUE) = displayPageOnScreen
      BY <3>1
    <3> QED  BY <1>2, <2>2, <3>2
  <2> QED  BY <2>1, <2>2
<1>7. displayPageList' = IF gone = {} THEN displayPageList
                         ELSE Promise!RemoveFirst(displayPageList, CHOOSE s \in gone : TRUE)
  BY <1>6, SameOperators
<1> QED  BY <1>5, <1>7 DEF Promise!Hide, times

\* A request that fires shows the subtitle of its time that was submitted first.
LEMMA FirePTSRefines ==
  ASSUME DocumentedUse, Contract, Contract', NEW i \in DOMAIN requests, FirePTS(i)
  PROVE  \E p \in Pages : Promise!Show(p)
<1> DEFINE o == displayPageOnScreen
           pts == requests[i].ptsValue
<1>1. PresentPTS(pts) /\ state' = state
  BY DEF FirePTS, Contract, Promised, Presenting
<1>2. displayPageList # << >> /\ state \in Started
  <2>1. PICK m : Matches(m, requests, page)
    BY DEF Contract, Promised, Matched
  <2>2. m[i] \in LivePages
    BY <2>1 DEF Matches, Waiting, LivePages, Contract, Safe, WellFormed, Inert
  <2>3. ToSet(displayPageList) # {}
    BY <2>2 DEF Contract, Promised, PagesListed
  <2>4. displayPageList # << >>
    BY <2>3 DEF ToSet
  <2> QED  BY <2>4, BusyIsStarted
<1>3. TooEarly = {FALSE}
  BY DEF TooEarly, DocumentedUse
<1>4. PICK k \in DOMAIN displayPageList :
        FiredAt(pts, k) /\ PutOnScreen(displayPageList[k], FALSE)
  BY <1>1, <1>2, <1>3 DEF PresentPTS
<1> DEFINE w == displayPageList[k]
<1>5. w \in Waiting(page) /\ page[w].ptsValue = pts
  BY <1>4, FiredPageAwaits
<1>6. /\ w \in Pages /\ w # o
      /\ /\ page'[w].magic = TRUE /\ page'[w].status = "DISPLAYING" /\ page'[w].visible = TRUE
         /\ page'[w].ptsValue = page[w].ptsValue
      /\ o \in Pages /\ o = latestDisplayPage =>
           /\ page'[o].magic = TRUE /\ page'[o].status = "RETIRED" /\ page'[o].visible = FALSE
           /\ page'[o].page_time_out_timer = FALSE /\ page'[o].ptsValue = page[o].ptsValue
      /\ o \in Pages /\ o # latestDisplayPage => page'[o] = FreedPage
      /\ \A q \in Pages : q # w /\ q # o => page'[q] = page[q]
  BY <1>4, <1>5, PresentedPages
<1>7. /\ o \in Pages \cup {Nil} /\ Nil \notin Pages
      /\ o \in Pages => page[o].status = "DISPLAYING"
      /\ \A p \in Pages : page[p].status = "DISPLAYING" => p = o
  BY OnScreenPage DEF Contract, Promised, Shape
<1>8. /\ \A q \in Pages : phases[q] = Phase(q) /\ phases'[q] = Phase(q)'
      /\ phases' = [q \in Pages |-> phases'[q]]
  BY DEF phases
<1>9. Promise!ShownNow = {o} \cap Pages
  <2>1. \A q \in Pages : phases[q] = "shown" <=> page[q].status = "DISPLAYING"
    BY PhaseCases DEF Contract, Safe
  <2> QED  BY <1>7, <2>1 DEF Promise!ShownNow, phases
<1>10. phases[w] = "waiting"
  BY <1>5, <1>6, <1>8 DEF Phase, Waiting
<1>11. \A j \in 1..(k - 1) : phases[displayPageList[j]] = "waiting" =>
                               times[displayPageList[j]] # times[displayPageList[k]]
  <2>1. SUFFICES ASSUME NEW j \in 1..(k - 1), phases[displayPageList[j]] = "waiting"
                 PROVE  times[displayPageList[j]] # times[w]
    OBVIOUS
  <2>2. displayPageList[j] \in Pages
    <3>1. displayPageList \in Seq(Pages) /\ Len(displayPageList) \in Nat /\ k \in 1..Len(displayPageList)
      BY LenProperties DEF Contract, Safe, TypeOK
    <3>2. j \in 1..Len(displayPageList)
      BY <3>1
    <3> QED  BY <3>1, <3>2, ElementOfSeq
  <2>3. page[displayPageList[j]].status = "PTS_REGISTERED"
    BY <2>1, <2>2, PhaseCases DEF Contract, Safe
  <2>4. ~Awaits(displayPageList[j], pts)
    BY <1>4 DEF FiredAt
  <2> QED  BY <1>5, <1>6, <2>2, <2>3, <2>4 DEF Awaits, times
<1> HIDE DEF w
<1>12. Promise!Hide(Promise!ShownNow)
  <2>1. displayPageList' = IF o \in {Nil, latestDisplayPage} THEN displayPageList
                           ELSE RemoveFirst(displayPageList, o)
    BY <1>4 DEF PutOnScreen
  <2>2. \A p \in Pages : page'[p].ptsValue =
          IF p = o /\ p # latestDisplayPage THEN 0 ELSE page[p].ptsValue
    BY <1>6 DEF FreedPage
  <2>3. Promise!Hide({o} \cap Pages)
    BY <2>1, <2>2, HideRefines
  <2> QED  BY <1>9, <2>3 DEF Promise!Hide
<1>13. phases' = [Promise!AfterHiding(Promise!ShownNow) EXCEPT ![w] = "shown"]
  <2>1. phases'[w] = "shown"
    BY <1>6, <1>8 DEF Phase
  <2>2. \A q \in Pages \ {w} :
          phases'[q] = IF q # o THEN phases[q] ELSE IF q = latestDisplayPage THEN "kept" ELSE "free"
    BY <1>6, <1>8 DEF Phase, FreedPage
  <2>3. \A q \in Pages : Promise!IsBase(q) <=> q = latestDisplayPage
    BY BaseIsLatest
  <2>4. Promise!AfterHiding(Promise!ShownNow)
          = [q \in Pages |-> IF q # o THEN phases[q] ELSE IF q = latestDisplayPage THEN "kept" ELSE "free"]
    BY <1>9, <2>3 DEF Promise!AfterHiding, phases
  <2> QED  BY <1>8, <2>1, <2>2, <2>4, <1>6
<1>14. Promise!Show(w)
  <2>1. \E j \in DOMAIN displayPageList : displayPageList[j] = w /\ Promise!FirstOfItsTime(j)
    BY <1>11 DEF Promise!FirstOfItsTime, phases, times, w
  <2> QED  BY <1>1, <1>2, <1>10, <1>12, <1>13, <2>1 DEF Promise!Show, phases
<1> QED  BY <1>6, <1>14

\* A page time-out is the end of the subtitle on the OSD.
LEMMA PageTimeOutRefines ==
  ASSUME Contract, NEW p \in Pages, PageTimeOut(p)
  PROVE  Promise!Expire(p)
<1>1. p = displayPageOnScreen /\ p \in LivePages /\ page[p].status = "DISPLAYING" /\ page[p].magic
      /\ page[p].visible
  BY OnScreenPage DEF PageTimeOut, Contract, Promised, TimeOutIsOnScreen
<1> DEFINE blank == WithTimeOut(RemovedFromScreen(p), p, FALSE)
<1>2. /\ blank[p].status = "RETIRED" /\ blank[p].ptsValue = page[p].ptsValue
      /\ \A q \in Pages : q # p => blank[q] = page[q]
  <2>1. page[p] \in Page
    BY DEF Contract, Safe, TypeOK
  <2>2. RemovedFromScreen(p)[p] = [page[p] EXCEPT !.visible = FALSE, !.status = "RETIRED",
                                                 !.page_time_out_timer = FALSE]
    BY <1>1 DEF RemovedFromScreen, Shown
  <2> DEFINE r == RemovedFromScreen(p)[p]
  <2>3. /\ r \in Page /\ r.status = "RETIRED" /\ r.ptsValue = page[p].ptsValue
        /\ blank[p] = [r EXCEPT !.page_time_out_timer = FALSE]
    <3>1. blank[p] = [r EXCEPT !.page_time_out_timer = FALSE]
      BY DEF WithTimeOut
    <3>2. r \in Page /\ r.status = "RETIRED" /\ r.ptsValue = page[p].ptsValue
      BY <1>1, <2>1, <2>2 DEF Page, PageStatus
    <3> QED  BY <3>1, <3>2
  <2>4. \A q \in Pages : q # p => blank[q] = page[q]
    BY DEF WithTimeOut, RemovedFromScreen
  <2> HIDE DEF r, blank
  <2>5. blank[p].status = "RETIRED" /\ blank[p].ptsValue = page[p].ptsValue
    BY <2>3 DEF Page
  <2> QED  BY <2>4, <2>5
<1> HIDE DEF blank
<1>3. \/ /\ p = latestDisplayPage
         /\ page' = blank /\ displayPageList' = displayPageList
      \/ /\ p # latestDisplayPage
         /\ page' = DeletePages(blank, {p}) /\ displayPageList' = RemoveFirst(displayPageList, p)
  BY <1>1 DEF PageTimeOut, blank
<1>4. /\ page'[p] = IF p = latestDisplayPage THEN blank[p] ELSE FreedPage
      /\ \A q \in Pages : q # p => page'[q] = page[q]
  BY <1>2, <1>3 DEF DeletePages
<1>5. (state \in Started)' = (state \in Started)
  BY DEF PageTimeOut
<1>6. /\ \A q \in Pages : phases[q] = Phase(q) /\ phases'[q] = Phase(q)'
      /\ phases' = [q \in Pages |-> phases'[q]]
  BY DEF phases
<1>7. phases[p] = "shown"
  BY <1>1, <1>6 DEF Phase
<1>8. p # Nil
  BY NilAssumption
<1>9. Promise!Hide({p})
  <2>1. displayPageList' = IF displayPageOnScreen \in {Nil, latestDisplayPage} THEN displayPageList
                           ELSE RemoveFirst(displayPageList, displayPageOnScreen)
    BY <1>1, <1>3, <1>8
  <2>2. \A q \in Pages : page'[q].ptsValue =
          IF q = displayPageOnScreen /\ q # latestDisplayPage THEN 0 ELSE page[q].ptsValue
    BY <1>1, <1>2, <1>4 DEF FreedPage
  <2>3. Promise!Hide({displayPageOnScreen} \cap Pages)
    BY <2>1, <2>2, HideRefines
  <2> DEFINE hidden == {p}
  <2>4. hidden = {displayPageOnScreen} \cap Pages
    BY <1>1
  <2> HIDE DEF hidden
  <2>5. Promise!Hide(hidden)
    BY <2>3, <2>4 DEF Promise!Hide
  <2> QED  BY <2>5 DEF hidden
<1>10. phases' = Promise!AfterHiding({p})
  <2>1. phases'[p] = IF p = latestDisplayPage THEN "kept" ELSE "free"
    BY <1>2, <1>4, <1>6 DEF Phase, FreedPage
  <2>2. \A q \in Pages \ {p} : phases'[q] = phases[q]
    BY <1>4, <1>6 DEF Phase
  <2>3. Promise!AfterHiding({p})
          = [q \in Pages |-> IF q # p THEN phases[q] ELSE IF q = latestDisplayPage THEN "kept" ELSE "free"]
    BY BaseIsLatest DEF Promise!AfterHiding, phases
  <2> QED  BY <1>6, <2>1, <2>2, <2>3
<1> QED  BY <1>5, <1>7, <1>9, <1>10 DEF Promise!Expire, phases

\* A page's suicide gives up a subtitle that is nobody's base, or is invisible.
LEMMA PageSuicideRefines ==
  ASSUME Contract, NEW p \in Pages, PageSuicide(p)
  PROVE  Promise!GiveUp(p) \/ UNCHANGED Promise!vars
<1>1. (state \in Started)' = (state \in Started)
  BY DEF PageSuicide
<1>2. CASE /\ page' = [page EXCEPT ![p].suicide_timer = FALSE]
           /\ UNCHANGED << displayPageList, requests >>
  <2>1. page'[p] = [page[p] EXCEPT !.suicide_timer = FALSE] /\ page[p] \in Page
        /\ \A q \in Pages : q # p => page'[q] = page[q]
    BY <1>2 DEF Contract, Safe, TypeOK
  <2>2. Alike(page[p], page'[p])
    BY <2>1 DEF Alike, Page
  <2>3. \A q \in Pages : Alike(page[q], page'[q])
    BY <2>1, <2>2 DEF Alike
  <2> QED  BY <1>1, <1>2, <2>3, PromisedStutter
<1>3. CASE /\ page[p].status = "PTS_REGISTERED"
           /\ p # latestDisplayPage
           /\ displayPageList' = RemoveFirst(displayPageList, p)
           /\ page' = DeletePages(page, {p})
  <2>1. page'[p] = FreedPage /\ \A q \in Pages : q # p => page'[q] = page[q]
    BY <1>3 DEF DeletePages
  <2>2. /\ \A q \in Pages : phases[q] = Phase(q) /\ phases'[q] = Phase(q)'
        /\ \A q \in Pages : times[q] = page[q].ptsValue /\ times'[q] = page'[q].ptsValue
        /\ phases' = [q \in Pages |-> phases'[q]] /\ times' = [q \in Pages |-> times'[q]]
    BY DEF phases, times
  <2>3. phases[p] = "waiting" /\ phases'[p] = "free" /\ times'[p] = 0
    <3>1. FreedPage.status = "NEW" /\ FreedPage.ptsValue = 0
      BY DEF FreedPage
    <3>2. phases[p] = "waiting"
      BY <1>3, <2>2 DEF Phase
    <3>3. phases'[p] = "free"
      BY <2>1, <2>2, <3>1 DEF Phase
    <3> QED  BY <2>1, <2>2, <3>1, <3>2, <3>3
  <2>4. \A q \in Pages \ {p} : phases'[q] = phases[q] /\ times'[q] = times[q]
    BY <2>1, <2>2 DEF Phase
  <2>5. phases' = Promise!Dropped(phases, {p}, "free") /\ times' = Promise!Dropped(times, {p}, 0)
    BY <2>2, <2>3, <2>4 DEF Promise!Dropped
  <2>6. ~Promise!IsBase(p) /\ displayPageList' = Promise!RemoveFirst(displayPageList, p)
    BY <1>3, BaseIsLatest, SameOperators
  <2>7. Promise!GiveUp(p)
    BY <1>1, <2>3, <2>5, <2>6 DEF Promise!GiveUp, phases, times
  <2> QED  BY <2>7
<1> QED  BY <1>2, <1>3 DEF PageSuicide

\* Start opens the service; the switches, the speed and the pauses are invisible.
LEMMA SwitchesRefine ==
  ASSUME Contract, DocumentedUse,
         \/ ServiceNew \/ ServiceStart \/ ServiceUnMute \/ ServiceCustomerDDS
         \/ ServicePause \/ ServiceResume \/ (\E speed \in Speeds : ServiceSetSpeed(speed))
         \/ UNCHANGED vars
  PROVE  Promise!Open \/ UNCHANGED Promise!vars
<1>1. /\ displayPageList' = displayPageList
      /\ \/ page' = page
         \/ page' = WithTimeOut(page, displayPageOnScreen, FALSE)
         \/ page' = WithTimeOut(page, displayPageOnScreen, TRUE)
      /\ \/ state' \in Started <=> state \in Started
         \/ state = "NULL" /\ state' = "READY" /\ page' = page
  <2>1. CASE ServiceNew
    BY <2>1 DEF ServiceNew, Started
  <2>2. CASE ServiceStart
    BY <2>2 DEF ServiceStart, Started
  <2>3. CASE ServiceUnMute \/ ServiceCustomerDDS \/ UNCHANGED vars
    BY <2>3 DEF ServiceUnMute, ServiceCustomerDDS, vars
  <2>4. CASE ServicePause
    BY <2>4 DEF ServicePause, Started
  <2>5. CASE ServiceResume
    BY <2>5 DEF ServiceResume, Started
  <2>6. ASSUME NEW speed \in Speeds, ServiceSetSpeed(speed)
        PROVE  UNCHANGED << displayPageList, page, state >>
    <3>1. ~(speed < 0)
      BY InputAssumption DEF DocumentedUse
    <3> QED  BY <2>6, <3>1 DEF ServiceSetSpeed
  <2> QED  BY <2>1, <2>2, <2>3, <2>4, <2>5, <2>6
<1>2. ASSUME NEW p \in Pages PROVE Alike(page[p], page'[p])
  BY <1>1, WithTimeOutAlike DEF Alike
<1>3. CASE state' \in Started <=> state \in Started
  BY <1>1, <1>2, <1>3, PromisedStutter
<1>4. CASE ~(state' \in Started <=> state \in Started)
  <2>1. state = "NULL" /\ state' = "READY" /\ page' = page
    BY <1>1, <1>4
  <2>2. phases' = phases /\ times' = times
    BY <2>1 DEF phases, times, Phase
  <2>3. state \notin Started /\ state' \in Started
    BY <2>1 DEF Started
  <2>4. Promise!Open
    BY <1>1, <2>2, <2>3 DEF Promise!Open, phases, times
  <2> QED  BY <2>4
<1> QED  BY <1>3, <1>4

\* Every step of the service is one of SubtitleService.
LEMMA StepRefines ==
  ASSUME DocumentedUse
  PROVE  Contract /\ Contract' /\ [Next]_vars => [Promise!Next]_(Promise!vars)
<1> SUFFICES ASSUME Contract, Contract', [Next]_vars PROVE Promise!Next \/ UNCHANGED Promise!vars
  OBVIOUS
<1>1. CASE Call
  <2>1. ASSUME NEW p \in Pages PROVE ~ServicePlayUnregistered(p)
    BY DEF ServicePlayUnregistered, QueuePage, DocumentedUse, Contract, Promised, Presenting
  <2>2. ~ServiceMute /\ ~ServiceReset
    BY DEF ServiceMute, ServiceReset, DocumentedUse
  <2>3. CASE \E p \in Pages, pts \in PTSValues : ServicePlay(p, pts)
    BY <2>3, PlayRefines DEF Promise!Next
  <2>4. CASE ServiceStop
    BY <2>4, StopRefines DEF Promise!Next
  <2>5. CASE ServiceDelete
    BY <2>5, DeleteRefines
  <2>6. CASE \/ ServiceNew \/ ServiceStart \/ ServiceUnMute \/ ServiceCustomerDDS
             \/ ServicePause \/ ServiceResume \/ (\E speed \in Speeds : ServiceSetSpeed(speed))
    BY <2>6, SwitchesRefine DEF Promise!Next
  <2> QED  BY <1>1, <2>1, <2>2, <2>3, <2>4, <2>5, <2>6 DEF Call
<1>2. CASE Timer
  <2>1. CASE \E i \in DOMAIN requests : FirePTS(i)
    BY <2>1, FirePTSRefines DEF Promise!Next
  <2>2. CASE \E p \in Pages : PageTimeOut(p)
    BY <2>2, PageTimeOutRefines DEF Promise!Next
  <2>3. CASE \E p \in Pages : PageSuicide(p)
    BY <2>3, PageSuicideRefines DEF Promise!Next
  <2> QED  BY <1>2, <2>1, <2>2, <2>3 DEF Timer
<1>3. CASE UNCHANGED vars
  BY <1>3, SwitchesRefine DEF Promise!Next
<1> QED  BY <1>1, <1>2, <1>3 DEF Next

\* A service whose application uses it as documented implements SubtitleService.
THEOREM ServiceImplementsPromise == DocumentedUse => (Spec => ImplementsPromise)
<1> SUFFICES ASSUME DocumentedUse PROVE Spec => ImplementsPromise
  OBVIOUS
<1> QED
  BY ContractHolds, InitRefines, StepRefines, PTL DEF Spec, ImplementsPromise, Promise!Spec

=============================================================================
