------------------------------- MODULE PTSMgr -------------------------------
(***************************************************************************)
(* The PTS manager of libdvbsubdec (lsptsmgr.c) for one client, with time. *)
(* A request asks to be notified when the video reaches a PTS; the manager *)
(* turns the distance between PTS and PCR into a timer of the host, and    *)
(* recomputes that timer when the playing speed changes.                   *)
(*                                                                         *)
(* Time is in milliseconds and advances by one in Tick, the video by the   *)
(* speed in hundredths of a millisecond.  The host is as punctual as it    *)
(* can be: time does not pass while a timer has expired.  The client tells *)
(* the manager of a change of speed when the video makes it.  The video    *)
(* starts at the first PTS, as the manager's normalisation assumes.        *)
(***************************************************************************)
EXTENDS Integers, SequencesExt

CONSTANTS
  FirstPTS,      \* the first PTS of the stream
  Times,         \* stream times of the subtitles, from the first PTS
  Speeds,        \* playing speeds: 100 is normal, 0 frozen, below 0 rewinding
  Occurring,     \* which of the Unusual things happen
  Wrap,          \* period of PTS and PCR
  HalfDay,       \* a PTS this far behind the PCR is taken to be in the next period
  MaxDelay,      \* MAX_FILE_DELAY_MS
  Lead,          \* lead time of the first subtitle
  Second,        \* milliseconds in a second
  Word,          \* range of a uint32_t and of an int32_t
  Underflow,     \* 2^64 / 90 in a uint32_t
  Rounding,      \* what one division may lose, in hundredths
  MaxRequests,   \* bound: pending requests
  MaxChanges,    \* bound: changes of speed
  MaxVideo       \* bound: position of the video

\* The 33-bit PTS wraps to below the first one; a PTS is registered when the video has
\* passed it and the PCR has wrapped in between; a hundred times the distance between PTS
\* and PCR does not fit an int32_t, which is so from 5 h 58 min on; the host's timerStopFunc
\* uses both fields of LS_Time_t.
Unusual == {"PTS wraps", "late over the wrap", "hours apart", "seconds apart"}

ASSUME TimeAssumption ==
  /\ FirstPTS \in 0 .. Wrap - 1 /\ Times \subseteq Nat /\ Speeds \subseteq Int /\ 100 \in Speeds
  /\ Occurring \subseteq Unusual
  /\ {Wrap, HalfDay, MaxDelay, Lead, Second, Word} \subseteq Nat \ {0}
  /\ {Rounding, MaxRequests, MaxChanges, MaxVideo} \subseteq Nat
  /\ 5 < Word /\ MaxDelay + Lead < Word /\ Wrap <= Word /\ Underflow \in 0 .. Word - 1

VARIABLES
  video,     \* position of the video, in hundredths
  playing,   \* what the video advances by in a millisecond, 0 while paused
  speed,     \* the speed the client puts in its requests
  requests,  \* the client's list of timerinfo
  timers,    \* timers created in the host and not yet deleted
  base,      \* s_pts_base, 0 until s_pts_base_initialized
  first_subtitle_done,
  changes    \* changes of speed so far

vars == << video, playing, speed, requests, timers, base, first_subtitle_done, changes >>

\* due is where the video should be when the request fires, or Never when nothing is
\* promised; left is what remains of the host's timer while it is running.
Never == -1

Request == [ptsValue : 0 .. Wrap - 1, current_speed : Int, time_left : 0 .. Word - 1,
            reason : {"PTS_PRESENTED", "PTS_INVALID"},
            left : 0 .. Word - 1, running : BOOLEAN, due : Nat \cup {Never}]

TypeOK ==
  /\ video \in Nat /\ playing \in Speeds \cup {0} /\ speed \in Speeds
  /\ requests \in Seq(Request)
  /\ timers \in Nat /\ base \in 0 .. Wrap - 1
  /\ first_subtitle_done \in BOOLEAN /\ changes \in 0 .. MaxChanges

Init ==
  /\ video = 0 /\ playing = 100 /\ speed = 100 /\ changes = 0
  /\ requests = << >> /\ timers = 0
  /\ base = 0 /\ first_subtitle_done = FALSE

-----------------------------------------------------------------------------
(* A request: which PTS, and how far it is from the PCR.                   *)

Now == video \div 100

PCR == Now % Wrap

PTS(t) == (FirstPTS + t) % Wrap

\* The stream's first PTS comes first, and subtitles come less than half a day early or late.
Arrives(t) ==
  /\ base = 0 => t = 0 \/ FirstPTS = 0
  /\ PTS(t) < FirstPTS => "PTS wraps" \in Occurring
  /\ t < Now + HalfDay /\ Now < t + HalfDay
  /\ t < Now => t \div Wrap = Now \div Wrap \/ "late over the wrap" \in Occurring
  /\ \/ 200 * (t - Now) < Word /\ 200 * (Now - t) <= Word
     \/ "hours apart" \in Occurring

\* The first PTS above 0 becomes the base, whether or not the request is accepted.
BaseFor(pts) == IF base = 0 THEN pts ELSE base

\* A number in 32 bits, as an int32_t.  A signed product that overflows is undefined in C and
\* wraps in the builds.
Signed(n) == IF 2 * (n % Word) < Word THEN n % Word ELSE (n % Word) - Word

\* pts_ms.  A PTS before the base underflows in 64 bits.
PTSms(pts) == (pts - BaseFor(pts) + IF pts < BaseFor(pts) THEN Underflow ELSE 0) % Word

\* Variant of Delta: the wrap of the PCR is not noticed.
DeltaInOnePeriod(pts) == Signed(PTSms(pts) - PCR)

\* pts_pcr_delta
Delta(pts) ==
  Signed(IF PTSms(pts) < PCR /\ PCR - PTSms(pts) >= HalfDay THEN Wrap - PCR + PTSms(pts)
                                                           ELSE PTSms(pts) - PCR)

\* Variant of Scaled: the delay is not scaled by the speed.
ScaledNever(delta) == delta

\* The division truncates.
Scaled(delta) ==
  LET product == Signed(delta * 100)
  IN  IF product < 0 THEN -((-product) \div speed) ELSE product \div speed

\* normalized_delta
Delay(pts) == LET delay == Scaled(Delta(pts)) IN IF delay > MaxDelay THEN MaxDelay ELSE delay

LeadFor(delay) == IF PCR = 0 /\ ~first_subtitle_done /\ delay >= 0 THEN Lead ELSE 0

\* Variant of Timeout: a late request is not told apart.
TimeoutAsIs(ms) == ms

\* A late request fires at once, that is after a millisecond.
Timeout(ms) == IF ms <= 0 THEN 1 ELSE ms

\* Where the video should be when the request made now for stream time t fires: at t, or
\* here if that is past, and no further than the clamp.
DueFor(t, lead) ==
  LET at == IF t * 100 < video THEN video ELSE t * 100
      clamp == video + MaxDelay * speed
  IN  IF playing = 0 THEN Never ELSE (IF at > clamp THEN clamp ELSE at) + lead * speed

Registered(pts, reason, timeout, due) ==
  Append(requests, [ptsValue |-> pts, current_speed |-> speed, time_left |-> 0,
                    reason |-> reason, left |-> timeout, running |-> TRUE, due |-> due])

-----------------------------------------------------------------------------
(* LS_PTSMgrRegisterPTS                                                    *)

\* Accepted at a forward speed.  Nobody checks that the video is playing.
RegisterForward(pts, t) ==
  /\ speed > 0
  /\ LET lead == LeadFor(Delay(pts))
     IN  /\ requests' = Registered(pts, "PTS_PRESENTED", Timeout(Delay(pts) + lead),
                                   DueFor(t, lead))
         /\ first_subtitle_done' = (first_subtitle_done \/ lead > 0)
  /\ timers' = timers + 1

\* In rewind the request is answered as invalid five milliseconds later.
RegisterRewinding(pts) ==
  /\ speed < 0
  /\ requests' = Registered(pts, "PTS_INVALID", 5, Never)
  /\ timers' = timers + 1
  /\ UNCHANGED first_subtitle_done

\* At speed 0 the caller is told LS_OK; the timer just created is not kept.
RegisterFrozen ==
  /\ speed = 0
  /\ timers' = timers + 1
  /\ UNCHANGED << requests, first_subtitle_done >>

\* Variant of TimersWhenRefused: without a PCR the timer just created is kept.
TimersWhenRefusedKept == timers + 1

\* Without a PCR the timer just created is deleted again.
TimersWhenRefused == timers

RegisterWithoutPCR ==
  /\ timers' = TimersWhenRefused
  /\ UNCHANGED << requests, first_subtitle_done >>

Register(pts, t) ==
  /\ Len(requests) < MaxRequests /\ timers <= MaxRequests
  /\ RegisterForward(pts, t) \/ RegisterRewinding(pts) \/ RegisterFrozen \/ RegisterWithoutPCR
  /\ base' = BaseFor(pts)
  /\ UNCHANGED << video, playing, speed, changes >>

RegisterPTS == \E t \in Times : Arrives(t) /\ Register(PTS(t), t)

-----------------------------------------------------------------------------
(* LS_PTSMgrCancelPTS, LS_PTSMgrReset and the host's timers.               *)

\* The first request of that PTS is cancelled, if there is one.
CancelPTS(i) ==
  /\ \A j \in 1 .. i - 1 : requests[j].ptsValue # requests[i].ptsValue
  /\ requests' = RemoveAt(requests, i)
  /\ timers' = timers - 1
  /\ UNCHANGED << video, playing, speed, base, first_subtitle_done, changes >>

Reset ==
  /\ requests' = << >>
  /\ timers' = timers - Len(requests)
  /\ UNCHANGED << video, playing, speed, base, first_subtitle_done, changes >>

Expired(req) == req.running /\ req.left = 0

\* ptsMgrTimerCallback: the client is called back and the request is gone.
Fire(i) ==
  /\ Expired(requests[i])
  /\ requests' = RemoveAt(requests, i)
  /\ timers' = timers - 1
  /\ UNCHANGED << video, playing, speed, base, first_subtitle_done, changes >>

Tick ==
  /\ video < MaxVideo
  /\ \A i \in DOMAIN requests : ~Expired(requests[i])
  /\ video' = IF video + playing < 0 THEN 0 ELSE video + playing
  /\ requests' = [i \in DOMAIN requests |->
                    IF requests[i].running THEN [requests[i] EXCEPT !.left = @ - 1]
                                           ELSE requests[i]]
  /\ UNCHANGED << playing, speed, timers, base, first_subtitle_done, changes >>

-----------------------------------------------------------------------------
(* LS_PTSMgrSetSpeed                                                       *)

\* What timerStopFunc leaves in time_left.milliseconds: all that remains, or what the
\* field's name says of a structure that has a field for the seconds.
Reported(left) == IF "seconds apart" \in Occurring THEN left % Second ELSE left

\* Variant of ToGo: the speed the timer was started for is forgotten.
ToGoUnscaled(req) == IF req.current_speed = 0 THEN req.time_left ELSE Reported(req.left)

\* Milliseconds of video to go, in unsigned arithmetic: at a negative speed it wraps.
ToGo(req) ==
  IF req.current_speed = 0 THEN req.time_left
  ELSE ((Reported(req.left) * req.current_speed) % Word) \div 100

\* A request stopped in rewind keeps what its timer reported.
Invalidated(req, v) ==
  [req EXCEPT !.time_left = IF req.current_speed = 0 THEN @ ELSE Reported(req.left),
              !.current_speed = v, !.reason = "PTS_INVALID",
              !.left = 2, !.running = TRUE, !.due = Never]

Frozen(req) ==
  [req EXCEPT !.time_left = ToGo(req), !.current_speed = 0,
              !.reason = "PTS_PRESENTED", !.left = 0, !.running = FALSE]

Restarted(req, v) ==
  [req EXCEPT !.time_left = ToGo(req), !.current_speed = v, !.reason = "PTS_PRESENTED",
              !.left = ((ToGo(req) * 100) % Word) \div v, !.running = TRUE]

AtSpeed(v) ==
  [i \in DOMAIN requests |->
     IF v < 0 THEN Invalidated(requests[i], v)
     ELSE IF v = 0 THEN Frozen(requests[i]) ELSE Restarted(requests[i], v)]

Change(v) ==
  /\ changes < MaxChanges
  /\ requests' = AtSpeed(v)
  /\ playing' = v
  /\ changes' = changes + 1
  /\ UNCHANGED << video, timers, base, first_subtitle_done >>

\* Pause freezes the requests and leaves the client's speed alone.
Pause == Change(0) /\ UNCHANGED speed

\* A new speed, or the old one to resume.
SetSpeed(v) == Change(v) /\ speed' = v

Next ==
  \/ RegisterPTS
  \/ \E i \in DOMAIN requests : CancelPTS(i)
  \/ \E i \in DOMAIN requests : Fire(i)
  \/ Reset
  \/ Pause
  \/ \E v \in Speeds : SetSpeed(v)
  \/ Tick

Spec == Init /\ [][Next]_vars

-----------------------------------------------------------------------------
(* Properties                                                              *)

\* What the divisions may have lost so far.
Slack == (1 + changes) * Rounding

\* A pending request has not been passed by: the video is not beyond the point at which
\* it is due, whatever changes of speed and wraps of the PCR came in between.
NeverLate ==
  \A i \in DOMAIN requests :
    requests[i].due # Never => video <= requests[i].due + Slack

\* A request that is about to fire is due: "notified when the specified PTS is reached".
NeverEarly ==
  \A i \in DOMAIN requests :
    Expired(requests[i]) /\ requests[i].due # Never => video + Slack >= requests[i].due

\* A step leaves a timer behind that no request in the list refers to only when it makes
\* a request at speed 0.
TimersKept ==
  [][timers' - Len(requests') > timers - Len(requests) => speed = 0]_vars

=============================================================================
