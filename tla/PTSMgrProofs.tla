----------------------------- MODULE PTSMgrProofs -----------------------------
(***************************************************************************)
(* What holds of the PTS manager for every period, speed and bound: the    *)
(* types, that the host has a timer for every request, that no step but a  *)
(* registration at speed 0 leaves one behind, and that requests fire on    *)
(* time.                                                                   *)
(*                                                                         *)
(* Types alone are not inductive: firing and cancelling delete a timer,    *)
(* which there is because every request has one (TimersCover).  Being on   *)
(* time is not inductive either: it is a property of the video, and what   *)
(* keeps it is that the remainder of every timer, at the speed it was      *)
(* started for, leads from there to the PTS (Deadlines).                   *)
(***************************************************************************)
EXTENDS PTSMgr, SequenceFacts

TimersCover == Len(requests) <= timers

Inv == TypeOK /\ TimersCover

\* The constants are numbers.
LEMMA Constants ==
  /\ Wrap \in Nat /\ Wrap > 0 /\ HalfDay \in Nat /\ MaxDelay \in Nat /\ MaxDelay > 0
  /\ Lead \in Nat /\ Second \in Nat /\ Second > 0 /\ Word \in Nat /\ Word > 5
  /\ MaxDelay + Lead < Word /\ MaxChanges \in Nat /\ Wrap <= Word /\ Underflow \in Nat
  /\ FirstPTS \in 0 .. Wrap - 1 /\ Times \subseteq Nat /\ Speeds \subseteq Int /\ 100 \in Speeds
BY TimeAssumption

LEMMA ModRange ==
  ASSUME NEW a \in Int, NEW n \in Nat, n > 0
  PROVE  a % n \in 0 .. n - 1
OBVIOUS

LEMMA ModBelow ==
  ASSUME NEW a \in Nat, NEW n \in Nat, n > 0
  PROVE  a % n \in 0 .. a
<1>1. CASE a < n
  <2>1. a % n = a
    BY <1>1
  <2> QED  BY <2>1
<1>2. CASE ~(a < n)
  BY <1>2, ModRange
<1> QED  BY <1>1, <1>2

LEMMA DivInt ==
  ASSUME NEW a \in Int, NEW n \in Nat, n > 0
  PROVE  a \div n \in Int
OBVIOUS

LEMMA DivBelow ==
  ASSUME NEW w \in Nat, NEW a \in 0 .. w - 1, NEW n \in Nat, n > 0
  PROVE  a \div n \in 0 .. w - 1
OBVIOUS

LEMMA Product == ASSUME NEW a \in Int, NEW b \in Int PROVE a * b \in Int
OBVIOUS

LEMMA ProductNat == ASSUME NEW a \in Nat, NEW b \in Nat PROVE a * b \in Nat
OBVIOUS

-----------------------------------------------------------------------------
(* Registration                                                            *)

LEMMA Numbers ==
  ASSUME TypeOK
  PROVE  /\ PCR \in 0 .. Wrap - 1
         /\ \A t \in Times : t \in Nat /\ PTS(t) \in 0 .. Wrap - 1
<1>1. video \in Nat /\ Wrap \in Nat /\ Wrap > 0 /\ FirstPTS \in Nat /\ Times \subseteq Nat
  BY Constants DEF TypeOK
<1>2. Now \in Int
  BY <1>1, DivInt DEF Now
<1>3. PCR \in 0 .. Wrap - 1
  BY <1>1, <1>2, ModRange DEF PCR
<1>4. ASSUME NEW t \in Times PROVE t \in Nat /\ PTS(t) \in 0 .. Wrap - 1
  <2>1. FirstPTS + t \in Int
    BY <1>1
  <2> QED  BY <1>1, <2>1, ModRange DEF PTS
<1> QED  BY <1>3, <1>4

LEMMA BaseType ==
  ASSUME TypeOK, NEW pts \in 0 .. Wrap - 1
  PROVE  BaseFor(pts) \in 0 .. Wrap - 1
BY DEF TypeOK, BaseFor

LEMMA SignedType ==
  ASSUME NEW n \in Int
  PROVE  Signed(n) \in Int
<1>1. Word \in Nat /\ Word > 0
  BY Constants
<1>2. n % Word \in Int
  BY <1>1, ModRange
<1> DEFINE w == n % Word
<1>3. Signed(n) = IF 2 * w < Word THEN w ELSE w - Word
  BY DEF Signed
<1> HIDE DEF w
<1> QED  BY <1>1, <1>2, <1>3 DEF w

LEMMA PTSmsType ==
  ASSUME TypeOK, NEW pts \in 0 .. Wrap - 1
  PROVE  PTSms(pts) \in Int
<1>1. Word \in Nat /\ Word > 0 /\ Underflow \in Int /\ BaseFor(pts) \in Int /\ pts \in Int
  BY Constants, BaseType
<1> DEFINE below == IF pts < BaseFor(pts) THEN Underflow ELSE 0
           n == pts - BaseFor(pts) + below
<1>2. n \in Int
  BY <1>1
<1>3. PTSms(pts) = n % Word
  BY DEF PTSms
<1> HIDE DEF n
<1> QED  BY <1>1, <1>2, <1>3, ModRange

LEMMA DeltaType ==
  ASSUME TypeOK, NEW pts \in 0 .. Wrap - 1
  PROVE  Delta(pts) \in Int
<1>1. PTSms(pts) \in Int /\ PCR \in Int /\ Wrap \in Int /\ HalfDay \in Int
  BY Constants, Numbers, PTSmsType
<1>2. Wrap - PCR + PTSms(pts) \in Int /\ PTSms(pts) - PCR \in Int
  BY <1>1
<1> QED  BY <1>2, SignedType DEF Delta

LEMMA ScaledType ==
  ASSUME NEW delta \in Int, speed \in Nat, speed > 0
  PROVE  Scaled(delta) \in Int
<1> DEFINE product == Signed(delta * 100)
<1>1. product \in Int
  <2>1. delta * 100 \in Int
    OBVIOUS
  <2> QED  BY <2>1, SignedType
<1>2. Scaled(delta) = IF product < 0 THEN -((-product) \div speed) ELSE product \div speed
  BY DEF Scaled
<1> HIDE DEF product
<1>3. product \div speed \in Int /\ (-product) \div speed \in Int
  BY <1>1, DivInt
<1> QED  BY <1>2, <1>3

\* A delay is a number and at most MAX_FILE_DELAY_MS.
LEMMA DelayBounded ==
  ASSUME TypeOK, NEW pts \in 0 .. Wrap - 1, speed > 0
  PROVE  Delay(pts) \in Int /\ Delay(pts) <= MaxDelay
<1>1. speed \in Nat /\ MaxDelay \in Int
  BY Constants DEF TypeOK
<1>2. Scaled(Delta(pts)) \in Int
  BY <1>1, DeltaType, ScaledType
<1> QED  BY <1>1, <1>2 DEF Delay

\* A request that has just been made.
LEMMA RegisteredType ==
  ASSUME TypeOK, NEW pts \in 0 .. Wrap - 1, NEW reason \in {"PTS_PRESENTED", "PTS_INVALID"},
         NEW timeout \in 0 .. Word - 1, NEW due \in Nat \cup {Never}
  PROVE  /\ Registered(pts, reason, timeout, due) \in Seq(Request)
         /\ Len(Registered(pts, reason, timeout, due)) = Len(requests) + 1
<1> DEFINE req == [ptsValue |-> pts, current_speed |-> speed, time_left |-> 0,
                   reason |-> reason, left |-> timeout, running |-> TRUE, due |-> due]
<1>1. speed \in Int /\ 0 \in 0 .. Word - 1
  BY Constants DEF TypeOK
<1>2. req \in Request
  BY <1>1 DEF Request
<1> HIDE DEF req
<1>3. Append(requests, req) \in Seq(Request) /\ Len(Append(requests, req)) = Len(requests) + 1
  BY <1>2, AppendProperties DEF TypeOK
<1> QED  BY <1>3 DEF Registered, req

\* Where a request is due.
LEMMA DueType ==
  ASSUME TypeOK, speed > 0, NEW t \in Nat, NEW lead \in Nat
  PROVE  DueFor(t, lead) \in Nat \cup {Never}
<1>1. speed \in Nat /\ video \in Nat /\ MaxDelay \in Nat
  BY Constants DEF TypeOK
<1>2. MaxDelay * speed \in Nat /\ lead * speed \in Nat /\ t * 100 \in Nat
  BY <1>1, ProductNat
<1> DEFINE at == IF t * 100 < video THEN video ELSE t * 100
           clamp == video + MaxDelay * speed
<1>3. at \in Nat /\ clamp \in Nat
  BY <1>1, <1>2
<1>4. DueFor(t, lead) = IF playing = 0 THEN Never
                        ELSE (IF at > clamp THEN clamp ELSE at) + lead * speed
  BY DEF DueFor
<1> HIDE DEF at, clamp
<1> QED  BY <1>2, <1>3, <1>4

\* Registering keeps the types, and makes a timer for every request it makes.
LEMMA RegisterKeeps ==
  ASSUME Inv, RegisterPTS
  PROVE  Inv' /\ (timers' - Len(requests') > timers - Len(requests) => speed = 0)
<1>1. PICK t \in Times : Register(PTS(t), t)
  BY DEF RegisterPTS
<1> DEFINE pts == PTS(t)
<1>2. TypeOK /\ Len(requests) <= timers /\ Len(requests) \in Nat /\ timers \in Nat
  BY LenProperties DEF Inv, TimersCover, TypeOK
<1>3. t \in Nat /\ pts \in 0 .. Wrap - 1 /\ BaseFor(pts) \in 0 .. Wrap - 1
  BY <1>2, Numbers, BaseType
<1> HIDE DEF pts
<1>4. Register(pts, t)
  BY <1>1 DEF pts
<1>5. CASE RegisterForward(pts, t)
  <2> DEFINE delay == Delay(pts)
  <2>1. /\ requests' = Registered(pts, "PTS_PRESENTED", Timeout(delay + LeadFor(delay)),
                                  DueFor(t, LeadFor(delay)))
        /\ first_subtitle_done' = (first_subtitle_done \/ LeadFor(delay) > 0)
    BY <1>5 DEF RegisterForward
  <2>2. speed > 0 /\ timers' = timers + 1
    BY <1>5 DEF RegisterForward
  <2>3. delay \in Int /\ delay <= MaxDelay
    BY <1>2, <1>3, <2>2, DelayBounded
  <2> HIDE DEF delay
  <2>4. LeadFor(delay) \in Nat /\ LeadFor(delay) <= Lead
    BY Constants DEF LeadFor
  <2>5. Timeout(delay + LeadFor(delay)) \in 0 .. Word - 1
    <3>1. Lead \in Nat /\ MaxDelay \in Nat /\ Word \in Nat /\ Word > 5 /\ MaxDelay + Lead < Word
      BY Constants
    <3> QED  BY <2>3, <2>4, <3>1 DEF Timeout
  <2>6. DueFor(t, LeadFor(delay)) \in Nat \cup {Never}
    BY <1>2, <1>3, <2>2, <2>4, DueType
  <2>7. requests' \in Seq(Request) /\ Len(requests') = Len(requests) + 1
    BY <1>2, <1>3, <2>1, <2>5, <2>6, RegisteredType
  <2>8. first_subtitle_done' \in BOOLEAN
    BY <2>1
  <2> QED  BY <1>2, <1>3, <1>4, <2>2, <2>7, <2>8 DEF Register, Inv, TypeOK, TimersCover
<1>6. CASE RegisterRewinding(pts)
  <2>1. 5 \in 0 .. Word - 1
    BY Constants
  <2>2. requests' \in Seq(Request) /\ Len(requests') = Len(requests) + 1
    BY <1>2, <1>3, <1>6, <2>1, RegisteredType DEF RegisterRewinding
  <2> QED
    BY <1>2, <1>3, <1>4, <1>6, <2>2 DEF Register, RegisterRewinding, Inv, TypeOK, TimersCover
<1>7. CASE RegisterFrozen
  BY <1>2, <1>3, <1>4, <1>7 DEF Register, RegisterFrozen, Inv, TypeOK, TimersCover
<1>8. CASE RegisterWithoutPCR
  BY <1>2, <1>3, <1>4, <1>8
  DEF Register, RegisterWithoutPCR, TimersWhenRefused, Inv, TypeOK, TimersCover
<1> QED  BY <1>4, <1>5, <1>6, <1>7, <1>8 DEF Register

-----------------------------------------------------------------------------
(* Removal and the passing of time                                         *)

\* Firing and cancelling remove one request and its timer.
LEMMA RemovalKeeps ==
  ASSUME Inv, NEW i \in DOMAIN requests,
         requests' = RemoveAt(requests, i), timers' = timers - 1,
         UNCHANGED << video, playing, speed, base, first_subtitle_done, changes >>
  PROVE  Inv' /\ timers' - Len(requests') = timers - Len(requests)
<1>1. requests \in Seq(Request) /\ Len(requests) \in Nat /\ i \in 1 .. Len(requests)
      /\ timers \in Nat /\ Len(requests) <= timers
  BY LenProperties DEF Inv, TypeOK, TimersCover
<1>2. requests' \in Seq(Request) /\ Len(requests') = Len(requests) - 1
  BY <1>1, RemoveAtProperties
<1>3. timers' \in Nat /\ Len(requests') <= timers' /\ timers' - Len(requests') = timers - Len(requests)
  BY <1>1, <1>2
<1> QED  BY <1>2, <1>3 DEF Inv, TypeOK, TimersCover

LEMMA ResetKeeps ==
  ASSUME Inv, Reset
  PROVE  Inv' /\ timers' - Len(requests') = timers - Len(requests)
<1>1. Len(requests) \in Nat /\ timers \in Nat /\ Len(requests) <= timers
  BY LenProperties DEF Inv, TypeOK, TimersCover
<1>2. requests' \in Seq(Request) /\ Len(requests') = 0
  BY EmptySeq DEF Reset
<1>3. timers' = timers - Len(requests)
  BY DEF Reset
<1>4. timers' \in Nat
  BY <1>1, <1>3
<1> QED  BY <1>1, <1>2, <1>3, <1>4 DEF Reset, Inv, TypeOK, TimersCover

\* A list that is rebuilt element by element is a list.
LEMMA RebuiltList ==
  ASSUME NEW S, NEW n \in Nat, NEW s \in [1 .. n -> S]
  PROVE  s \in Seq(S) /\ Len(s) = n
OBVIOUS

LEMMA TickKeeps ==
  ASSUME Inv, Tick
  PROVE  Inv' /\ timers' - Len(requests') = timers - Len(requests)
<1>1. /\ requests \in Seq(Request) /\ Len(requests) \in Nat /\ DOMAIN requests = 1 .. Len(requests)
      /\ \A i \in DOMAIN requests : requests[i] \in Request
      /\ Word \in Nat /\ Word > 5 /\ playing \in Int /\ video \in Nat
  BY LenProperties, ElementOfSeq, Constants DEF Inv, TypeOK
<1>2. ASSUME NEW i \in DOMAIN requests
      PROVE  requests'[i] \in Request
  <2>1. requests[i] \in Request /\ ~Expired(requests[i])
    BY <1>1 DEF Tick
  <2>2. CASE requests[i].running
    <3>1. requests[i].left - 1 \in 0 .. Word - 1
      BY <1>1, <2>1, <2>2 DEF Request, Expired
    <3>2. requests'[i] = [requests[i] EXCEPT !.left = @ - 1]
      BY <2>2 DEF Tick
    <3> QED  BY <2>1, <3>1, <3>2 DEF Request
  <2>3. CASE ~requests[i].running
    BY <2>1, <2>3 DEF Tick
  <2> QED  BY <2>2, <2>3
<1>3. requests' = [i \in DOMAIN requests |-> requests'[i]]
  BY DEF Tick
<1>4. requests' \in [1 .. Len(requests) -> Request]
  BY <1>1, <1>2, <1>3
<1>5. requests' \in Seq(Request) /\ Len(requests') = Len(requests)
  BY <1>1, <1>4, RebuiltList
<1>6. video' \in Nat
  BY <1>1 DEF Tick
<1> QED  BY <1>5, <1>6 DEF Tick, Inv, TypeOK, TimersCover

-----------------------------------------------------------------------------
(* Changes of speed                                                        *)

\* What is left to go fits its 32 bits, also when a negative speed makes it wrap.
LEMMA ToGoType ==
  ASSUME NEW req \in Request
  PROVE  Reported(req.left) \in 0 .. Word - 1 /\ ToGo(req) \in 0 .. Word - 1
<1>1. req.left \in 0 .. Word - 1 /\ req.time_left \in 0 .. Word - 1 /\ req.current_speed \in Int
  BY DEF Request
<1>2. Second \in Nat /\ Second > 0 /\ Word \in Nat /\ Word > 5
  BY Constants
<1>3. Reported(req.left) \in 0 .. Word - 1
  <2>1. req.left \in Nat /\ 0 <= req.left /\ req.left <= Word - 1
    BY <1>1, <1>2
  <2>2. req.left % Second \in 0 .. req.left
    BY <1>2, <2>1, ModBelow
  <2> DEFINE millis == req.left % Second
  <2> HIDE DEF millis
  <2>3. millis \in 0 .. req.left
    BY <2>2 DEF millis
  <2>4. millis \in 0 .. Word - 1
    BY <1>2, <2>1, <2>3
  <2> QED  BY <1>1, <2>4 DEF Reported, millis
<1>4. Reported(req.left) * req.current_speed \in Int
  BY <1>1, <1>2, <1>3, Product
<1> DEFINE wrapped == (Reported(req.left) * req.current_speed) % Word
<1>5. wrapped \in 0 .. Word - 1
  BY <1>2, <1>4, ModRange
<1> HIDE DEF wrapped
<1>6. wrapped \div 100 \in 0 .. Word - 1
  BY <1>2, <1>5
<1> QED  BY <1>1, <1>3, <1>6 DEF ToGo, wrapped

\* A request with other values of what a change of speed sets.
LEMMA UpdatedType ==
  ASSUME NEW req \in Request, NEW left \in 0 .. Word - 1, NEW time_left \in 0 .. Word - 1,
         NEW v \in Int, NEW reason \in {"PTS_PRESENTED", "PTS_INVALID"}, NEW running \in BOOLEAN
  PROVE  [req EXCEPT !.time_left = time_left, !.current_speed = v, !.reason = reason,
                     !.left = left, !.running = running] \in Request
BY DEF Request

\* A request whose timer is stopped or started again for a new speed.
LEMMA ChangedType ==
  ASSUME NEW req \in Request, NEW v \in Int
  PROVE  /\ v < 0 => Invalidated(req, v) \in Request
         /\ Frozen(req) \in Request
         /\ v > 0 => Restarted(req, v) \in Request
<1>1. Reported(req.left) \in 0 .. Word - 1 /\ ToGo(req) \in 0 .. Word - 1
  BY ToGoType
<1>2. Word \in Nat /\ Word > 5
  BY Constants
<1>3. Never \in Nat \cup {Never} /\ 0 \in 0 .. Word - 1 /\ 2 \in 0 .. Word - 1
  BY <1>2
<1>4. Invalidated(req, v) \in Request
  BY <1>1, <1>3 DEF Invalidated, Request
<1>5. Frozen(req) \in Request
  <2>1. 0 \in Int /\ "PTS_PRESENTED" \in {"PTS_PRESENTED", "PTS_INVALID"} /\ FALSE \in BOOLEAN
    OBVIOUS
  <2> QED  BY <1>1, <1>3, <2>1, UpdatedType DEF Frozen
<1>6. ASSUME v > 0 PROVE Restarted(req, v) \in Request
  <2> DEFINE wrapped == (ToGo(req) * 100) % Word
  <2>1. ToGo(req) * 100 \in Int
    BY <1>1
  <2>2. wrapped \in 0 .. Word - 1
    BY <1>2, <2>1, ModRange
  <2> HIDE DEF wrapped
  <2>3. wrapped \div v \in 0 .. Word - 1
    BY <1>2, <1>6, <2>2, DivBelow
  <2> QED  BY <1>1, <2>3 DEF Restarted, Request, wrapped
<1> QED  BY <1>4, <1>5, <1>6

LEMMA ChangeKeeps ==
  ASSUME Inv, NEW v \in Speeds \cup {0}, Change(v), speed' = speed \/ (v \in Speeds /\ speed' = v)
  PROVE  Inv' /\ timers' - Len(requests') = timers - Len(requests)
<1>1. /\ requests \in Seq(Request) /\ Len(requests) \in Nat /\ DOMAIN requests = 1 .. Len(requests)
      /\ \A i \in DOMAIN requests : requests[i] \in Request
      /\ v \in Int /\ changes \in 0 .. MaxChanges /\ MaxChanges \in Nat
  BY LenProperties, ElementOfSeq, Constants DEF Inv, TypeOK
<1>2. ASSUME NEW i \in DOMAIN requests PROVE AtSpeed(v)[i] \in Request
  <2>1. requests[i] \in Request
    BY <1>1
  <2>2. v < 0 \/ v = 0 \/ v > 0
    BY <1>1
  <2> QED  BY <1>1, <2>1, <2>2, ChangedType DEF AtSpeed
<1>3. AtSpeed(v) = [i \in DOMAIN requests |-> AtSpeed(v)[i]]
  BY DEF AtSpeed
<1>4. AtSpeed(v) \in [1 .. Len(requests) -> Request]
  BY <1>1, <1>2, <1>3
<1>5. requests' \in Seq(Request) /\ Len(requests') = Len(requests)
  BY <1>1, <1>4, RebuiltList DEF Change
<1>6. changes' \in 0 .. MaxChanges
  BY <1>1 DEF Change
<1> QED  BY <1>5, <1>6 DEF Change, Inv, TypeOK, TimersCover

-----------------------------------------------------------------------------
(* The theorems                                                            *)

LEMMA InitHasInv == Init => Inv
<1> SUFFICES ASSUME Init PROVE Inv
  OBVIOUS
<1>1. requests \in Seq(Request) /\ Len(requests) = 0
  BY EmptySeq DEF Init
<1>2. 100 \in Speeds /\ 0 \in 0 .. Wrap - 1 /\ 0 \in 0 .. MaxChanges
  BY Constants
<1>3. first_subtitle_done \in BOOLEAN
  BY DEF Init
<1> QED  BY <1>1, <1>2, <1>3 DEF Init, Inv, TypeOK, TimersCover

\* A step keeps the invariant, and leaves a timer behind only by a registration at speed 0.
LEMMA StepKeepsInv ==
  ASSUME Inv, [Next]_vars
  PROVE  Inv' /\ (timers' - Len(requests') > timers - Len(requests) => speed = 0)
<1> USE DEF vars
<1>1. Len(requests) \in Nat /\ timers \in Nat
  BY LenProperties DEF Inv, TypeOK
<1>2. CASE RegisterPTS
  BY <1>2, RegisterKeeps
<1>3. ASSUME NEW i \in DOMAIN requests, CancelPTS(i)
      PROVE  Inv' /\ timers' - Len(requests') = timers - Len(requests)
  BY <1>3, RemovalKeeps DEF CancelPTS
<1>4. ASSUME NEW i \in DOMAIN requests, Fire(i)
      PROVE  Inv' /\ timers' - Len(requests') = timers - Len(requests)
  BY <1>4, RemovalKeeps DEF Fire
<1>5. CASE Reset
  BY <1>1, <1>5, ResetKeeps
<1>6. CASE Pause
  BY <1>1, <1>6, ChangeKeeps DEF Pause
<1>7. ASSUME NEW v \in Speeds, SetSpeed(v)
      PROVE  Inv' /\ timers' - Len(requests') = timers - Len(requests)
  BY <1>7, ChangeKeeps DEF SetSpeed
<1>8. CASE Tick
  BY <1>1, <1>8, TickKeeps
<1>9. CASE UNCHANGED vars
  BY <1>1, <1>9 DEF Inv, TypeOK, TimersCover
<1> QED  BY <1>1, <1>2, <1>3, <1>4, <1>5, <1>6, <1>7, <1>8, <1>9 DEF Next

LEMMA InvHolds == Spec => []Inv
BY InitHasInv, StepKeepsInv, PTL DEF Spec

\* Every field keeps its type whatever the speeds: what is left of a timer and what is left
\* to go stay within 32 bits, also when a negative speed makes their product wrap.
THEOREM ManagerTypeCorrect == Spec => []TypeOK
<1>1. Inv => TypeOK
  BY DEF Inv
<1> QED  BY <1>1, InvHolds, PTL

\* The host has a timer for every pending request: LS_PTSMgrReset and LS_PTSMgrCancelPTS
\* never delete one that is not there.
THEOREM EveryRequestHasTimer == Spec => []TimersCover
<1>1. Inv => TimersCover
  BY DEF Inv
<1> QED  BY <1>1, InvHolds, PTL

\* Only a registration at speed 0 leaves a timer behind that no request refers to; firing,
\* cancelling, resetting and changes of speed never do.
THEOREM OnlyFrozenLeavesTimers == Spec => TimersKept
<1>1. Inv /\ [Next]_vars =>
        [timers' - Len(requests') > timers - Len(requests) => speed = 0]_vars
  BY StepKeepsInv
<1> QED  BY <1>1, InvHolds, PTL DEF Spec, TimersKept

-----------------------------------------------------------------------------
(* Deadlines                                                               *)

\* What NeverLate and NeverEarly need of the constants: that nothing unusual happens, so that
\* the distance of a PTS, times 100, fits an int32_t among other things, that the
\* base is initialised by the first PTS, that half a day is at most half a period, that a
\* timer's milliseconds of video fit their word at every speed, and that Rounding covers what a
\* PCR in milliseconds, a late request's millisecond and the divisions of one change lose.
Foreseen ==
  /\ Occurring = {} /\ FirstPTS > 0 /\ HalfDay + HalfDay <= Wrap
  /\ \A v \in Speeds : v > 0 => (MaxDelay + Lead) * v < Word
  /\ 100 <= Rounding /\ \A v \in Speeds : v <= Rounding + Rounding
  /\ \A v, w \in Speeds : \A m, n \in Nat :
       v > 0 /\ w > 0 => ((m * v) % 100) + ((n * 100) % w) <= Rounding

\* Where the video, now at position at, will be when the request fires: at the rate at which it
\* plays or, while it is paused, at whichever it will.
Point(req, at, rate) == at + IF rate = 0 THEN req.time_left * 100 ELSE req.left * rate

\* A request of which something is promised has the timer the speed calls for, and its point is
\* where it is due, but for the slack.
OnTime(req, at, rate, slack) ==
  req.due # Never =>
    /\ rate >= 0
    /\ IF rate = 0 THEN ~req.running /\ req.current_speed = 0
                   ELSE req.running /\ req.current_speed = rate
    /\ Point(req, at, rate) - at < Word
    /\ Point(req, at, rate) <= req.due + slack /\ req.due <= Point(req, at, rate) + slack

Deadlines ==
  /\ base \in {0, FirstPTS}
  /\ playing # 0 => playing = speed
  /\ changes = 0 => speed = 100
  /\ \A i \in DOMAIN requests : OnTime(requests[i], video, playing, Slack)

\* A Rounding of 100 more than the fastest speed covers the losses of any speeds.
LEMMA RoundingOfFastest ==
  ASSUME NEW v \in Nat, v > 0, NEW w \in Nat, w > 0, NEW m \in Nat, NEW n \in Nat,
         NEW fastest \in Nat, w <= fastest
  PROVE  ((m * v) % 100) + ((n * 100) % w) <= 100 + fastest
<1>1. m * v \in Int /\ n * 100 \in Int
  OBVIOUS
<1>2. (m * v) % 100 \in 0 .. 99 /\ (n * 100) % w \in 0 .. w - 1
  BY <1>1, ModRange
<1> DEFINE r == (m * v) % 100
           q == (n * 100) % w
<1> HIDE DEF r, q
<1>3. r \in 0 .. 99 /\ q \in 0 .. w - 1
  BY <1>2 DEF r, q
<1>4. r + q <= 100 + fastest
  BY <1>3
<1> QED  BY <1>4 DEF r, q

LEMMA InitHasDeadlines == Init => Deadlines
<1> SUFFICES ASSUME Init PROVE Deadlines
  OBVIOUS
<1>1. DOMAIN requests = {}
  BY DEF Init
<1> QED  BY <1>1 DEF Init, Deadlines

LEMMA SlackIs ==
  ASSUME TypeOK
  PROVE  /\ Slack \in Nat /\ Rounding \in Nat /\ Rounding <= Slack
         /\ changes # 0 => Rounding + Rounding <= Slack
         /\ changes' = changes + 1 => Slack' = Slack + Rounding
<1>1. Rounding \in Nat /\ changes \in Nat
  BY TimeAssumption DEF TypeOK
<1>2. changes * Rounding \in Nat /\ Slack = Rounding + changes * Rounding
  BY <1>1, ProductNat DEF Slack
<1>3. changes # 0 => changes * Rounding >= Rounding
  <2>1. ASSUME changes # 0 PROVE changes * Rounding = (changes - 1) * Rounding + Rounding
    BY <1>1
  <2>2. ASSUME changes # 0 PROVE (changes - 1) * Rounding \in Nat
    BY <1>1, <2>2, ProductNat
  <2> QED  BY <1>1, <2>1, <2>2
<1>4. ASSUME changes' = changes + 1 PROVE Slack' = Slack + Rounding
  <2>1. Slack' = (1 + (changes + 1)) * Rounding
    BY <1>4 DEF Slack
  <2>2. (1 + (changes + 1)) * Rounding = Rounding + Rounding + changes * Rounding
    BY <1>1
  <2> QED  BY <1>1, <1>2, <2>1, <2>2
<1> QED  BY <1>1, <1>2, <1>3, <1>4

-----------------------------------------------------------------------------
(* The distance to the PCR                                                 *)

LEMMA DivMod ==
  ASSUME NEW a \in Int, NEW n \in Nat, n > 0
  PROVE  /\ a \div n \in Int /\ a % n \in 0 .. n - 1
         /\ a = n * (a \div n) + (a % n)
         /\ a >= 0 => a \div n \in Nat
OBVIOUS

LEMMA MoreTimes ==
  ASSUME NEW n \in Nat, NEW a \in Int, NEW b \in Int, a <= b
  PROVE  n * a <= n * b
<1>1. b - a \in Nat
  OBVIOUS
<1>2. n * (b - a) \in Nat
  BY <1>1, ProductNat
<1>3. n * (b - a) = n * b - n * a /\ n * a \in Int /\ n * b \in Int
  OBVIOUS
<1> QED  BY <1>2, <1>3

LEMMA DivUnique ==
  ASSUME NEW n \in Nat, n > 0, NEW q \in Int, NEW r \in 0 .. n - 1, NEW a \in Int, a = n * q + r
  PROVE  a \div n = q /\ a % n = r
<1> DEFINE k == a \div n
<1>1. k \in Int /\ a % n \in 0 .. n - 1 /\ a = n * k + (a % n)
  BY DivMod
<1> HIDE DEF k
<1>2. n * q \in Int /\ n * k \in Int
  BY <1>1
<1>3. ASSUME k <= q - 1 PROVE FALSE
  <2>1. n * k <= n * (q - 1)
    BY <1>1, <1>3, MoreTimes
  <2>2. n * (q - 1) = n * q - n
    OBVIOUS
  <2> QED  BY <1>1, <1>2, <2>1, <2>2
<1>4. ASSUME q + 1 <= k PROVE FALSE
  <2>1. n * (q + 1) <= n * k
    BY <1>1, <1>4, MoreTimes
  <2>2. n * (q + 1) = n * q + n
    OBVIOUS
  <2> QED  BY <1>1, <1>2, <2>1, <2>2
<1>5. k = q
  BY <1>1, <1>3, <1>4
<1> QED  BY <1>1, <1>2, <1>5 DEF k

\* A number that fits an int32_t is as it is, and so is what a hundred times such a number gives.
LEMMA SignedSmall ==
  ASSUME NEW n \in Int, 200 * n < Word, 200 * (-n) <= Word
  PROVE  Signed(n) = n /\ Signed(n * 100) = n * 100
<1>1. Word \in Nat /\ Word > 5
  BY Constants
<1>2. ASSUME NEW m \in Int, 2 * m < Word, 2 * (-m) <= Word
      PROVE  Signed(m) = m
  <2>1. CASE m >= 0
    <3>1. m = Word * 0 + m /\ m \in 0 .. Word - 1
      BY <1>1, <1>2, <2>1
    <3>2. m % Word = m
      BY <1>1, <3>1, DivUnique
    <3> QED  BY <1>2, <3>2 DEF Signed
  <2>2. CASE m < 0
    <3>1. m = Word * (-1) + (m + Word) /\ m + Word \in 0 .. Word - 1 /\ -1 \in Int
      BY <1>1, <1>2, <2>2
    <3>2. m % Word = m + Word
      BY <1>1, <3>1, DivUnique
    <3>3. ~(2 * (m + Word) < Word)
      BY <1>1, <1>2
    <3>4. (m + Word) - Word = m
      BY <1>1
    <3> QED  BY <3>2, <3>3, <3>4 DEF Signed
  <2> QED  BY <2>1, <2>2
<1>3. 2 * n < Word /\ 2 * (-n) <= Word
  BY <1>1
<1>4. n * 100 \in Int /\ 2 * (n * 100) < Word /\ 2 * (-(n * 100)) <= Word
  OBVIOUS
<1> QED  BY <1>2, <1>3, <1>4

\* The manager's distance between PTS and PCR is that of the stream times, also over the wrap
\* of the PCR.
LEMMA DeltaIs ==
  ASSUME TypeOK, Deadlines, Foreseen, NEW t \in Times, Arrives(t)
  PROVE  BaseFor(PTS(t)) = FirstPTS /\ ~(PTS(t) < FirstPTS) /\ Delta(PTS(t)) = t - Now
         /\ Signed((t - Now) * 100) = (t - Now) * 100 /\ (PCR = 0 => t >= Now)
<1>1. /\ Wrap \in Nat /\ Wrap > 0 /\ HalfDay \in Nat /\ FirstPTS \in Nat /\ FirstPTS < Wrap
      /\ t \in Nat /\ video \in Nat
  BY Constants DEF TypeOK
<1> DEFINE pts == PTS(t)
           n == Now \div Wrap
           q == (FirstPTS + t) \div Wrap
<1>2. Now \in Nat
  BY <1>1, DivMod DEF Now
<1>3. n \in Int /\ PCR \in 0 .. Wrap - 1 /\ Now = Wrap * n + PCR
  BY <1>1, <1>2, DivMod DEF PCR
<1>4. q \in Int /\ pts \in 0 .. Wrap - 1 /\ FirstPTS + t = Wrap * q + pts
  BY <1>1, DivMod DEF PTS
<1>5. ~(pts < FirstPTS)
  BY DEF Foreseen, Arrives
<1>6. BaseFor(pts) = FirstPTS
  <2>1. CASE base = 0
    <3>1. t = 0
      BY <2>1 DEF Arrives, Foreseen
    <3>2. FirstPTS + t = FirstPTS /\ FirstPTS = Wrap * 0 + FirstPTS /\ FirstPTS \in 0 .. Wrap - 1
      BY <1>1, <3>1
    <3>3. FirstPTS % Wrap = FirstPTS
      BY <1>1, <3>2, DivUnique
    <3> QED  BY <2>1, <3>2, <3>3 DEF BaseFor, PTS
  <2>2. CASE base # 0
    BY <2>2 DEF Deadlines, BaseFor
  <2> QED  BY <2>1, <2>2
<1> DEFINE ms == pts - FirstPTS
<1>7. ms \in 0 .. Wrap - 1 /\ t = Wrap * q + ms
  <2>1. Wrap * q \in Int
    BY <1>1, <1>4
  <2> HIDE DEF q, pts
  <2> QED  BY <1>1, <1>4, <1>5, <2>1
<1>8. t \div Wrap = q
  BY <1>1, <1>4, <1>7, DivUnique
<1>9. /\ t < Now + HalfDay /\ Now < t + HalfDay
      /\ t < Now => q = n
  BY <1>8 DEF Arrives, Foreseen
<1>10. /\ PTSms(pts) = ms
       /\ Delta(pts) = Signed(IF ms < PCR /\ PCR - ms >= HalfDay THEN Wrap - PCR + ms ELSE ms - PCR)
  <2>1. PTSms(pts) = ms % Word
    <3>1. pts - FirstPTS + 0 = ms
      BY <1>1, <1>4
    <3> QED  BY <1>5, <1>6, <3>1 DEF PTSms
  <2>2. ms \in Nat /\ ms < Word /\ Word \in Nat
    BY <1>1, <1>7, Constants
  <2>3. ms % Word = ms
    BY <2>2
  <2> QED  BY <2>1, <2>3 DEF Delta
<1>17. Signed(t - Now) = t - Now /\ Signed((t - Now) * 100) = (t - Now) * 100
  <2> DEFINE k == t - Now
  <2>1. 200 * k < Word /\ 200 * (Now - t) <= Word
    BY DEF Arrives, Foreseen
  <2>2. k \in Int /\ Now - t = -k
    BY <1>1, <1>2
  <2> HIDE DEF k
  <2>3. 200 * (-k) <= Word
    BY <2>1, <2>2
  <2>4. Signed(k) = k /\ Signed(k * 100) = k * 100
    BY ONLY <2>1, <2>2, <2>3, SignedSmall
  <2> QED  BY ONLY <2>4 DEF k
<1>11. HalfDay + HalfDay <= Wrap
  BY DEF Foreseen
<1> HIDE DEF pts, n, q, ms
<1>12. Wrap * q \in Int /\ Wrap * n \in Int
  BY <1>1, <1>3, <1>4
<1>13. ASSUME q = n PROVE Delta(pts) = t - Now
  <2>1. t - Now = ms - PCR
    BY <1>2, <1>3, <1>7, <1>12, <1>13
  <2>3. ~(ms < PCR /\ PCR - ms >= HalfDay)
    BY <1>1, <1>2, <1>3, <1>7, <1>9, <2>1
  <2>4. Delta(pts) = Signed(ms - PCR)
    BY ONLY <1>10, <2>3
  <2> QED  BY ONLY <1>17, <2>1, <2>4
<1>14. ASSUME q = n + 1 PROVE Delta(pts) = t - Now
  <2>1. Wrap * q = Wrap * n + Wrap
    BY <1>1, <1>3, <1>14
  <2>2. t - Now = (Wrap - PCR) + ms
    <3> DEFINE wn == Wrap * n
    <3>1. wn \in Int /\ Now = wn + PCR /\ t = (wn + Wrap) + ms
      BY <1>3, <1>7, <1>12, <2>1
    <3> HIDE DEF wn
    <3> QED  BY <1>1, <1>3, <1>7, <3>1
  <2>3. ms < PCR /\ PCR - ms >= HalfDay
    BY <1>1, <1>2, <1>3, <1>7, <1>9, <1>11, <2>2
  <2>4. Delta(pts) = Signed(Wrap - PCR + ms)
    BY ONLY <1>10, <2>3
  <2> QED  BY ONLY <1>17, <2>2, <2>4
<1>15. ASSUME q <= n - 1 PROVE FALSE
  <2>1. Wrap * q <= Wrap * (n - 1) /\ Wrap * (n - 1) = Wrap * n - Wrap
    BY <1>1, <1>3, <1>4, <1>15, MoreTimes
  <2>2. t < Now
    BY <1>1, <1>2, <1>3, <1>7, <1>12, <2>1
  <2> QED  BY <1>3, <1>4, <1>9, <1>15, <2>2
<1>16. ASSUME n + 2 <= q PROVE FALSE
  <2>1. Wrap * (n + 2) <= Wrap * q /\ Wrap * (n + 2) = Wrap * n + Wrap + Wrap
    BY <1>1, <1>3, <1>4, <1>16, MoreTimes
  <2>2. Now + HalfDay <= t
    BY <1>1, <1>2, <1>3, <1>7, <1>11, <1>12, <2>1
  <2> QED  BY <1>1, <1>2, <1>9, <2>2
<1>18. PCR = 0 => t >= Now
  <2> SUFFICES ASSUME PCR = 0, t < Now PROVE FALSE
    BY <1>1, <1>2
  <2>1. q = n
    BY <1>9
  <2> QED  BY <1>3, <1>7, <1>12, <2>1
<1>19. Delta(pts) = t - Now
  <2>1. q <= n - 1 \/ q = n \/ q = n + 1 \/ n + 2 <= q
    BY ONLY <1>3, <1>4
  <2> QED  BY ONLY <2>1, <1>13, <1>14, <1>15, <1>16
<1> QED  BY ONLY <1>5, <1>6, <1>17, <1>18, <1>19 DEF pts

-----------------------------------------------------------------------------
(* A new request                                                           *)

\* A request made at speed v, with the video at x, for stream time t: how far that is, scaled
\* by the speed, clamped and with the lead time, where it is due and when its timer expires.
Firing(v, x, t, clamp, lead, slack, far, scaled, delay, at, due, ms) ==
  /\ v \in Nat /\ v > 0 /\ x \in Nat /\ t \in Nat /\ clamp \in Nat /\ clamp > 0
  /\ lead \in Nat /\ slack \in Nat /\ 100 <= slack /\ v <= slack
  /\ \A n \in Nat : (n * 100) % v <= slack
  /\ far \in Int /\ far = (t - x \div 100) * 100
  /\ scaled = IF far < 0 THEN -((-far) \div v) ELSE far \div v
  /\ delay \in Int /\ delay = IF scaled > clamp THEN clamp ELSE scaled
  /\ far < 0 \/ delay < 0 => lead = 0
  /\ at = IF t * 100 < x THEN x ELSE t * 100
  /\ due = (IF at > x + clamp * v THEN x + clamp * v ELSE at) + lead * v
  /\ ms = IF delay + lead <= 0 THEN 1 ELSE delay + lead

\* Such a timer expires where the request is due, but for what the division by the speed, the
\* PCR in whole milliseconds and the millisecond of a late request lose.
LEMMA FiresWhenDue ==
  ASSUME NEW v, NEW x, NEW t, NEW clamp, NEW lead, NEW slack, NEW far, NEW scaled, NEW delay,
         NEW at, NEW due, NEW ms,
         Firing(v, x, t, clamp, lead, slack, far, scaled, delay, at, due, ms)
  PROVE  x + ms * v <= due + slack /\ due <= x + ms * v + slack /\ ms <= clamp + lead
<1> USE DEF Firing
<1> DEFINE now == x \div 100
           r == x % 100
           d == far \div v
           rem == far % v
<1>1. now \in Nat /\ r \in 0 .. 99 /\ x = 100 * now + r
  BY DivMod
<1>2. far \in Int /\ far = (t - now) * 100 /\ far = t * 100 - x + r
  BY <1>1
<1>3. d \in Int /\ rem \in 0 .. v - 1 /\ far = v * d + rem
  BY <1>2, DivMod
<1>4. /\ far >= 0 => delay = IF d > clamp THEN clamp ELSE d
      /\ far < 0 => d < 0 /\ delay <= 0 /\ lead = 0
  <2>1. CASE far >= 0
    BY <2>1
  <2>2. CASE far < 0
    <3>1. -far \in Nat /\ (-far) \div v \in Nat
      BY <2>2, DivMod
    <3>2. delay <= 0 /\ lead = 0
      BY <2>2, <3>1
    <3>3. d < 0
      <4>1. ASSUME d >= 0 PROVE FALSE
        <5>1. v * d \in Nat
          BY <1>3, <4>1, ProductNat
        <5> HIDE DEF d, rem
        <5> QED  BY <1>3, <2>2, <5>1
      <4> QED  BY <1>3, <4>1
    <3> QED  BY <2>2, <3>2, <3>3
  <2> QED  BY <1>2, <2>1, <2>2
<1>5. far >= 0 => rem <= slack
  <2>1. ASSUME far >= 0 PROVE t - now \in Nat
    BY <1>1, <1>2, <2>1
  <2> QED  BY <1>2, <2>1
<1> HIDE DEF now, r, d, rem
<1>6. lead * v \in Nat /\ clamp * v \in Nat /\ v * d \in Int /\ clamp * v = v * clamp
  BY <1>3, ProductNat
<1>7. at \in Nat /\ x <= at /\ x <= due - lead * v /\ due - lead * v <= x + clamp * v
      /\ due - lead * v <= at
      /\ (due - lead * v = at \/ due - lead * v = x + clamp * v)
  BY <1>1, <1>6
<1>8. CASE delay + lead <= 0
  <2>1. d <= 0 /\ ms = 1 /\ lead = 0
    BY <1>2, <1>3, <1>4, <1>8
  <2>2. v * d <= 0
    <3>1. v * d <= v * 0 /\ v * 0 = 0
      BY <1>3, <2>1, MoreTimes
    <3> QED  BY <3>1
  <2>3. far < v
    BY <1>2, <1>3, <1>6, <2>2
  <2>4. at <= x + v
    BY <1>1, <1>2, <2>3
  <2>5. ms * v = v /\ lead * v = 0
    BY <2>1
  <2> QED  BY <1>7, <2>1, <2>4, <2>5
<1>9. CASE ~(delay + lead <= 0)
  <2>0. far >= 0 /\ delay = IF d > clamp THEN clamp ELSE d
    <3>1. ASSUME far < 0 PROVE FALSE
      BY <1>4, <1>9, <3>1
    <3>2. far >= 0
      BY <1>2, <3>1
    <3> QED  BY <1>4, <3>2
  <2>1. ms = delay + lead /\ delay >= 0 /\ delay <= clamp /\ d >= 0 /\ ms \in Nat
    BY <1>3, <1>9, <2>0
  <2>2. ms * v = delay * v + lead * v /\ delay * v \in Nat
    <3>1. delay \in Nat
      BY <2>1
    <3> QED  BY <2>1, <3>1, ProductNat
  <2>3. v * d >= 0
    BY <1>3, <2>1, ProductNat
  <2>4. far >= 0 /\ rem <= slack
    BY <1>2, <1>3, <1>5, <1>6, <2>3
  <2>5. CASE d > clamp
    <3>1. delay = clamp
      BY <2>0, <2>5
    <3>2. v * (clamp + 1) <= v * d /\ v * (clamp + 1) = v * clamp + v
      BY <1>3, <2>5, MoreTimes
    <3>3. t * 100 >= x + clamp * v - r
      BY <1>1, <1>2, <1>3, <1>6, <3>2
    <3>4. x + clamp * v - 100 <= at
      BY <1>1, <1>6, <3>3
    <3>5. ms * v = clamp * v + lead * v
      BY <2>2, <3>1
    <3> QED  BY <1>1, <1>6, <1>7, <2>1, <3>4, <3>5
  <2>6. CASE ~(d > clamp)
    <3>1. delay = d /\ delay * v = v * d
      BY <1>3, <2>0, <2>6
    <3>2. v * d <= clamp * v
      BY <1>3, <1>6, <2>6, MoreTimes
    <3>3. v * d = t * 100 - x + r - rem
      BY <1>1, <1>2, <1>3, <1>6
    <3>4. at <= x + v * d + rem
      <4>1. t * 100 <= x + v * d + rem
        BY <1>1, <1>3, <3>3
      <4> QED  BY <1>1, <1>3, <2>3, <4>1
    <3>5. x + v * d <= at + 100
      BY <1>1, <1>3, <3>3
    <3>6. ms * v = v * d + lead * v
      BY <2>2, <3>1
    <3> DEFINE to == due - lead * v
    <3>7. x + v * d <= to + slack
      BY <1>6, <1>7, <3>2, <3>5
    <3>8. to <= x + v * d + slack
      BY <1>3, <1>6, <1>7, <2>4, <3>4
    <3>9. due = to + lead * v /\ to \in Int
      BY <1>6, <1>7
    <3> HIDE DEF to
    <3> QED  BY <1>3, <1>6, <2>1, <3>6, <3>7, <3>8, <3>9
  <2> QED  BY <2>5, <2>6
<1> QED  BY <1>8, <1>9

\* A request registered at a forward speed, while the video plays, fires when it is due.
LEMMA RegisteredOnTime ==
  ASSUME TypeOK, Deadlines, Foreseen, NEW t \in Times, Arrives(t), speed > 0,
         NEW delay, delay = Delay(PTS(t)),
         NEW req, req = [ptsValue |-> PTS(t), current_speed |-> speed, time_left |-> 0,
                         reason |-> "PTS_PRESENTED", left |-> Timeout(delay + LeadFor(delay)),
                         running |-> TRUE, due |-> DueFor(t, LeadFor(delay))]
  PROVE  OnTime(req, video, playing, Slack)
<1> DEFINE lead == LeadFor(delay)
           ms == Timeout(delay + lead)
           due == DueFor(t, lead)
           at == IF t * 100 < video THEN video ELSE t * 100
<1> SUFFICES ASSUME playing # 0 PROVE OnTime(req, video, playing, Slack)
  BY DEF OnTime, DueFor
<1>1. /\ speed \in Nat /\ video \in Nat /\ t \in Nat /\ MaxDelay \in Nat /\ MaxDelay > 0
      /\ Lead \in Nat /\ Word \in Nat /\ lead \in Nat /\ lead <= Lead /\ speed \in Speeds
      /\ playing = speed /\ speed > 0
  BY Constants DEF TypeOK, LeadFor, Deadlines
<1> DEFINE far == (t - video \div 100) * 100
           scaled == IF far < 0 THEN -((-far) \div speed) ELSE far \div speed
<1>2. /\ Delta(PTS(t)) = t - video \div 100 /\ Signed(far) = far
      /\ PCR = 0 => t >= video \div 100
  BY DeltaIs DEF Now
<1>3. delay = IF scaled > MaxDelay THEN MaxDelay ELSE scaled
  BY <1>2 DEF Delay, Scaled
<1>5. delay \in Int
  BY <1>1, Numbers, DelayBounded
<1>4. far < 0 \/ delay < 0 => lead = 0
  <2>1. video \div 100 \in Int
    BY <1>1, DivInt
  <2>2. CASE far < 0
    <3>1. ~(t >= video \div 100)
      BY <1>1, <2>1, <2>2
    <3>2. PCR # 0
      BY ONLY <1>2, <3>1
    <3> QED  BY ONLY <3>2 DEF LeadFor
  <2>3. CASE delay < 0
    <3>1. ~(delay >= 0)
      BY ONLY <1>5, <2>3
    <3> QED  BY ONLY <3>1 DEF LeadFor
  <2> QED  BY ONLY <2>2, <2>3
<1>15. far \in Int
  <2>1. video \div 100 \in Int
    BY <1>1, DivInt
  <2> QED  BY <1>1, <2>1
<1>6. Slack \in Nat /\ 100 <= Slack /\ speed <= Slack /\ Rounding <= Slack /\ Rounding \in Nat
  <2>1. CASE changes = 0
    BY <1>1, <2>1, SlackIs DEF Foreseen, Deadlines
  <2>2. CASE changes # 0
    BY <1>1, <2>2, SlackIs DEF Foreseen
  <2> QED  BY <2>1, <2>2
<1>7. \A n \in Nat : (n * 100) % speed <= Slack
  <2> SUFFICES ASSUME NEW n \in Nat PROVE (n * 100) % speed <= Slack
    OBVIOUS
  <2>1. ((0 * speed) % 100) + ((n * 100) % speed) <= Rounding
    BY <1>1 DEF Foreseen
  <2>2. (0 * speed) % 100 = 0
    BY <1>1
  <2>3. (n * 100) % speed \in Int
    BY <1>1, ModRange
  <2> QED  BY <1>6, <2>1, <2>2, <2>3
<1>8. due = (IF at > video + MaxDelay * speed THEN video + MaxDelay * speed ELSE at)
            + lead * speed
  BY DEF DueFor
<1>9. ms = IF delay + lead <= 0 THEN 1 ELSE delay + lead
  BY DEF Timeout
<1>10. req.left = ms /\ req.due = due /\ req.running /\ req.current_speed = speed
  BY DEF ms, due, lead
<1>16. /\ far = (t - video \div 100) * 100
       /\ scaled = IF far < 0 THEN -((-far) \div speed) ELSE far \div speed
       /\ at = IF t * 100 < video THEN video ELSE t * 100
  OBVIOUS
<1> HIDE DEF lead, ms, due, at, far, scaled
<1>11. /\ video + ms * speed <= due + Slack /\ due <= video + ms * speed + Slack
       /\ ms <= MaxDelay + lead
  <2>1. Firing(speed, video, t, MaxDelay, lead, Slack, far, scaled, delay, at, due, ms)
    BY ONLY <1>1, <1>3, <1>4, <1>5, <1>6, <1>7, <1>8, <1>9, <1>15, <1>16 DEF Firing
  <2> QED  BY ONLY <2>1, FiresWhenDue
<1>12. ms * speed < Word
  <2>1. ms \in Nat /\ ms <= MaxDelay + Lead
    BY <1>1, <1>5, <1>9, <1>11
  <2>2. speed * ms <= speed * (MaxDelay + Lead)
    BY <1>1, <2>1, MoreTimes
  <2>3. (MaxDelay + Lead) * speed < Word
    BY <1>1 DEF Foreseen
  <2> QED  BY <1>1, <2>1, <2>2, <2>3
<1>13. ms * speed \in Int
  BY <1>1, <1>5, <1>9
<1>14. Point(req, video, playing) = video + ms * speed
  BY <1>1, <1>10 DEF Point
<1> QED  BY <1>1, <1>10, <1>11, <1>12, <1>13, <1>14 DEF OnTime

\* A request that nothing is promised of.
LEMMA NothingPromised ==
  ASSUME NEW req, req.due = Never, NEW at, NEW rate, NEW slack
  PROVE  OnTime(req, at, rate, slack)
BY DEF OnTime

\* A request more in the list.
LEMMA OneMoreOnTime ==
  ASSUME Inv, Deadlines, NEW pts \in 0 .. Wrap - 1, NEW reason, NEW timeout, NEW due,
         requests' = Registered(pts, reason, timeout, due),
         UNCHANGED << video, playing, speed, changes >>, base' \in {0, FirstPTS},
         OnTime([ptsValue |-> pts, current_speed |-> speed, time_left |-> 0, reason |-> reason,
                 left |-> timeout, running |-> TRUE, due |-> due], video, playing, Slack)
  PROVE  Deadlines'
<1> DEFINE req == [ptsValue |-> pts, current_speed |-> speed, time_left |-> 0,
                   reason |-> reason, left |-> timeout, running |-> TRUE, due |-> due]
<1>1. OnTime(req, video, playing, Slack) /\ requests' = Append(requests, req)
  BY DEF Registered
<1> HIDE DEF req
<1>2. requests \in Seq(Request) /\ DOMAIN requests = 1 .. Len(requests) /\ Len(requests) \in Nat
  BY LenProperties DEF Inv, TypeOK
<1>3. ASSUME NEW i \in DOMAIN requests' PROVE OnTime(requests'[i], video', playing', Slack')
  <2>1. requests'[i] = req \/ (i \in DOMAIN requests /\ requests'[i] = requests[i])
    BY <1>1, <1>2
  <2>2. Slack' = Slack
    BY DEF Slack
  <2> QED  BY <1>1, <2>1, <2>2 DEF Deadlines
<1> QED  BY <1>3 DEF Deadlines

\* Registering keeps the deadlines.
LEMMA RegisterKeepsDeadlines ==
  ASSUME Inv, Deadlines, Foreseen, RegisterPTS
  PROVE  Deadlines'
<1>1. PICK t \in Times : Arrives(t) /\ Register(PTS(t), t)
  BY DEF RegisterPTS
<1>2. TypeOK /\ PTS(t) \in 0 .. Wrap - 1 /\ BaseFor(PTS(t)) = FirstPTS
  BY <1>1, Numbers, DeltaIs DEF Inv
<1> DEFINE pts == PTS(t)
<1>3. UNCHANGED << video, playing, speed, changes >> /\ base' \in {0, FirstPTS}
  BY <1>1, <1>2 DEF Register
<1>4. CASE RegisterForward(pts, t)
  <2> DEFINE delay == Delay(pts)
  <2>1. requests' = Registered(pts, "PTS_PRESENTED", Timeout(delay + LeadFor(delay)),
                               DueFor(t, LeadFor(delay)))
    BY <1>4 DEF RegisterForward
  <2>2. speed > 0
    BY <1>4 DEF RegisterForward
  <2> DEFINE req == [ptsValue |-> PTS(t), current_speed |-> speed, time_left |-> 0,
                     reason |-> "PTS_PRESENTED", left |-> Timeout(delay + LeadFor(delay)),
                     running |-> TRUE, due |-> DueFor(t, LeadFor(delay))]
  <2>3. OnTime(req, video, playing, Slack)
    BY <1>1, <1>2, <2>2, RegisteredOnTime
  <2> QED  BY <1>2, <1>3, <2>1, <2>3, OneMoreOnTime
<1>5. CASE RegisterRewinding(pts)
  <2> DEFINE req == [ptsValue |-> pts, current_speed |-> speed, time_left |-> 0,
                     reason |-> "PTS_INVALID", left |-> 5, running |-> TRUE, due |-> Never]
  <2>1. OnTime(req, video, playing, Slack)
    BY NothingPromised
  <2>2. requests' = Registered(pts, "PTS_INVALID", 5, Never)
    BY <1>5 DEF RegisterRewinding
  <2> QED  BY <1>2, <1>3, <2>1, <2>2, OneMoreOnTime
<1>6. ASSUME UNCHANGED requests PROVE Deadlines'
  <2>1. Slack' = Slack
    BY <1>3 DEF Slack
  <2>2. \A i \in DOMAIN requests' : OnTime(requests'[i], video', playing', Slack')
    BY <1>3, <1>6, <2>1 DEF Deadlines
  <2> QED  BY <1>3, <2>2 DEF Deadlines
<1> QED  BY <1>1, <1>4, <1>5, <1>6 DEF Register, RegisterFrozen, RegisterWithoutPCR

-----------------------------------------------------------------------------
(* Removal and the passing of time                                         *)

LEMMA RemovalKeepsDeadlines ==
  ASSUME Inv, Deadlines, NEW i \in DOMAIN requests, requests' = RemoveAt(requests, i),
         UNCHANGED << video, playing, speed, base, first_subtitle_done, changes >>
  PROVE  Deadlines'
<1>1. requests \in Seq(Request) /\ i \in 1 .. Len(requests)
  BY LenProperties DEF Inv, TypeOK
<1>2. ASSUME NEW j \in DOMAIN requests'
      PROVE  \E k \in DOMAIN requests : requests'[j] = requests[k]
  <2> DEFINE rest == RemoveAt(requests, i)
  <2>1. /\ rest \in Seq(Request) /\ Len(rest) = Len(requests) - 1
        /\ \A k \in 1 .. Len(requests) - 1 :
             rest[k] = IF k < i THEN requests[k] ELSE requests[k + 1]
    BY <1>1, RemoveAtProperties
  <2> HIDE DEF rest
  <2>2. DOMAIN rest = 1 .. Len(requests) - 1 /\ Len(requests) \in Nat
        /\ DOMAIN requests = 1 .. Len(requests)
    BY <1>1, <2>1, LenProperties
  <2>3. j \in 1 .. Len(requests) - 1 /\ requests'[j] = rest[j]
    BY <1>2, <2>2 DEF rest
  <2>4. j \in DOMAIN requests /\ j + 1 \in DOMAIN requests
    BY <2>2, <2>3
  <2> QED  BY <2>1, <2>3, <2>4
<1>3. Slack' = Slack
  BY DEF Slack
<1>4. ASSUME NEW j \in DOMAIN requests' PROVE OnTime(requests'[j], video', playing', Slack')
  <2>1. PICK k \in DOMAIN requests : requests'[j] = requests[k]
    BY <1>2
  <2> QED  BY <1>3, <2>1 DEF Deadlines
<1> QED  BY <1>4 DEF Deadlines

\* The video comes nearer as the timers run down.
LEMMA TickKeepsDeadlines ==
  ASSUME Inv, Deadlines, Tick
  PROVE  Deadlines'
<1>1. /\ \A i \in DOMAIN requests : requests[i] \in Request
      /\ Word \in Nat /\ Word > 5 /\ playing \in Int /\ video \in Nat
  BY ElementOfSeq, Constants DEF Inv, TypeOK
<1>2. Slack' = Slack /\ Slack \in Int /\ playing' = playing
  BY SlackIs DEF Slack, Tick, Inv
<1>3. DOMAIN requests' = DOMAIN requests
  BY DEF Tick
<1>4. ASSUME NEW i \in DOMAIN requests, requests[i].due # Never
      PROVE  OnTime(requests'[i], video', playing', Slack')
  <2> DEFINE req == requests[i]
             new == requests'[i]
  <2>1. req \in Request /\ OnTime(req, video, playing, Slack) /\ ~Expired(req)
    BY <1>1 DEF Deadlines, Tick
  <2>2. playing >= 0 /\ video' = video + playing
    BY <1>1, <1>4, <2>1 DEF OnTime, Tick
  <2>3. new = IF req.running THEN [req EXCEPT !.left = @ - 1] ELSE req
    BY DEF Tick
  <2>4. req.due # Never
    BY <1>4
  <2> HIDE DEF req, new
  <2>5. CASE playing = 0
    BY <1>1, <1>2, <2>1, <2>2, <2>3, <2>4, <2>5 DEF OnTime, Point, new
  <2>6. CASE playing # 0
    <3>1. req.running /\ req.current_speed = playing
      BY <2>1, <2>4, <2>6 DEF OnTime
    <3>2. /\ new.left = req.left - 1 /\ new.due = req.due /\ new.running
          /\ new.current_speed = playing
      BY <2>1, <2>3, <3>1 DEF Request
    <3>3. req.left \in Int
      BY <1>1, <2>1 DEF Request
    <3>4. (req.left - 1) * playing = req.left * playing - playing /\ req.left * playing \in Int
      BY <1>1, <3>3
    <3>5. Point(new, video', playing') = Point(req, video, playing)
      BY <1>1, <1>2, <2>2, <2>6, <3>2, <3>4 DEF Point
    <3>6. Point(req, video, playing) \in Int
      BY <1>1, <2>6, <3>4 DEF Point
    <3> HIDE DEF Point
    <3> QED  BY <1>1, <1>2, <2>1, <2>2, <2>4, <2>6, <3>2, <3>5, <3>6 DEF OnTime, new
  <2> QED  BY <2>5, <2>6
<1>5. ASSUME NEW i \in DOMAIN requests, requests[i].due = Never
      PROVE  OnTime(requests'[i], video', playing', Slack')
  <2>1. requests[i] \in Request
    BY <1>1
  <2>2. requests'[i].due = Never
    BY <1>5, <2>1 DEF Tick, Request
  <2> QED  BY <2>2, NothingPromised
<1>6. \A i \in DOMAIN requests' : OnTime(requests'[i], video', playing', Slack')
  BY <1>3, <1>4, <1>5
<1> QED  BY <1>6 DEF Deadlines, Tick

-----------------------------------------------------------------------------
(* Changes of speed                                                        *)

LEMMA ModSmall == ASSUME NEW n \in Nat, NEW a \in 0 .. n - 1 PROVE a % n = a
OBVIOUS

\* What one change may lose: a fraction of a millisecond when the timer at speed v is read, and
\* of the new speed w when it is started again.
LEMMA LossesAreFew ==
  ASSUME Foreseen, NEW v \in Speeds, v > 0, NEW w \in Speeds, w > 0, NEW m \in Nat, NEW n \in Nat
  PROVE  ((m * v) % 100) + ((n * 100) % w) <= Rounding
BY DEF Foreseen

\* What is left to go is what the timer had, but for a fraction of a millisecond.
LEMMA ToGoIs ==
  ASSUME Foreseen, NEW req \in Request, req.due # Never, NEW at \in Nat, NEW rate \in Int,
         NEW slack, OnTime(req, at, rate, slack)
  PROVE  /\ ToGo(req) \in Nat /\ ToGo(req) * 100 \in 0 .. Word - 1
         /\ rate = 0 => Point(req, at, rate) = at + ToGo(req) * 100
         /\ rate # 0 => Point(req, at, rate) = at + ToGo(req) * 100 + ((req.left * rate) % 100)
<1>1. /\ req.left \in Nat /\ req.time_left \in Nat /\ Word \in Nat /\ rate >= 0
      /\ Point(req, at, rate) - at < Word
  BY Constants DEF Request, OnTime
<1>2. CASE rate = 0
  <2>1. req.current_speed = 0
    BY <1>2 DEF OnTime
  <2>2. ToGo(req) = req.time_left /\ Point(req, at, rate) = at + req.time_left * 100
    BY <1>2, <2>1 DEF ToGo, Point
  <2> QED  BY <1>1, <1>2, <2>2
<1>3. CASE rate # 0
  <2> DEFINE far == req.left * rate
             k == far \div 100
             r == far % 100
  <2>1. req.current_speed = rate /\ Reported(req.left) = req.left
    BY <1>3 DEF OnTime, Reported, Foreseen
  <2>2. far \in Nat /\ Point(req, at, rate) = at + far
    BY <1>1, <1>3, ProductNat DEF Point
  <2>3. far \in 0 .. Word - 1
    <3> HIDE DEF far
    <3> QED  BY <1>1, <2>2
  <2>4. far % Word = far
    BY <1>1, <2>3, ModSmall
  <2>5. ToGo(req) = k
    BY <1>3, <2>1, <2>4 DEF ToGo
  <2>6. k \in Nat /\ r \in 0 .. 99 /\ far = 100 * k + r
    <3>1. far \in Int /\ far >= 0
      BY <2>2
    <3> HIDE DEF far
    <3> QED  BY <3>1, DivMod
  <2> HIDE DEF far, k, r
  <2>7. k * 100 \in 0 .. Word - 1
    BY <1>1, <2>3, <2>6
  <2>8. Point(req, at, rate) = at + k * 100 + r
    BY <2>2, <2>6
  <2> QED  BY <1>3, <2>5, <2>6, <2>7, <2>8 DEF r, far
<1> QED  BY <1>2, <1>3

\* A request whose point moves back by no more than the slack grows stays on time.
LEMMA StaysOnTime ==
  ASSUME NEW req, NEW new, req.due \in Nat, new.due = req.due, Never \notin Nat,
         NEW at \in Nat, NEW rate \in Nat, NEW v \in Nat, NEW slack \in Nat, NEW loss \in Nat,
         NEW lost \in 0 .. loss,
         OnTime(req, at, rate, slack),
         Point(req, at, rate) \in Int, Point(new, at, v) = Point(req, at, rate) - lost,
         IF v = 0 THEN ~new.running /\ new.current_speed = 0
                  ELSE new.running /\ new.current_speed = v
  PROVE  OnTime(new, at, v, slack + loss)
<1> DEFINE p == Point(req, at, rate)
           q == Point(new, at, v)
           due == req.due
<1>1. p - at < Word /\ p <= due + slack /\ due <= p + slack
  BY DEF OnTime
<1>2. p \in Int /\ q = p - lost /\ due \in Nat /\ Word \in Nat
  BY Constants
<1> HIDE DEF p, q, due
<1>3. q - at < Word /\ q <= due + (slack + loss) /\ due <= q + (slack + loss)
  BY <1>1, <1>2
<1> QED  BY <1>3 DEF OnTime, q, due

LEMMA FrozenOnTime ==
  ASSUME TypeOK, Foreseen, NEW req \in Request, req.due # Never,
         OnTime(req, video, playing, Slack)
  PROVE  OnTime(Frozen(req), video, 0, Slack + Rounding)
<1> DEFINE new == Frozen(req)
           rest == (req.left * playing) % 100
           lost == IF playing = 0 THEN 0 ELSE rest
<1>1. /\ video \in Nat /\ playing \in Nat /\ Slack \in Nat /\ Rounding \in Nat /\ 100 <= Rounding
      /\ req.due \in Nat /\ Never \notin Nat /\ req.left \in Nat
  BY Constants, SlackIs DEF TypeOK, OnTime, Foreseen, Request, Never
<1>2. /\ new.due = req.due /\ ~new.running /\ new.current_speed = 0 /\ new.time_left = ToGo(req)
  BY DEF Frozen, Request
<1>3. rest \in 0 .. 99
  <2>1. req.left * playing \in Int
    BY <1>1
  <2> QED  BY <2>1, ModRange
<1>4. ToGo(req) * 100 \in Int
      /\ Point(req, video, playing) = video + ToGo(req) * 100 + lost
  <2>1. ToGo(req) * 100 \in Int /\ video \in Int
    BY <1>1, ToGoIs
  <2>2. playing = 0 => Point(req, video, playing) = video + ToGo(req) * 100
    BY <1>1, ToGoIs
  <2>3. playing # 0 => Point(req, video, playing) = video + ToGo(req) * 100 + rest
    BY <1>1, ToGoIs
  <2> HIDE DEF rest
  <2>4. CASE playing = 0
    BY <2>1, <2>2, <2>4
  <2>5. CASE playing # 0
    BY <2>1, <2>3, <2>5
  <2> QED  BY <2>4, <2>5
<1>5. lost \in 0 .. Rounding
  BY <1>1, <1>3
<1>6. Point(new, video, 0) = video + ToGo(req) * 100
  BY <1>2 DEF Point
<1> HIDE DEF new, lost
<1>7. /\ Point(new, video, 0) = Point(req, video, playing) - lost
      /\ Point(req, video, playing) \in Int
  BY <1>1, <1>4, <1>5, <1>6
<1>8. OnTime(new, video, 0, Slack + Rounding)
  <2>1. 0 \in Nat /\ (IF 0 = 0 THEN ~new.running /\ new.current_speed = 0
                                ELSE new.running /\ new.current_speed = 0)
    BY <1>2
  <2>2. OnTime(req, video, playing, Slack)
    OBVIOUS
  <2> QED  BY <1>1, <1>2, <1>5, <1>7, <2>1, <2>2, StaysOnTime
<1> QED  BY <1>8 DEF new

LEMMA RestartedOnTime ==
  ASSUME TypeOK, Foreseen, NEW req \in Request, req.due # Never, NEW v \in Speeds, v > 0,
         OnTime(req, video, playing, Slack)
  PROVE  OnTime(Restarted(req, v), video, v, Slack + Rounding)
<1> DEFINE new == Restarted(req, v)
           go == ToGo(req)
           left == (go * 100) \div v
           rest == (req.left * playing) % 100
           lost1 == IF playing = 0 THEN 0 ELSE rest
           lost2 == (go * 100) % v
<1>1. /\ video \in Nat /\ playing \in Nat /\ Slack \in Nat /\ Rounding \in Nat /\ v \in Nat
      /\ req.due \in Nat /\ Never \notin Nat /\ req.left \in Nat /\ Word \in Nat
  BY Constants, SlackIs DEF TypeOK, OnTime, Request, Never
<1>2. go \in Nat /\ go * 100 \in 0 .. Word - 1
  BY <1>1, ToGoIs
<1>3. (go * 100) % Word = go * 100
  <2> DEFINE far == go * 100
  <2> HIDE DEF far
  <2>1. far \in 0 .. Word - 1
    BY <1>2 DEF far
  <2> QED  BY <1>1, <2>1, ModSmall DEF far
<1>4. new.due = req.due /\ new.running /\ new.current_speed = v /\ new.left = left
  BY <1>3 DEF Restarted, Request
<1>5. go * 100 \in Int /\ Point(req, video, playing) = video + go * 100 + lost1
  <2>1. go * 100 \in Int /\ video \in Int
    BY <1>1, <1>2
  <2>2. playing = 0 => Point(req, video, playing) = video + go * 100
    BY <1>1, ToGoIs
  <2>3. playing # 0 => Point(req, video, playing) = video + go * 100 + rest
    BY <1>1, ToGoIs
  <2> HIDE DEF rest, go
  <2>4. CASE playing = 0
    BY <2>1, <2>2, <2>4
  <2>5. CASE playing # 0
    BY <2>1, <2>3, <2>5
  <2> QED  BY <2>4, <2>5
<1>6. left \in Int /\ lost2 \in 0 .. v - 1 /\ go * 100 = v * left + lost2
  BY <1>1, <1>5, DivMod
<1>7. lost1 \in Nat /\ lost1 + lost2 <= Rounding
  <2>1. CASE playing = 0
    <3>1. 0 \in Nat /\ 100 \in Speeds /\ 100 > 0 /\ go \in Nat
      BY <1>2, Constants
    <3> HIDE DEF go, left, rest
    <3>2. ((0 * 100) % 100) + lost2 <= Rounding
      BY <3>1, LossesAreFew
    <3>3. (0 * 100) % 100 = 0
      OBVIOUS
    <3>4. lost1 = 0 /\ lost2 \in Int
      BY <1>1, <1>6, <2>1
    <3> HIDE DEF lost1, lost2
    <3> QED  BY <3>2, <3>3, <3>4
  <2>2. CASE playing # 0
    <3>1. playing \in Speeds /\ playing > 0
      BY <1>1, <2>2 DEF TypeOK
    <3>2. rest + lost2 <= Rounding
      BY <1>1, <1>2, <3>1, LossesAreFew
    <3>3. rest \in 0 .. 99
      <4>1. req.left * playing \in Int
        BY <1>1
      <4> QED  BY <4>1, ModRange
    <3> QED  BY <2>2, <3>2, <3>3
  <2> QED  BY <2>1, <2>2
<1>8. Point(new, video, v) = video + left * v
  BY <1>1, <1>4 DEF Point
<1> DEFINE lost == lost1 + lost2
<1> HIDE DEF new, left, lost1, lost2, go
<1>9. lost \in 0 .. Rounding /\ left * v = v * left /\ v * left \in Int
  BY <1>1, <1>6, <1>7
<1>10. /\ Point(new, video, v) = Point(req, video, playing) - lost
       /\ Point(req, video, playing) \in Int
  BY <1>1, <1>5, <1>6, <1>7, <1>8, <1>9
<1> HIDE DEF lost
<1>11. OnTime(new, video, v, Slack + Rounding)
  <2>1. IF v = 0 THEN ~new.running /\ new.current_speed = 0
                 ELSE new.running /\ new.current_speed = v
    BY <1>1, <1>4
  <2>2. OnTime(req, video, playing, Slack)
    OBVIOUS
  <2> QED  BY <1>1, <1>4, <1>9, <1>10, <2>1, <2>2, StaysOnTime
<1> QED  BY <1>11 DEF new

\* A change of speed keeps the deadlines: going back cancels them.
LEMMA ChangeKeepsDeadlines ==
  ASSUME Inv, Deadlines, Foreseen, NEW v \in Speeds \cup {0}, Change(v),
         (v = 0 /\ speed' = speed) \/ speed' = v
  PROVE  Deadlines'
<1>1. /\ TypeOK /\ \A i \in DOMAIN requests : requests[i] \in Request
      /\ v \in Int /\ changes \in Nat /\ requests' = AtSpeed(v)
      /\ playing' = v /\ changes' = changes + 1 /\ video' = video /\ base' = base
  BY ElementOfSeq, Constants DEF Inv, TypeOK, Change
<1>2. Slack' = Slack + Rounding
  BY <1>1, SlackIs
<1>3. DOMAIN requests' = DOMAIN requests
  BY <1>1 DEF AtSpeed
<1>4. ASSUME NEW i \in DOMAIN requests PROVE OnTime(requests'[i], video', playing', Slack')
  <2> DEFINE req == requests[i]
  <2>1. req \in Request /\ OnTime(req, video, playing, Slack)
    BY <1>1 DEF Deadlines
  <2>2. requests'[i] = IF v < 0 THEN Invalidated(req, v)
                       ELSE IF v = 0 THEN Frozen(req) ELSE Restarted(req, v)
    BY <1>1 DEF AtSpeed
  <2> HIDE DEF req
  <2>3. CASE v < 0 \/ req.due = Never
    <3>1. Invalidated(req, v).due = Never
      BY <2>1 DEF Invalidated, Request
    <3>2. Frozen(req).due = req.due /\ Restarted(req, v).due = req.due
      BY <2>1 DEF Frozen, Restarted, Request
    <3>3. requests'[i].due = Never
      BY <2>2, <2>3, <3>1, <3>2
    <3> QED  BY <3>3, NothingPromised
  <2>4. CASE v = 0 /\ req.due # Never
    <3>1. OnTime(Frozen(req), video, 0, Slack + Rounding)
      BY <1>1, <2>1, <2>4, FrozenOnTime
    <3> QED  BY <1>1, <1>2, <2>2, <2>4, <3>1
  <2>5. CASE v > 0 /\ req.due # Never
    <3>1. OnTime(Restarted(req, v), video, v, Slack + Rounding)
      BY <1>1, <2>1, <2>5, RestartedOnTime
    <3> QED  BY <1>1, <1>2, <2>2, <2>5, <3>1
  <2> QED  BY <1>1, <2>3, <2>4, <2>5
<1>5. \A i \in DOMAIN requests' : OnTime(requests'[i], video', playing', Slack')
  BY <1>3, <1>4
<1>6. base' \in {0, FirstPTS} /\ (playing' # 0 => playing' = speed') /\ changes' # 0
  BY <1>1 DEF Deadlines
<1> QED  BY <1>5, <1>6 DEF Deadlines

-----------------------------------------------------------------------------
(* The theorems on time                                                    *)

LEMMA StepKeepsDeadlines ==
  ASSUME Inv, Deadlines, Foreseen, [Next]_vars
  PROVE  Deadlines'
<1>1. CASE RegisterPTS
  BY <1>1, RegisterKeepsDeadlines
<1>2. ASSUME NEW i \in DOMAIN requests, CancelPTS(i) PROVE Deadlines'
  BY <1>2, RemovalKeepsDeadlines DEF CancelPTS
<1>3. ASSUME NEW i \in DOMAIN requests, Fire(i) PROVE Deadlines'
  BY <1>3, RemovalKeepsDeadlines DEF Fire
<1>4. CASE Reset
  <2>1. DOMAIN requests' = {}
    BY <1>4 DEF Reset
  <2> QED  BY <1>4, <2>1 DEF Reset, Deadlines
<1>5. CASE Pause
  BY <1>5, ChangeKeepsDeadlines DEF Pause
<1>6. ASSUME NEW v \in Speeds, SetSpeed(v) PROVE Deadlines'
  BY <1>6, ChangeKeepsDeadlines DEF SetSpeed
<1>7. CASE Tick
  BY <1>7, TickKeepsDeadlines
<1>8. CASE UNCHANGED vars
  <2>1. Slack' = Slack
    BY <1>8 DEF vars, Slack
  <2> QED  BY <1>8, <2>1 DEF vars, Deadlines
<1> QED  BY <1>1, <1>2, <1>3, <1>4, <1>5, <1>6, <1>7, <1>8 DEF Next

LEMMA DeadlinesHold == ASSUME Foreseen PROVE Spec => [](Inv /\ Deadlines)
<1>1. Init => Inv /\ Deadlines
  BY InitHasInv, InitHasDeadlines
<1>2. Inv /\ Deadlines /\ [Next]_vars => (Inv /\ Deadlines)'
  BY StepKeepsInv, StepKeepsDeadlines
<1> QED  BY <1>1, <1>2, PTL DEF Spec

\* When nothing unusual happens, the video has not passed the point at which a pending request
\* is due, whatever changes of speed, pauses and wraps of the PCR came since it was made; the
\* divisions of LS_PTSMgrSetSpeed cost at most Rounding each time.
THEOREM RequestsAreNeverLate == ASSUME Foreseen PROVE Spec => []NeverLate
<1>1. Inv /\ Deadlines => NeverLate
  <2> SUFFICES ASSUME Inv, Deadlines, NEW i \in DOMAIN requests, requests[i].due # Never
               PROVE  video <= requests[i].due + Slack
    BY DEF NeverLate
  <2> DEFINE req == requests[i]
             ahead == IF playing = 0 THEN req.time_left * 100 ELSE req.left * playing
  <2>1. req \in Request /\ OnTime(req, video, playing, Slack)
    BY ElementOfSeq DEF Inv, TypeOK, Deadlines
  <2>2. /\ video \in Nat /\ playing \in Nat /\ Slack \in Nat /\ req.left \in Nat
        /\ req.time_left \in Nat /\ req.due \in Nat
    BY <2>1, Constants, SlackIs DEF Inv, TypeOK, OnTime, Request
  <2>3. req.time_left * 100 \in Nat /\ req.left * playing \in Nat
    BY <2>2, ProductNat
  <2>4. video + ahead <= req.due + Slack
    BY <2>1 DEF OnTime, Point
  <2>5. ahead \in Nat
    BY <2>3
  <2> HIDE DEF ahead, req
  <2>6. video <= req.due + Slack
    BY <2>2, <2>4, <2>5
  <2> QED  BY <2>6 DEF req
<1> QED  BY <1>1, DeadlinesHold, PTL

\* Under the same conditions no request fires before the video is where it is due: its timer
\* runs out when the PTS is reached, and no change of speed or resumption brings it forward.
THEOREM RequestsAreNeverEarly == ASSUME Foreseen PROVE Spec => []NeverEarly
<1>1. Inv /\ Deadlines => NeverEarly
  <2> SUFFICES ASSUME Inv, Deadlines, NEW i \in DOMAIN requests, Expired(requests[i]),
                      requests[i].due # Never
               PROVE  video + Slack >= requests[i].due
    BY DEF NeverEarly
  <2> DEFINE req == requests[i]
  <2>1. req \in Request /\ OnTime(req, video, playing, Slack)
    BY ElementOfSeq DEF Inv, TypeOK, Deadlines
  <2>2. /\ video \in Nat /\ playing \in Nat /\ Slack \in Nat /\ req.due \in Nat
    BY <2>1, Constants, SlackIs DEF Inv, TypeOK, OnTime, Request
  <2>3. req.running /\ req.left = 0
    BY DEF Expired
  <2>4. playing # 0 /\ 0 * playing = 0
    BY <2>1, <2>2, <2>3 DEF OnTime
  <2>5. Point(req, video, playing) = video
    BY <2>2, <2>3, <2>4 DEF Point
  <2>6. req.due <= video + Slack
    BY <2>1, <2>5 DEF OnTime
  <2> HIDE DEF req
  <2>7. video + Slack >= req.due
    BY <2>2, <2>6
  <2> QED  BY <2>7 DEF req
<1> QED  BY <1>1, DeadlinesHold, PTL

=============================================================================
