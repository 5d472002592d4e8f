--------------------------- MODULE SubtitleService ---------------------------
(***************************************************************************)
(* What a subtitle service promises the application that feeds it and      *)
(* owns the OSD, with no PTS manager, no timers and no page memory.        *)
(*                                                                         *)
(* A submitted subtitle waits for its time, is shown, and is dropped.  At  *)
(* most one is shown.  The last one submitted is the base the next one is  *)
(* decoded upon, so it is kept after it was shown until the next arrives.  *)
(***************************************************************************)
EXTENDS Integers, SequencesExt

CONSTANTS Subtitles, Times

VARIABLES
  open,      \* the service is started
  queue,     \* the subtitles it holds, in the order of their submission
  phase,     \* what each is doing
  time       \* when each is to be shown

vars == << open, queue, phase, time >>

Phases == {"free", "waiting", "shown", "kept"}

TypeOK ==
  /\ open \in BOOLEAN
  /\ queue \in Seq(Subtitles)
  /\ phase \in [Subtitles -> Phases]
  /\ time \in [Subtitles -> Times \cup {0}]

Held == {s \in Subtitles : phase[s] # "free"}

IsBase(s) == queue # << >> /\ s = Last(queue)

\* The next state of phase and time once some subtitles are dropped.
Dropped(f, gone, void) == [s \in Subtitles |-> IF s \in gone THEN void ELSE f[s]]

Init ==
  /\ open = FALSE
  /\ queue = << >>
  /\ phase = [s \in Subtitles |-> "free"]
  /\ time = [s \in Subtitles |-> 0]

Open ==
  /\ ~open
  /\ open' = TRUE
  /\ UNCHANGED << queue, phase, time >>

\* Stopping the service drops everything at once.
Close ==
  /\ open
  /\ open' = FALSE
  /\ queue' = << >>
  /\ phase' = Dropped(phase, Subtitles, "free")
  /\ time' = Dropped(time, Subtitles, 0)

\* The new subtitle replaces the one that was only kept as its base.
Submit(s, t) ==
  LET base == {b \in Subtitles : IsBase(b) /\ phase[b] = "kept"}
  IN  /\ open
      /\ phase[s] = "free"
      /\ queue' = Append(IF base = {} THEN queue ELSE Front(queue), s)
      /\ phase' = [Dropped(phase, base, "free") EXCEPT ![s] = "waiting"]
      /\ time' = [Dropped(time, base, 0) EXCEPT ![s] = t]
      /\ UNCHANGED open

\* A subtitle leaves the OSD: the base is kept, any other one dropped.
Hide(hidden) ==
  LET gone == {s \in hidden : ~IsBase(s)}
  IN  /\ queue' = IF gone = {} THEN queue
                  ELSE RemoveFirst(queue, CHOOSE s \in gone : TRUE)
      /\ time' = Dropped(time, gone, 0)

AfterHiding(hidden) ==
  [s \in Subtitles |-> IF s \notin hidden THEN phase[s]
                       ELSE IF IsBase(s) THEN "kept" ELSE "free"]

ShownNow == {s \in Subtitles : phase[s] = "shown"}

\* Of those waiting for the same time, the one submitted first is shown; it replaces the
\* one on the OSD.
FirstOfItsTime(i) ==
  \A k \in 1..(i - 1) : phase[queue[k]] = "waiting" => time[queue[k]] # time[queue[i]]

Show(s) ==
  /\ open
  /\ phase[s] = "waiting"
  /\ \E i \in DOMAIN queue : queue[i] = s /\ FirstOfItsTime(i)
  /\ Hide(ShownNow)
  /\ phase' = [AfterHiding(ShownNow) EXCEPT ![s] = "shown"]
  /\ UNCHANGED open

Expire(s) ==
  /\ phase[s] = "shown"
  /\ Hide({s})
  /\ phase' = AfterHiding({s})
  /\ UNCHANGED open

\* A subtitle whose time never came, and which is no longer anyone's base.
GiveUp(s) ==
  /\ phase[s] = "waiting"
  /\ ~IsBase(s)
  /\ queue' = RemoveFirst(queue, s)
  /\ phase' = Dropped(phase, {s}, "free")
  /\ time' = Dropped(time, {s}, 0)
  /\ UNCHANGED open

Next ==
  \/ Open \/ Close
  \/ \E s \in Subtitles : \/ \E t \in Times : Submit(s, t)
                          \/ Show(s) \/ Expire(s) \/ GiveUp(s)

Spec == Init /\ [][Next]_vars

=============================================================================
