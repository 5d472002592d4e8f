------------------------------- MODULE SDLPlayer -------------------------------
(***************************************************************************)
(* The SDL demo (main.c, sdl_player.c) with the library and the queue of   *)
(* PES packets: main() from the initialisation of the library to its end,  *)
(* the thread that feeds the packets of a file to the queue, and a reader  *)
(* that takes them out.                                                    *)
(*                                                                         *)
(* main() itself decodes the file in its event loop and starts no thread;  *)
(* the functions that do are for a player that feeds in the background.    *)
(* It starts no second thread before it has stopped the first, which the   *)
(* code does not forbid: the handle of the first would be overwritten.     *)
(* Its reader is external: the code's timer callback does nothing.  What   *)
(* the decoder does with a packet is the matter of the other modules.      *)
(***************************************************************************)
EXTENDS Library, PESQueue

CONSTANTS
  Packets,  \* subtitle packets in the file
  MaxRuns   \* bound: how often main() is run

ASSUME PlayerAssumption ==
  /\ Packets \in Nat /\ MaxRuns \in Nat \ {0}
  /\ NULL \notin Nat /\ NULL \notin Queue(1 .. Packets)
  /\ {"feed", "reader"} \subseteq Thread

VARIABLES
  main,          \* where main() is
  feed,          \* the feeding thread and the packets it has passed
  feedTimer,     \* the reader's timer is running
  feedComplete,  \* the feeding thread has to stop
  fed,           \* ghost: packets put into the queue
  got,           \* ghost: packets that the reader has taken out
  runs

playerVars == << main, feed, feedTimer, feedComplete, fed, got, runs >>

vars == << libraryVars, queueVars, playerVars >>

Stage == {"start", "ready", "window", "renderer", "service", "created", "running", "starting",
          "joining", "closing", "quitting", "stopping", "deleting", "destroying", "finalizing",
          "failed", "gaveUp", "exited"}

TypeOK ==
  /\ held \subseteq [what : {"memory", "mutex", "units", "lostMutex"}, of : Names]
  /\ globals \subseteq {"sSystemFuncs", "gDecoderFactory", "__ptsMgr"}
  /\ service \in {"none", "NULL", "READY"} /\ failures \in 0 .. MaxFailures
  /\ queue = NULL \/ queue \in Queue(1 .. Packets)
  /\ waiting \subseteq inside /\ inside \subseteq Thread
  /\ main \in Stage
  /\ feed \in [state : {"none", "running", "done"}, pos : 0 .. Packets]
  /\ feedTimer \in BOOLEAN /\ feedComplete \in BOOLEAN
  /\ fed \in 0 .. Packets /\ got \in Seq(1 .. Packets) /\ runs \in 1 .. MaxRuns

NoFeed == [state |-> "none", pos |-> 0]

Init ==
  /\ LibraryInit /\ QueueInit
  /\ main = "start" /\ feed = NoFeed /\ feedTimer = FALSE /\ feedComplete = FALSE
  /\ fed = 0 /\ got = << >> /\ runs = 1

\* The host refuses something that is not the library's.
Refuses(refused) ==
  /\ refused => failures < MaxFailures
  /\ failures' = failures + IF refused THEN 1 ELSE 0
  /\ UNCHANGED << held, globals, service >>

-----------------------------------------------------------------------------
(* main                                                                    *)

MainGoesOn(from, to) ==
  /\ main = from /\ main' = to
  /\ UNCHANGED << feed, feedTimer, feedComplete, fed, got, runs >>

InitLibrary ==
  \E ok \in BOOLEAN :
    /\ LS_DVBSubDecInit(ok)
    /\ MainGoesOn("start", IF ok THEN "ready" ELSE "gaveUp")
    /\ UNCHANGED queueVars

CreateQueue ==
  \E ok \in BOOLEAN :
    /\ MainGoesOn("ready", IF ok THEN "window" ELSE "failed")
    /\ Refuses(~ok)
    /\ IF ok THEN pes_queue_create /\ UNCHANGED << waiting, inside >> ELSE UNCHANGED queueVars

\* The subtitle renderer, the window and its renderer.
CreateWindow ==
  \E ok \in BOOLEAN :
    /\ MainGoesOn("window", IF ok THEN "renderer" ELSE "failed")
    /\ Refuses(~ok)
    /\ UNCHANGED queueVars

CreateService ==
  \E ok \in BOOLEAN :
    /\ LS_DVBSubDecServiceNew(ok)
    /\ MainGoesOn("renderer", IF ok THEN "service" ELSE "failed")
    /\ UNCHANGED queueVars

StartService ==
  /\ LS_DVBSubDecServiceStart
  /\ MainGoesOn("service", "created")
  /\ UNCHANGED queueVars

\* Without its file the player is destroyed.
LoadPES ==
  \E ok \in BOOLEAN :
    /\ MainGoesOn("created", IF ok THEN "running" ELSE "closing")
    /\ Refuses(~ok)
    /\ UNCHANGED queueVars

\* The user closes the window.
Quit ==
  /\ MainGoesOn("running", "closing")
  /\ UNCHANGED << libraryVars, queueVars >>

\* The thread runs before the reader has its timer.
sdl_player_start_feeding ==
  /\ main = "running" /\ feed.state = "none"
  /\ feedComplete' = FALSE
  /\ \E ok \in BOOLEAN :
       /\ Refuses(~ok)
       /\ main' = IF ok THEN "starting" ELSE "running"
       /\ feed' = IF ok THEN [state |-> "running", pos |-> 0] ELSE feed
  /\ UNCHANGED << queueVars, feedTimer, fed, got, runs >>

\* SDL_AddTimer: without a timer the thread is told to stop, and nobody waits for it yet.
AddFeedTimer ==
  /\ main = "starting" /\ main' = "running"
  /\ \E ok \in BOOLEAN :
       /\ Refuses(~ok)
       /\ feedTimer' = ok /\ feedComplete' = ~ok
  /\ UNCHANGED << queueVars, feed, fed, got, runs >>

\* Up to the wait for the thread.
sdl_player_stop_feeding(from, to) ==
  /\ main = from /\ main' = to
  /\ feedComplete' = TRUE /\ feedTimer' = FALSE
  /\ pes_queue_shutdown
  /\ UNCHANGED << libraryVars, feed, fed, got, runs >>

StopFeeding == sdl_player_stop_feeding("running", "joining")

Destroy ==
  \/ (feedTimer \/ feed.state # "none") /\ sdl_player_stop_feeding("closing", "quitting")
  \/ /\ ~feedTimer /\ feed.state = "none"
     /\ MainGoesOn("closing", "stopping")
     /\ UNCHANGED << libraryVars, queueVars >>

\* pthread_join
Join ==
  /\ main \in {"joining", "quitting"} /\ feed.state # "running"
  /\ main' = IF main = "joining" THEN "running" ELSE "stopping"
  /\ feed' = NoFeed
  /\ UNCHANGED << libraryVars, queueVars, feedTimer, feedComplete, fed, got, runs >>

StopService ==
  /\ LS_DVBSubDecServiceStop
  /\ MainGoesOn("stopping", "deleting")
  /\ UNCHANGED queueVars

DeleteService ==
  /\ LS_DVBSubDecServiceDelete
  /\ MainGoesOn("deleting", "destroying")
  /\ UNCHANGED queueVars

DestroyQueue ==
  /\ pes_queue_destroy
  /\ MainGoesOn("destroying", "finalizing")
  /\ UNCHANGED libraryVars

\* After a failure sdl_player_create leaves its queue behind.
Finalize ==
  /\ LS_DVBSubDecFinalize
  /\ MainGoesOn("finalizing", "exited") \/ MainGoesOn("failed", "gaveUp")
  /\ UNCHANGED queueVars

\* main() is run again by the same process; what it has left behind stays.
Again ==
  /\ main \in {"exited", "gaveUp"} /\ runs < MaxRuns /\ runs' = runs + 1
  /\ main' = "start" /\ feed' = NoFeed /\ feedTimer' = FALSE /\ feedComplete' = FALSE
  /\ queue' = NULL /\ fed' = 0 /\ got' = << >>
  /\ UNCHANGED << libraryVars, waiting, inside >>

Done ==
  /\ main \in {"exited", "gaveUp"} /\ runs = MaxRuns
  /\ UNCHANGED vars

-----------------------------------------------------------------------------
(* The threads                                                             *)

\* pes_feeding_thread: it looks at the flag before each packet.
Feeds ==
  /\ feed.state = "running"
  /\ "feed" \in inside \/ (~feedComplete /\ feed.pos < Packets)
  /\ \E result \in {"waits", "true", "false"} :
       /\ pes_queue_enqueue("feed", feed.pos + 1, result)
       /\ Refuses(result = "false" /\ ~queue.shutdown)
       /\ feed' = CASE result = "waits" -> feed
                    [] result = "true" -> [feed EXCEPT !.pos = @ + 1]
                    [] OTHER -> [feed EXCEPT !.state = "done"]
       /\ fed' = fed + IF result = "true" THEN 1 ELSE 0
  /\ UNCHANGED << main, feedTimer, feedComplete, got, runs >>

FeedEnds ==
  /\ feed.state = "running" /\ "feed" \notin inside
  /\ feedComplete \/ feed.pos = Packets
  /\ feed' = [feed EXCEPT !.state = "done"]
  /\ UNCHANGED << libraryVars, queueVars, main, feedTimer, feedComplete, fed, got, runs >>

Reads ==
  /\ feedTimer \/ "reader" \in inside
  /\ \E packet \in 1 .. Packets \cup {NULL} :
       /\ pes_queue_dequeue("reader", packet)
       /\ got' = IF packet = NULL THEN got ELSE Append(got, packet)
  /\ UNCHANGED << libraryVars, main, feed, feedTimer, feedComplete, fed, runs >>

\* pthread_cond_wait may return without a signal.
WakesUp ==
  /\ \E t \in waiting : waiting' = waiting \ {t}
  /\ UNCHANGED << libraryVars, queue, inside, playerVars >>

MainSteps ==
  \/ InitLibrary \/ CreateQueue \/ CreateWindow \/ CreateService \/ StartService \/ LoadPES
  \/ AddFeedTimer \/ Destroy \/ Join \/ StopService \/ DeleteService \/ DestroyQueue \/ Finalize

Next ==
  \/ MainSteps
  \/ sdl_player_start_feeding \/ StopFeeding \/ Quit \/ Again \/ Done
  \/ Feeds \/ FeedEnds \/ Reads \/ WakesUp

\* The threads run; the user and the embedder may do nothing, and nobody waits for a
\* wake-up without a signal.
Fairness ==
  /\ WF_vars(MainSteps) /\ WF_vars(Feeds) /\ WF_vars(FeedEnds) /\ WF_vars(Reads)

Spec == Init /\ [][Next]_vars /\ Fairness

-----------------------------------------------------------------------------
(* Properties                                                              *)

\* A slot of the circular buffer owns a packet exactly if it is one of the count slots from
\* head on, so that pes_queue_destroy frees each packet that nobody has taken, once.
QueueSlots ==
  queue # NULL =>
    /\ queue.tail = (queue.head + queue.count) % Capacity
    /\ \A i \in Slot :
         (queue.packets[i] # NULL) = ((i - queue.head) % Capacity < queue.count)

Queued ==
  IF queue = NULL THEN << >>
  ELSE [i \in 1 .. queue.count |-> queue.packets[(queue.head + i - 1) % Capacity]]

\* The reader gets the packets of the file in order, none twice and none left out, however
\* the threads interleave and whatever is stopped or refused.
PacketsInOrder ==
  queue # NULL => got \o Queued = [i \in 1 .. fed |-> i]

\* Whatever was refused on the way, a player that has been created leaves nothing behind: no
\* thread, no timer, no queue, and nothing of the library's but the mutexes it loses.  A
\* player that could not be created leaves at most its queue and the host's functions.
ExitIsClean ==
  main \in {"exited", "gaveUp"} =>
    /\ feed.state = "none" /\ ~feedTimer /\ inside = {} /\ service = "none"
    /\ globals \subseteq {"sSystemFuncs"}
    /\ main = "exited" => queue = NULL /\ globals = {}

\* The wait for the feeding thread ends, also if it sleeps in a full queue.
StopReturns == main \in {"joining", "quitting"} ~> main \notin {"joining", "quitting"}

\* A packet that has been put into the queue reaches the reader unless the reader's timer is
\* removed: neither thread sleeps while there is something for it to do.
PacketsArrive ==
  \A n \in 1 .. Packets : fed >= n /\ feedTimer ~> Len(got) >= n \/ ~feedTimer

=============================================================================
