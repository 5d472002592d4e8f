-------------------------------- MODULE PESQueue -------------------------------
(***************************************************************************)
(* The queue of PES packets of the SDL demo (pes_queue.c): a circular      *)
(* buffer with one mutex and one condition variable, for both the threads  *)
(* that wait for room and those that wait for a packet.                    *)
(*                                                                         *)
(* A critical section is one step.  A thread that waits is inside a call;  *)
(* once it has been woken it goes on with the test of its while loop.      *)
(***************************************************************************)
EXTENDS Integers, SequencesExt

CONSTANTS
  Thread,
  Capacity,
  NULL

ASSUME QueueAssumption == Capacity \in Nat \ {0}

VARIABLES
  queue,    \* PES_Queue_t, NULL if there is none
  waiting,  \* threads in pthread_cond_wait
  inside    \* threads inside a call

queueVars == << queue, waiting, inside >>

Slot == 0 .. Capacity - 1

Queue(Packet) ==
  [packets : [Slot -> Packet \cup {NULL}], head : Slot, tail : Slot, count : 0 .. Capacity,
   shutdown : BOOLEAN]

QueueInit == queue = NULL /\ waiting = {} /\ inside = {}

pes_queue_create ==
  queue' = [packets |-> [i \in Slot |-> NULL], head |-> 0, tail |-> 0, count |-> 0,
            shutdown |-> FALSE]

\* A thread calls, or goes on after it has been woken.
Runs(t) == queue # NULL /\ t \notin waiting

\* pthread_cond_wait
Waits(t) ==
  /\ waiting' = waiting \cup {t} /\ inside' = inside \cup {t}
  /\ UNCHANGED queue

Returns(t) == inside' = inside \ {t}

\* pthread_cond_signal
Signal ==
  IF waiting = {} THEN UNCHANGED waiting
  ELSE \E t \in waiting : waiting' = waiting \ {t}

\* Variant of Full: one packet too many is taken.
FullLate == queue.count > Capacity

Full == queue.count >= Capacity

\* Variant of Stored: the packet is put in and nobody is told.
StoredSilently(p) ==
  /\ queue' = [queue EXCEPT !.packets[queue.tail] = p, !.tail = (@ + 1) % Capacity,
                            !.count = @ + 1]
  /\ UNCHANGED waiting

Stored(p) ==
  /\ queue' = [queue EXCEPT !.packets[queue.tail] = p, !.tail = (@ + 1) % Capacity,
                            !.count = @ + 1]
  /\ Signal

\* There may be no memory for the packet.
pes_queue_enqueue(t, p, result) ==
  /\ Runs(t)
  /\ IF Full /\ ~queue.shutdown THEN result = "waits" /\ Waits(t)
     ELSE /\ Returns(t)
          /\ \/ result = "false" /\ UNCHANGED << queue, waiting >>
             \/ ~queue.shutdown /\ result = "true" /\ Stored(p)

\* Variant of Removed: the slot keeps its pointer to the packet.
RemovedByCopy ==
  [queue EXCEPT !.head = (@ + 1) % Capacity, !.count = @ - 1]

Removed ==
  [queue EXCEPT !.packets[queue.head] = NULL, !.head = (@ + 1) % Capacity, !.count = @ - 1]

\* A queue that has been shut down gives out what is left in it.
pes_queue_dequeue(t, packet) ==
  /\ Runs(t)
  /\ IF queue.count > 0
       THEN packet = queue.packets[queue.head] /\ queue' = Removed /\ Signal /\ Returns(t)
       ELSE /\ packet = NULL
            /\ IF queue.shutdown THEN Returns(t) /\ UNCHANGED << queue, waiting >> ELSE Waits(t)

\* Variant of Woken: the flag is set and the threads that wait are left asleep.
WokenNobody == UNCHANGED waiting

\* pthread_cond_broadcast
Woken == waiting' = {}

pes_queue_shutdown ==
  /\ queue' = [queue EXCEPT !.shutdown = TRUE]
  /\ Woken
  /\ UNCHANGED inside

\* The threads that wait are woken and leave; usleep(10000) is taken to be long enough.
pes_queue_destroy ==
  IF queue = NULL THEN UNCHANGED queueVars
  ELSE /\ inside = {}
       /\ queue' = NULL /\ waiting' = {}
       /\ UNCHANGED inside

=============================================================================
