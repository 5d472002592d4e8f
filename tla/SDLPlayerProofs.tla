--------------------------- MODULE SDLPlayerProofs ---------------------------
(***************************************************************************)
(* What holds of the SDL demo and of the library it initialises, for every *)
(* capacity of its queue, length of the file, number of its runs and      *)
(* number of refusals: the circular buffer owns its packets, the reader    *)
(* gets them in order, main() leaves nothing running behind it, and        *)
(* nothing of the library leaks.                                           *)
(*                                                                         *)
(* The queue alone does not say which packet comes next.  The invariant    *)
(* therefore adds that the feeding thread stands where the last packet     *)
(* went in as long as the queue is open, that a queue is shut down before  *)
(* the thread is joined and started afresh (Fed), and in which stages of   *)
(* main() there are a queue, threads and a service (Staged).               *)
(*                                                                         *)
(* What the library takes is told apart by the name of the part it belongs *)
(* to: the host's functions, the factory, the PTS manager and the service  *)
(* share no name, so that giving one back takes nothing from another.      *)
(* NothingLeaks is then inductive as it stands; what has to be shown is    *)
(* that a call that succeeds has taken all of its steps, and that one that *)
(* fails has taken only what its clean-up gives back.                      *)
(***************************************************************************)
EXTENDS SDLPlayer, SequenceTheorems, FiniteSetTheorems, TLAPS

\* The slot k places from slot h on, and how far slot i is from slot h.
Place(h, k) == (h + k) % Capacity

Distance(h, i) == (i - h) % Capacity

Slots ==
  queue # NULL =>
    /\ queue.tail = Place(queue.head, queue.count)
    /\ \A i \in Slot : queue.packets[i] # NULL <=> Distance(queue.head, i) < queue.count

\* The packets in the queue follow on what the reader has got, up to what has been fed.
Line ==
  queue # NULL =>
    /\ Len(got) + queue.count = fed
    /\ \A i \in 1 .. Len(got) : got[i] = i
    /\ \A i \in 1 .. queue.count :
         queue.packets[Place(queue.head, i - 1)] = Len(got) + i

QueueInv ==
  /\ queue # NULL => queue \in Queue(1 .. Packets)
  /\ fed \in Nat /\ got \in Seq(Nat)
  /\ Slots
  /\ Line

LEMMA Constants ==
  /\ Capacity \in Nat /\ Capacity > 0 /\ Packets \in Nat
  /\ NULL \notin Nat /\ NULL \notin Queue(1 .. Packets)
BY QueueAssumption, PlayerAssumption

-----------------------------------------------------------------------------
(* Positions in the circular buffer                                        *)

LEMMA ModRange ==
  ASSUME NEW n \in Nat, n > 0, NEW a \in Int
  PROVE  a % n \in 0 .. n - 1
OBVIOUS

LEMMA ModSmall ==
  ASSUME NEW n \in Nat, n > 0, NEW a \in Int
  PROVE  /\ 0 <= a /\ a < n => a % n = a
         /\ n <= a /\ a < n + n => a % n = a - n
         /\ 0 - n <= a /\ a < 0 => a % n = a + n
<1>1. 0 <= a /\ a < n => a % n = a
  OBVIOUS
<1>2. n <= a /\ a < n + n => a % n = a - n
  OBVIOUS
<1>3. 0 - n <= a /\ a < 0 => a % n = a + n
  OBVIOUS
<1> QED  BY <1>1, <1>2, <1>3

\* One slot further on.
LEMMA ModNext ==
  ASSUME NEW n \in Nat, n > 0, NEW h \in 0 .. n - 1, NEW c \in 0 .. n
  PROVE  (((h + c) % n) + 1) % n = (h + c + 1) % n
<1>1. CASE h + c < n - 1
  BY <1>1, ModSmall
<1>2. CASE h + c = n - 1
  <2>1. (h + c) % n = n - 1 /\ n % n = 0
    BY <1>2, ModSmall
  <2>2. ((h + c) % n) + 1 = n /\ h + c + 1 = n
    BY <1>2, <2>1
  <2> QED  BY <2>1, <2>2
<1>3. CASE n <= h + c /\ h + c + 1 < n + n
  <2>1. (h + c) % n = h + c - n /\ (h + c + 1) % n = h + c + 1 - n
    BY <1>3, ModSmall
  <2>2. ((h + c) % n) + 1 \in Int /\ 0 <= ((h + c) % n) + 1 /\ ((h + c) % n) + 1 < n
    BY <1>3, <2>1
  <2>3. (((h + c) % n) + 1) % n = ((h + c) % n) + 1
    BY <2>2, ModSmall
  <2> QED  BY <2>1, <2>3
<1>4. CASE h + c + 1 = n + n
  <2>1. h = n - 1 /\ c = n
    BY <1>4
  <2>2. (h + c) % n = n - 1
    <3>1. h + c = n + n - 1
      BY <1>4
    <3> QED  BY <3>1, ModSmall
  <2>3. (n - 1 + 1) % n = 0 /\ (n + n) % n = 0
    <3>1. n % n = 0
      BY ModSmall
    <3>2. n - 1 + 1 = n
      OBVIOUS
    <3>3. (n + n) % n = 0
      OBVIOUS
    <3> QED  BY <3>1, <3>2, <3>3
  <2> QED  BY <1>4, <2>2, <2>3
<1> QED  BY <1>1, <1>2, <1>3, <1>4

\* How far a slot is from the head, and after the head has moved on.
LEMMA Offset ==
  ASSUME NEW n \in Nat, n > 0, NEW h \in 0 .. n - 1, NEW i \in 0 .. n - 1
  PROVE  /\ (i - h) % n = IF i >= h THEN i - h ELSE i - h + n
         /\ \A c \in 0 .. n - 1 : ((i - h) % n = c) <=> (i = (h + c) % n)
<1>1. (i - h) % n = IF i >= h THEN i - h ELSE i - h + n
  <2>1. i - h \in Int /\ 0 - n <= i - h /\ i - h < n
    OBVIOUS
  <2> QED  BY <2>1, ModSmall
<1>2. ASSUME NEW c \in 0 .. n - 1 PROVE ((i - h) % n = c) <=> (i = (h + c) % n)
  <2>1. (h + c) % n = IF h + c < n THEN h + c ELSE h + c - n
    <3>1. h + c \in Int /\ 0 <= h + c /\ h + c < n + n
      OBVIOUS
    <3> QED  BY <3>1, ModSmall
  <2> QED  BY <1>1, <2>1
<1> QED  BY <1>1, <1>2

LEMMA OffsetNext ==
  ASSUME NEW n \in Nat, n > 0, NEW h \in 0 .. n - 1, NEW i \in 0 .. n - 1
  PROVE  (i - ((h + 1) % n)) % n = IF i = h THEN n - 1 ELSE ((i - h) % n) - 1
<1>1. (h + 1) % n = IF h + 1 < n THEN h + 1 ELSE 0
  <2>1. (h + 1 \in Int /\ 0 <= h + 1 /\ h + 1 < n + n) \/ n = 1
    OBVIOUS
  <2>2. CASE h + 1 < n
    BY <2>2, ModSmall
  <2>3. CASE h + 1 = n
    <3>1. n % n = 0
      BY ModSmall
    <3> QED  BY <2>3, <3>1
  <2> QED  BY <2>2, <2>3
<1>2. (i - h) % n = IF i >= h THEN i - h ELSE i - h + n
  BY Offset
<1> DEFINE k == (h + 1) % n
<1>3. k \in 0 .. n - 1
  BY <1>1
<1>4. k = IF h + 1 < n THEN h + 1 ELSE 0
  BY <1>1
<1> HIDE DEF k
<1>5. (i - k) % n = IF i >= k THEN i - k ELSE i - k + n
  BY <1>3, Offset
<1>6. (i - k) % n = IF i = h THEN n - 1 ELSE ((i - h) % n) - 1
  BY <1>2, <1>4, <1>5
<1> QED  BY <1>6 DEF k

LEMMA Places ==
  ASSUME NEW h \in Slot
  PROVE  /\ Place(h, 0) = h
         /\ \A k \in 0 .. Capacity : Place(h, k) \in Slot /\ Place(Place(h, k), 1) = Place(h, k + 1)
         /\ \A k \in 0 .. Capacity - 1 : Place(Place(h, 1), k) = Place(h, k + 1)
<1> USE Constants DEF Slot
<1>1. Place(h, 0) = h
  BY ModSmall DEF Place
<1>2. ASSUME NEW k \in 0 .. Capacity
      PROVE  Place(h, k) \in Slot /\ Place(Place(h, k), 1) = Place(h, k + 1)
  BY ModRange, ModNext DEF Place
<1>3. ASSUME NEW k \in 0 .. Capacity - 1
      PROVE  Place(Place(h, 1), k) = Place(h, k + 1)
  <2>1. CASE h + 1 < Capacity
    <3>1. Place(h, 1) = h + 1
      BY <2>1, ModSmall DEF Place
    <3> QED  BY <3>1 DEF Place
  <2>2. CASE h + 1 = Capacity
    <3>1. Place(h, 1) = 0
      BY <2>2, ModSmall DEF Place
    <3>2. Place(0, k) = k
      BY ModSmall DEF Place
    <3>3. Place(h, k + 1) = k
      <4>1. h + (k + 1) = Capacity + k
        BY <2>2
      <4>2. (Capacity + k) % Capacity = k
        <5>1. Capacity + k \in Int /\ Capacity <= Capacity + k
              /\ Capacity + k < Capacity + Capacity
          OBVIOUS
        <5>2. (Capacity + k) % Capacity = Capacity + k - Capacity
          BY <5>1, ModSmall
        <5> QED  BY <5>2
      <4> QED  BY <4>1, <4>2 DEF Place
    <3> QED  BY <3>1, <3>2, <3>3
  <2> QED  BY <2>1, <2>2
<1> QED  BY <1>1, <1>2, <1>3

LEMMA Distances ==
  ASSUME NEW h \in Slot, NEW i \in Slot
  PROVE  /\ Distance(h, i) \in 0 .. Capacity - 1
         /\ \A k \in 0 .. Capacity - 1 : Distance(h, i) = k <=> i = Place(h, k)
         /\ Distance(Place(h, 1), i) = IF i = h THEN Capacity - 1 ELSE Distance(h, i) - 1
<1> USE Constants DEF Slot
<1>1. Distance(h, i) \in 0 .. Capacity - 1
  BY ModRange DEF Distance
<1>2. \A k \in 0 .. Capacity - 1 : Distance(h, i) = k <=> i = Place(h, k)
  BY Offset DEF Distance, Place
<1>3. Distance(Place(h, 1), i) = IF i = h THEN Capacity - 1 ELSE Distance(h, i) - 1
  BY OffsetNext DEF Distance, Place
<1> QED  BY <1>1, <1>2, <1>3

-----------------------------------------------------------------------------
(* What the calls do to the queue                                          *)

LEMMA QueueFields ==
  ASSUME QueueInv, queue # NULL
  PROVE  /\ queue = [packets |-> queue.packets, head |-> queue.head, tail |-> queue.tail,
                     count |-> queue.count, shutdown |-> queue.shutdown]
         /\ queue.packets \in [Slot -> (1 .. Packets) \cup {NULL}]
         /\ queue.head \in Slot /\ queue.tail \in Slot /\ queue.count \in 0 .. Capacity
         /\ queue.shutdown \in BOOLEAN
BY DEF QueueInv, Queue

LEMMA SameKeeps ==
  ASSUME QueueInv, UNCHANGED << queue, fed, got >>
  PROVE  QueueInv'
BY DEF QueueInv, Slots, Line, Queue, Slot, Place, Distance

LEMMA NoneKeeps ==
  ASSUME queue' = NULL, fed' \in Nat, got' \in Seq(Nat)
  PROVE  QueueInv'
BY DEF QueueInv, Slots, Line

LEMMA CreateKeeps ==
  ASSUME pes_queue_create, fed' = 0, got' = << >>
  PROVE  QueueInv' /\ queue' # NULL /\ ~queue'.shutdown
<1> USE Constants
<1>1. /\ queue'.packets = [i \in Slot |-> NULL] /\ queue'.head = 0 /\ queue'.tail = 0
      /\ queue'.count = 0 /\ queue'.shutdown = FALSE
  BY DEF pes_queue_create
<1>2. queue' \in Queue(1 .. Packets)
  BY DEF pes_queue_create, Queue, Slot
<1>3. Slots'
  <2>1. 0 \in Slot /\ Place(0, 0) = 0
    BY Places DEF Slot
  <2>2. ASSUME NEW i \in Slot PROVE ~(Distance(0, i) < 0)
    BY <2>1, Distances
  <2>3. \A i \in Slot : queue'.packets[i] = NULL
    BY <1>1
  <2> QED  BY <1>1, <2>1, <2>2, <2>3 DEF Slots
<1>4. Line'
  BY <1>1 DEF Line
<1> QED  BY <1>1, <1>2, <1>3, <1>4 DEF QueueInv

LEMMA ShutdownKeeps ==
  ASSUME QueueInv, queue # NULL, pes_queue_shutdown, UNCHANGED << fed, got >>
  PROVE  QueueInv' /\ queue' # NULL /\ queue'.shutdown
<1>1. /\ queue'.packets = queue.packets /\ queue'.head = queue.head
      /\ queue'.tail = queue.tail /\ queue'.count = queue.count /\ queue'.shutdown
  BY QueueFields DEF pes_queue_shutdown
<1>2. queue' \in Queue(1 .. Packets)
  BY QueueFields DEF pes_queue_shutdown, Queue
<1> QED  BY <1>1, <1>2, Constants DEF QueueInv, Slots, Line, Place, Distance

\* The next packet goes into the slot at the tail, which is count slots from the head.
LEMMA StoredKeeps ==
  ASSUME QueueInv, queue # NULL, ~Full, fed + 1 \in 1 .. Packets, Stored(fed + 1),
         fed' = fed + 1, got' = got
  PROVE  QueueInv' /\ queue' # NULL /\ queue'.shutdown = queue.shutdown
<1> DEFINE h == queue.head
           c == queue.count
<1>1. /\ h \in Slot /\ c \in 0 .. Capacity - 1 /\ Len(got) \in Nat /\ fed \in Nat
      /\ Capacity \in Nat
  BY Constants, QueueFields DEF Full, Slot, QueueInv
<1>2. /\ queue'.packets = [queue.packets EXCEPT ![queue.tail] = fed + 1]
      /\ queue'.head = h /\ queue'.tail = Place(queue.tail, 1)
      /\ queue'.count = c + 1 /\ queue'.shutdown = queue.shutdown
  BY QueueFields DEF Stored, Place
<1>3. queue.tail = Place(h, c)
  BY DEF QueueInv, Slots
<1>4. queue.tail \in Slot /\ queue.packets \in [Slot -> (1 .. Packets) \cup {NULL}]
  BY QueueFields
<1>5. queue' \in Queue(1 .. Packets)
  <2>1. queue'.tail \in Slot
    <3>1. 1 \in 0 .. Capacity
      BY <1>1
    <3> QED  BY <1>2, <1>4, <3>1, Places
  <2>2. queue'.packets \in [Slot -> (1 .. Packets) \cup {NULL}]
    BY <1>2, <1>4
  <2>3. queue'.count \in 0 .. Capacity
    BY <1>1, <1>2
  <2>4. queue' = [packets |-> queue'.packets, head |-> queue'.head, tail |-> queue'.tail,
                  count |-> queue'.count, shutdown |-> queue'.shutdown]
    BY QueueFields DEF Stored
  <2> QED  BY <1>2, <2>1, <2>2, <2>3, <2>4, QueueFields DEF Queue
<1>6. Slots'
  <2>1. queue'.tail = Place(h, c + 1)
    <3>1. c \in 0 .. Capacity
      BY <1>1
    <3> QED  BY <1>1, <1>2, <1>3, <3>1, Places
  <2>2. ASSUME NEW i \in Slot
        PROVE  queue'.packets[i] # NULL <=> Distance(h, i) < c + 1
    <3>1. Distance(h, i) \in 0 .. Capacity - 1 /\ (Distance(h, i) = c <=> i = queue.tail)
      BY <1>1, <1>3, Distances
    <3>2. queue.packets[i] # NULL <=> Distance(h, i) < c
      BY DEF QueueInv, Slots
    <3>3. queue'.packets[i] # NULL <=> i = queue.tail \/ queue.packets[i] # NULL
      BY <1>1, <1>2, <1>4, Constants
    <3> QED  BY <1>1, <3>1, <3>2, <3>3
  <2> QED  BY <1>2, <2>1, <2>2 DEF Slots, Place, Distance
<1>7. Line'
  <2>1. Len(got) + c = fed /\ (\A i \in 1 .. Len(got) : got[i] = i)
    BY DEF QueueInv, Line
  <2>2. ASSUME NEW i \in 1 .. c + 1
        PROVE  queue'.packets[Place(h, i - 1)] = Len(got) + i
    <3>1. CASE i = c + 1
      <4>1. i - 1 = c /\ fed + 1 = Len(got) + i
        BY <1>1, <2>1, <3>1
      <4> QED  BY <1>2, <1>3, <1>4, <4>1
    <3>2. CASE i # c + 1
      <4>1. i - 1 \in 0 .. Capacity - 1 /\ i - 1 \in 0 .. Capacity /\ i - 1 # c /\ i \in 1 .. c
        BY <1>1, <3>2
      <4>2. Place(h, i - 1) \in Slot
        BY <1>1, <4>1, Places
      <4>3. Distance(h, Place(h, i - 1)) = i - 1
        BY <1>1, <4>1, <4>2, Distances
      <4>4. Place(h, i - 1) # queue.tail
        BY <1>1, <1>3, <1>4, <4>1, <4>3, Distances
      <4>5. queue.packets[Place(h, i - 1)] = Len(got) + i
        BY <4>1 DEF QueueInv, Line
      <4> QED  BY <1>2, <1>4, <4>2, <4>4, <4>5
    <3> QED  BY <3>1, <3>2
  <2>3. Len(got') + queue'.count = fed'
    <3>1. Len(got') = Len(got) /\ queue'.count = c + 1 /\ fed' = fed + 1
      BY <1>2
    <3>2. c \in Nat
      BY <1>1
    <3> HIDE DEF c
    <3> QED  BY <1>1, <2>1, <3>1, <3>2
  <2> QED  BY <1>2, <2>1, <2>2, <2>3 DEF Line, Place
<1> QED  BY <1>1, <1>2, <1>5, <1>6, <1>7, Constants DEF QueueInv

\* The packet at the head is the next the reader has to get.
LEMMA RemovedKeeps ==
  ASSUME QueueInv, queue # NULL, queue.count > 0, queue' = Removed, fed' = fed,
         got' = Append(got, queue.packets[queue.head])
  PROVE  QueueInv' /\ queue' # NULL /\ queue'.shutdown = queue.shutdown
<1> DEFINE h == queue.head
           c == queue.count
<1>1. /\ h \in Slot /\ c \in 1 .. Capacity /\ Len(got) \in Nat /\ got \in Seq(Nat)
      /\ fed \in Nat /\ Capacity \in Nat /\ Capacity > 0
  BY Constants, QueueFields DEF QueueInv
<1>2. /\ queue'.packets = [queue.packets EXCEPT ![h] = NULL]
      /\ queue'.head = Place(h, 1) /\ queue'.tail = queue.tail
      /\ queue'.count = c - 1 /\ queue'.shutdown = queue.shutdown
  BY QueueFields DEF Removed, Place
<1>3. queue.packets \in [Slot -> (1 .. Packets) \cup {NULL}]
  BY QueueFields
<1>4. queue' \in Queue(1 .. Packets)
  <2>1. queue'.head \in Slot
    <3>1. 1 \in 0 .. Capacity
      BY <1>1
    <3> QED  BY <1>1, <1>2, <3>1, Places
  <2>2. queue'.packets \in [Slot -> (1 .. Packets) \cup {NULL}]
    BY <1>2, <1>3
  <2>3. queue'.count \in 0 .. Capacity
    BY <1>1, <1>2
  <2>4. queue' = [packets |-> queue'.packets, head |-> queue'.head, tail |-> queue'.tail,
                  count |-> queue'.count, shutdown |-> queue'.shutdown]
    BY QueueFields DEF Removed
  <2> QED  BY <1>2, <2>1, <2>2, <2>3, <2>4, QueueFields DEF Queue
<1>5. Slots'
  <2>1. queue'.tail = Place(Place(h, 1), c - 1)
    <3>1. c - 1 \in 0 .. Capacity - 1 /\ c - 1 + 1 = c
      BY <1>1
    <3>2. queue.tail = Place(h, c)
      BY DEF QueueInv, Slots
    <3>3. Place(Place(h, 1), c - 1) = Place(h, c - 1 + 1)
      BY <1>1, <3>1, Places
    <3> QED  BY <1>2, <3>1, <3>2, <3>3
  <2>2. ASSUME NEW i \in Slot
        PROVE  queue'.packets[i] # NULL <=> Distance(Place(h, 1), i) < c - 1
    <3>1. Distance(Place(h, 1), i) = IF i = h THEN Capacity - 1 ELSE Distance(h, i) - 1
      BY <1>1, Distances
    <3>2. queue.packets[i] # NULL <=> Distance(h, i) < c
      BY DEF QueueInv, Slots
    <3>3. queue'.packets[i] # NULL <=> i # h /\ queue.packets[i] # NULL
      BY <1>1, <1>2, <1>3
    <3>4. Distance(h, i) \in Int
      BY <1>1, Distances
    <3> QED  BY <1>1, <3>1, <3>2, <3>3, <3>4
  <2> QED  BY <1>2, <2>1, <2>2 DEF Slots, Place, Distance
<1>6. queue.packets[h] = Len(got) + 1
  <2>1. 1 \in 1 .. c /\ 1 - 1 = 0
    BY <1>1
  <2>2. Place(h, 0) = h
    BY <1>1, Places
  <2>3. queue.packets[Place(h, 1 - 1)] = Len(got) + 1
    BY <2>1 DEF QueueInv, Line
  <2> QED  BY <2>1, <2>2, <2>3
<1>7. /\ got' \in Seq(Nat) /\ Len(got') = Len(got) + 1
      /\ \A i \in 1 .. Len(got) : got'[i] = got[i]
      /\ got'[Len(got) + 1] = Len(got) + 1
  <2>1. Len(got) + 1 \in Nat
    BY <1>1
  <2>2. got' = Append(got, Len(got) + 1)
    BY <1>6
  <2> QED  BY <1>1, <2>1, <2>2, AppendProperties
<1>8. Line'
  <2>1. Len(got) + c = fed /\ (\A i \in 1 .. Len(got) : got[i] = i)
    BY DEF QueueInv, Line
  <2>2. \A i \in 1 .. Len(got') : got'[i] = i
    BY <1>1, <1>7, <2>1
  <2>3. ASSUME NEW i \in 1 .. c - 1
        PROVE  queue'.packets[Place(Place(h, 1), i - 1)] = Len(got) + 1 + i
    <3>1. /\ i \in 0 .. Capacity - 1 /\ i \in 0 .. Capacity /\ i # 0
          /\ i - 1 \in 0 .. Capacity - 1 /\ i - 1 + 1 = i
          /\ i + 1 \in 1 .. c /\ i + 1 - 1 = i
      BY <1>1
    <3>2. Place(Place(h, 1), i - 1) = Place(h, i - 1 + 1)
      BY <1>1, <3>1, Places
    <3>3. Place(h, i) \in Slot
      BY <1>1, <3>1, Places
    <3>4. Place(h, i) # h
      <4>1. Place(h, 0) = h /\ 0 \in 0 .. Capacity - 1
        BY <1>1, Places
      <4>2. Distance(h, Place(h, i)) = i
        BY <1>1, <3>1, <3>3, Distances
      <4>3. Distance(h, h) = 0
        BY <1>1, <4>1, Distances
      <4> QED  BY <3>1, <4>2, <4>3
    <3>5. queue.packets[Place(h, i + 1 - 1)] = Len(got) + (i + 1)
      BY <3>1 DEF QueueInv, Line
    <3>6. queue'.packets[Place(h, i)] = queue.packets[Place(h, i)]
      BY <1>2, <1>3, <3>3, <3>4
    <3>7. Len(got) + (i + 1) = Len(got) + 1 + i
      BY <1>1
    <3> QED  BY <3>1, <3>2, <3>5, <3>6, <3>7
  <2>4. Len(got') + queue'.count = fed'
    <3>1. queue'.count = c - 1 /\ c \in Int
      BY <1>1, <1>2
    <3> HIDE DEF c
    <3> QED  BY <1>1, <1>7, <2>1, <3>1
  <2>5. \A i \in 1 .. queue'.count : queue'.packets[Place(queue'.head, i - 1)] = Len(got') + i
    BY <1>2, <1>7, <2>3
  <2> QED  BY <2>2, <2>4, <2>5 DEF Line, Place
<1> QED  BY <1>1, <1>2, <1>4, <1>5, <1>7, <1>8, Constants DEF QueueInv

-----------------------------------------------------------------------------
(* main() and its threads                                                  *)

\* Stages with a queue, those in which the feeding thread and the reader's timer may run,
\* and those in which the reader may be inside the queue.
Opened == {"window", "renderer", "service", "created", "running", "starting", "joining",
           "closing", "quitting", "stopping", "deleting", "destroying"}

Feeding == {"running", "starting", "joining", "closing", "quitting"}

Reading == Feeding \cup {"stopping", "deleting", "destroying"}

Serving == {"service", "created", "running", "starting", "joining", "closing", "quitting",
            "stopping", "deleting"}

FeedShape ==
  /\ feed \in [state : {"none", "running", "done"}, pos : 0 .. Packets]
  /\ feed.state = "none" => feed.pos = 0
  /\ inside \subseteq {"feed", "reader"}
  /\ "feed" \in inside => feed.state = "running" /\ feed.pos < Packets

\* As long as the queue is open, the thread stands where the last packet went in.
Fed == queue # NULL /\ ~queue.shutdown => feed.pos = fed

Staged ==
  /\ main \in Stage
  /\ main \in Opened => queue # NULL
  /\ main \in {"start", "ready"} => queue = NULL /\ fed = 0 /\ got = << >>
  /\ main \in {"finalizing", "exited"} => queue = NULL
  /\ main \notin Feeding => feed.state = "none"
  /\ main = "starting" => feed.state # "none"
  /\ main \notin {"running", "closing"} \/ feed.state = "none" => ~feedTimer
  /\ main \in {"joining", "quitting"} => queue.shutdown
  /\ main \notin Reading => inside = {}
  /\ main \notin Serving => service = "none"
  /\ main = "deleting" => service = "NULL"
  /\ main = "exited" => globals = {}
  /\ main = "gaveUp" => globals \subseteq {"sSystemFuncs"}

PlayerInv == QueueInv /\ FeedShape /\ Fed /\ Staged

LEMMA InitIsSound == Init => PlayerInv
<1> SUFFICES ASSUME Init PROVE PlayerInv
  OBVIOUS
<1>1. QueueInv
  BY DEF Init, QueueInit, QueueInv, Slots, Line
<1>2. FeedShape /\ Fed
  BY Constants DEF Init, QueueInit, NoFeed, FeedShape, Fed
<1>3. Staged
  BY DEF Init, QueueInit, LibraryInit, NoFeed, Staged, Stage, Opened, Feeding, Reading, Serving
<1> QED  BY <1>1, <1>2, <1>3 DEF PlayerInv

\* A step of main() that does not touch the queue.
LEMMA GoesOnKeeps ==
  ASSUME PlayerInv, NEW from, NEW to, MainGoesOn(from, to), UNCHANGED queueVars
  PROVE  QueueInv' /\ FeedShape' /\ Fed'
<1>1. QueueInv'
  BY SameKeeps DEF PlayerInv, MainGoesOn, queueVars
<1>2. FeedShape' /\ Fed'
  BY DEF PlayerInv, MainGoesOn, queueVars, FeedShape, Fed
<1> QED  BY <1>1, <1>2

\* The steps of main() before and after there is a queue, and those that leave it alone.
LEMMA LifeKeeps ==
  ASSUME PlayerInv,
         InitLibrary \/ CreateWindow \/ CreateService \/ StartService \/ LoadPES \/ Quit
           \/ StopService \/ DeleteService \/ Finalize
  PROVE  PlayerInv'
<1> USE DEF MainGoesOn, Staged, Stage, Opened, Feeding, Reading, Serving, queueVars, Refuses
<1>1. CASE InitLibrary
  <2>1. PICK ok \in BOOLEAN :
          /\ LS_DVBSubDecInit(ok)
          /\ MainGoesOn("start", IF ok THEN "ready" ELSE "gaveUp")
          /\ UNCHANGED queueVars
    BY <1>1 DEF InitLibrary
  <2>2. service' = service /\ (~ok => globals' \subseteq {"sSystemFuncs"})
    BY <2>1 DEF LS_DVBSubDecInit
  <2> QED  BY <2>1, <2>2, GoesOnKeeps DEF PlayerInv
<1>2. CASE CreateWindow
  <2>1. PICK ok \in BOOLEAN :
          /\ MainGoesOn("window", IF ok THEN "renderer" ELSE "failed")
          /\ Refuses(~ok)
          /\ UNCHANGED queueVars
    BY <1>2 DEF CreateWindow
  <2> QED  BY <2>1, GoesOnKeeps DEF PlayerInv
<1>3. CASE CreateService
  <2>1. PICK ok \in BOOLEAN :
          /\ LS_DVBSubDecServiceNew(ok)
          /\ MainGoesOn("renderer", IF ok THEN "service" ELSE "failed")
          /\ UNCHANGED queueVars
    BY <1>3 DEF CreateService
  <2>2. ~ok => service' = "none"
    BY <2>1 DEF LS_DVBSubDecServiceNew
  <2> QED  BY <2>1, <2>2, GoesOnKeeps DEF PlayerInv
<1>4. CASE StartService
  BY <1>4, GoesOnKeeps DEF PlayerInv, StartService
<1>5. CASE LoadPES
  <2>1. PICK ok \in BOOLEAN :
          /\ MainGoesOn("created", IF ok THEN "running" ELSE "closing")
          /\ Refuses(~ok)
          /\ UNCHANGED queueVars
    BY <1>5 DEF LoadPES
  <2> QED  BY <2>1, GoesOnKeeps DEF PlayerInv
<1>6. CASE Quit
  BY <1>6, GoesOnKeeps DEF PlayerInv, Quit
<1>7. CASE StopService
  BY <1>7, GoesOnKeeps DEF PlayerInv, StopService, LS_DVBSubDecServiceStop
<1>8. CASE DeleteService
  BY <1>8, GoesOnKeeps DEF PlayerInv, DeleteService, LS_DVBSubDecServiceDelete
<1>9. CASE Finalize
  <2>1. globals' = {} /\ service' = service
    BY <1>9 DEF Finalize, LS_DVBSubDecFinalize
  <2>2. CASE MainGoesOn("finalizing", "exited")
    BY <1>9, <2>1, <2>2, GoesOnKeeps DEF PlayerInv, Finalize
  <2>3. CASE MainGoesOn("failed", "gaveUp")
    BY <1>9, <2>1, <2>3, GoesOnKeeps DEF PlayerInv, Finalize
  <2> QED  BY <1>9, <2>2, <2>3 DEF Finalize
<1> QED  BY <1>1, <1>2, <1>3, <1>4, <1>5, <1>6, <1>7, <1>8, <1>9

LEMMA CreateQueueKeeps ==
  ASSUME PlayerInv, CreateQueue
  PROVE  PlayerInv'
<1> USE DEF MainGoesOn, Staged, Stage, Opened, Feeding, Reading, Serving, queueVars, Refuses
<1>1. PICK ok \in BOOLEAN :
        /\ MainGoesOn("ready", IF ok THEN "window" ELSE "failed")
        /\ Refuses(~ok)
        /\ IF ok THEN pes_queue_create /\ UNCHANGED << waiting, inside >> ELSE UNCHANGED queueVars
  BY DEF CreateQueue
<1>2. CASE ok
  <2>1. fed' = 0 /\ got' = << >> /\ pes_queue_create
    BY <1>1, <1>2 DEF PlayerInv
  <2>2. QueueInv' /\ queue' # NULL /\ ~queue'.shutdown
    BY <2>1, CreateKeeps
  <2>3. FeedShape' /\ Fed'
    BY <1>1, <1>2, <2>1 DEF PlayerInv, FeedShape, Fed
  <2>4. Staged'
    BY <1>1, <1>2, <2>2 DEF PlayerInv
  <2> QED  BY <2>2, <2>3, <2>4 DEF PlayerInv
<1>3. CASE ~ok
  BY <1>1, <1>3, GoesOnKeeps DEF PlayerInv
<1> QED  BY <1>2, <1>3

LEMMA StartFeedingKeeps ==
  ASSUME PlayerInv, sdl_player_start_feeding
  PROVE  PlayerInv'
<1>1. PICK ok \in BOOLEAN :
        /\ Refuses(~ok)
        /\ main' = IF ok THEN "starting" ELSE "running"
        /\ feed' = IF ok THEN [state |-> "running", pos |-> 0] ELSE feed
  BY DEF sdl_player_start_feeding
<1>2. /\ main = "running" /\ feed.state = "none"
      /\ UNCHANGED << queueVars, feedTimer, fed, got, runs >>
  BY DEF sdl_player_start_feeding
<1>3. QueueInv'
  BY <1>2, SameKeeps DEF PlayerInv, queueVars
<1>4. FeedShape' /\ Fed'
  BY <1>1, <1>2, Constants DEF PlayerInv, FeedShape, Fed, queueVars
<1>5. Staged'
  BY <1>1, <1>2 DEF PlayerInv, Staged, Stage, Opened, Feeding, Reading, Serving, queueVars, Refuses
<1> QED  BY <1>3, <1>4, <1>5 DEF PlayerInv

LEMMA AddFeedTimerKeeps ==
  ASSUME PlayerInv, AddFeedTimer
  PROVE  PlayerInv'
<1>1. /\ main = "starting" /\ main' = "running"
      /\ UNCHANGED << queueVars, feed, fed, got, runs, service, globals >>
  BY DEF AddFeedTimer, Refuses
<1>2. QueueInv' /\ FeedShape' /\ Fed'
  BY <1>1, SameKeeps DEF PlayerInv, FeedShape, Fed, queueVars
<1>3. Staged'
  BY <1>1 DEF PlayerInv, Staged, Stage, Opened, Feeding, Reading, Serving, queueVars
<1> QED  BY <1>2, <1>3 DEF PlayerInv

LEMMA StopFeedingKeeps ==
  ASSUME PlayerInv, NEW from \in {"running", "closing"}, NEW to \in {"joining", "quitting"},
         sdl_player_stop_feeding(from, to)
  PROVE  PlayerInv'
<1>1. /\ main = from /\ main' = to /\ feedTimer' = FALSE /\ pes_queue_shutdown
      /\ UNCHANGED << libraryVars, feed, fed, got, runs >>
  BY DEF sdl_player_stop_feeding
<1>2. queue # NULL
  BY <1>1 DEF PlayerInv, Staged, Opened
<1>3. QueueInv' /\ queue' # NULL /\ queue'.shutdown
  BY <1>1, <1>2, ShutdownKeeps DEF PlayerInv
<1>4. FeedShape' /\ Fed'
  BY <1>1, <1>3 DEF PlayerInv, FeedShape, Fed, pes_queue_shutdown
<1>5. Staged'
  BY <1>1, <1>3
  DEF PlayerInv, Staged, Stage, Opened, Feeding, Reading, Serving, pes_queue_shutdown, libraryVars
<1> QED  BY <1>3, <1>4, <1>5 DEF PlayerInv

LEMMA DestroyKeeps ==
  ASSUME PlayerInv, Destroy
  PROVE  PlayerInv'
<1>1. CASE sdl_player_stop_feeding("closing", "quitting")
  BY <1>1, StopFeedingKeeps
<1>2. CASE /\ ~feedTimer /\ feed.state = "none"
           /\ MainGoesOn("closing", "stopping")
           /\ UNCHANGED << libraryVars, queueVars >>
  BY <1>2, GoesOnKeeps
  DEF PlayerInv, MainGoesOn, Staged, Stage, Opened, Feeding, Reading, Serving, queueVars, libraryVars
<1> QED  BY <1>1, <1>2 DEF Destroy

\* The thread has ended, and the queue it fed takes nothing any more.
LEMMA JoinKeeps ==
  ASSUME PlayerInv, Join
  PROVE  PlayerInv'
<1>1. /\ main \in {"joining", "quitting"} /\ feed.state # "running" /\ feed' = NoFeed
      /\ main' = IF main = "joining" THEN "running" ELSE "stopping"
      /\ UNCHANGED << libraryVars, queueVars, feedTimer, feedComplete, fed, got, runs >>
  BY DEF Join
<1>2. QueueInv'
  BY <1>1, SameKeeps DEF PlayerInv, queueVars
<1>3. FeedShape' /\ Fed'
  <2>1. feed' = [state |-> "none", pos |-> 0] /\ 0 \in 0 .. Packets
    BY <1>1, Constants DEF NoFeed
  <2>2. inside' = inside /\ queue' = queue /\ "feed" \notin inside /\ inside \subseteq {"feed", "reader"}
    BY <1>1 DEF queueVars, PlayerInv, FeedShape
  <2>3. queue.shutdown
    BY <1>1 DEF PlayerInv, Staged
  <2> QED  BY <2>1, <2>2, <2>3 DEF FeedShape, Fed
<1>4. Staged'
  BY <1>1
  DEF PlayerInv, Staged, Stage, Opened, Feeding, Reading, Serving, NoFeed, queueVars, libraryVars
<1> QED  BY <1>2, <1>3, <1>4 DEF PlayerInv

LEMMA DestroyQueueKeeps ==
  ASSUME PlayerInv, DestroyQueue
  PROVE  PlayerInv'
<1>1. MainGoesOn("destroying", "finalizing") /\ UNCHANGED libraryVars /\ queue # NULL
  BY DEF DestroyQueue, MainGoesOn, PlayerInv, Staged, Opened
<1>2. inside = {} /\ inside' = {} /\ queue' = NULL
  BY <1>1 DEF DestroyQueue, pes_queue_destroy
<1>3. QueueInv'
  BY <1>1, <1>2, NoneKeeps DEF PlayerInv, QueueInv, MainGoesOn
<1>4. FeedShape' /\ Fed'
  BY <1>1, <1>2 DEF PlayerInv, FeedShape, Fed, MainGoesOn
<1>5. Staged'
  BY <1>1, <1>2
  DEF PlayerInv, MainGoesOn, Staged, Stage, Opened, Feeding, Reading, Serving, libraryVars
<1> QED  BY <1>3, <1>4, <1>5 DEF PlayerInv

LEMMA AgainKeeps ==
  ASSUME PlayerInv, Again
  PROVE  PlayerInv'
<1>1. queue' = NULL /\ fed' = 0 /\ got' = << >>
  BY DEF Again
<1>2. feed' = [state |-> "none", pos |-> 0] /\ inside' = inside
  BY DEF Again, NoFeed
<1>3. /\ main \in {"exited", "gaveUp"} /\ main' = "start" /\ ~feedTimer'
      /\ service' = service /\ globals' = globals
  BY DEF Again, libraryVars
<1>4. inside = {}
  BY <1>3 DEF PlayerInv, Staged, Reading, Feeding
<1>5. QueueInv'
  <2>1. fed' \in Nat
    BY <1>1
  <2>2. got' \in Seq(Nat)
    BY <1>1
  <2> QED  BY <1>1, <2>1, <2>2, NoneKeeps
<1>6. FeedShape' /\ Fed'
  <2>1. 0 \in 0 .. Packets
    BY Constants
  <2>2. FeedShape'
    BY <1>2, <1>4, <2>1 DEF FeedShape
  <2> QED  BY <1>1, <2>2 DEF Fed
<1>7. Staged'
  BY <1>1, <1>2, <1>3, <1>4
  DEF PlayerInv, Staged, Stage, Opened, Feeding, Reading, Serving
<1> QED  BY <1>5, <1>6, <1>7 DEF PlayerInv

\* The packet after the last that went in goes in, or the thread waits or ends.
LEMMA FeedsKeeps ==
  ASSUME PlayerInv, Feeds
  PROVE  PlayerInv'
<1>1. PICK result \in {"waits", "true", "false"} :
        /\ pes_queue_enqueue("feed", feed.pos + 1, result)
        /\ Refuses(result = "false" /\ ~queue.shutdown)
        /\ feed' = CASE result = "waits" -> feed
                     [] result = "true" -> [feed EXCEPT !.pos = @ + 1]
                     [] OTHER -> [feed EXCEPT !.state = "done"]
        /\ fed' = fed + IF result = "true" THEN 1 ELSE 0
  BY DEF Feeds
<1>2. /\ feed.state = "running" /\ UNCHANGED << main, feedTimer, feedComplete, got, runs >>
      /\ queue # NULL
  BY <1>1 DEF Feeds, pes_queue_enqueue, Runs
<1>3. feed.pos \in 0 .. Packets - 1 /\ fed \in Nat /\ feed = [state |-> feed.state, pos |-> feed.pos]
  BY Constants DEF Feeds, PlayerInv, FeedShape, QueueInv
<1>4. main \in Feeding
  BY <1>2 DEF PlayerInv, Staged
<1>5. CASE result = "waits"
  <2>1. UNCHANGED queue /\ inside' = inside \cup {"feed"} /\ feed' = feed /\ fed' = fed
    BY <1>1, <1>3, <1>5 DEF pes_queue_enqueue, Waits
  <2>2. QueueInv'
    BY <1>2, <2>1, SameKeeps DEF PlayerInv
  <2>3. FeedShape' /\ Fed'
    <3>1. feed.pos < Packets
      BY <1>3, Constants
    <3> QED  BY <1>2, <2>1, <3>1 DEF PlayerInv, FeedShape, Fed
  <2>4. Staged'
    BY <1>1, <1>2, <1>4, <2>1
    DEF PlayerInv, Staged, Stage, Opened, Feeding, Reading, Serving, Refuses
  <2> QED  BY <2>2, <2>3, <2>4 DEF PlayerInv
<1>6. CASE result = "true"
  <2>1. /\ ~queue.shutdown /\ ~Full /\ Stored(feed.pos + 1) /\ inside' = inside \ {"feed"}
        /\ feed' = [feed EXCEPT !.pos = feed.pos + 1] /\ fed' = fed + 1
    BY <1>1, <1>6 DEF pes_queue_enqueue, Returns
  <2>2. feed.pos = fed
    BY <1>2, <2>1 DEF PlayerInv, Fed
  <2>3. QueueInv' /\ queue' # NULL /\ queue'.shutdown = queue.shutdown
    <3>1. fed + 1 \in 1 .. Packets
      BY <1>3, <2>2, Constants
    <3> QED  BY <1>2, <2>1, <2>2, <3>1, StoredKeeps DEF PlayerInv
  <2>4. FeedShape' /\ Fed'
    BY <1>2, <1>3, <2>1, <2>2, <2>3, Constants DEF PlayerInv, FeedShape, Fed
  <2>5. Staged'
    BY <1>1, <1>2, <1>4, <2>1, <2>3
    DEF PlayerInv, Staged, Stage, Opened, Feeding, Reading, Serving, Refuses
  <2> QED  BY <2>3, <2>4, <2>5 DEF PlayerInv
<1>7. CASE result = "false"
  <2>1. /\ UNCHANGED queue /\ inside' = inside \ {"feed"}
        /\ feed' = [feed EXCEPT !.state = "done"] /\ fed' = fed
    BY <1>1, <1>3, <1>7 DEF pes_queue_enqueue, Returns
  <2>2. QueueInv'
    BY <1>2, <2>1, SameKeeps DEF PlayerInv
  <2>3. FeedShape' /\ Fed'
    BY <1>2, <1>3, <2>1 DEF PlayerInv, FeedShape, Fed
  <2>4. Staged'
    BY <1>1, <1>2, <1>4, <2>1
    DEF PlayerInv, Staged, Stage, Opened, Feeding, Reading, Serving, Refuses
  <2> QED  BY <2>2, <2>3, <2>4 DEF PlayerInv
<1> QED  BY <1>5, <1>6, <1>7

LEMMA FeedEndsKeeps ==
  ASSUME PlayerInv, FeedEnds
  PROVE  PlayerInv'
<1>1. /\ feed.state = "running" /\ "feed" \notin inside /\ feed' = [feed EXCEPT !.state = "done"]
      /\ UNCHANGED << libraryVars, queueVars, main, feedTimer, feedComplete, fed, got, runs >>
  BY DEF FeedEnds
<1>2. QueueInv'
  BY <1>1, SameKeeps DEF PlayerInv, queueVars
<1>3. FeedShape' /\ Fed'
  BY <1>1 DEF PlayerInv, FeedShape, Fed, queueVars
<1>4. Staged'
  BY <1>1
  DEF PlayerInv, Staged, Stage, Opened, Feeding, Reading, Serving, queueVars, libraryVars
<1> QED  BY <1>2, <1>3, <1>4 DEF PlayerInv

\* The reader gets the packet at the head, if there is one.
LEMMA ReadsKeeps ==
  ASSUME PlayerInv, Reads
  PROVE  PlayerInv'
<1>1. PICK packet \in 1 .. Packets \cup {NULL} :
        /\ pes_queue_dequeue("reader", packet)
        /\ got' = IF packet = NULL THEN got ELSE Append(got, packet)
  BY DEF Reads
<1>2. /\ feedTimer \/ "reader" \in inside
      /\ queue # NULL
      /\ UNCHANGED << libraryVars, main, feed, feedTimer, feedComplete, fed, runs >>
  BY <1>1 DEF Reads, pes_queue_dequeue, Runs
<1>3. main \in Reading
  BY <1>2 DEF PlayerInv, Staged, Reading, Feeding
<1>4. inside' \in {inside \ {"reader"}, inside \cup {"reader"}}
  BY <1>1 DEF pes_queue_dequeue, Returns, Waits
<1>5. QueueInv' /\ queue' # NULL /\ queue'.shutdown = queue.shutdown
  <2>1. CASE queue.count > 0
    <3>1. packet = queue.packets[queue.head] /\ queue' = Removed
      BY <1>1, <2>1 DEF pes_queue_dequeue
    <3>2. queue.packets[queue.head] # NULL
      <4>1. queue.head \in Slot /\ 0 \in 0 .. Capacity - 1
        BY <1>2, QueueFields, Constants DEF PlayerInv
      <4>2. Place(queue.head, 0) = queue.head
        BY <4>1, Places
      <4>3. Distance(queue.head, queue.head) = 0
        BY <4>1, <4>2, Distances
      <4> QED  BY <1>2, <2>1, <4>1, <4>3 DEF PlayerInv, QueueInv, Slots
    <3> QED  BY <1>1, <1>2, <2>1, <3>1, <3>2, RemovedKeeps DEF PlayerInv
  <2>2. CASE ~(queue.count > 0)
    <3>1. UNCHANGED << queue, got >>
      BY <1>1, <2>2 DEF pes_queue_dequeue, Returns, Waits
    <3> QED  BY <1>2, <3>1, SameKeeps DEF PlayerInv
  <2> QED  BY <2>1, <2>2
<1>6. FeedShape' /\ Fed'
  BY <1>2, <1>4, <1>5 DEF PlayerInv, FeedShape, Fed
<1>7. Staged'
  BY <1>2, <1>3, <1>4, <1>5
  DEF PlayerInv, Staged, Stage, Opened, Feeding, Reading, Serving, libraryVars
<1> QED  BY <1>5, <1>6, <1>7 DEF PlayerInv

\* A step that only wakes a thread, and one that changes nothing.
LEMMA RestKeeps ==
  ASSUME PlayerInv, UNCHANGED << libraryVars, queue, inside, playerVars >>
  PROVE  PlayerInv'
<1>1. QueueInv'
  BY SameKeeps DEF PlayerInv, playerVars
<1>2. FeedShape' /\ Fed'
  BY DEF PlayerInv, FeedShape, Fed, playerVars
<1>3. Staged'
  BY DEF PlayerInv, Staged, Stage, Opened, Feeding, Reading, Serving, playerVars, libraryVars
<1> QED  BY <1>1, <1>2, <1>3 DEF PlayerInv

LEMMA StepKeepsPlayerInv == PlayerInv /\ [Next]_vars => PlayerInv'
<1> SUFFICES ASSUME PlayerInv, [Next]_vars PROVE PlayerInv'
  OBVIOUS
<1>1. CASE MainSteps
  BY <1>1, LifeKeeps, CreateQueueKeeps, AddFeedTimerKeeps, DestroyKeeps, JoinKeeps,
     DestroyQueueKeeps DEF MainSteps
<1>2. CASE sdl_player_start_feeding
  BY <1>2, StartFeedingKeeps
<1>3. CASE StopFeeding
  BY <1>3, StopFeedingKeeps DEF StopFeeding
<1>4. CASE Quit \/ Again
  BY <1>4, LifeKeeps, AgainKeeps
<1>5. CASE Feeds \/ FeedEnds \/ Reads
  BY <1>5, FeedsKeeps, FeedEndsKeeps, ReadsKeeps
<1>6. CASE Done \/ WakesUp \/ UNCHANGED vars
  BY <1>6, RestKeeps DEF Done, WakesUp, vars, queueVars
<1> QED  BY <1>1, <1>2, <1>3, <1>4, <1>5, <1>6 DEF Next

LEMMA PlayerInvHolds == Spec => []PlayerInv
BY InitIsSound, StepKeepsPlayerInv, PTL DEF Spec

-----------------------------------------------------------------------------
(* Theorems                                                                *)

\* Exactly the slots from the head to the tail own a packet, for every capacity: the queue
\* frees each packet that nobody has taken, once.
THEOREM SlotsOwnPackets == Spec => []QueueSlots
<1>1. PlayerInv => QueueSlots
  <2> SUFFICES ASSUME PlayerInv, queue # NULL
               PROVE  /\ queue.tail = (queue.head + queue.count) % Capacity
                      /\ \A i \in Slot : (queue.packets[i] # NULL)
                                         = ((i - queue.head) % Capacity < queue.count)
    BY DEF QueueSlots
  <2> QED  BY DEF PlayerInv, QueueInv, Slots, Place, Distance
<1> QED  BY <1>1, PlayerInvHolds, PTL

\* The reader gets the packets in order, for every capacity and length of the file.
THEOREM PacketsStayInOrder == Spec => []PacketsInOrder
<1>1. PlayerInv => PacketsInOrder
  <2> SUFFICES ASSUME PlayerInv, queue # NULL
               PROVE  got \o Queued = [i \in 1 .. fed |-> i]
    BY DEF PacketsInOrder
  <2> DEFINE c == queue.count
  <2>1. c \in Nat /\ Len(got) \in Nat /\ got \in Seq(Nat) /\ Len(got) + c = fed
    BY QueueFields, Constants DEF PlayerInv, QueueInv, Line
  <2>2. /\ \A i \in 1 .. Len(got) : got[i] = i
        /\ \A i \in 1 .. c : queue.packets[(queue.head + i - 1) % Capacity] = Len(got) + i
    <3>1. ASSUME NEW i \in 1 .. c
          PROVE  queue.packets[(queue.head + i - 1) % Capacity] = Len(got) + i
      <4>1. queue.head \in Int
        BY QueueFields, Constants DEF PlayerInv, Slot
      <4>2. queue.head + (i - 1) = queue.head + i - 1
        BY <2>1, <4>1
      <4> QED  BY <4>2 DEF PlayerInv, QueueInv, Line, Place
    <3> QED  BY <3>1 DEF PlayerInv, QueueInv, Line
  <2>3. Queued = [i \in 1 .. c |-> queue.packets[(queue.head + i - 1) % Capacity]]
    BY DEF Queued
  <2> HIDE DEF c
  <2>4. Queued \in Seq(Nat) /\ Len(Queued) = c /\ \A i \in 1 .. c : Queued[i] = Len(got) + i
    <3>1. Queued = [i \in 1 .. c |-> Len(got) + i]
      BY <2>2, <2>3
    <3>2. \A i \in 1 .. c : Len(got) + i \in Nat
      BY <2>1
    <3>3. [i \in 1 .. c |-> Len(got) + i] \in [1 .. c -> Nat]
      BY <3>2
    <3>4. Queued \in Seq(Nat)
      BY <2>1, <3>1, <3>2, IsASeq
    <3>5. DOMAIN Queued = 1 .. c
      BY <3>1
    <3>6. Len(Queued) = c
      BY <2>1, <3>4, <3>5, LenProperties
    <3> QED  BY <3>1, <3>4, <3>6
  <2>5. /\ got \o Queued \in Seq(Nat) /\ Len(got \o Queued) = Len(got) + c
        /\ \A i \in 1 .. Len(got) + c :
             (got \o Queued)[i] = IF i <= Len(got) THEN got[i] ELSE Queued[i - Len(got)]
    BY <2>1, <2>4, ConcatProperties
  <2>6. \A i \in 1 .. fed : (got \o Queued)[i] = i
    BY <2>1, <2>2, <2>4, <2>5
  <2>7. DOMAIN (got \o Queued) = 1 .. fed /\ got \o Queued = [i \in DOMAIN (got \o Queued) |-> (got \o Queued)[i]]
    BY <2>1, <2>5, LenProperties
  <2> QED  BY <2>6, <2>7
<1> QED  BY <1>1, PlayerInvHolds, PTL

\* Whatever the host refuses, however often main() is run: a player that has been created
\* leaves no thread, timer, queue or service, and the library no global but the host's
\* functions after a failed start.
THEOREM ExitLeavesNothing == Spec => []ExitIsClean
<1>1. PlayerInv => ExitIsClean
  BY DEF PlayerInv, Staged, Feeding, Reading, Serving, ExitIsClean
<1> QED  BY <1>1, PlayerInvHolds, PTL

-----------------------------------------------------------------------------
(* The library: names of what is taken                                     *)

Things == [what : {"memory", "mutex", "units"}, of : Names]

-----------------------------------------------------------------------------
(* Steps of a call                                                         *)

\* The things of a short sequence.
LEMMA Short ==
  ASSUME NEW a \in Things, NEW b \in Things
  PROVE  /\ << a >> \in Seq(Things) /\ ToSet(<< a >>) = {a}
         /\ << a, b >> \in Seq(Things) /\ ToSet(<< a, b >>) = {a, b}
BY DEF ToSet

LEMMA Three ==
  ASSUME NEW a \in Things, NEW b \in Things, NEW c \in Things
  PROVE  << a, b, c >> \in Seq(Things) /\ ToSet(<< a, b, c >>) = {a, b, c}
BY DEF ToSet

LEMMA Both ==
  ASSUME NEW s \in Seq(Things), NEW t \in Seq(Things)
  PROVE  /\ s \o t \in Seq(Things) /\ ToSet(s \o t) = ToSet(s) \cup ToSet(t)
         /\ Len(s \o t) = Len(s) + Len(t)
         /\ \A i \in 1 .. Len(s) : (s \o t)[i] = s[i]
<1>1. /\ s \o t \in Seq(Things) /\ Len(s \o t) = Len(s) + Len(t)
      /\ \A i \in 1 .. Len(s) + Len(t) :
           (s \o t)[i] = IF i <= Len(s) THEN s[i] ELSE t[i - Len(s)]
  BY ConcatProperties
<1>2. /\ Len(s) \in Nat /\ Len(t) \in Nat
      /\ DOMAIN s = 1 .. Len(s) /\ DOMAIN t = 1 .. Len(t)
      /\ DOMAIN (s \o t) = 1 .. Len(s) + Len(t)
  BY <1>1, LenProperties
<1>3. ToSet(s) \cup ToSet(t) \subseteq ToSet(s \o t)
  <2>1. ASSUME NEW i \in 1 .. Len(s) PROVE s[i] \in ToSet(s \o t)
    <3>1. i \in 1 .. Len(s) + Len(t) /\ i <= Len(s)
      BY <1>2
    <3> QED  BY <1>1, <1>2, <3>1 DEF ToSet
  <2>2. ASSUME NEW i \in 1 .. Len(t) PROVE t[i] \in ToSet(s \o t)
    <3>1. Len(s) + i \in 1 .. Len(s) + Len(t) /\ ~(Len(s) + i <= Len(s)) /\ Len(s) + i - Len(s) = i
      BY <1>2
    <3> QED  BY <1>1, <1>2, <3>1 DEF ToSet
  <2> QED  BY <1>2, <2>1, <2>2 DEF ToSet
<1>4. ToSet(s \o t) \subseteq ToSet(s) \cup ToSet(t)
  <2>1. ASSUME NEW i \in 1 .. Len(s) + Len(t) PROVE (s \o t)[i] \in ToSet(s) \cup ToSet(t)
    <3>1. CASE i <= Len(s)
      BY <1>1, <1>2, <3>1 DEF ToSet
    <3>2. CASE ~(i <= Len(s))
      <4>1. i - Len(s) \in 1 .. Len(t)
        BY <1>2, <3>2
      <4> QED  BY <1>1, <1>2, <3>2, <4>1 DEF ToSet
    <3> QED  BY <3>1, <3>2
  <2> QED  BY <1>2, <2>1 DEF ToSet
<1> QED  BY <1>1, <1>2, <1>3, <1>4

LEMMA TakenIsOfSteps ==
  ASSUME NEW steps, NEW refused
  PROVE  Taken(steps, refused) \subseteq ToSet(steps)
BY DEF Taken, ToSet

\* A call that succeeds has taken everything but mutexes that it does without.
LEMMA SuccessTakesAll ==
  ASSUME NEW steps, NEW refused, Succeeds(steps, refused)
  PROVE  ToSet(steps) \ Dispensable \subseteq Taken(steps, refused)
BY DEF Succeeds, Fatal, Taken, ToSet

\* A call that fails has not taken its last step.
LEMMA FailureStopsBefore ==
  ASSUME NEW s \in Seq(Things), NEW x \in Things, NEW refused,
         refused \subseteq DOMAIN (s \o << x >>), ~Succeeds(s \o << x >>, refused)
  PROVE  Taken(s \o << x >>, refused) \subseteq ToSet(s)
<1>1. /\ << x >> \in Seq(Things) /\ Len(<< x >>) = 1
      /\ s \o << x >> \in Seq(Things)
      /\ Len(s \o << x >>) = Len(s) + 1
      /\ \A i \in 1 .. Len(s) : (s \o << x >>)[i] = s[i]
  BY Short, Both
<1>2. Len(s) \in Nat /\ DOMAIN s = 1 .. Len(s) /\ DOMAIN (s \o << x >>) = 1 .. Len(s) + 1
  BY <1>1, LenProperties
<1>3. PICK k \in 1 .. Len(s) + 1 : k \in Fatal(s \o << x >>, refused)
  BY <1>2 DEF Succeeds, Fatal
<1>4. ASSUME NEW j \in 1 .. Len(s) + 1, j < k PROVE (s \o << x >>)[j] \in ToSet(s)
  <2>1. j \in 1 .. Len(s)
    BY <1>2, <1>4
  <2> QED  BY <1>1, <1>2, <2>1 DEF ToSet
<1> QED  BY <1>2, <1>3, <1>4 DEF Taken

-----------------------------------------------------------------------------
(* The parts of the library                                                *)

HostPart == {memory("sSystemFuncs"), mutex("sSystemFuncs")}

FactoryPart == ToSet(ServiceFactoryNew)

MgrPart == ToSet(ptsMgrNew)

\* All of a service but its node in the factory's list.
OwnSteps == ServiceInstanceNew \o LS_PTSMgrRegisterClient \o ServiceHeaps

ServicePart == ToSet(OwnSteps \o ServiceFactoryRegister)

\* The things of S belong to parts of these names, and none of them is lost.
Named(S, names) == \A x \in S : x.of \in names /\ x.what # "lostMutex"

LEMMA ThingsAre ==
  \A x \in Names : memory(x) \in Things /\ mutex(x) \in Things /\ units(x) \in Things
BY DEF memory, mutex, units, Things

LEMMA HeapIs ==
  ASSUME NEW x \in Names
  PROVE  Heap(x) \in Seq(Things) /\ ToSet(Heap(x)) = {memory(x), mutex(x), units(x)}
<1>1. memory(x) \in Things /\ mutex(x) \in Things /\ units(x) \in Things
  BY ThingsAre DEF Names
<1>2. /\ << memory(x), mutex(x), units(x) >> \in Seq(Things)
      /\ ToSet(<< memory(x), mutex(x), units(x) >>) = {memory(x), mutex(x), units(x)}
  BY <1>1, Three
<1> QED  BY <1>2 DEF Heap

LEMMA ListIs ==
  ASSUME NEW x \in Names
  PROVE  List(x) \in Seq(Things) /\ ToSet(List(x)) = {memory(x), mutex(x)}
<1>1. memory(x) \in Things /\ mutex(x) \in Things
  BY ThingsAre DEF Names
<1> QED  BY <1>1, Short DEF List

LEMMA HostSteps ==
  /\ LS_UpdateSystemFuncs \in Seq(Things)
  /\ "sSystemFuncs" \in globals => ToSet(LS_UpdateSystemFuncs) = {}
  /\ "sSystemFuncs" \notin globals =>
       /\ ToSet(LS_UpdateSystemFuncs) = HostPart
       /\ LS_UpdateSystemFuncs = << memory("sSystemFuncs"), mutex("sSystemFuncs") >>
<1>1. memory("sSystemFuncs") \in Things /\ mutex("sSystemFuncs") \in Things
  BY ThingsAre DEF Names
<1>2. << >> \in Seq(Things) /\ ToSet(<< >>) = {}
  BY DEF ToSet
<1> QED  BY <1>1, <1>2, Short DEF LS_UpdateSystemFuncs, HostPart

LEMMA FactorySteps ==
  /\ ServiceFactoryNew \in Seq(Things)
  /\ Named(FactoryPart, {"factory", "systemHeap", "serviceList"})
<1> DEFINE f == << memory("factory"), mutex("factory") >>
<1>1. f \in Seq(Things) /\ ToSet(f) = {memory("factory"), mutex("factory")}
  <2>1. memory("factory") \in Things /\ mutex("factory") \in Things
    BY ThingsAre DEF Names
  <2> QED  BY <2>1, Short
<1> HIDE DEF f
<1>2. /\ f \o Heap("systemHeap") \in Seq(Things)
      /\ ToSet(f \o Heap("systemHeap")) = ToSet(f) \cup ToSet(Heap("systemHeap"))
  BY <1>1, HeapIs, Both DEF Names
<1>3. List("serviceList") \in Seq(Things)
  BY ListIs DEF Names
<1>4. /\ f \o Heap("systemHeap") \o List("serviceList") \in Seq(Things)
      /\ ToSet(f \o Heap("systemHeap") \o List("serviceList"))
           = ToSet(f) \cup ToSet(Heap("systemHeap")) \cup ToSet(List("serviceList"))
  BY <1>2, <1>3, Both
<1>5. ServiceFactoryNew = f \o Heap("systemHeap") \o List("serviceList")
  BY DEF ServiceFactoryNew, f
<1>6. FactoryPart = {memory("factory"), mutex("factory"), memory("systemHeap"), mutex("systemHeap"),
                     units("systemHeap"), memory("serviceList"), mutex("serviceList")}
  <2>1. FactoryPart = {memory("factory"), mutex("factory")}
          \cup {memory("systemHeap"), mutex("systemHeap"), units("systemHeap")}
          \cup {memory("serviceList"), mutex("serviceList")}
    BY <1>1, <1>4, <1>5, HeapIs, ListIs DEF FactoryPart, Names
  <2> QED  BY <2>1
<1> QED  BY <1>4, <1>5, <1>6 DEF Named, memory, mutex, units

LEMMA MgrSteps ==
  /\ ptsMgrNew \in Seq(Things)
  /\ Named(MgrPart, {"ptsMgr", "clientInfo"})
<1> DEFINE m == << memory("ptsMgr"), mutex("ptsMgr") >>
<1>1. m \in Seq(Things) /\ ToSet(m) = {memory("ptsMgr"), mutex("ptsMgr")}
  <2>1. memory("ptsMgr") \in Things /\ mutex("ptsMgr") \in Things
    BY ThingsAre DEF Names
  <2> QED  BY <2>1, Short
<1> HIDE DEF m
<1>2. /\ m \o List("clientInfo") \in Seq(Things)
      /\ ToSet(m \o List("clientInfo")) = ToSet(m) \cup ToSet(List("clientInfo"))
  BY <1>1, ListIs, Both DEF Names
<1>3. ptsMgrNew = m \o List("clientInfo")
  BY DEF ptsMgrNew, m
<1>4. MgrPart = {memory("ptsMgr"), mutex("ptsMgr")} \cup {memory("clientInfo"), mutex("clientInfo")}
  BY <1>1, <1>2, <1>3, ListIs DEF MgrPart, Names
<1> QED  BY <1>2, <1>3, <1>4 DEF Named, memory, mutex

ServiceNames ==
  {"service", "displayPageList", "client", "clientNode", "codedData", "pixel", "composition",
   "serviceNode"}

LEMMA ServiceSteps ==
  /\ OwnSteps \in Seq(Things)
  /\ ServiceFactoryRegister = << memory("serviceNode") >> /\ memory("serviceNode") \in Things
  /\ ToSet(OwnSteps) = ServiceCleanUp
  /\ ServicePart = ServiceCleanUp \cup ToSet(ServiceFactoryRegister)
  /\ Named(ServicePart, ServiceNames)
<1>1. /\ ServiceInstanceNew \in Seq(Things)
      /\ ToSet(ServiceInstanceNew)
           = {memory("service")} \cup ToSet(List("displayPageList")) \cup {mutex("service")}
  <2> DEFINE a == << memory("service") >>
             b == << mutex("service") >>
  <2>1. a \in Seq(Things) /\ ToSet(a) = {memory("service")} /\ b \in Seq(Things) /\ ToSet(b) = {mutex("service")}
    <3>1. memory("service") \in Things /\ mutex("service") \in Things
      BY ThingsAre DEF Names
    <3> QED  BY <3>1, Short
  <2> HIDE DEF a, b
  <2>2. /\ a \o List("displayPageList") \in Seq(Things)
        /\ ToSet(a \o List("displayPageList")) = ToSet(a) \cup ToSet(List("displayPageList"))
    BY <2>1, ListIs, Both DEF Names
  <2>3. /\ a \o List("displayPageList") \o b \in Seq(Things)
        /\ ToSet(a \o List("displayPageList") \o b)
             = ToSet(a) \cup ToSet(List("displayPageList")) \cup ToSet(b)
    BY <2>1, <2>2, Both
  <2> QED  BY <2>1, <2>3 DEF ServiceInstanceNew, a, b
<1>2. /\ LS_PTSMgrRegisterClient \in Seq(Things)
      /\ ToSet(LS_PTSMgrRegisterClient) = ToSet(List("client")) \cup {memory("clientNode")}
  <2> DEFINE a == << memory("clientNode") >>
  <2>1. a \in Seq(Things) /\ ToSet(a) = {memory("clientNode")}
    <3>1. memory("clientNode") \in Things
      BY ThingsAre DEF Names
    <3> QED  BY <3>1, Short
  <2> HIDE DEF a
  <2>2. /\ List("client") \o a \in Seq(Things)
        /\ ToSet(List("client") \o a) = ToSet(List("client")) \cup ToSet(a)
    BY <2>1, ListIs, Both DEF Names
  <2> QED  BY <2>1, <2>2 DEF LS_PTSMgrRegisterClient, a
<1>3. /\ ServiceHeaps \in Seq(Things)
      /\ ToSet(ServiceHeaps)
           = ToSet(Heap("codedData")) \cup ToSet(Heap("pixel")) \cup ToSet(Heap("composition"))
  <2>1. /\ Heap("codedData") \o Heap("pixel") \in Seq(Things)
        /\ ToSet(Heap("codedData") \o Heap("pixel"))
             = ToSet(Heap("codedData")) \cup ToSet(Heap("pixel"))
    BY HeapIs, Both DEF Names
  <2>2. Heap("composition") \in Seq(Things)
    BY HeapIs DEF Names
  <2>3. /\ Heap("codedData") \o Heap("pixel") \o Heap("composition") \in Seq(Things)
        /\ ToSet(Heap("codedData") \o Heap("pixel") \o Heap("composition"))
             = ToSet(Heap("codedData")) \cup ToSet(Heap("pixel")) \cup ToSet(Heap("composition"))
    BY <2>1, <2>2, Both
  <2> QED  BY <2>3 DEF ServiceHeaps
<1>4. /\ ServiceInstanceNew \o LS_PTSMgrRegisterClient \in Seq(Things)
      /\ ToSet(ServiceInstanceNew \o LS_PTSMgrRegisterClient)
           = ToSet(ServiceInstanceNew) \cup ToSet(LS_PTSMgrRegisterClient)
  BY <1>1, <1>2, Both
<1>5. /\ OwnSteps \in Seq(Things)
      /\ ToSet(OwnSteps) = ToSet(ServiceInstanceNew) \cup ToSet(LS_PTSMgrRegisterClient)
                             \cup ToSet(ServiceHeaps)
  BY <1>3, <1>4, Both DEF OwnSteps
<1>6. ToSet(OwnSteps) = ServiceCleanUp
  BY <1>5 DEF ServiceCleanUp, LS_PTSMgrUnRegisterClient, ServiceInstanceDelete
<1>7. /\ ServiceFactoryRegister = << memory("serviceNode") >> /\ memory("serviceNode") \in Things
      /\ ServiceFactoryRegister \in Seq(Things)
      /\ ToSet(ServiceFactoryRegister) = {memory("serviceNode")}
  <2>1. memory("serviceNode") \in Things
    BY ThingsAre DEF Names
  <2> QED  BY <2>1, Short DEF ServiceFactoryRegister
<1>8. ServicePart = ToSet(OwnSteps) \cup ToSet(ServiceFactoryRegister)
  BY <1>5, <1>7, Both DEF ServicePart
<1>9. Named(ServicePart, ServiceNames)
  <2>1. ASSUME NEW x \in ServiceNames
        PROVE  /\ Named({memory(x), mutex(x)}, ServiceNames)
               /\ Named({memory(x), mutex(x), units(x)}, ServiceNames)
    BY DEF Named, memory, mutex, units
  <2>2. Named(ToSet(ServiceInstanceNew), ServiceNames)
    <3>1. ToSet(List("displayPageList")) = {memory("displayPageList"), mutex("displayPageList")}
      BY ListIs DEF Names
    <3>2. "service" \in ServiceNames /\ "displayPageList" \in ServiceNames
      BY DEF ServiceNames
    <3> QED  BY <1>1, <2>1, <3>1, <3>2 DEF Named
  <2>3. Named(ToSet(LS_PTSMgrRegisterClient), ServiceNames)
    <3>1. ToSet(List("client")) = {memory("client"), mutex("client")}
      BY ListIs DEF Names
    <3>2. "client" \in ServiceNames /\ "clientNode" \in ServiceNames
      BY DEF ServiceNames
    <3> QED  BY <1>2, <2>1, <3>1, <3>2 DEF Named
  <2>4. Named(ToSet(ServiceHeaps), ServiceNames)
    <3>1. ASSUME NEW h \in {"codedData", "pixel", "composition"}
          PROVE  Named(ToSet(Heap(h)), ServiceNames)
      <4>1. h \in ServiceNames /\ ToSet(Heap(h)) = {memory(h), mutex(h), units(h)}
        BY HeapIs DEF Names, ServiceNames
      <4> QED  BY <2>1, <4>1
    <3> QED  BY <1>3, <3>1 DEF Named
  <2>5. Named(ToSet(ServiceFactoryRegister), ServiceNames)
    <3>1. "serviceNode" \in ServiceNames
      BY DEF ServiceNames
    <3> QED  BY <1>7, <2>1, <3>1 DEF Named
  <2> QED  BY <1>5, <1>8, <2>2, <2>3, <2>4, <2>5 DEF Named
<1> QED  BY <1>5, <1>6, <1>7, <1>8, <1>9

\* What the pointers lead to, part by part.
LEMMA ReachableParts ==
  ASSUME NEW x
  PROVE  x \in Reachable <=>
           \/ x \in HostPart /\ "sSystemFuncs" \in globals
           \/ x \in FactoryPart /\ "gDecoderFactory" \in globals
           \/ x \in MgrPart /\ "__ptsMgr" \in globals
           \/ x \in ServicePart /\ service # "none"
<1>1. ToSet(<< memory("sSystemFuncs"), mutex("sSystemFuncs") >>) = HostPart
  <2>1. memory("sSystemFuncs") \in Things /\ mutex("sSystemFuncs") \in Things
    BY ThingsAre DEF Names
  <2> QED  BY <2>1, Short DEF HostPart
<1> QED  BY <1>1 DEF Reachable, FactoryPart, MgrPart, ServicePart, OwnSteps

\* The same after a step.
LEMMA ReachablePartsAfter ==
  ASSUME NEW x
  PROVE  x \in Reachable' <=>
           \/ x \in HostPart /\ "sSystemFuncs" \in globals'
           \/ x \in FactoryPart /\ "gDecoderFactory" \in globals'
           \/ x \in MgrPart /\ "__ptsMgr" \in globals'
           \/ x \in ServicePart /\ service' # "none"
<1>1. ToSet(<< memory("sSystemFuncs"), mutex("sSystemFuncs") >>) = HostPart
  <2>1. memory("sSystemFuncs") \in Things /\ mutex("sSystemFuncs") \in Things
    BY ThingsAre DEF Names
  <2> QED  BY <2>1, Short DEF HostPart
<1> QED  BY <1>1 DEF Reachable, FactoryPart, MgrPart, ServicePart, OwnSteps

-----------------------------------------------------------------------------
(* The calls                                                               *)

\* No part takes anything from another.
LEMMA PartsAreApart ==
  /\ Named(HostPart, {"sSystemFuncs"})
  /\ \A x \in FactoryPart \cup MgrPart : x \notin HostPart /\ x \notin ServicePart
  /\ \A x \in ServicePart : x \notin HostPart
<1>1. Named(HostPart, {"sSystemFuncs"})
  <2>1. ASSUME NEW y PROVE /\ memory(y).of = y /\ memory(y).what # "lostMutex"
                           /\ mutex(y).of = y /\ mutex(y).what # "lostMutex"
    BY DEF memory, mutex
  <2> QED  BY <2>1 DEF HostPart, Named
<1>2. Named(FactoryPart \cup MgrPart, {"factory", "systemHeap", "serviceList", "ptsMgr", "clientInfo"})
  BY FactorySteps, MgrSteps DEF Named
<1>3. Named(ServicePart, ServiceNames)
  BY ServiceSteps
<1>4. \A x \in FactoryPart \cup MgrPart : x \notin HostPart
  BY <1>1, <1>2 DEF Named
<1>5. \A x \in FactoryPart \cup MgrPart : x \notin ServicePart
  <2>1. {"factory", "systemHeap", "serviceList", "ptsMgr", "clientInfo"} \cap ServiceNames = {}
    BY DEF ServiceNames
  <2> QED  BY <1>2, <1>3, <2>1 DEF Named
<1>6. \A x \in ServicePart : x \notin HostPart
  <2>1. "sSystemFuncs" \notin ServiceNames
    BY DEF ServiceNames
  <2> QED  BY <1>1, <1>3, <2>1 DEF Named
<1> QED  BY <1>1, <1>4, <1>5, <1>6

\* What is not lost.
Kept(S) == {h \in S : h.what # "lostMutex"}

\* The memory for the host's functions is taken before their mutex is made.
LEMMA HostMutexIsSecond ==
  ASSUME NEW s, NEW refused, "sSystemFuncs" \notin globals,
         s = LS_UpdateSystemFuncs \o ServiceFactoryNew \o ptsMgrNew,
         refused \subseteq DOMAIN s, mutex("sSystemFuncs") \in Taken(s, refused)
  PROVE  memory("sSystemFuncs") \in Taken(s, refused)
<1>1. /\ LS_UpdateSystemFuncs = << memory("sSystemFuncs"), mutex("sSystemFuncs") >>
      /\ LS_UpdateSystemFuncs \in Seq(Things)
  BY HostSteps
<1>2. /\ LS_UpdateSystemFuncs \o ServiceFactoryNew \in Seq(Things)
      /\ Len(LS_UpdateSystemFuncs \o ServiceFactoryNew) = 2 + Len(ServiceFactoryNew)
      /\ \A i \in 1 .. 2 : (LS_UpdateSystemFuncs \o ServiceFactoryNew)[i] = LS_UpdateSystemFuncs[i]
  <2>1. Len(LS_UpdateSystemFuncs) = 2
    BY <1>1
  <2> QED  BY <1>1, <2>1, FactorySteps, Both
<1>3. Len(ServiceFactoryNew) \in Nat /\ Len(ptsMgrNew) \in Nat
  BY FactorySteps, MgrSteps, LenProperties
<1>4. /\ s \in Seq(Things) /\ Len(s) = 2 + Len(ServiceFactoryNew) + Len(ptsMgrNew)
      /\ \A i \in 1 .. 2 + Len(ServiceFactoryNew) :
           s[i] = (LS_UpdateSystemFuncs \o ServiceFactoryNew)[i]
  BY <1>2, MgrSteps, Both
<1>5. DOMAIN s = 1 .. Len(s) /\ 1 \in DOMAIN s
  BY <1>3, <1>4, LenProperties
<1>6. s[1] = memory("sSystemFuncs")
  <2>1. (LS_UpdateSystemFuncs \o ServiceFactoryNew)[1] = memory("sSystemFuncs")
    BY <1>1, <1>2
  <2> QED  BY <1>3, <1>4, <2>1
<1>7. PICK j \in DOMAIN s \ refused :
        s[j] = mutex("sSystemFuncs") /\ \A k \in Fatal(s, refused) : j < k
  BY DEF Taken
<1>8. memory("sSystemFuncs") # mutex("sSystemFuncs")
  BY DEF memory, mutex
<1>9. 1 < j
  BY <1>4, <1>5, <1>6, <1>7, <1>8
<1>10. 1 \notin Fatal(s, refused)
  BY <1>7, <1>9
<1>11. memory("sSystemFuncs") \notin Dispensable
  BY DEF Dispensable, memory, mutex
<1>12. 1 \notin refused
  BY <1>6, <1>10, <1>11 DEF Fatal
<1>13. \A k \in Fatal(s, refused) : 1 < k
  <2>1. \A k \in Fatal(s, refused) : j < k
    BY <1>7
  <2>2. Fatal(s, refused) \subseteq Int
    BY <1>4, <1>5 DEF Fatal
  <2> QED  BY <1>5, <1>9, <2>1, <2>2
<1> QED  BY <1>5, <1>6, <1>12, <1>13 DEF Taken

\* The host refuses only what is asked of it.
LEMMA RefusedAreSteps ==
  ASSUME NEW steps, NEW refused \in Refusals(steps)
  PROVE  refused \subseteq DOMAIN steps
<1> DEFINE n == MaxFailures - failures
<1>1. refused \in {{}} \cup {Range(f) : f \in [1 .. n -> DOMAIN steps]}
  BY DEF Refusals
<1>2. ASSUME NEW f \in [1 .. n -> DOMAIN steps] PROVE Range(f) \subseteq DOMAIN steps
  BY DEF Range
<1> HIDE DEF n
<1> QED  BY <1>1, <1>2

\* Init gives back what it took of the factory and the PTS manager if it fails.
LEMMA InitKeeps ==
  ASSUME NothingLeaks, NEW ok \in BOOLEAN, LS_DVBSubDecInit(ok)
  PROVE  NothingLeaks'
<1> DEFINE steps == LS_UpdateSystemFuncs \o ServiceFactoryNew \o ptsMgrNew
<1>1. PICK refused \in Refusals(steps) :
        /\ ok = Succeeds(steps, refused)
        /\ held' = IF ok THEN held \cup Taken(steps, refused)
                         ELSE (held \cup Taken(steps, refused)) \ InitCleanUp
        /\ globals' = {g \in {"sSystemFuncs"} : memory(g) \in held \cup Taken(steps, refused)}
                      \cup (IF ok THEN {"gDecoderFactory", "__ptsMgr"} ELSE {})
  BY DEF LS_DVBSubDecInit
<1>2. service' = service /\ globals \cap {"gDecoderFactory", "__ptsMgr"} = {}
  BY DEF LS_DVBSubDecInit
<1>3. /\ InitCleanUp = FactoryPart \cup MgrPart
      /\ ToSet(steps) = ToSet(LS_UpdateSystemFuncs) \cup FactoryPart \cup MgrPart
      /\ Taken(steps, refused) \subseteq ToSet(steps)
  <2>1. InitCleanUp = FactoryPart \cup MgrPart
    BY FactorySteps, MgrSteps, Both DEF InitCleanUp, FactoryPart, MgrPart
  <2>2. /\ LS_UpdateSystemFuncs \o ServiceFactoryNew \in Seq(Things)
        /\ ToSet(LS_UpdateSystemFuncs \o ServiceFactoryNew)
             = ToSet(LS_UpdateSystemFuncs) \cup FactoryPart
    BY HostSteps, FactorySteps, Both DEF FactoryPart
  <2>3. ToSet(steps) = ToSet(LS_UpdateSystemFuncs) \cup FactoryPart \cup MgrPart
    BY <2>2, MgrSteps, Both DEF MgrPart
  <2> QED  BY <2>1, <2>3, TakenIsOfSteps
<1>4. mutex("sSystemFuncs") \in Taken(steps, refused) =>
        memory("sSystemFuncs") \in held \cup Taken(steps, refused)
  <2>1. refused \subseteq DOMAIN steps
    BY <1>1, RefusedAreSteps
  <2>2. CASE "sSystemFuncs" \notin globals
    BY <2>1, <2>2, HostMutexIsSecond
  <2>3. CASE "sSystemFuncs" \in globals
    <3>1. Taken(steps, refused) \subseteq FactoryPart \cup MgrPart
      BY <1>3, <2>3, HostSteps
    <3> QED  BY <3>1, PartsAreApart DEF HostPart
  <2> QED  BY <2>2, <2>3
<1>5. ok => ToSet(steps) \ Dispensable \subseteq Taken(steps, refused)
  BY <1>1, SuccessTakesAll
<1> HIDE DEF steps
<1>6. /\ mutex("sSystemFuncs") \in Dispensable
      /\ memory("sSystemFuncs") \notin Dispensable
  BY DEF Dispensable, memory, mutex
<1>7. memory("sSystemFuncs") \in HostPart /\ mutex("sSystemFuncs") \in HostPart
  BY DEF HostPart
<1>8. "sSystemFuncs" \in globals => memory("sSystemFuncs") \in held
  BY <1>6, <1>7, ReachableParts DEF NothingLeaks
<1>9. "sSystemFuncs" \in globals' <=> memory("sSystemFuncs") \in held \cup Taken(steps, refused)
  BY <1>1
<1>10. ASSUME NEW x \in Reachable', x \notin Dispensable PROVE x \in held'
  <2>1. CASE x \in HostPart /\ "sSystemFuncs" \in globals'
    <3>1. x = memory("sSystemFuncs")
      BY <1>6, <1>10, <2>1 DEF HostPart
    <3> QED  BY <1>1, <1>3, <1>7, <1>9, <2>1, <3>1, PartsAreApart
  <2>2. CASE x \in FactoryPart \cup MgrPart /\ ok
    BY <1>1, <1>3, <1>5, <1>10, <2>2
  <2>3. CASE x \in ServicePart /\ service # "none"
    <3>1. x \in held
      BY <1>10, <2>3, ReachableParts DEF NothingLeaks
    <3> QED  BY <1>1, <1>3, <2>3, <3>1, PartsAreApart
  <2>4. ok <=> "gDecoderFactory" \in globals' /\ "__ptsMgr" \in globals'
    BY <1>1
  <2>5. "gDecoderFactory" \in globals' \/ "__ptsMgr" \in globals' => ok
    BY <1>1
  <2> QED  BY <1>2, <1>10, <2>1, <2>2, <2>3, <2>5, ReachablePartsAfter
<1>11. ASSUME NEW x \in Kept(held') PROVE x \in Reachable'
  <2>1. x \in held' /\ x \in held \cup Taken(steps, refused) /\ x.what # "lostMutex"
    BY <1>1, <1>11 DEF Kept
  <2>2. x \in HostPart => "sSystemFuncs" \in globals'
    <3>1. CASE x \in held
      <4>1. x \in HostPart => "sSystemFuncs" \in globals
        <5>1. x \in Reachable
          BY <2>1, <3>1 DEF NothingLeaks
        <5> QED  BY <1>2, <5>1, PartsAreApart, ReachableParts
      <4> QED  BY <1>8, <1>9, <4>1
    <3>2. CASE x \in Taken(steps, refused)
      BY <1>4, <1>9, <3>2 DEF HostPart
    <3> QED  BY <2>1, <3>1, <3>2
  <2>3. x \in FactoryPart \cup MgrPart => ok
    BY <1>1, <1>3, <2>1
  <2>4. ok => "gDecoderFactory" \in globals' /\ "__ptsMgr" \in globals'
    BY <1>1
  <2>5. x \in HostPart \cup FactoryPart \cup MgrPart \/ (x \in ServicePart /\ service # "none")
    <3>1. CASE x \in held
      <4>1. x \in Reachable
        BY <2>1, <3>1 DEF NothingLeaks
      <4> QED  BY <4>1, ReachableParts
    <3>2. CASE x \in Taken(steps, refused)
      BY <1>3, <3>2, HostSteps
    <3> QED  BY <2>1, <3>1, <3>2
  <2> QED  BY <1>2, <2>2, <2>3, <2>4, <2>5, ReachablePartsAfter
<1> QED  BY <1>10, <1>11 DEF NothingLeaks, Kept

\* A step that takes and gives back nothing and neither makes nor deletes a service.
LEMMA SameLeaks ==
  ASSUME NothingLeaks, UNCHANGED held, UNCHANGED globals,
         service' = service \/ (service # "none" /\ service' # "none")
  PROVE  NothingLeaks'
<1>1. Reachable' = Reachable
  BY ReachableParts, ReachablePartsAfter
<1> QED  BY <1>1 DEF NothingLeaks

\* ServiceNew gives back what it took if it fails; the node in the factory's list is its last step.
LEMMA ServiceNewKeeps ==
  ASSUME NothingLeaks, NEW ok \in BOOLEAN, LS_DVBSubDecServiceNew(ok)
  PROVE  NothingLeaks'
<1> DEFINE steps == OwnSteps \o ServiceFactoryRegister
<1>1. PICK refused \in Refusals(steps) :
        /\ ok = Succeeds(steps, refused)
        /\ held' = IF ok THEN held \cup Taken(steps, refused)
                         ELSE (held \cup Taken(steps, refused)) \ ServiceCleanUp
  BY DEF LS_DVBSubDecServiceNew, OwnSteps
<1>2. /\ service = "none" /\ service' = IF ok THEN "NULL" ELSE "none"
      /\ globals' = globals
  BY DEF LS_DVBSubDecServiceNew
<1>3. /\ Taken(steps, refused) \subseteq ServicePart
      /\ ok => ServicePart \ Dispensable \subseteq Taken(steps, refused)
      /\ ServiceCleanUp \subseteq ServicePart
  BY <1>1, TakenIsOfSteps, SuccessTakesAll, ServiceSteps DEF ServicePart
<1>4. ~ok => Taken(steps, refused) \subseteq ServiceCleanUp
  BY <1>1, RefusedAreSteps, FailureStopsBefore, ServiceSteps
<1> HIDE DEF steps
<1>5. ASSUME NEW x \in Reachable', x \notin Dispensable PROVE x \in held'
  <2>1. CASE x \in Reachable
    <3>1. x \in held /\ x \notin ServicePart
      BY <1>2, <1>5, <2>1, PartsAreApart, ReachableParts DEF NothingLeaks
    <3> QED  BY <1>1, <1>3, <3>1
  <2>2. CASE x \notin Reachable
    <3>1. x \in ServicePart /\ ok
      BY <1>2, <1>5, <2>2, ReachableParts, ReachablePartsAfter
    <3> QED  BY <1>1, <1>3, <1>5, <3>1
  <2> QED  BY <2>1, <2>2
<1>6. ASSUME NEW x \in Kept(held') PROVE x \in Reachable'
  <2>1. x \in held \/ (ok /\ x \in ServicePart)
    BY <1>1, <1>3, <1>4, <1>6 DEF Kept
  <2>2. x \in held => x \in Reachable
    BY <1>6 DEF Kept, NothingLeaks
  <2> QED  BY <1>2, <2>1, <2>2, ReachableParts, ReachablePartsAfter
<1> QED  BY <1>5, <1>6 DEF NothingLeaks, Kept

\* A service that is deleted takes its part with it and nothing else.
LEMMA ServiceDeleteKeeps ==
  ASSUME NothingLeaks, LS_DVBSubDecServiceDelete
  PROVE  NothingLeaks'
<1>1. CASE service = "NULL"
  <2>1. service' = "none" /\ held' = held \ ServicePart /\ globals' = globals
    BY <1>1, ServiceSteps DEF LS_DVBSubDecServiceDelete
  <2>2. ASSUME NEW x \in Reachable', x \notin Dispensable PROVE x \in held'
    <3>1. x \in Reachable /\ x \notin ServicePart
      BY <2>1, <2>2, PartsAreApart, ReachableParts, ReachablePartsAfter
    <3> QED  BY <2>1, <2>2, <3>1 DEF NothingLeaks
  <2>3. ASSUME NEW x \in Kept(held') PROVE x \in Reachable'
    <3>1. x \in Reachable /\ x \notin ServicePart
      BY <2>1, <2>3 DEF Kept, NothingLeaks
    <3> QED  BY <2>1, <3>1, ReachableParts, ReachablePartsAfter
  <2> QED  BY <2>2, <2>3 DEF NothingLeaks, Kept
<1>2. CASE service # "NULL"
  BY <1>2, SameLeaks DEF LS_DVBSubDecServiceDelete
<1> QED  BY <1>1, <1>2

\* Finalize gives back the host's, the factory's and the PTS manager's part, and loses a mutex.
LEMMA FinalizeKeeps ==
  ASSUME NothingLeaks, LS_DVBSubDecFinalize
  PROVE  NothingLeaks'
<1>1. /\ held' = (held \ (MgrPart \cup FactoryPart \cup HostPart)) \cup Lost(mutex("sSystemFuncs"))
      /\ globals' = {} /\ service' = service
  BY DEF LS_DVBSubDecFinalize, ptsMgrDelete, ServiceFactoryDelete, LS_ResetSystemFuncs,
         MgrPart, FactoryPart, HostPart
<1>2. ASSUME NEW x \in Reachable', x \notin Dispensable PROVE x \in held'
  <2>1. x \in ServicePart /\ x \in Reachable
    BY <1>1, <1>2, ReachableParts, ReachablePartsAfter
  <2> QED  BY <1>1, <1>2, <2>1, PartsAreApart DEF NothingLeaks
<1>3. ASSUME NEW x \in Kept(held') PROVE x \in Reachable'
  <2>1. x \in held /\ x \notin MgrPart \cup FactoryPart \cup HostPart
    <3>1. x \notin Lost(mutex("sSystemFuncs"))
      <4> DEFINE lost == [what |-> "lostMutex", of |-> mutex("sSystemFuncs").of]
      <4>1. Lost(mutex("sSystemFuncs")) \subseteq {lost}
        BY DEF Lost
      <4>2. lost.what = "lostMutex"
        OBVIOUS
      <4>3. x.what # "lostMutex"
        BY <1>3 DEF Kept
      <4> HIDE DEF lost
      <4> QED  BY <4>1, <4>2, <4>3
    <3> QED  BY <1>1, <1>3, <3>1 DEF Kept
  <2>2. x \in Reachable
    BY <1>3, <2>1 DEF Kept, NothingLeaks
  <2> QED  BY <1>1, <2>1, <2>2, ReachableParts, ReachablePartsAfter
<1> QED  BY <1>2, <1>3 DEF NothingLeaks, Kept

-----------------------------------------------------------------------------
(* The application                                                         *)

LEMMA InitLeaksNothing == Init => NothingLeaks
<1> SUFFICES ASSUME Init PROVE NothingLeaks
  OBVIOUS
<1>1. held = {} /\ globals = {} /\ service = "none"
  BY DEF Init, LibraryInit
<1> QED  BY <1>1, ReachableParts DEF NothingLeaks

LEMMA StepLeaksNothing == NothingLeaks /\ [Next]_vars => NothingLeaks'
<1> SUFFICES ASSUME NothingLeaks, [Next]_vars PROVE NothingLeaks'
  OBVIOUS
<1>1. CASE InitLibrary
  BY <1>1, InitKeeps DEF InitLibrary
<1>2. CASE CreateService
  BY <1>2, ServiceNewKeeps DEF CreateService
<1>3. CASE DeleteService
  BY <1>3, ServiceDeleteKeeps DEF DeleteService
<1>4. CASE Finalize
  BY <1>4, FinalizeKeeps DEF Finalize
<1>5. CASE StartService
  BY <1>5, SameLeaks DEF StartService, LS_DVBSubDecServiceStart
<1>6. CASE StopService
  BY <1>6, SameLeaks DEF StopService, LS_DVBSubDecServiceStop
<1>7. CASE \/ CreateQueue \/ CreateWindow \/ LoadPES \/ sdl_player_start_feeding
           \/ AddFeedTimer \/ Feeds
  <2>1. UNCHANGED << held, globals, service >>
    BY <1>7 DEF CreateQueue, CreateWindow, LoadPES, sdl_player_start_feeding, AddFeedTimer,
                Feeds, Refuses
  <2> QED  BY <2>1, SameLeaks
<1>8. CASE \/ Destroy \/ Join \/ DestroyQueue \/ StopFeeding \/ Quit \/ Again \/ Done
           \/ FeedEnds \/ Reads \/ WakesUp \/ UNCHANGED vars
  <2>1. UNCHANGED << held, globals, service >>
    BY <1>8 DEF Destroy, Join, DestroyQueue, StopFeeding, sdl_player_stop_feeding, Quit, Again, Done,
                FeedEnds, Reads, WakesUp, vars, libraryVars
  <2> QED  BY <2>1, SameLeaks
<1> QED  BY <1>1, <1>2, <1>3, <1>4, <1>5, <1>6, <1>7, <1>8 DEF Next, MainSteps

\* However much the host refuses and however often main() is run, LS_DVBSubDecInit, ServiceNew,
\* ServiceDelete and Finalize keep exactly what the library's pointers lead to, but for the
\* mutex of the host's functions that each Finalize loses.
THEOREM LibraryLeaksNothing == Spec => []NothingLeaks
BY InitLeaksNothing, StepLeaksNothing, PTL DEF Spec

-----------------------------------------------------------------------------
(* Types                                                                   *)

Kinds == {"memory", "mutex", "units", "lostMutex"}

LibraryTyped ==
  /\ held \subseteq [what : Kinds, of : Names]
  /\ globals \subseteq {"sSystemFuncs", "gDecoderFactory", "__ptsMgr"}
  /\ service \in {"none", "NULL", "READY"} /\ failures \in 0 .. MaxFailures

ThreadsTyped ==
  /\ feedTimer \in BOOLEAN /\ feedComplete \in BOOLEAN /\ waiting \subseteq inside
  /\ fed <= Packets /\ got \in Seq(1 .. Packets) /\ runs \in 1 .. MaxRuns

\* The host refuses no more than is left to it.
LEMMA RefusalsAreFew ==
  ASSUME failures \in 0 .. MaxFailures, NEW steps, NEW refused \in Refusals(steps)
  PROVE  failures + Cardinality(refused) \in 0 .. MaxFailures
<1> DEFINE n == MaxFailures - failures
<1>1. n \in Nat /\ MaxFailures \in Nat /\ failures \in Nat /\ failures + n = MaxFailures
  BY LibraryAssumption
<1>2. refused \in {{}} \cup {Range(f) : f \in [1 .. n -> DOMAIN steps]}
  BY DEF Refusals
<1> HIDE DEF n
<1>3. Cardinality({}) = 0
  BY FS_EmptySet
<1>4. ASSUME NEW f \in [1 .. n -> DOMAIN steps]
      PROVE  Cardinality(Range(f)) \in 0 .. n
  <2>1. f \in Surjection(1 .. n, Range(f))
    BY DEF Surjection, Range
  <2>2. IsFiniteSet(1 .. n) /\ Cardinality(1 .. n) = n
    BY <1>1, FS_Interval
  <2>3. IsFiniteSet(Range(f)) /\ Cardinality(Range(f)) <= n
    BY <2>1, <2>2, FS_Surjection
  <2>4. Cardinality(Range(f)) \in Nat
    BY <2>3, FS_CardinalityType
  <2> QED  BY <1>1, <2>3, <2>4
<1>5. Cardinality(refused) \in 0 .. n
  BY <1>1, <1>2, <1>3, <1>4
<1> QED  BY <1>1, <1>5

LEMMA RefusesTyped ==
  ASSUME LibraryTyped, NEW refused \in BOOLEAN, Refuses(refused)
  PROVE  LibraryTyped'
<1>1. failures' \in 0 .. MaxFailures
  BY LibraryAssumption DEF LibraryTyped, Refuses
<1> QED  BY <1>1 DEF LibraryTyped, Refuses

LEMMA StepsTyped ==
  ASSUME NEW steps \in Seq(Things), NEW refused
  PROVE  Taken(steps, refused) \subseteq [what : Kinds, of : Names]
<1>1. ToSet(steps) \subseteq Things
  BY DEF ToSet
<1>2. Things \subseteq [what : Kinds, of : Names]
  BY DEF Things, Kinds
<1> QED  BY <1>1, <1>2, TakenIsOfSteps

LEMMA InitTyped ==
  ASSUME LibraryTyped, NEW ok \in BOOLEAN, LS_DVBSubDecInit(ok)
  PROVE  LibraryTyped'
<1> DEFINE steps == LS_UpdateSystemFuncs \o ServiceFactoryNew \o ptsMgrNew
<1>1. PICK refused \in Refusals(steps) :
        /\ ok = Succeeds(steps, refused)
        /\ held' = IF ok THEN held \cup Taken(steps, refused)
                         ELSE (held \cup Taken(steps, refused)) \ InitCleanUp
        /\ globals' = {g \in {"sSystemFuncs"} : memory(g) \in held \cup Taken(steps, refused)}
                      \cup (IF ok THEN {"gDecoderFactory", "__ptsMgr"} ELSE {})
        /\ failures' = failures + Cardinality(refused)
  BY DEF LS_DVBSubDecInit
<1>2. service' = service
  BY DEF LS_DVBSubDecInit
<1>3. steps \in Seq(Things)
  <2>1. LS_UpdateSystemFuncs \o ServiceFactoryNew \in Seq(Things)
    BY HostSteps, FactorySteps, Both
  <2> QED  BY <2>1, MgrSteps, Both
<1> HIDE DEF steps
<1>4. held' \subseteq [what : Kinds, of : Names]
  BY <1>1, <1>3, StepsTyped DEF LibraryTyped
<1>5. failures' \in 0 .. MaxFailures
  BY <1>1, RefusalsAreFew DEF LibraryTyped
<1>6. globals' \subseteq {"sSystemFuncs", "gDecoderFactory", "__ptsMgr"}
  BY <1>1
<1> QED  BY <1>2, <1>4, <1>5, <1>6 DEF LibraryTyped

LEMMA ServiceNewTyped ==
  ASSUME LibraryTyped, NEW ok \in BOOLEAN, LS_DVBSubDecServiceNew(ok)
  PROVE  LibraryTyped'
<1> DEFINE steps == OwnSteps \o ServiceFactoryRegister
<1>1. PICK refused \in Refusals(steps) :
        /\ ok = Succeeds(steps, refused)
        /\ held' = IF ok THEN held \cup Taken(steps, refused)
                         ELSE (held \cup Taken(steps, refused)) \ ServiceCleanUp
        /\ failures' = failures + Cardinality(refused)
  BY DEF LS_DVBSubDecServiceNew, OwnSteps
<1>2. service' = (IF ok THEN "NULL" ELSE "none") /\ globals' = globals
  BY DEF LS_DVBSubDecServiceNew
<1>3. steps \in Seq(Things)
  BY ServiceSteps, Short, Both
<1> HIDE DEF steps
<1>4. held' \subseteq [what : Kinds, of : Names]
  BY <1>1, <1>3, StepsTyped DEF LibraryTyped
<1>5. failures' \in 0 .. MaxFailures
  BY <1>1, RefusalsAreFew DEF LibraryTyped
<1> QED  BY <1>2, <1>4, <1>5 DEF LibraryTyped

LEMMA FinalizeTyped ==
  ASSUME LibraryTyped, LS_DVBSubDecFinalize
  PROVE  LibraryTyped'
<1>1. Lost(mutex("sSystemFuncs")) \subseteq [what : Kinds, of : Names]
  BY DEF Lost, mutex, Kinds, Names
<1>2. globals' = {} /\ UNCHANGED << service, failures >>
  BY DEF LS_DVBSubDecFinalize
<1>3. held' \subseteq held \cup Lost(mutex("sSystemFuncs"))
  BY DEF LS_DVBSubDecFinalize
<1> QED  BY <1>1, <1>2, <1>3 DEF LibraryTyped

LEMMA ServiceStartTyped ==
  ASSUME LibraryTyped,
         LS_DVBSubDecServiceStart \/ LS_DVBSubDecServiceStop \/ LS_DVBSubDecServiceDelete
  PROVE  LibraryTyped'
<1>1. CASE LS_DVBSubDecServiceStart
  BY <1>1 DEF LibraryTyped, LS_DVBSubDecServiceStart
<1>2. CASE LS_DVBSubDecServiceStop
  BY <1>2 DEF LibraryTyped, LS_DVBSubDecServiceStop
<1>3. CASE LS_DVBSubDecServiceDelete
  <2>1. held' \subseteq held /\ service' \in {"none", service} /\ UNCHANGED << globals, failures >>
    BY <1>3 DEF LS_DVBSubDecServiceDelete
  <2> QED  BY <2>1 DEF LibraryTyped
<1> QED  BY <1>1, <1>2, <1>3

LEMMA StepKeepsLibraryTyped ==
  ASSUME LibraryTyped, [Next]_vars
  PROVE  LibraryTyped'
<1>1. CASE InitLibrary \/ CreateService
  BY <1>1, InitTyped, ServiceNewTyped DEF InitLibrary, CreateService
<1>2. CASE StartService \/ StopService \/ DeleteService
  BY <1>2, ServiceStartTyped DEF StartService, StopService, DeleteService
<1>3. CASE Finalize
  BY <1>3, FinalizeTyped DEF Finalize
<1>4. CASE CreateQueue \/ CreateWindow \/ LoadPES
  BY <1>4, RefusesTyped DEF CreateQueue, CreateWindow, LoadPES
<1>5. CASE sdl_player_start_feeding \/ AddFeedTimer
  <2>1. PICK ok \in BOOLEAN : Refuses(~ok)
    BY <1>5 DEF sdl_player_start_feeding, AddFeedTimer
  <2> QED  BY <2>1, RefusesTyped
<1>6. CASE Feeds
  <2>1. PICK result \in {"waits", "true", "false"} : Refuses(result = "false" /\ ~queue.shutdown)
    BY <1>6 DEF Feeds
  <2> QED  BY <2>1, RefusesTyped
<1>7. CASE \/ Destroy \/ Join \/ DestroyQueue \/ StopFeeding \/ Quit \/ Again \/ Done
           \/ FeedEnds \/ Reads \/ WakesUp \/ UNCHANGED vars
  <2>1. UNCHANGED << held, globals, service, failures >>
    BY <1>7 DEF Destroy, Join, DestroyQueue, StopFeeding, sdl_player_stop_feeding, Quit, Again, Done,
                FeedEnds, Reads, WakesUp, vars, libraryVars, MainGoesOn
  <2> QED  BY <2>1 DEF LibraryTyped
<1> QED  BY <1>1, <1>2, <1>3, <1>4, <1>5, <1>6, <1>7 DEF Next, MainSteps

\* Whoever waits in the queue is inside it.
LEMMA StepKeepsThreadsTyped ==
  ASSUME PlayerInv, ThreadsTyped, [Next]_vars
  PROVE  ThreadsTyped'
<1>1. CASE UNCHANGED << waiting, inside, feedTimer, feedComplete, fed, got, runs >>
  BY <1>1 DEF ThreadsTyped
<1>2. CASE \/ InitLibrary \/ CreateQueue \/ CreateWindow \/ CreateService \/ StartService \/ LoadPES
           \/ Quit \/ StopService \/ DeleteService \/ Finalize \/ Done \/ FeedEnds
           \/ Join \/ UNCHANGED vars
  <2>1. UNCHANGED << waiting, inside, feedTimer, feedComplete, fed, got, runs >>
    BY <1>2 DEF InitLibrary, CreateQueue, CreateWindow, CreateService, StartService, LoadPES,
       Quit, StopService, DeleteService, Finalize, Done, FeedEnds, Join, MainGoesOn, vars,
       queueVars, playerVars
  <2> QED  BY <1>1, <2>1
<1>3. CASE WakesUp
  BY <1>3 DEF ThreadsTyped, WakesUp, playerVars
<1>4. CASE sdl_player_start_feeding \/ AddFeedTimer
  BY <1>4 DEF ThreadsTyped, sdl_player_start_feeding, AddFeedTimer, queueVars
<1>5. CASE StopFeeding \/ Destroy
  <2>1. CASE sdl_player_stop_feeding("running", "joining")
             \/ sdl_player_stop_feeding("closing", "quitting")
    BY <2>1 DEF ThreadsTyped, sdl_player_stop_feeding, pes_queue_shutdown, Woken
  <2>2. CASE MainGoesOn("closing", "stopping") /\ UNCHANGED queueVars
    BY <1>1, <2>2 DEF MainGoesOn, queueVars
  <2> QED  BY <1>5, <2>1, <2>2 DEF StopFeeding, Destroy
<1>6. CASE DestroyQueue
  <2>1. waiting' \subseteq inside'
    BY <1>6 DEF DestroyQueue, pes_queue_destroy, queueVars, ThreadsTyped
  <2> QED  BY <1>6, <2>1 DEF ThreadsTyped, DestroyQueue, MainGoesOn
<1>7. CASE Again
  <2>1. runs' \in 1 .. MaxRuns
    BY <1>7, PlayerAssumption DEF ThreadsTyped, Again
  <2>2. got' \in Seq(1 .. Packets) /\ fed' <= Packets
    BY <1>7, Constants DEF Again
  <2> QED  BY <1>7, <2>1, <2>2 DEF ThreadsTyped, Again
<1>8. CASE Feeds
  <2>1. PICK result \in {"waits", "true", "false"} :
          /\ pes_queue_enqueue("feed", feed.pos + 1, result)
          /\ fed' = fed + IF result = "true" THEN 1 ELSE 0
    BY <1>8 DEF Feeds
  <2>2. UNCHANGED << feedTimer, feedComplete, got, runs >>
    BY <1>8 DEF Feeds
  <2>3. waiting' \subseteq inside'
    BY <2>1 DEF ThreadsTyped, pes_queue_enqueue, Runs, Waits, Returns, Stored, Signal
  <2>4. fed' <= Packets
    <3>1. CASE result = "true"
      <4>1. queue # NULL /\ ~queue.shutdown
        BY <2>1, <3>1 DEF pes_queue_enqueue, Runs
      <4>2. fed = feed.pos /\ feed.pos < Packets /\ feed.pos \in Nat
        BY <1>8, <4>1, Constants DEF Feeds, PlayerInv, Fed, FeedShape
      <4> QED  BY <2>1, <3>1, <4>2, Constants
    <3>2. CASE result # "true"
      BY <2>1, <3>2 DEF ThreadsTyped, PlayerInv, QueueInv
    <3> QED  BY <3>1, <3>2
  <2> QED  BY <2>2, <2>3, <2>4 DEF ThreadsTyped
<1>9. CASE Reads
  <2>1. PICK packet \in 1 .. Packets \cup {NULL} :
          /\ pes_queue_dequeue("reader", packet)
          /\ got' = IF packet = NULL THEN got ELSE Append(got, packet)
    BY <1>9 DEF Reads
  <2>2. UNCHANGED << feedTimer, feedComplete, fed, runs >>
    BY <1>9 DEF Reads
  <2>3. waiting' \subseteq inside'
    BY <2>1 DEF ThreadsTyped, pes_queue_dequeue, Runs, Waits, Returns, Signal
  <2>4. got' \in Seq(1 .. Packets)
    BY <2>1, AppendProperties DEF ThreadsTyped
  <2> QED  BY <2>2, <2>3, <2>4 DEF ThreadsTyped
<1> QED  BY <1>2, <1>3, <1>4, <1>5, <1>6, <1>7, <1>8, <1>9 DEF Next, MainSteps

\* The types of the demo, the queue and the library, for every number of packets, runs and
\* refusals: no thread waits outside a call, no more packets are fed than the file has.
THEOREM PlayerTypeCorrect == Spec => []TypeOK
<1>1. Init => LibraryTyped /\ ThreadsTyped
  <2> SUFFICES ASSUME Init PROVE LibraryTyped /\ ThreadsTyped
    OBVIOUS
  <2>1. LibraryTyped
    BY LibraryAssumption DEF Init, LibraryInit, LibraryTyped
  <2>2. runs \in 1 .. MaxRuns
    BY PlayerAssumption DEF Init
  <2>3. fed <= Packets /\ got \in Seq(1 .. Packets)
    BY Constants DEF Init
  <2>4. waiting \subseteq inside /\ feedTimer \in BOOLEAN /\ feedComplete \in BOOLEAN
    BY DEF Init, QueueInit
  <2> QED  BY <2>1, <2>2, <2>3, <2>4 DEF ThreadsTyped
<1>2. PlayerInv /\ LibraryTyped /\ ThreadsTyped /\ [Next]_vars => LibraryTyped' /\ ThreadsTyped'
  BY StepKeepsLibraryTyped, StepKeepsThreadsTyped
<1>3. PlayerInv /\ LibraryTyped /\ ThreadsTyped => TypeOK
  <2> SUFFICES ASSUME PlayerInv, LibraryTyped, ThreadsTyped PROVE TypeOK
    OBVIOUS
  <2>1. fed \in 0 .. Packets
    BY Constants DEF PlayerInv, QueueInv, ThreadsTyped
  <2>2. inside \subseteq Thread /\ feed \in [state : {"none", "running", "done"}, pos : 0 .. Packets]
    BY PlayerAssumption DEF PlayerInv, FeedShape
  <2>3. main \in Stage /\ (queue = NULL \/ queue \in Queue(1 .. Packets))
    BY DEF PlayerInv, Staged, QueueInv
  <2> QED  BY <2>1, <2>2, <2>3 DEF LibraryTyped, ThreadsTyped, TypeOK, Kinds
<1> QED  BY <1>1, <1>2, <1>3, PlayerInvHolds, PTL DEF Spec

=============================================================================
