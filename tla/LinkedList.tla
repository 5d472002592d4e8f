------------------------------- MODULE LinkedList -------------------------------
(***************************************************************************)
(* A list of libdvbsubdec (lslist.c) and the blocks its client keeps in    *)
(* it, all of them in one heap.  The list is a chain of nodes from the     *)
(* anchor; its mutex never fails, and the magic numbers and the watchdog,  *)
(* which only detect a corrupted chain, are left out.                      *)
(*                                                                         *)
(* The client appends blocks it holds and holds what is taken out again,   *)
(* as the library does with its services, pages, requests and regions.     *)
(***************************************************************************)
EXTENDS Heap

CONSTANTS
  ListBytes,   \* sizeof(LS_List)
  NodeBytes,   \* sizeof(LS_ListNode)
  DataBytes,   \* sizes of the client's blocks
  MaxHeld      \* bound: blocks the client holds outside the list

ASSUME ListAssumption ==
  /\ {ListBytes, NodeBytes} \cup DataBytes \subseteq Nat \ {0}
  /\ MaxHeld \in Nat

VARIABLES
  list,  \* [at: the LS_List or NULL, anchor: the first node or NULL, count]
  node,  \* [data, next] of each node
  held   \* the client's blocks that are not in the list

listVars == << build, heap, list, node, held >>

Pointer == Address \cup {NULL}

ListTypeOK ==
  /\ HeapTypeOK
  /\ list \in [at : Pointer, anchor : Pointer, count : Nat]
  /\ DOMAIN node \subseteq Address
  /\ \A n \in DOMAIN node : node[n] \in [data : Address, next : Pointer]
  /\ held \subseteq Address

NoList == [at |-> NULL, anchor |-> NULL, count |-> 0]

ListInit ==
  /\ HeapInit
  /\ list = NoList /\ node = << >> /\ held = {}

-----------------------------------------------------------------------------
(* The chain                                                               *)

\* The walk from the anchor, as far as there are nodes.
Walked(chain) ==
  LET next == IF chain = << >> THEN list.anchor ELSE node[Last(chain)].next
  IN  IF next = NULL THEN chain ELSE Append(chain, next)

Chain == LET walk[i \in 0 .. HeapSize] == IF i = 0 THEN << >> ELSE Walked(walk[i - 1])
         IN  walk[Cardinality(DOMAIN node)]

Length == Len(Chain)

Items == LET chain == Chain IN [i \in DOMAIN chain |-> node[chain[i]].data]

\* What LS_ListCount returns.
ListCount == list.count

\* What LS_ListNthNode returns.  For an empty list the unsigned count - 1 is no limit, and
\* the walk finds nothing.
NthNode(n) ==
  IF (list.count > 0 /\ list.count - 1 < n) \/ n >= Length THEN NULL ELSE Items[n + 1]

\* The place of the first node whose data the comparison accepts, or 0.
FirstOf(accepted) == SelectInSeq(Items, LAMBDA d : d \in accepted)

\* What LS_ListFindUserNode returns.
FindUserNode(accepted) == IF FirstOf(accepted) = 0 THEN NULL ELSE Items[FirstOf(accepted)]

\* The data that LS_ListForEachNode visits, in order; it stops when the count is 0.
Visited == IF list.count = 0 THEN << >> ELSE Items

-----------------------------------------------------------------------------
(* Operations                                                              *)

\* LS_ListInit
Create ==
  /\ list.at = NULL
  /\ \E m \in Mallocs(heap, ListBytes) :
       heap' = m.heap /\ list' = [NoList EXCEPT !.at = m.at]
  /\ UNCHANGED << build, node, held >>

\* A node for d before nxt, or nothing if there is no memory for it.
WithNode(d, nxt, n) == With(node, n, [data |-> d, next |-> nxt])

\* Variant of LinkedLast: the last node is looked for one too early.
LinkedBeforeLast(d, n) ==
  IF Length < 2 THEN WithNode(d, NULL, n)
                ELSE [WithNode(d, node[Chain[Length - 1]].next, n) EXCEPT ![Chain[Length - 1]].next = n]

\* The last node is found by walking the chain.
LinkedLast(d, n) ==
  IF list.anchor = NULL THEN WithNode(d, NULL, n)
                        ELSE [WithNode(d, NULL, n) EXCEPT ![Chain[Length]].next = n]

ListAppend(d) ==
  /\ list.at # NULL
  /\ \E m \in Mallocs(heap, NodeBytes) :
       /\ heap' = m.heap
       /\ IF m.at = NULL THEN UNCHANGED << list, node, held >>
          ELSE /\ node' = LinkedLast(d, m.at)
               /\ list' = [list EXCEPT !.count = @ + 1,
                                       !.anchor = IF @ = NULL THEN m.at ELSE @]
               /\ held' = held \ {d}
  /\ UNCHANGED build

\* The node is allocated before the mutex is taken.
ListPreAppend(d) ==
  /\ list.at # NULL
  /\ \E m \in Mallocs(heap, NodeBytes) :
       /\ heap' = m.heap
       /\ IF m.at = NULL THEN UNCHANGED << list, node, held >>
          ELSE /\ node' = WithNode(d, list.anchor, m.at)
               /\ list' = [list EXCEPT !.count = @ + 1, !.anchor = m.at]
               /\ held' = held \ {d}
  /\ UNCHANGED build

\* The chain after its i-th node is unlinked.
WithoutNode(i) ==
  [n \in DOMAIN node \ {Chain[i]} |->
     IF node[n].next = Chain[i] THEN [node[n] EXCEPT !.next = node[Chain[i]].next] ELSE node[n]]

\* Variant of HeapWithoutNode: the node is unlinked and not freed.
HeapWithoutNodeLeaked(i) == heap

HeapWithoutNode(i) == Free(heap, Chain[i])

Unlink(i) ==
  /\ list' = [list EXCEPT !.count = @ - 1,
                          !.anchor = IF i = 1 THEN node[Chain[1]].next ELSE @]
  /\ node' = WithoutNode(i)
  /\ heap' = HeapWithoutNode(i)
  /\ held' = held \cup {Items[i]}
  /\ UNCHANGED build

\* LS_ListRemoveNode, LS_ListRemoveUserNode: the first that matches, if there is one.
ListRemoveUserNode(accepted) == FirstOf(accepted) # 0 /\ Unlink(FirstOf(accepted))

ListRemoveNode(d) == ListRemoveUserNode({d})

\* LS_ListFirstData takes the first node out.
ListFirstData == list.anchor # NULL /\ Unlink(1)

\* Variant of Emptied: the count is kept.
EmptiedUncounted == [list EXCEPT !.anchor = NULL]

Emptied == [list EXCEPT !.anchor = NULL, !.count = 0]

\* LS_ListEmpty frees the nodes and leaves the data to the client.
ListEmpty ==
  /\ list.at # NULL
  /\ heap' = FreeAll(heap, Chain)
  /\ list' = Emptied
  /\ node' = << >>
  /\ held' = held \cup {Items[i] : i \in 1 .. Length}
  /\ UNCHANGED build

\* LS_ListEmptyData: the client's function frees each data before its node is freed.
ListEmptyData ==
  /\ list.at # NULL
  /\ heap' = FreeAll(heap, [i \in 1 .. 2 * Length |->
                              IF i % 2 = 1 THEN Items[(i + 1) \div 2] ELSE Chain[i \div 2]])
  /\ list' = Emptied
  /\ node' = << >>
  /\ UNCHANGED << build, held >>

\* LS_ListDestroy: a list that is not empty is left alone, and LS_OK returned.
ListDestroy ==
  /\ list.at # NULL /\ list.count = 0
  /\ heap' = Free(heap, list.at)
  /\ list' = NoList
  /\ UNCHANGED << build, node, held >>

-----------------------------------------------------------------------------
(* The client's own blocks                                                 *)

ClientMalloc ==
  /\ Cardinality(held) < MaxHeld
  /\ \E bytes \in DataBytes : \E m \in Mallocs(heap, bytes) :
       m.at # NULL /\ heap' = m.heap /\ held' = held \cup {m.at}
  /\ UNCHANGED << build, list, node >>

ClientRealloc(d) ==
  /\ \E bytes \in DataBytes : \E m \in Reallocs(heap, d, bytes) :
       heap' = m.heap /\ held' = IF m.at = NULL THEN held ELSE (held \ {d}) \cup {m.at}
  /\ UNCHANGED << build, list, node >>

\* The client forgets a block that LS_Free refuses.
ClientFree(d) ==
  /\ heap' = Free(heap, d)
  /\ held' = held \ {d}
  /\ UNCHANGED << build, list, node >>

ListNext ==
  \/ Create \/ ListFirstData \/ ListEmpty \/ ListEmptyData \/ ListDestroy
  \/ \E d \in held : ListAppend(d) \/ ListPreAppend(d)
  \/ \E i \in 1 .. Length : ListRemoveNode(Items[i])
  \/ ClientMalloc
  \/ \E d \in held : ClientRealloc(d) \/ ClientFree(d)

ListSpec == ListInit /\ [][ListNext]_listVars

-----------------------------------------------------------------------------
(* Properties                                                              *)

\* The list is a sequence: lists of libdvbsubdec implement ListContract.
Contract == INSTANCE ListContract
              WITH exists <- list.at # NULL, items <- Items

ListImplementsContract == Contract!Spec

\* The count that LS_ListCount returns, and by which the walks over a list stop, is the
\* number of nodes, so that the n-th, the visited and the found data are those of the sequence.
CountIsLength ==
  /\ ListCount = Length
  /\ \A d \in Address : (FindUserNode({d}) = d) = (d \in Range(Items))
  /\ \A n \in 0 .. Length : NthNode(n) = IF n < Length THEN Items[n + 1] ELSE NULL
  /\ Visited = Items

\* The blocks a client or the list can reach.
Owned == held \cup {Items[i] : i \in 1 .. Length}
              \cup {Chain[i] : i \in 1 .. Length} \cup ({list.at} \ {NULL})

\* Every block in use has exactly one owner: a node, the list itself, an element or the
\* client.  Nothing leaks but what LS_Free refuses, and nothing is used after it is freed.
OneOwner ==
  /\ Cardinality(Owned)
       = Cardinality(held) + 2 * Length + (IF list.at = NULL THEN 0 ELSE 1)
  /\ Owned \subseteq DOMAIN heap.header
  /\ \A at \in DOMAIN heap.header : heap.header[at].valid => at \in Owned
  /\ DOMAIN node = {Chain[i] : i \in 1 .. Length}

=============================================================================
