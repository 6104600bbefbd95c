----------------------------- MODULE LinkedList -----------------------------
(***************************************************************************)
(* LinkedList<T> (Common/include/common/linked_list.hpp), a list of heap   *)
(* nodes with links in both directions.  The address of a deleted node is  *)
(* reused by a later one, and a link to it is not reset: remove(0) leaves  *)
(* the new head's prev pointing at the node it has deleted.                *)
(***************************************************************************)
EXTENDS Naturals, Sequences, FiniteSets

CONSTANTS Address,    \* where the heap can place a node
          Value

Null == "null"

VARIABLES head_, count_,
          node  \* the nodes that are allocated, by their address

vars == <<head_, count_, node>>

Node == [prev : Address \cup {Null}, next : Address \cup {Null}, value : Value]

TypeOK ==
    /\ head_ \in Address \cup {Null}
    /\ count_ \in Nat
    /\ \E live \in SUBSET Address : node \in [live -> Node]

(* LinkedListNode's constructor.                                           *)
NewNode(v) == [prev |-> Null, next |-> Null, value |-> v]

Init ==
    /\ head_ = Null
    /\ count_ = 0
    /\ node = << >>

(* new LinkedListNode, at any free address.                                *)
Fresh(a) == a \in Address \ DOMAIN node

With(nodes, a, n) == [b \in DOMAIN nodes \cup {a} |-> IF b = a THEN n ELSE nodes[b]]

Without(nodes, a) == [b \in DOMAIN nodes \ {a} |-> nodes[b]]

(* node_at follows next from the head, index times.                        *)
node_at(index) ==
    LET after[k \in 0 .. index] == IF k = 0 THEN head_ ELSE node[after[k - 1]].next
    IN  after[index]

(* The walk to the tail of a list that is not empty.                       *)
Tail_ ==
    LET walk[k \in 0 .. count_] ==
            LET a == node_at(k) IN IF node[a].next = Null THEN a ELSE walk[k + 1]
    IN  walk[0]

push_back(a, v) ==
    /\ Fresh(a)
    /\ count_' = count_ + 1
    /\ IF head_ # Null
       THEN /\ node' = With([node EXCEPT ![Tail_].next = a], a,
                            [NewNode(v) EXCEPT !.prev = Tail_])
            /\ UNCHANGED head_
       ELSE /\ node' = With(node, a, NewNode(v))
            /\ head_' = a

push_front(a, v) ==
    /\ Fresh(a)
    /\ count_' = count_ + 1
    /\ head_' = a
    /\ node' = IF head_ # Null
               THEN With([node EXCEPT ![head_].prev = a], a,
                         [NewNode(v) EXCEPT !.next = head_])
               ELSE With(node, a, NewNode(v))

(* Unlinking the node at an index other than zero.                         *)
Unlinked(a) ==
    LET n == node[a]
        forward == IF n.prev # Null THEN [node EXCEPT ![n.prev].next = n.next] ELSE node
    IN  IF n.next # Null THEN [forward EXCEPT ![n.next].prev = n.prev] ELSE forward

remove(index) ==
    /\ index < count_
    /\ count_' = count_ - 1
    /\ IF index = 0
       THEN /\ head_' = node[head_].next
            /\ node' = Without(node, head_)
       ELSE /\ node' = Without(Unlinked(node_at(index)), node_at(index))
            /\ UNCHANGED head_

(* The destructor removes the head until the list is empty.                *)
Destroy ==
    /\ head_' = Null
    /\ count_' = 0
    /\ node' = [a \in DOMAIN node \ {node_at(i) : i \in 0 .. count_ - 1} |-> node[a]]

Next ==
    \/ \E a \in Address, v \in Value : push_back(a, v)
    \/ \E a \in Address, v \in Value : push_front(a, v)
    \/ \E index \in 0 .. count_ : remove(index)
    \/ Destroy

Spec == Init /\ [][Next]_vars
-----------------------------------------------------------------------------
(***************************************************************************)
(* Properties.                                                             *)
(***************************************************************************)
Nodes == {node_at(i) : i \in 0 .. count_ - 1}

\* The nodes on the heap are those of the list, and the prev of each but the
\* head is the node before it: remove() follows prev, and never the one that
\* remove(0) leaves dangling.
DoublyLinked ==
    /\ DOMAIN node = Nodes
    /\ (head_ = Null) <=> (count_ = 0)
    /\ count_ > 0 => node[node_at(count_ - 1)].next = Null
    /\ \A i \in 1 .. count_ - 1 : node[node_at(i)].prev = node_at(i - 1)

D == INSTANCE Deque WITH
        Name <- {"list"}, CAPACITY <- Cardinality(Address),
        items <- [n \in {"list"} |-> [i \in 1 .. count_ |-> node[node_at(i - 1)].value]]

\* Pushing at either end and removing at any index keep the order of the
\* other values, wherever the heap places the nodes.
ListImplementsDeque ==
    [][/\ \A a \in Address, v \in Value : push_back(a, v) => D!PushBack("list", v)
       /\ \A a \in Address, v \in Value : push_front(a, v) => D!PushFront("list", v)
       /\ \A i \in 0 .. count_ : remove(i) => D!Remove("list", i)
       /\ Destroy => D!Clear("list")]_vars

=============================================================================
