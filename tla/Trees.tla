-------------------------------- MODULE Trees --------------------------------
(* Binary heaps (CFBinaryHeap.c) and trees (CFTree.c), in which a node knows *)
(* its parent, its first and last child and its next sibling, and holds its  *)
(* children.  Each behaviour is of one kind.                                 *)
EXTENDS Integers, FiniteSets, Sequences, SequencesExt

CONSTANTS
  Items, \* what a heap holds: <<rank, name>>, of which the rank is compared
  Nodes, \* 1..n
  Infos, \* what contexts are of
  MaxCount, MaxCalls

VARIABLES kind, store, mean, calls

vars == <<kind, store, mean, calls>>
----------------------------------------------------------------------------
RoundUpHeap(n) == IF n < 4 THEN 4 ELSE IF n < 8 THEN 8 ELSE 16

\* Up from a new last place, until what is above is not greater.
RECURSIVE Up(_, _, _)
Up(buckets, i, item) ==
  LET p == i \div 2 IN
  IF i = 1 \/ buckets[p][1] <= item[1] THEN [buckets EXCEPT ![i] = item]
  ELSE Up([buckets EXCEPT ![i] = buckets[p]], p, item)
AddValue(h, item) ==
  [buckets |-> Up(Append(h.buckets, item), Len(h.buckets) + 1, item),
   capacity |-> IF Len(h.buckets) = h.capacity THEN RoundUpHeap(h.capacity + 1) ELSE h.capacity,
   held |-> [h.held EXCEPT ![item] = @ + 1]]

\* Down from the place i, past the lesser of the two below, until it is not less.
RECURSIVE Down(_, _, _)
Down(buckets, i, item) ==
  LET n == Len(buckets)
      c == IF 2 * i + 1 <= n /\ buckets[2 * i][1] > buckets[2 * i + 1][1] THEN 2 * i + 1 ELSE 2 * i
  IN IF 2 * i > n \/ buckets[c][1] > item[1] THEN [buckets EXCEPT ![i] = item]
     ELSE Down([buckets EXCEPT ![i] = buckets[c]], c, item)
RemoveMinimumValue(h) ==
  LET n == Len(h.buckets) IN
  IF n = 0 THEN h
  ELSE [h EXCEPT !.buckets = IF n = 1 THEN <<>> ELSE Down(SubSeq(@, 1, n - 1), 1, @[n]),
                 !.held[h.buckets[1]] = @ - 1]

NewHeap == [buckets |-> <<>>, capacity |-> RoundUpHeap(1), held |-> [i \in Items |-> 0]]
CreateCopy(h) == FoldLeft(AddValue, NewHeap, h.buckets)
RECURSIVE Drained(_)
Drained(h) ==
  IF h.buckets = <<>> THEN <<>> ELSE <<h.buckets[1]>> \o Drained(RemoveMinimumValue(h))
GetValues(h) == Drained(CreateCopy(h))

RemoveAllValues(h) ==
  [h EXCEPT !.buckets = <<>>,
            !.held = [i \in Items |-> @[i] - Cardinality({k \in DOMAIN h.buckets : h.buckets[k] = i})]]
----------------------------------------------------------------------------
NoNode == 0
Node ==
  [parent |-> NoNode, sibling |-> NoNode, child |-> NoNode, rightmost |-> NoNode, refs |-> 1,
   alive |-> TRUE, callbacks |-> "null", info |-> CHOOSE i \in Infos : TRUE]
NewTrees == [nodes |-> [n \in Nodes |-> Node], held |-> [i \in Infos |-> 0], blocks |-> 0]

RECURSIVE From(_, _)
From(nodes, n) == IF n = NoNode THEN <<>> ELSE <<n>> \o From(nodes, nodes[n].sibling)
Children(s, t) == From(s.nodes, s.nodes[t].child)
RECURSIVE FindRoot(_, _)
FindRoot(s, n) == IF s.nodes[n].parent = NoNode THEN n ELSE FindRoot(s, s.nodes[n].parent)

SetContext(s, t, callbacks, info) ==
  LET old == s.nodes[t]
      Held(held, i, n) == [held EXCEPT ![i] = @ + n]
      taken == IF callbacks = "null" THEN s.held ELSE Held(s.held, info, 1)
  IN [nodes |-> [s.nodes EXCEPT ![t].callbacks = callbacks, ![t].info = info],
      held |-> IF old.callbacks = "null" THEN taken ELSE Held(taken, old.info, -1),
      blocks |-> s.blocks + (IF callbacks = "custom" THEN 1 ELSE 0)
                   - (IF old.callbacks = "custom" THEN 1 ELSE 0)]

Prepend(s, t, c) ==
  [s EXCEPT !.nodes[c].parent = t, !.nodes[c].sibling = s.nodes[t].child, !.nodes[c].refs = @ + 1,
            !.nodes[t].rightmost = IF s.nodes[t].child = NoNode THEN c ELSE @,
            !.nodes[t].child = c]
AppendTo(s, t, c) ==
  LET last == s.nodes[t].rightmost
      placed == [s.nodes EXCEPT ![c].parent = t, ![c].sibling = NoNode, ![c].refs = @ + 1,
                                ![t].rightmost = c]
  IN [s EXCEPT !.nodes = IF s.nodes[t].child = NoNode THEN [placed EXCEPT ![t].child = c]
                         ELSE [placed EXCEPT ![last].sibling = c]]
InsertSibling(s, t, c) ==
  LET p == s.nodes[t].parent IN
  [s EXCEPT !.nodes[c].parent = p, !.nodes[c].sibling = s.nodes[t].sibling, !.nodes[c].refs = @ + 1,
            !.nodes[t].sibling = c,
            !.nodes[p].rightmost = IF @ = t THEN c ELSE @]

\* The last reference takes what the node holds with it: its children, one
\* after the other, and its context.
RECURSIVE Release(_, _), RemoveAll(_, _)
Release(s, t) ==
  LET n == s.nodes[t]
      less == [s EXCEPT !.nodes[t].refs = @ - 1]
      bare == RemoveAll([s EXCEPT !.nodes[t].refs = 0, !.nodes[t].alive = FALSE], t)
  IN IF n.refs > 1 THEN less
     ELSE [bare EXCEPT !.held = IF n.callbacks = "null" THEN @ ELSE [@ EXCEPT ![n.info] = @ - 1],
                       !.blocks = IF n.callbacks = "custom" THEN @ - 1 ELSE @]
RemoveAll(s, t) ==
  LET Step(acc, c) ==
        Release([acc EXCEPT !.nodes[c].parent = NoNode, !.nodes[c].sibling = NoNode], c)
  IN FoldLeft(Step, [s EXCEPT !.nodes[t].child = NoNode, !.nodes[t].rightmost = NoNode],
              Children(s, t))

RemoveNode(s, t) ==
  LET n == s.nodes[t]
      p == s.nodes[n.parent]
      before == {b \in Nodes : b \in Range(Children(s, n.parent)) /\ s.nodes[b].sibling = t}
      unlinked ==
        IF p.child = t
        THEN [s.nodes EXCEPT ![n.parent].child = n.sibling,
                             ![n.parent].rightmost = IF n.sibling = NoNode THEN NoNode ELSE @]
        ELSE [b \in Nodes |->
                IF b \in before THEN [s.nodes[b] EXCEPT !.sibling = n.sibling]
                ELSE IF b = n.parent /\ p.rightmost = t
                THEN [p EXCEPT !.rightmost = CHOOSE c \in before : TRUE]
                ELSE s.nodes[b]]
  IN IF n.parent = NoNode THEN s
     ELSE Release([s EXCEPT !.nodes = [unlinked EXCEPT ![t].parent = NoNode, ![t].sibling = NoNode]], t)

\* The client's comparison: the greater first.
Precedes(a, b) == a > b
SortChildren(s, t) ==
  LET list == SortSeq(Children(s, t), Precedes)
      n == Len(list)
  IN IF n <= 1 THEN s
     ELSE [s EXCEPT !.nodes = [b \in Nodes |->
             IF b = t THEN [s.nodes[t] EXCEPT !.child = list[1], !.rightmost = list[n]]
             ELSE IF \E i \in 1 .. n : list[i] = b
             THEN LET i == CHOOSE k \in 1 .. n : list[k] = b IN
                  [s.nodes[b] EXCEPT !.sibling = IF i < n THEN list[i + 1] ELSE NoNode]
             ELSE s.nodes[b]]]
----------------------------------------------------------------------------
\* The client holds every node in the beginning; `mean` has the children of
\* each, what the client still holds, and the contexts.
Init ==
  /\ calls = 0
  /\ \/ kind = "heap" /\ store = NewHeap /\ mean = <<>>
     \/ /\ kind = "tree" /\ store = NewTrees
        /\ mean = [children |-> [n \in Nodes |-> <<>>], own |-> Nodes,
                   context |-> [n \in Nodes |-> <<"null", Node.info>>]]

ChangeHeap ==
  /\ kind = "heap"
  /\ \/ \E i \in Items :
          /\ Len(mean) < MaxCount
          /\ store' = AddValue(store, i) /\ mean' = Append(mean, i)
     \/ /\ mean # <<>>
        /\ store' = RemoveMinimumValue(store)
        /\ LET first == CHOOSE k \in DOMAIN mean : mean[k] = store.buckets[1]
           IN mean' = RemoveAt(mean, first)
     \/ store' = RemoveAllValues(store) /\ mean' = <<>>
     \/ store' = CreateCopy(store) /\ UNCHANGED mean
  /\ UNCHANGED kind

Places(seq, n) == {k \in DOMAIN seq : seq[k] = n}
Without(seq, n) == SelectSeq(seq, LAMBDA c : c # n)
Parents(n) == {t \in Nodes : store.nodes[t].alive /\ Places(mean.children[t], n) # {}}
ChangeTree ==
  /\ kind = "tree"
  /\ \/ \E t \in Nodes, c \in mean.own :
          /\ c # t /\ store.nodes[t].alive /\ Parents(c) = {} /\ FindRoot(store, t) # c
          /\ \/ store' = Prepend(store, t, c) /\ mean' = [mean EXCEPT !.children[t] = <<c>> \o @]
             \/ store' = AppendTo(store, t, c) /\ mean' = [mean EXCEPT !.children[t] = Append(@, c)]
             \/ \E p \in Parents(t), k \in 1 .. Cardinality(Nodes) :
                  /\ k \in Places(mean.children[p], t)
                  /\ store' = InsertSibling(store, t, c)
                  /\ mean' = [mean EXCEPT !.children[p] =
                                SubSeq(@, 1, k) \o <<c>> \o SubSeq(@, k + 1, Len(@))]
     \/ \E t \in Nodes :
          /\ store.nodes[t].alive
          /\ \/ /\ store' = RemoveNode(store, t)
                /\ mean' = [mean EXCEPT !.children = [p \in Nodes |-> Without(@[p], t)]]
             \/ store' = RemoveAll(store, t) /\ mean' = [mean EXCEPT !.children[t] = <<>>]
             \/ /\ t \in mean.own
                /\ store' = Release(store, t) /\ mean' = [mean EXCEPT !.own = @ \ {t}]
             \/ /\ store' = SortChildren(store, t)
                /\ mean' = [mean EXCEPT !.children[t] = SortSeq(@, Precedes)]
             \/ \E callbacks \in {"null", "type", "custom"}, info \in Infos :
                  /\ store' = SetContext(store, t, callbacks, info)
                  /\ mean' = [mean EXCEPT !.context[t] = <<callbacks, info>>]
  /\ UNCHANGED kind

Next == calls < MaxCalls /\ calls' = calls + 1 /\ (ChangeHeap \/ ChangeTree)

Spec == Init /\ [][Next]_vars
----------------------------------------------------------------------------
TypeOK == calls \in 0 .. MaxCalls /\ kind \in {"heap", "tree"}

\* A heap has what was added and not removed, the least first, gives it out in
\* order and holds each once (CFBinaryHeap.c:300-409).
HeapIsTheBag ==
  kind = "heap" =>
    LET b == store.buckets
        Count(s, i) == Cardinality(Places(s, i))
        values == GetValues(store)
    IN /\ \A i \in Items : Count(b, i) = Count(mean, i) /\ store.held[i] = Count(mean, i)
       /\ \A k \in 2 .. Len(b) : b[k \div 2][1] <= b[k][1]
       /\ Len(b) <= store.capacity
       /\ \A i \in Items : Count(values, i) = Count(mean, i)
       /\ \A k \in 2 .. Len(values) : values[k - 1][1] <= values[k][1]

\* A node that is held by the client or by its parent is alive, has the children
\* that the calls gave it, in their order, knows the last and is known to each
\* as its parent; and what is not held is gone, with its context, and its
\* children do not refer to it any more (CFTree.c:295-400).
TreeIsTheForest ==
  kind = "tree" =>
    LET live == {n \in Nodes : store.nodes[n].alive}
        Holders(n) == {p \in live : Places(mean.children[p], n) # {}}
    IN /\ \A n \in live :
            LET its == mean.children[n] IN
            /\ Children(store, n) = its
            /\ store.nodes[n].rightmost = (IF its = <<>> THEN NoNode ELSE its[Len(its)])
            /\ {store.nodes[n].parent} = (IF Holders(n) = {} THEN {NoNode} ELSE Holders(n))
            /\ Holders(n) = {} => store.nodes[n].sibling = NoNode
            /\ store.nodes[n].refs = Cardinality(Holders(n)) + (IF n \in mean.own THEN 1 ELSE 0)
            /\ <<store.nodes[n].callbacks, store.nodes[n].info>> = mean.context[n]
       /\ live = {n \in Nodes : n \in mean.own \/ Holders(n) # {}}
       /\ \A i \in Infos : store.held[i] =
            Cardinality({n \in live : mean.context[n][2] = i /\ mean.context[n][1] # "null"})
       /\ store.blocks = Cardinality({n \in live : mean.context[n][1] = "custom"})
============================================================================
