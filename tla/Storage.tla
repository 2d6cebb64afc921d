------------------------------- MODULE Storage -------------------------------
(* CFStorage.c: a sequence of values in a tree whose leaves hold runs of it  *)
(* and whose branches have two or three children.  CFStorageCreateWithSubrange*)
(* makes a second storage that shares nodes with the first: the shared nodes *)
(* are frozen, a change copies them on its way down, and a node with one     *)
(* reference is thawed instead.  Each storage caches the leaf it looked at   *)
(* last; the leaf itself says which range of the storage it is.              *)
(*                                                                           *)
(* `values` is what each storage stands for.  A value that was made room for *)
(* and not set is 0: the memory of a leaf is allocated when it is first read.*)
EXTENDS Integers, FiniteSets, Sequences, SequencesExt, FiniteSetsExt, TLC

CONSTANTS
  MaxLeaf,      \* maxLeafCapacity, in values
  Lengths,      \* how long the storage is at first
  MaxLength,    \* bound: the length of a storage
  MaxCalls,     \* bound: the calls after that
  MaxStamp,     \* bound: the values at first; then values above it are set
  SharesBranches \* whether a subrange may be taken of a node above branches

VARIABLES
  heap,         \* the nodes: the roots of the storages, and the others
  cache,        \* the cacheNode of each storage
  values,
  copied,       \* the second storage has been made
  read,         \* what the last call read, and what it should have
  spoilt,       \* a node that both storages have was changed in place
  calls

vars == <<heap, cache, values, copied, read, spoilt, calls>>

Storages == {-1, -2}              \* a storage is named like its root
NoNode == 0
Root(kids, size, mem) ==
  [leaf |-> kids = <<>>, refs |-> 0, frozen |-> FALSE, size |-> size, mem |-> mem,
   kids |-> kids, loc |-> 0, len |-> 0]
Leaf(mem) == [Root(<<>>, Len(mem), mem) EXCEPT !.refs = 1]
Branch(kids, size) == [Root(kids, size, <<>>) EXCEPT !.refs = 1, !.leaf = FALSE]
Gap(n) == [i \in 1 .. n |-> 0]
EmptyRoot == Root(<<>>, 0, <<>>)

\* __CFStorageCreateNode.
Fresh(h) == CHOOSE id \in 1 .. Cardinality(DOMAIN h) + 1 :
              id \notin DOMAIN h /\ 1 .. id - 1 \subseteq DOMAIN h
With(h, node) == (Fresh(h) :> node) @@ h

Retain(h, id) == IF h[id].refs > 0 THEN [h EXCEPT ![id].refs = @ + 1] ELSE h
RetainAll(h, ids) == FoldLeft(Retain, h, ids)
RECURSIVE Release(_, _)
Release(h, id) ==
  IF id = NoNode \/ h[id].refs = 0 THEN h
  ELSE IF h[id].refs > 1 THEN [h EXCEPT ![id].refs = @ - 1]
  ELSE FoldLeft(Release, [i \in DOMAIN h \ {id} |-> h[i]], h[id].kids)
FreezeAll(h, ids) == FoldLeft(LAMBDA g, id : [g EXCEPT ![id].frozen = TRUE], h, ids)

\* A frozen node with one reference can be thawed during a change.
Shared(h, id) == h[id].frozen /\ h[id].refs # 1
Thawed(h, id) == [h EXCEPT ![id].frozen = FALSE]

\* An unfrozen copy, which shares the children.
CopyNode(h, id) ==
  LET retained == RetainAll(h, h[id].kids)
  IN With(IF h[id].frozen THEN FreezeAll(retained, h[id].kids) ELSE retained,
          [h[id] EXCEPT !.refs = 1, !.frozen = FALSE])

\* The child that has the byte, and where the byte is in it; to insert or delete,
\* the end of a child is still of that child.
Start(h, kids, k) == FoldLeft(LAMBDA n, i : n + h[i].size, 0, SubSeq(kids, 1, k - 1))
FindChild(h, kids, byte) ==
  LET before == {k \in 2 .. Len(kids) : Start(h, kids, k) <= byte}
  IN Max(before \cup {1})

SetCache(st, id, loc) ==
  [st EXCEPT !.cache = id, !.h[id].loc = loc, !.h[id].len = st.h[id].size]
SizeOf(h, kids) == Start(h, kids, Len(kids) + 1)
----------------------------------------------------------------------------
\* Insertion.  The results are the heap h, the cache, the child that takes the
\* node's place and the sibling to come after it.
Opened(mem, byte, size) ==
  SubSeq(mem, 1, byte) \o Gap(size) \o SubSeq(mem, byte + 1, Len(mem))

InsertLeafUnfrozen(h, id, byte, size, abs) ==
  LET node == h[id]
      full == Opened(node.mem, byte, size)
      cut == CASE Len(full) <= MaxLeaf -> Len(full)
               [] byte = node.size -> node.size
               [] byte = 0 -> size
               [] OTHER -> IF byte + size <= MaxLeaf THEN byte + size ELSE MaxLeaf
      kept == [h EXCEPT ![id].mem = SubSeq(full, 1, cut), ![id].size = cut]
      new == With(kept, Leaf(SubSeq(full, cut + 1, Len(full))))
      result == [h |-> IF cut = Len(full) THEN kept ELSE new, cache |-> NoNode, child |-> id,
                 sibling |-> IF cut = Len(full) THEN NoNode ELSE Fresh(h)]
      cached == SetCache(result, id, abs - byte)
  IN IF cut < Len(full) /\ byte = node.size THEN SetCache(result, Fresh(h), abs)
     ELSE IF cut < Len(full) /\ cut < byte + size
     THEN [cached EXCEPT !.h[id].len = node.size]       \* it was cached too early
     ELSE cached

InsertLeafFrozen(h, id, byte, size, abs) ==
  LET node == h[id]
      full == Opened(node.mem, byte, size)
      first == With(h, Leaf(SubSeq(full, 1, Min({Len(full), MaxLeaf}))))
      both == With(first, Leaf(SubSeq(full, MaxLeaf + 1, Len(full))))
      gap == With(h, Leaf(Gap(size)))
      Result(g, child, sibling) ==
        [h |-> g, cache |-> NoNode, child |-> child, sibling |-> sibling]
  IN CASE Len(full) <= MaxLeaf ->
            SetCache(Result(first, Fresh(h), NoNode), Fresh(h), abs - byte)
       [] Len(full) > MaxLeaf /\ byte = node.size ->
            SetCache(Result(gap, id, Fresh(h)), Fresh(h), abs)
       [] Len(full) > MaxLeaf /\ byte # node.size /\ byte = 0 ->
            SetCache(Result(Retain(gap, id), Fresh(h), id), Fresh(h), abs)
       [] OTHER -> SetCache(Result(both, Fresh(h), Fresh(first)), Fresh(h), abs - byte)

\* The children after an insertion into the k-th of them.
NewKids(kids, k, r) ==
  LET replaced == [kids EXCEPT ![k] = r.child]
  IN IF r.sibling = NoNode THEN replaced ELSE InsertAt(replaced, k + 1, r.sibling)

\* Four children are given to two nodes.
Distribute(r, id, kids, size) ==
  IF Len(kids) <= 3
  THEN [r EXCEPT !.h[id].kids = kids, !.h[id].size = size, !.child = id, !.sibling = NoNode]
  ELSE LET h == [r.h EXCEPT ![id].kids = SubSeq(kids, 1, 2),
                            ![id].size = SizeOf(r.h, SubSeq(kids, 1, 2))]
           last == SubSeq(kids, 3, 4)
       IN [r EXCEPT !.h = With(h, Branch(last, SizeOf(h, last))), !.child = id,
                    !.sibling = Fresh(h)]

\* A child whose place another one has taken is released.
Unlinked(r, kid) == IF r.child = kid THEN r ELSE [r EXCEPT !.h = Release(@, kid)]

RECURSIVE InsertFrozen(_, _, _, _, _)
InsertFrozen(h, id, byte, size, abs) ==
  IF h[id].leaf THEN InsertLeafFrozen(h, id, byte, size, abs)
  ELSE LET kids == h[id].kids
           k == FindChild(h, kids, byte - 1)
           me == With(h, Branch(<<>>, 0))
           Held(r) == [r EXCEPT !.h = FreezeAll(RetainAll(@, kids), kids)]
           Into(r) == Distribute(Unlinked(r, kids[k]), Fresh(h), NewKids(kids, k, r), h[id].size + size)
       IN Into(Held(InsertFrozen(me, kids[k], byte - Start(h, kids, k), size, abs)))

RECURSIVE InsertUnfrozen(_, _, _, _, _)
InsertUnfrozen(h, id, byte, size, abs) ==
  IF h[id].leaf THEN InsertLeafUnfrozen(h, id, byte, size, abs)
  ELSE LET kids == h[id].kids
           k == FindChild(h, kids, byte - 1)
           at == byte - Start(h, kids, k)
           Into(r) == Distribute(Unlinked(r, kids[k]), id, NewKids(kids, k, r), h[id].size + size)
       IN Into(IF Shared(h, kids[k]) THEN InsertFrozen(h, kids[k], at, size, abs)
               ELSE InsertUnfrozen(Thawed(h, kids[k]), kids[k], at, size, abs))

\* CFStorageInsertValues inserts a leaf's worth at a time; a root that is split
\* gets a new level below it.
Raised(h, s, kids, cached) == [h |-> [h EXCEPT ![s] = Root(kids, SizeOf(h, kids), <<>>)],
                               cache |-> cached]
AtRoot(r, s, wasLeaf) ==
  IF r.sibling = NoNode THEN [h |-> r.h, cache |-> r.cache]
  ELSE Raised(With(r.h, [r.h[s] EXCEPT !.refs = 1]), s, <<Fresh(r.h), r.sibling>>,
              IF wasLeaf THEN NoNode ELSE r.cache)
RECURSIVE InsertValues(_, _, _, _)
InsertValues(st, s, byte, size) ==
  LET now == Min({size, MaxLeaf}) IN
  IF size = 0 THEN st
  ELSE InsertValues(AtRoot(InsertUnfrozen(st.h, s, byte, now, byte), s, st.h[s].leaf),
                    s, byte + now, size - now)
----------------------------------------------------------------------------
\* Deletion of n values from byte on.  The results are the heap and the node that
\* takes the node's place, with a reference, or NoNode.
Cut(mem, byte, n) == SubSeq(mem, 1, byte) \o SubSeq(mem, byte + n + 1, Len(mem))

RECURSIVE Delete(_, _, _, _, _)
\* __CFStoragePopulateBranchChildrenAfterDeletion
Kept(r, kid, frozen) ==
  LET h == Retain(r.h, kid) IN
  [h |-> IF frozen THEN FreezeAll(h, <<kid>>) ELSE h, kids |-> Append(r.kids, kid)]
Left(r, d) == [h |-> d.h, kids |-> IF d.node = NoNode THEN r.kids ELSE Append(r.kids, d.node)]
Populate(h, kids, byte, n, frozen) ==
  FoldLeft(LAMBDA r, k :
             LET start == Start(h, kids, k)
                 from == Max({byte, start})
                 to == Min({byte + n, start + h[kids[k]].size})
             IN IF to <= from THEN Kept(r, kids[k], frozen)
                ELSE Left(r, Delete(r.h, kids[k], from - start, to - from, frozen)),
           [h |-> h, kids |-> <<>>], [k \in 1 .. Len(kids) |-> k])

\* The branch that is left, or its one child.
BranchLeft(new, size) ==
  IF Len(new.kids) = 1 THEN [h |-> new.h, node |-> new.kids[1]]
  ELSE [h |-> With(new.h, Branch(new.kids, size)), node |-> Fresh(new.h)]
DeleteFrozen(h, id, byte, n) ==
  LET node == h[id] IN
  IF n = node.size THEN [h |-> h, node |-> NoNode]
  ELSE IF node.leaf THEN [h |-> With(h, Leaf(Cut(node.mem, byte, n))), node |-> Fresh(h)]
  ELSE BranchLeft(Populate(h, node.kids, byte, n, TRUE), node.size - n)

ItselfLeft(h, id, kids, n) ==
  LET one == Len(kids) = 1
      less == [h EXCEPT ![id].kids = IF one THEN <<>> ELSE kids, ![id].size = @ - n]
  IN [h |-> IF one THEN less ELSE Retain(less, id), node |-> IF one THEN kids[1] ELSE id]
DeleteUnfrozen(h, id, byte, n) ==
  LET node == h[id]
      Freed(new) == ItselfLeft(FoldLeft(Release, new.h, node.kids), id, new.kids, n)
  IN IF n = node.size THEN [h |-> h, node |-> NoNode]
     ELSE IF node.leaf
     THEN [h |-> Retain([h EXCEPT ![id].mem = Cut(@, byte, n), ![id].size = @ - n], id), node |-> id]
     ELSE Freed(Populate(h, node.kids, byte, n, FALSE))

Delete(h, id, byte, n, frozen) ==
  IF frozen \/ Shared(h, id) THEN DeleteFrozen(h, id, byte, n)
  ELSE DeleteUnfrozen(Thawed(h, id), id, byte, n)

\* CFStorageDeleteValues: the one child that is left becomes the root.
Rooted(h, s, id) ==
  Release(RetainAll([h EXCEPT ![s] = Root(h[id].kids, h[id].size, h[id].mem)], h[id].kids), id)
DeletedAt(s, d) ==
  [h |-> IF d.node = s THEN d.h
         ELSE IF d.node = NoNode
         THEN [FoldLeft(Release, d.h, d.h[s].kids) EXCEPT ![s] = EmptyRoot]
         ELSE Rooted(d.h, s, d.node),
   cache |-> NoNode]
DeleteValues(st, s, byte, n) == DeletedAt(s, DeleteUnfrozen(st.h, s, byte, n))
----------------------------------------------------------------------------
\* The leaf that has a value, by the tree; on the way down to a change, what is
\* frozen is thawed or replaced by a copy.
RECURSIVE FindByte(_, _, _, _, _)
FindByte(h, id, byte, abs, mutable) ==
  IF h[id].leaf THEN SetCache([h |-> h, cache |-> NoNode], id, abs)
  ELSE LET kids == h[id].kids
           k == FindChild(h, kids, byte)
           at == Start(h, kids, k)
           copies == mutable /\ Shared(h, kids[k])
       IN FindByte(IF copies
                   THEN Release([CopyNode(h, kids[k]) EXCEPT ![id].kids[k] = Fresh(h)], kids[k])
                   ELSE IF mutable THEN Thawed(h, kids[k]) ELSE h,
                   IF copies THEN Fresh(h) ELSE kids[k], byte - at, abs + at, mutable)

\* The cached leaf has the value, and may be changed.
InCache(st, i, mutable) ==
  LET node == st.h[st.cache]
  IN st.cache # NoNode /\ ~(mutable /\ node.frozen) /\ i \in node.loc .. node.loc + node.len - 1

GetValueAtIndex(st, s, i, mutable) ==
  IF InCache(st, i, mutable) THEN st ELSE FindByte(st.h, s, i, 0, mutable)
Value(st, i) ==
  LET node == st.h[st.cache]
  IN IF i - node.loc < node.size THEN node.mem[i - node.loc + 1] ELSE -1

\* CFStorageReplaceValues goes from leaf to leaf.
RECURSIVE ReplaceValues(_, _, _, _)
ReplaceInLeaf(got, s, at, new) ==
  LET node == got.h[got.cache]
      now == Min({Len(new), node.len - (at - node.loc)})
      mem == [i \in DOMAIN node.mem |->
                IF i - 1 + node.loc \in at .. at + now - 1
                THEN new[i + node.loc - at] ELSE node.mem[i]]
  IN ReplaceValues([got EXCEPT !.h[got.cache].mem = mem], s, at + now,
                   SubSeq(new, now + 1, Len(new)))
ReplaceValues(st, s, at, new) ==
  IF new = <<>> THEN st ELSE ReplaceInLeaf(GetValueAtIndex(st, s, at, TRUE), s, at, new)

\* The least node with a range, and where it starts.
RECURSIVE Containing(_, _, _, _, _)
Containing(h, id, at, n, abs) ==
  LET kids == h[id].kids
      k == FindChild(h, kids, at)
  IN IF h[id].leaf \/ at + n > Start(h, kids, k) + h[kids[k]].size THEN <<id, abs>>
     ELSE Containing(h, kids[k], at - Start(h, kids, k), n, abs + Start(h, kids, k))

\* CFStorageCreateWithSubrange: the children of that node become those of a new
\* root, frozen, and what is too much is deleted.  Of a leaf, the values are copied.
LastDeleted(st, s, n, size) == IF n = size THEN st ELSE DeleteValues(st, s, n, size - n)
FirstDeleted(st, s, n) == IF n = 0 THEN st ELSE DeleteValues(st, s, 0, n)
SubrangeOf(h, new, id, before, n) ==
  LET kids == h[id].kids
      size == h[id].size
  IN IF h[id].leaf
     THEN ReplaceValues(InsertValues([h |-> (new :> EmptyRoot) @@ h, cache |-> NoNode],
                                     new, 0, n),
                        new, 0, SubSeq(h[id].mem, before + 1, before + n))
     ELSE FirstDeleted(
            LastDeleted([h |-> (new :> Root(kids, size, <<>>)) @@ FreezeAll(RetainAll(h, kids), kids),
                         cache |-> NoNode],
                        new, before + n, size),
            new, before)
Subrange(h, s, new, at, n) ==
  LET In(found) == SubrangeOf(h, new, found[1], at - found[2], n) IN In(Containing(h, s, at, n, 0))
----------------------------------------------------------------------------
RECURSIVE NodesBelow(_, _)
NodesBelow(h, id) == {id} \cup UNION {NodesBelow(h, k) : k \in ToSet(h[id].kids)}
Numbered(n) == [i \in 1 .. n |-> ((i - 1) % MaxStamp) + 1]
First(n) ==
  ReplaceValues(InsertValues([h |-> (-1 :> EmptyRoot), cache |-> NoNode], -1, 0, n),
                -1, 0, Numbered(n))

\* A storage that was made and filled.
Init ==
  /\ \E n \in Lengths :
       /\ \E st \in {First(n)} : heap = st.h /\ cache = (-1 :> st.cache) @@ (-2 :> NoNode)
       /\ values = (-1 :> Numbered(n)) @@ (-2 :> <<>>)
  /\ copied = FALSE
  /\ read = <<0, 0>>
  /\ spoilt = FALSE
  /\ calls = 0

State(s) == [h |-> heap, cache |-> cache[s]]
Live == IF copied THEN Storages ELSE {-1}
Common == IF copied THEN NodesBelow(heap, -1) \cap NodesBelow(heap, -2) ELSE {}
Becomes(s, st) ==
  /\ calls < MaxCalls /\ calls' = calls + 1
  /\ heap' = st.h /\ cache' = [cache EXCEPT ![s] = st.cache]
  /\ spoilt' = (\/ spoilt
                \/ \E id \in Common \cap DOMAIN st.h :
                     heap[id].mem # st.h[id].mem \/ heap[id].kids # st.h[id].kids)

MakeRoom(s, at, n) ==
  /\ Len(values[s]) + n <= MaxLength
  /\ Becomes(s, InsertValues(State(s), s, at, n))
  /\ values' = [values EXCEPT ![s] = Opened(@, at, n)]
  /\ UNCHANGED <<copied, read>>

Erase(s, at, n) ==
  /\ Becomes(s, DeleteValues(State(s), s, at, n))
  /\ values' = [values EXCEPT ![s] = Cut(@, at, n)]
  /\ UNCHANGED <<copied, read>>

Replace(s, at, new) ==
  /\ Becomes(s, ReplaceValues(State(s), s, at, new))
  /\ values' = [values EXCEPT ![s] = [i \in DOMAIN @ |->
                  IF i \in at + 1 .. at + Len(new) THEN new[i - at] ELSE @[i]]]
  /\ UNCHANGED <<copied, read>>

GetConstValueAtIndex(s, i) ==
  LET st == GetValueAtIndex(State(s), s, i, FALSE)
  IN /\ Becomes(s, st)
     /\ read' = <<Value(st, i), values[s][i + 1]>>
     /\ UNCHANGED <<values, copied>>

HasBranches(id) == \E k \in DOMAIN heap[id].kids : ~heap[heap[id].kids[k]].leaf
CreateWithSubrange(at, n) ==
  /\ ~copied
  /\ SharesBranches \/ ~HasBranches(Containing(heap, -1, at, n, 0)[1])
  /\ Becomes(-2, Subrange(heap, -1, -2, at, n))
  /\ values' = [values EXCEPT ![-2] = SubSeq(values[-1], at + 1, at + n)]
  /\ copied' = TRUE
  /\ UNCHANGED read

\* The second storage is released; __CFStorageClearRootNode.
Deallocate ==
  /\ copied /\ copied' = FALSE
  /\ calls < MaxCalls /\ calls' = calls + 1
  /\ LET h == FoldLeft(Release, heap, heap[-2].kids)
     IN heap' = [id \in DOMAIN h \ {-2} |-> h[id]]
  /\ cache' = [cache EXCEPT ![-2] = NoNode]
  /\ values' = [values EXCEPT ![-2] = <<>>]
  /\ UNCHANGED <<read, spoilt>>

Next ==
  \/ \E s \in Live :
       \/ \E at \in 0 .. Len(values[s]), n \in 1 .. MaxLeaf + 1 : MakeRoom(s, at, n)
       \/ \E at \in 0 .. Len(values[s]) - 1 : \E n \in 1 .. Len(values[s]) - at :
            Erase(s, at, n)
       \/ \E at \in 0 .. Len(values[s]) - 1 : \E n \in 1 .. Min({2, Len(values[s]) - at}) :
            Replace(s, at, [i \in 1 .. n |-> MaxStamp + 1])
       \/ \E i \in 0 .. Len(values[s]) - 1 : GetConstValueAtIndex(s, i)
  \/ \E at \in 0 .. Len(values[-1]) - 1 : \E n \in 1 .. Len(values[-1]) - at :
       CreateWithSubrange(at, n)
  \/ Deallocate
----------------------------------------------------------------------------
RECURSIVE Contents(_, _)
Contents(h, id) ==
  IF h[id].leaf THEN h[id].mem
  ELSE FoldLeft(LAMBDA mem, k : mem \o Contents(h, k), <<>>, h[id].kids)

TypeOK ==
  /\ Live \subseteq DOMAIN heap /\ DOMAIN heap \subseteq Live \cup Nat
  /\ \A id \in DOMAIN heap : heap[id].refs \in Nat /\ heap[id].frozen \in BOOLEAN

\* Each storage is the sequence that its own calls have made, however many of its
\* nodes the other one shares and changes (CFStorage.c:336-357, 865-882).
TreesAreTheSequences ==
  \A s \in Live : \A i \in 1 .. Len(values[s]) :
    /\ Len(Contents(heap, s)) = Len(values[s])
    /\ values[s][i] = 0 \/ Contents(heap, s)[i] = values[s][i]

\* Every node but the roots has the references that branches hold, a node that
\* none holds is freed, sizes are those of the children, no leaf is empty or too
\* large, a branch has two or three children, and the cached leaf is one of the
\* storage (CFStorage.c:1393-1427).
NodesAreSound ==
  /\ DOMAIN heap = UNION {NodesBelow(heap, s) : s \in Live}
  /\ \A id \in DOMAIN heap :
       LET node == heap[id]
       IN /\ id \notin Storages =>
               node.refs = Cardinality({<<p, k>> \in (DOMAIN heap) \X (1 .. 3) :
                                          k <= Len(heap[p].kids) /\ heap[p].kids[k] = id})
          /\ node.leaf => node.kids = <<>> /\ node.size = Len(node.mem) /\ node.size <= MaxLeaf
          /\ node.leaf /\ id \notin Storages => node.size > 0
          /\ ~node.leaf => Len(node.kids) \in 2 .. 3 /\ node.size = SizeOf(heap, node.kids)
  /\ \A s \in Live : cache[s] # NoNode => cache[s] \in NodesBelow(heap, s) /\ heap[cache[s]].leaf

\* The same when branches are shared too, until a node that both have is changed
\* where it is.
SoundUntilSpoilt == spoilt \/ (TreesAreTheSequences /\ NodesAreSound)

\* What is read is what the storage has.
ReadsAreOfTheSequence == read[2] # 0 => read[1] = read[2]
==============================================================================
