-------------------------------- MODULE Rax --------------------------------
(***************************************************************************)
(* The radix tree of rax.c and the index of the keys of every hash slot    *)
(* that cluster mode keeps in it (slotToKey... of db.c).                   *)
(*                                                                         *)
(* s.t is the tree: `nodes' is the memory its nodes live in, a node or     *)
(* NoNode at every address, and `head' the address of the root.  A node    *)
(* has the characters of its edges and the addresses of its children: one  *)
(* child per character, in the order of the characters, or, when it is     *)
(* compressed, a single child below all of them.  A string is a sequence   *)
(* of numbers.  s.counts is slots_keys_count; the slot of an indexed key   *)
(* is its first character.  Reallocation keeps the address.  Out of memory *)
(* paths are left out, since zmalloc aborts the server; strings are        *)
(* shorter than RAX_NODE_MAX_SIZE.                                         *)
(***************************************************************************)
EXTENDS Structure, SequencesExt

IsRax == kind = "rax"

NoNode == [freed |-> TRUE]
raxNewNode == [iskey |-> FALSE, data |-> 0, iscompr |-> FALSE, chars |-> <<>>, kids |-> <<>>]
raxSetData(n, data) == [n EXCEPT !.iskey = TRUE, !.data = data]
raxNew == [head |-> 1, numele |-> 0, numnodes |-> 1, nodes |-> <<raxNewNode>>]

Live(r) == {a \in DOMAIN r.nodes : r.nodes[a] # NoNode}
\* Room for the nodes that a step of an operation adds, and what keeps the choice of addresses
\* out of the state: after it the nodes are renumbered in the order of a walk
\* from the head, and nodes that no walk reaches follow.
Room(r) == [r EXCEPT !.nodes = @ \o <<NoNode, NoNode, NoNode>>]
Address(r, i) == Len(r.nodes) - 3 + i
RECURSIVE Below(_, _)
Below(r, a) == FoldLeft(LAMBDA walk, k : walk \o Below(r, k), <<a>>, r.nodes[a].kids)
Renumber(r, order) ==
  LET Position(a) == SelectInSeq(order, LAMBDA b : a = b)
      Moved(n) == [n EXCEPT !.kids = FoldLeft(LAMBDA k, a : Append(k, Position(a)), <<>>, @)]
  IN [r EXCEPT !.head = 1, !.nodes = FoldLeft(LAMBDA m, a : Append(m, Moved(r.nodes[a])), <<>>, order)]
Unreached(r, walk) == walk \o SetToSeq(Live(r) \ ToSet(walk))
Settle(r) == Renumber(r, Unreached(r, Below(r, r.head)))
Put(r, a, n) == [r EXCEPT !.nodes[a] = n]
PutNew(r, a, n) == [Put(r, a, n) EXCEPT !.numnodes = @ + 1]
\* The parent, at the top of the stack, refers to `to' instead of `from'.
Relink(r, stack, from, to) ==
  IF stack = <<>> THEN [r EXCEPT !.head = to]
  ELSE [r EXCEPT !.nodes[Last(stack)].kids =
          FoldLeft(LAMBDA k, a : Append(k, IF a = from THEN to ELSE a), <<>>, @)]
\* A node with one child below the characters.
ChainNode(chars, kid) ==
  [raxNewNode EXCEPT !.iscompr = Len(chars) > 1, !.chars = chars, !.kids = <<kid>>]
KeyOf(n, m) == IF n.iskey THEN raxSetData(m, n.data) ELSE m

(***************************************************************************)
(* Lookup.                                                                 *)
(***************************************************************************)
\* The number of characters two strings start with alike.
Common(a, b) == Cardinality({i \in DOMAIN a \cap DOMAIN b : \A k \in 1..i : a[k] = b[k]})

\* How far `str' leads from node h: i characters match, the walk stops at
\* node h, j characters into it when it is compressed.
RECURSIVE WalkFrom(_, _, _, _, _)
WalkFrom(r, str, h, i, stack) ==
  LET n == r.nodes[h]
      left == SubSeq(str, i + 1, Len(str))
      common == IF n.iscompr THEN Common(n.chars, left) ELSE IF left[1] \in ToSet(n.chars) THEN 1 ELSE 0
      edge == IF n.iscompr THEN 1 ELSE SelectInSeq(n.chars, LAMBDA c : c = left[1])
      through == common = IF n.iscompr THEN Len(n.chars) ELSE 1
  IN IF n.chars = <<>> \/ left = <<>> THEN [i |-> i, h |-> h, j |-> 0, stack |-> stack]
     ELSE IF through THEN WalkFrom(r, str, n.kids[edge], i + common, Append(stack, h))
     ELSE [i |-> i + common, h |-> h, j |-> common, stack |-> stack]
raxLowWalk(r, str) == WalkFrom(r, str, r.head, 0, <<>>)
Reaches(w, str) == w.i = Len(str) /\ w.j = 0
\* The data of a key, as a set with at most one element.
FoundAt(r, str, w) == IF Reaches(w, str) /\ r.nodes[w.h].iskey THEN {r.nodes[w.h].data} ELSE {}
raxFind(r, str) == FoundAt(r, str, raxLowWalk(r, str))

(***************************************************************************)
(* Insertion.                                                              *)
(***************************************************************************)
raxAddChild(n, c, kid) ==
  LET at == 1 + Cardinality({i \in DOMAIN n.chars : n.chars[i] <= c})
  IN [n EXCEPT !.chars = InsertAt(@, at, c), !.kids = InsertAt(@, at, kid)]
raxCompressNode(n, str, kid) == KeyOf(n, ChainNode(str, kid))

\* Algorithm 1: the string leaves a compressed node n at its character j + 1,
\* which becomes a node of its own.  Here and below r has room.
SplitOnMismatch(r, w, n) ==
  LET splitnode == Address(r, 1)
      trimmed == Address(r, 2)
      postfix == Address(r, 3)
      tail == SubSeq(n.chars, w.j + 2, Len(n.chars))
      split == ChainNode(<<n.chars[w.j + 1]>>, IF tail = <<>> THEN n.kids[1] ELSE postfix)
      withTail == IF tail = <<>> THEN r ELSE PutNew(r, postfix, ChainNode(tail, n.kids[1]))
      linked == Relink(withTail, w.stack, w.h, IF w.j = 0 THEN splitnode ELSE trimmed)
      whole == IF w.j = 0 THEN Put(linked, splitnode, KeyOf(n, split))
               ELSE PutNew(Put(linked, splitnode, split), trimmed,
                           KeyOf(n, ChainNode(SubSeq(n.chars, 1, w.j), splitnode)))
  IN Put(whole, w.h, NoNode)

\* Algorithm 2: the string ends inside a compressed node.
SplitAtEnd(r, w, n, data) ==
  LET postfix == Address(r, 1)
      trimmed == Address(r, 2)
      below == PutNew(r, postfix, raxSetData(ChainNode(SubSeq(n.chars, w.j + 1, Len(n.chars)), n.kids[1]), data))
      whole == Put(Relink(below, w.stack, w.h, trimmed), trimmed,
                   KeyOf(n, ChainNode(SubSeq(n.chars, 1, w.j), postfix)))
  IN [Put(whole, w.h, NoNode) EXCEPT !.numele = @ + 1]

\* The rest of the string is added below node h.
RECURSIVE ExtendFrom(_, _, _, _)
ExtendFrom(r, h, rest, data) ==
  LET n == r.nodes[h]
      child == Address(r, 1)
      long == n.chars = <<>> /\ Len(rest) > 1
      parent == IF long THEN raxCompressNode(n, rest, child) ELSE raxAddChild(n, rest[1], child)
  IN IF rest = <<>> THEN [Put(r, h, raxSetData(n, data)) EXCEPT !.numele = @ + (IF n.iskey THEN 0 ELSE 1)]
     ELSE ExtendFrom(Room(PutNew(Put(r, h, parent), child, raxNewNode)), child,
                     IF long THEN <<>> ELSE Tail(rest), data)

Inserted(r, str, data, w, n) ==
  LET mismatch == n.iscompr /\ w.i # Len(str)
  IN IF n.iscompr /\ ~mismatch THEN SplitAtEnd(r, w, n, data)
     ELSE ExtendFrom(IF mismatch THEN Room(SplitOnMismatch(r, w, n)) ELSE r,
                     IF mismatch THEN Address(r, 1) ELSE w.h, SubSeq(str, w.i + 1, Len(str)), data)
\* The tree after the insertion and whether the key is new.
InsertWalked(r, str, data, w) ==
  IF Reaches(w, str) THEN [t |-> ExtendFrom(r, w.h, <<>>, data), new |-> ~r.nodes[w.h].iskey]
  ELSE [t |-> Settle(Inserted(Room(r), str, data, w, r.nodes[w.h])), new |-> TRUE]
raxInsert(r, str, data) == InsertWalked(r, str, data, raxLowWalk(r, str))

(***************************************************************************)
(* Removal.                                                                *)
(***************************************************************************)
\* A plausible bug: a key is taken for a part of a chain.
MutantEndsChain(n) == ~n.iscompr /\ Len(n.chars) # 1
\* A node that can not be a part of a chain of compressed nodes.
EndsChain(n) == n.iskey \/ (~n.iscompr /\ Len(n.chars) # 1)
raxRemoveChild(n, kid) ==
  LET at == SelectInSeq(n.kids, LAMBDA a : a = kid)
  IN IF n.iscompr THEN [n EXCEPT !.iscompr = FALSE, !.chars = <<>>, !.kids = <<>>]
     ELSE [n EXCEPT !.chars = RemoveAt(@, at), !.kids = RemoveAt(@, at)]

\* Frees h and the nodes above it that only led to it; 0 is no child.
RECURSIVE FreeUp(_, _, _, _)
FreeUp(r, h, child, stack) ==
  IF h = r.head \/ (child # 0 /\ EndsChain(r.nodes[h]))
  THEN [t |-> r, h |-> h, child |-> child, stack |-> stack]
  ELSE FreeUp([Put(r, h, NoNode) EXCEPT !.numnodes = @ - 1], Last(stack), h, Front(stack))

\* The first node of the chain h is in, with the nodes above it.
RECURSIVE ChainStart(_, _, _)
ChainStart(r, h, stack) ==
  IF stack = <<>> \/ EndsChain(r.nodes[Last(stack)]) THEN [h |-> h, stack |-> stack]
  ELSE ChainStart(r, Last(stack), Front(stack))
RECURSIVE ChainFrom(_, _)
ChainFrom(r, h) ==
  LET kid == Last(r.nodes[h].kids)
  IN <<h>> \o (IF EndsChain(r.nodes[kid]) THEN <<>> ELSE ChainFrom(r, kid))
\* The chain through h, from top on, becomes one compressed node.
MergedChain(r, top, chain) ==
  LET new == Address(r, 1)
      chars == FoldLeft(LAMBDA text, a : text \o r.nodes[a].chars, <<>>, chain)
      linked == Relink(PutNew(r, new, ChainNode(chars, Last(r.nodes[Last(chain)].kids))),
                       top.stack, top.h, new)
  IN IF Len(chain) = 1 THEN r
     ELSE FoldLeft(LAMBDA t, a : [Put(t, a, NoNode) EXCEPT !.numnodes = @ - 1], linked, chain)
RecompressFrom(r, top) == MergedChain(Room(r), top, ChainFrom(r, top.h))
Recompress(r, h, stack) == RecompressFrom(r, ChainStart(r, h, stack))

\* The last node freed is taken from its parent, which may now join a chain.
Unlinked(up, parent) ==
  LET cut == Put(up.t, up.h, parent)
  IN IF Len(parent.chars) = 1 /\ ~parent.iskey THEN Recompress(cut, up.h, up.stack) ELSE cut
Cleaned(up) ==
  IF up.child = 0 THEN up.t ELSE Unlinked(up, raxRemoveChild(up.t.nodes[up.h], up.child))
Unkeyed(r, w, n) ==
  [Put(r, w.h, [n EXCEPT !.iskey = FALSE, !.data = 0]) EXCEPT !.numele = @ - 1]
Reclaimed(r, w, n) ==
  IF n.chars = <<>> THEN Cleaned(FreeUp(r, w.h, 0, w.stack))
  ELSE IF Len(n.chars) = 1 THEN Recompress(r, w.h, w.stack)
  ELSE r
RemoveWalked(r, str, w) ==
  IF ~Reaches(w, str) \/ ~r.nodes[w.h].iskey THEN [t |-> r, found |-> FALSE]
  ELSE [t |-> Settle(Reclaimed(Unkeyed(r, w, r.nodes[w.h]), w, r.nodes[w.h])), found |-> TRUE]
raxRemove(r, str) == RemoveWalked(r, str, raxLowWalk(r, str))

(***************************************************************************)
(* Iteration.  An iterator is at a node, with the key that leads to it and *)
(* the nodes above it; eof is RAX_ITER_EOF, seeked is                      *)
(* RAX_ITER_JUST_SEEKED: the next step stays where it is.                  *)
(***************************************************************************)
\* Into child c of the node the iterator is at.
Enter(r, it, c) ==
  LET n == r.nodes[it.node]
  IN [it EXCEPT !.stack = Append(@, it.node), !.node = n.kids[c],
                !.key = @ \o (IF n.iscompr THEN n.chars ELSE <<n.chars[c]>>)]
\* To the parent, or to the node itself with noup, and drops its characters
\* from the key.
Leave(r, it, noup) ==
  LET at == IF noup THEN it.node ELSE Last(it.stack)
      todel == IF r.nodes[at].iscompr THEN Len(r.nodes[at].chars) ELSE 1
  IN [it EXCEPT !.node = at, !.stack = IF noup THEN @ ELSE Front(@),
                !.key = SubSeq(@, 1, Len(@) - todel)]
AtKey(r, it) == r.nodes[it.node].iskey

\* Down to the first key below the iterator, or else up to the first subtree
\* after it.
RECURSIVE NextUp(_, _, _, _)
RECURSIVE NextDown(_, _, _)
NextDown(r, it, orig) ==
  LET deeper == Enter(r, it, 1)
  IN IF r.nodes[it.node].kids = <<>> THEN NextUp(r, it, FALSE, orig)
     ELSE IF AtKey(r, deeper) THEN deeper
     ELSE NextDown(r, deeper, orig)
NextUp(r, it, noup, orig) ==
  LET up == Leave(r, it, noup)
      n == r.nodes[up.node]
      later == {c \in DOMAIN n.chars : n.chars[c] > Last(it.key)}
      beside == Enter(r, up, CHOOSE c \in later : \A d \in later : c <= d)
  IN IF ~noup /\ it.node = r.head THEN [orig EXCEPT !.eof = TRUE]
     ELSE IF n.iscompr \/ Len(n.chars) <= (IF noup THEN 0 ELSE 1) \/ later = {}
     THEN NextUp(r, up, FALSE, orig)
     ELSE IF AtKey(r, beside) THEN beside
     ELSE NextDown(r, beside, orig)
raxIteratorNextStep(r, it, noup) ==
  IF it.eof THEN it
  ELSE IF it.seeked THEN [it EXCEPT !.seeked = FALSE]
  ELSE IF noup THEN NextUp(r, it, TRUE, it)
  ELSE NextDown(r, it, it)

RECURSIVE raxSeekGreatest(_, _)
raxSeekGreatest(r, it) ==
  IF r.nodes[it.node].kids = <<>> THEN it
  ELSE raxSeekGreatest(r, Enter(r, it, Len(r.nodes[it.node].kids)))

RECURSIVE PrevUp(_, _, _, _)
PrevUp(r, it, noup, orig) ==
  LET up == Leave(r, it, noup)
      n == r.nodes[up.node]
      earlier == {c \in DOMAIN n.chars : n.chars[c] < Last(it.key)}
      beside == Enter(r, up, CHOOSE c \in earlier : \A d \in earlier : c >= d)
      to == IF n.iscompr \/ Len(n.chars) <= (IF noup THEN 0 ELSE 1) \/ earlier = {} THEN up
            ELSE raxSeekGreatest(r, beside)
  IN IF ~noup /\ it.node = r.head THEN [orig EXCEPT !.eof = TRUE]
     ELSE IF AtKey(r, to) THEN to
     ELSE PrevUp(r, to, FALSE, orig)
raxIteratorPrevStep(r, it, noup) ==
  IF it.eof THEN it
  ELSE IF it.seeked THEN [it EXCEPT !.seeked = FALSE]
  ELSE PrevUp(r, it, noup, it)

\* The key that leads to node h.
KeyTo(r, stack, h) ==
  LET path == Append(stack, h)
      Edge(p, c) == IF r.nodes[p].iscompr THEN r.nodes[p].chars
                    ELSE <<r.nodes[p].chars[SelectInSeq(r.nodes[p].kids, LAMBDA a : a = c)]>>
  IN FoldLeftDomain(LAMBDA key, k : key \o Edge(path[k], path[k + 1]), <<>>, stack)

\* Where a step, forward or back, starts after a walk that did not end at a
\* key to stop at.
StepStart(ele, w, n, at, gt) ==
  LET Plus(chars) == [at EXCEPT !.key = @ \o chars]
  IN IF w.i = Len(ele) THEN [it |-> at, noup |-> FALSE]
     ELSE IF ~n.iscompr THEN [it |-> Plus(<<ele[w.i + 1]>>), noup |-> TRUE]
     ELSE IF gt /\ n.chars[w.j + 1] > ele[w.i + 1] THEN [it |-> at, noup |-> FALSE]
     ELSE [it |-> Plus(n.chars), noup |-> TRUE]
SeekStep(r, from, gt) ==
  IF gt THEN raxIteratorNextStep(r, from.it, from.noup) ELSE raxIteratorPrevStep(r, from.it, from.noup)
SeekWalked(r, op, ele, w, n, at) ==
  LET gt == op \in {">", ">="}
  IN IF op \in {">=", "<=", "="} /\ Reaches(w, ele) /\ n.iskey THEN at
     ELSE IF op = "=" THEN [at EXCEPT !.eof = TRUE]
     ELSE IF ~gt /\ w.i # Len(ele) /\ n.iscompr /\ n.chars[w.j + 1] < ele[w.i + 1] THEN raxSeekGreatest(r, at)
     ELSE SeekStep(r, StepStart(ele, w, n, at, gt), gt)
IteratorAt(h, stack, key) == [node |-> h, stack |-> stack, key |-> key, eof |-> FALSE, seeked |-> FALSE]
SeekKey(r, op, ele, w) == SeekWalked(r, op, ele, w, r.nodes[w.h], IteratorAt(w.h, w.stack, KeyTo(r, w.stack, w.h)))
\* op is ">", ">=", "<", "<=", "=", "^" or "$".
SeekFrom(r, op, ele, start) ==
  IF r.numele = 0 THEN [start EXCEPT !.eof = TRUE]
  ELSE IF op = "$" THEN raxSeekGreatest(r, start)
  ELSE LET text == IF op = "^" THEN <<>> ELSE ele
       IN SeekKey(r, IF op = "^" THEN ">=" ELSE op, text, raxLowWalk(r, text))
raxSeek(r, op, ele) ==
  [SeekFrom(r, op, ele, IteratorAt(r.head, <<>>, <<>>)) EXCEPT !.seeked = TRUE]
raxNext(r, it) == raxIteratorNextStep(r, it, FALSE)
raxPrev(r, it) == raxIteratorPrevStep(r, it, FALSE)
\* memcmp, and then the shorter string first: raxCompare's "<".
raxCompareLess(a, b) ==
  LET i == Common(a, b) + 1
  IN i <= Len(b) /\ (i > Len(a) \/ a[i] < b[i])

\* The keys that raxNext, or raxPrev, returns after a seek, up to `count'.
RECURSIVE KeysFrom(_, _, _, _)
KeysFrom(r, it, forward, count) ==
  IF it.eof THEN <<>>
  ELSE <<it.key>> \o (IF count <= 1 THEN <<>>
                      ELSE KeysFrom(r, IF forward THEN raxNext(r, it) ELSE raxPrev(r, it), forward, count - 1))
KeysAfter(r, it, count) == IF count = 0 THEN <<>> ELSE KeysFrom(r, raxNext(r, it), TRUE, count)
KeysBefore(r, it, count) == IF count = 0 THEN <<>> ELSE KeysFrom(r, raxPrev(r, it), FALSE, count)

(***************************************************************************)
(* The index of the keys of a slot.                                        *)
(***************************************************************************)
slotToKeyAdd(x, key) ==
  [t |-> raxInsert(x.t, key, 0).t, counts |-> [x.counts EXCEPT ![key[1]] = @ + 1]]
slotToKeyDel(x, key) ==
  [t |-> raxRemove(x.t, key).t, counts |-> [x.counts EXCEPT ![key[1]] = @ - 1]]
OfSlot(keys, slot) ==
  LET other == SelectInSeq(keys, LAMBDA k : k[1] # slot)
  IN IF other = 0 THEN keys ELSE SubSeq(keys, 1, other - 1)
getKeysInSlot(x, slot, count) == OfSlot(KeysAfter(x.t, raxSeek(x.t, ">=", <<slot>>), count), slot)
\* Deletes the first key from the slot on until the count of the slot is 0.
RECURSIVE delKeysInSlot(_, _)
delKeysInSlot(x, slot) ==
  IF x.counts[slot] = 0 THEN x
  ELSE delKeysInSlot(slotToKeyDel(x, raxNext(x.t, raxSeek(x.t, ">=", <<slot>>)).key), slot)

RaxInit == [t |-> raxNew, counts |-> FoldLeft(LAMBDA f, i : Append(f, 0), <<>>, [i \in 1..conf.slots |-> i])]

Indexed == {k \in conf.strs : raxFind(s.t, k) # {}}

RaxInsert ==
  conf.slots = 0 /\ \E k \in conf.strs, v \in conf.vals : \E done \in {raxInsert(s.t, k, v)} :
    Call("replace", <<k, v>>, [s EXCEPT !.t = done.t], done.new)
RaxRemove ==
  conf.slots = 0 /\ \E k \in conf.strs : \E done \in {raxRemove(s.t, k)} :
    Call("delete", <<k>>, [s EXCEPT !.t = done.t], done.found)
\* dbAdd and dbDelete update the index only for a key that they add or delete.
SlotToKeyAdd ==
  \E k \in conf.strs \ Indexed :
    conf.slots > 0 /\ Call("replace", <<k, 0>>, slotToKeyAdd(s, k), TRUE)
SlotToKeyDel ==
  \E k \in Indexed :
    conf.slots > 0 /\ Call("delete", <<k>>, slotToKeyDel(s, k), TRUE)
DelKeysInSlot ==
  \E slot \in 1..conf.slots :
    Call("drop", <<{k \in conf.strs : k[1] = slot}>>, delKeysInSlot(s, slot), s.counts[slot])
\* raxFree and raxNew.
SlotToKeyFlush ==
  Call("clear", <<>>, RaxInit, TRUE)
RaxNext == IsRax /\ (RaxInsert \/ RaxRemove \/ SlotToKeyAdd \/ SlotToKeyDel \/ DelKeysInSlot \/ SlotToKeyFlush)

(***************************************************************************)
(* Properties.                                                             *)
(***************************************************************************)
\* The tree is in order whatever the splits, merges and removals of its
\* nodes were: every node in memory is reachable from the head and counted in
\* numnodes, so that raxFree frees everything and its assertion holds; numele
\* is the number of keys; every leaf but an empty head is a key; the edges of a
\* node are in order, and only a compressed node has several characters and
\* one child.
RaxShape ==
  IsRax =>
    /\ Live(s.t) = ToSet(Below(s.t, s.t.head))
    /\ s.t.numnodes = Cardinality(Live(s.t))
    /\ s.t.numele = Cardinality({a \in Live(s.t) : s.t.nodes[a].iskey})
    /\ \A a \in Live(s.t) :
         LET n == s.t.nodes[a]
         IN /\ n.kids = <<>> => (n.iskey \/ a = s.t.head)
            /\ n.iscompr => (Len(n.chars) > 1 /\ Len(n.kids) = 1)
            /\ ~n.iscompr => (Len(n.chars) = Len(n.kids)
                              /\ \A i \in 1..(Len(n.chars) - 1) : n.chars[i] < n.chars[i + 1])

\* The keys and their data, read off the tree below node a.
RECURSIVE Contents(_, _, _)
Contents(r, a, prefix) ==
  LET n == r.nodes[a]
  IN FoldLeftDomain(LAMBDA m, k : m @@ Contents(r, n.kids[k], prefix \o (IF n.iscompr THEN n.chars ELSE <<n.chars[k]>>)),
                    IF n.iskey THEN prefix :> n.data ELSE <<>>, n.kids)

\* The keys that a seek of p with op is to visit, and that seq lists them in order.
Wanted(op, p, k) ==
  \/ op \in {"^", "$"} \/ (op \in {"=", ">=", "<="} /\ k = p)
  \/ op \in {">", ">="} /\ raxCompareLess(p, k)
  \/ op \in {"<", "<="} /\ raxCompareLess(k, p)
Lists(seq, wanted, forward) ==
  /\ ToSet(seq) = wanted
  /\ \A i \in 1..(Len(seq) - 1) : IF forward THEN raxCompareLess(seq[i], seq[i + 1]) ELSE raxCompareLess(seq[i + 1], seq[i])
Visited(op, p, forward) ==
  IF forward THEN KeysAfter(s.t, raxSeek(s.t, op, p), IF op = "=" THEN 1 ELSE 9)
  ELSE KeysBefore(s.t, raxSeek(s.t, op, p), 9)
InsideKey(p) == \E w \in {raxLowWalk(s.t, p)} : w.i = Len(p) /\ w.j > 0 /\ s.t.nodes[w.h].iskey
\* An iterator that seeks a string, whether it is a key, a prefix of one, in
\* the middle of a compressed node or not in the tree at all, starts at the
\* right key and visits every key from there on once and in order, in both
\* directions.  Not claimed: a backward seek of a string that ends inside a
\* compressed node which is itself a key; it misses that key.
RaxSeeks ==
  IsRax => \A keys \in {DOMAIN Contents(s.t, s.t.head, <<>>)}, p \in conf.probes,
              op \in {"^", "$", ">", ">=", "=", "<", "<="} :
             \E forward \in {op \in {"^", ">", ">=", "="}} :
               forward \/ ~InsideKey(p) => Lists(Visited(op, p, forward), {k \in keys : Wanted(op, p, k)}, forward)
\* The count of a slot is the number of its keys, which getKeysInSlot returns,
\* so that the loop of delKeysInSlot ends and never takes a key of another
\* slot.
SlotsCounted ==
  IsRax => \A keys \in {Indexed}, slot \in DOMAIN s.counts :
             /\ s.counts[slot] = Cardinality({k \in keys : k[1] = slot})
             /\ Lists(getKeysInSlot(s, slot, 9), {k \in keys : k[1] = slot}, TRUE)
=============================================================================
