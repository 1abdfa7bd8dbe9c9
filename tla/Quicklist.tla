------------------------------ MODULE Quicklist ------------------------------
(***************************************************************************)
(* quicklist.c and the calls t_list.c makes of it: a list cut into nodes,  *)
(* each holding a ziplist, of which those far from both ends may be        *)
(* compressed.                                                             *)
(*                                                                         *)
(* A node is [vals |-> the list its ziplist holds, enc |-> "raw" or "lzf", *)
(* recompress |-> decompressed for a use after which it may be compressed  *)
(* again]; the list is [nodes, count, len, broken], where broken is set    *)
(* when a ziplist call was given compressed bytes.                         *)
(* conf.fill and conf.compress are list-max-ziplist-size and               *)
(* list-compress-depth, conf.size gives the bytes an entry takes in a      *)
(* ziplist, conf.level the bytes a negative fill factor allows,            *)
(* conf.safety is SIZE_SAFETY_LIMIT, conf.least MIN_COMPRESS_BYTES;        *)
(* conf.most bounds the elements, and conf.ops the calls made.             *)
(***************************************************************************)
EXTENDS Structure, SequencesExt

quicklistCreate == [nodes |-> <<>>, count |-> 0, len |-> 0, broken |-> FALSE]
quicklistCreateNode(vals) == [vals |-> vals, enc |-> "raw", recompress |-> FALSE]

Bytes(vals) == 11 + SumFunction([i \in DOMAIN vals |-> conf.size[vals[i]]])

-----------------------------------------------------------------------------
(* Compression.  External: the LZF library shrinks every node that is long *)
(* enough to be tried, and gives back what it was given.                   *)

quicklistCompressNode(n) ==
  IF n.enc = "raw" /\ Bytes(n.vals) >= conf.least
  THEN [n EXCEPT !.enc = "lzf", !.recompress = FALSE] ELSE n
quicklistDecompressNode(n) == [n EXCEPT !.enc = "raw"]
quicklistDecompressNodeForUse(n) ==
  IF n.enc = "lzf" THEN [n EXCEPT !.enc = "raw", !.recompress = TRUE] ELSE n

\* The nodes within conf.compress of an end are decompressed; node i (0 for
\* none) is compressed if it is not one of them, and, for depths of two and
\* more, so are the two nodes just beyond the depth.  The depth is compared
\* with the number of nodes as q.len has it, before an insertion or a
\* deletion in progress is counted.
__quicklistCompress(q, i) ==
  LET c == conf.compress
      n == Len(q.nodes)
      deep == {k \in 1..n : k <= c \/ k > n - c}
      Decompress(k, nodes) == [nodes EXCEPT ![k] = quicklistDecompressNode(@)]
      Compress(k, nodes) == [nodes EXCEPT ![k] = quicklistCompressNode(@)]
      raw == FoldSet(Decompress, q.nodes, deep)
      tight == {k \in 1..n : k = i /\ i \notin deep}
               \cup {k \in 1..n : c >= 2 /\ k \in {c + 1, n - c}}
  IN  IF c = 0 \/ q.len < 2 * c THEN q
      ELSE IF n <= 2 * c - 1 THEN [q EXCEPT !.nodes = raw]
      ELSE [q EXCEPT !.nodes = FoldSet(Compress, raw, tight)]

quicklistCompress(q, i) ==
  IF q.nodes[i].recompress
  THEN [q EXCEPT !.nodes[i] = quicklistCompressNode(@)]
  ELSE __quicklistCompress(q, i)

quicklistRecompressOnly(q, i) ==
  IF q.nodes[i].recompress THEN [q EXCEPT !.nodes[i] = quicklistCompressNode(@)] ELSE q

Use(q, i) == [q EXCEPT !.nodes[i] = quicklistDecompressNodeForUse(@)]

-----------------------------------------------------------------------------
(* Nodes. *)

\* The new node goes after (or before) node i, or is the first one (i = 0).
__quicklistInsertNode(q, i, node, after) ==
  LET at == IF after THEN i + 1 ELSE i
      q1 == [q EXCEPT !.nodes = InsertAt(@, IF i = 0 THEN 1 ELSE at, node)]
      old == IF after THEN i ELSE i + 1
      q2 == IF i = 0 THEN q1 ELSE quicklistCompress(q1, old)
  IN  [q2 EXCEPT !.len = @ + 1]

__quicklistDelNode(q, i) ==
  LET q1 == __quicklistCompress([q EXCEPT !.nodes = RemoveAt(@, i)], 0)
  IN  [q1 EXCEPT !.count = @ - Len(q.nodes[i].vals), !.len = @ - 1]

SizeMeetsOptimization(sz) == conf.fill < 0 /\ sz <= conf.level[-conf.fill]

\* Does node i, if there is one, take one more element of sz bytes?
_quicklistNodeAllowInsert(q, i, v) ==
  /\ i \in DOMAIN q.nodes
  /\ LET new == Bytes(q.nodes[i].vals) + conf.size[v]
     IN  \/ SizeMeetsOptimization(new)
         \/ new <= conf.safety /\ Len(q.nodes[i].vals) < conf.fill

_quicklistNodeAllowMerge(q, i, j) ==
  /\ {i, j} \subseteq DOMAIN q.nodes
  /\ LET sz == Bytes(q.nodes[i].vals) + Bytes(q.nodes[j].vals) - 11
     IN  \/ SizeMeetsOptimization(sz)
         \/ sz <= conf.safety /\ Len(q.nodes[i].vals) + Len(q.nodes[j].vals) <= conf.fill

\* The ziplist of node i is given to a ziplist call as it is.
Touch(q, i, vals) ==
  [q EXCEPT !.nodes[i].vals = vals, !.broken = @ \/ q.nodes[i].enc # "raw"]

quicklistPushHead(q, v) ==
  LET q1 == IF _quicklistNodeAllowInsert(q, 1, v)
            THEN Touch(q, 1, <<v>> \o q.nodes[1].vals)
            ELSE __quicklistInsertNode(q, IF q.nodes = <<>> THEN 0 ELSE 1,
                                       quicklistCreateNode(<<v>>), FALSE)
  IN  [q1 EXCEPT !.count = @ + 1]

quicklistPushTail(q, v) ==
  LET n == Len(q.nodes)
      q1 == IF _quicklistNodeAllowInsert(q, n, v)
            THEN Touch(q, n, Append(q.nodes[n].vals, v))
            ELSE __quicklistInsertNode(q, n, quicklistCreateNode(<<v>>), TRUE)
  IN  [q1 EXCEPT !.count = @ + 1]

quicklistPush(q, v, where) ==
  IF where = "head" THEN quicklistPushHead(q, v) ELSE quicklistPushTail(q, v)

\* A node made of a whole ziplist, as the loading of an RDB file appends it.
quicklistAppendZiplist(q, l) ==
  LET q1 == __quicklistInsertNode(q, Len(q.nodes), quicklistCreateNode(l), TRUE)
  IN  [q1 EXCEPT !.count = @ + Len(l)]

\* Element p of node i is deleted, and the node with its last one.
quicklistDelIndex(q, i, p) ==
  LET q1 == Touch(q, i, RemoveAt(q.nodes[i].vals, p))
      q2 == IF q1.nodes[i].vals = <<>> THEN __quicklistDelNode(q1, i) ELSE q1
  IN  [q2 EXCEPT !.count = @ - 1]

-----------------------------------------------------------------------------
(* Positions. *)

\* The node and the offset, negative from the tail, of index idx; no node
\* (0) if it is out of range.  The node found is decompressed for use.
Before(q, i) == SumFunctionOnSet([k \in DOMAIN q.nodes |-> Len(q.nodes[k].vals)], 1..(i - 1))
Behind(q, i) == SumFunctionOnSet([k \in DOMAIN q.nodes |-> Len(q.nodes[k].vals)],
                                 (i + 1)..Len(q.nodes))
quicklistIndex(q, idx) ==
  LET index == IF idx < 0 THEN -idx - 1 ELSE idx
      Holds(k) == LET accum == IF idx < 0 THEN Behind(q, k) ELSE Before(q, k)
                  IN  accum <= index /\ index < accum + Len(q.nodes[k].vals)
      n == CHOOSE k \in DOMAIN q.nodes : Holds(k)
  IN  IF index >= q.count THEN [q |-> q, node |-> 0, offset |-> 0]
      ELSE [q |-> Use(q, n), node |-> n,
            offset |-> IF idx < 0 THEN -index - 1 + Behind(q, n) ELSE index - Before(q, n)]

\* The element an offset names in a node, 0 if none.
Pos(vals, offset) ==
  LET p == IF offset >= 0 THEN offset + 1 ELSE Len(vals) + offset + 1
  IN  IF p \in DOMAIN vals THEN p ELSE 0

-----------------------------------------------------------------------------
(* Insertion in the middle. *)

\* Nodes i and i + 1 become one, the one that holds more elements being kept.
_quicklistZiplistMerge(q, i) ==
  LET a == quicklistDecompressNode(q.nodes[i])
      b == quicklistDecompressNode(q.nodes[i + 1])
      keepA == Len(a.vals) >= Len(b.vals)
      keep == [IF keepA THEN a ELSE b EXCEPT !.vals = a.vals \o b.vals]
      nokeep == [IF keepA THEN b ELSE a EXCEPT !.vals = <<>>]
      q1 == [q EXCEPT !.nodes[i] = IF keepA THEN keep ELSE nokeep,
                      !.nodes[i + 1] = IF keepA THEN nokeep ELSE keep]
  IN  quicklistCompress(__quicklistDelNode(q1, IF keepA THEN i + 1 ELSE i), i)

\* Merges, where the sizes allow: the two nodes before c, the two after it,
\* c with the one before, the result with the one after.  x is [q, c].
MergeBefore(x) ==
  IF _quicklistNodeAllowMerge(x.q, x.c - 2, x.c - 1)
  THEN [q |-> _quicklistZiplistMerge(x.q, x.c - 2), c |-> x.c - 1] ELSE x
MergeAfter(x) ==
  IF _quicklistNodeAllowMerge(x.q, x.c + 1, x.c + 2)
  THEN [x EXCEPT !.q = _quicklistZiplistMerge(@, x.c + 1)] ELSE x
MergeLeft(x) ==
  IF _quicklistNodeAllowMerge(x.q, x.c, x.c - 1)
  THEN [q |-> _quicklistZiplistMerge(x.q, x.c - 1), c |-> x.c - 1] ELSE x
MergeRight(x) ==
  IF _quicklistNodeAllowMerge(x.q, x.c, x.c + 1)
  THEN [x EXCEPT !.q = _quicklistZiplistMerge(@, x.c)] ELSE x
_quicklistMergeNodes(q, c) == MergeRight(MergeLeft(MergeAfter(MergeBefore([q |-> q, c |-> c])))).q

\* The two parts of node i at offset: what the node keeps, and the new node.
_quicklistSplitNode(n, offset, after) ==
  LET upto == IF after THEN offset + 1 ELSE offset
      low == SubSeq(n.vals, 1, upto)
      high == SubSeq(n.vals, upto + 1, Len(n.vals))
  IN  [node |-> [n EXCEPT !.vals = IF after THEN low ELSE high],
       new |-> quicklistCreateNode(IF after THEN high ELSE low)]

\* v is inserted after (or before) the element of node i at offset, which
\* the caller found by an iterator from the head.  The test for the tail of
\* the node compares the offset with the count, which it never reaches, so
\* an insertion after the last element of a full node splits it too.
_quicklistInsert(q, i, offset, v, after) ==
  LET full == ~_quicklistNodeAllowInsert(q, i, v)
      at_tail == after /\ offset = Len(q.nodes[i].vals)
      at_head == ~after /\ offset = 0
      beside == IF after THEN i + 1 ELSE i - 1
      there == (at_tail \/ at_head) /\ beside \in DOMAIN q.nodes
      used == Use(q, i)
      p == IF after THEN offset + 2 ELSE offset + 1
      q1 == IF ~full
            THEN quicklistRecompressOnly(Touch(used, i, InsertAt(used.nodes[i].vals, p, v)), i)
            ELSE IF there /\ _quicklistNodeAllowInsert(q, beside, v)
            THEN LET u == Use(q, beside)
                     vals == u.nodes[beside].vals
                 IN  quicklistRecompressOnly(
                       Touch(u, beside, IF after THEN <<v>> \o vals ELSE Append(vals, v)), beside)
            ELSE IF there THEN __quicklistInsertNode(q, i, quicklistCreateNode(<<v>>), after)
            ELSE LET parts == _quicklistSplitNode(used.nodes[i], offset, after)
                     new == [parts.new EXCEPT !.vals = IF after THEN <<v>> \o @ ELSE Append(@, v)]
                     q2 == __quicklistInsertNode([used EXCEPT !.nodes[i] = parts.node], i, new, after)
                 IN  _quicklistMergeNodes(q2, IF after THEN i ELSE i + 1)
  IN  [q1 EXCEPT !.count = @ + 1]

-----------------------------------------------------------------------------
(* Deletion of a range, from the head or of the whole tail. *)

quicklistDeleteIfEmpty(q, i) == IF q.nodes[i].vals = <<>> THEN __quicklistDelNode(q, i) ELSE q

RECURSIVE DelFrom(_, _, _, _)
DelFrom(q, i, offset, extent) ==
  LET vals == q.nodes[i].vals
      n == Len(vals)
      whole == offset = 0 /\ extent >= n
      del == IF offset < 0 THEN IF -offset > extent THEN extent ELSE -offset
             ELSE IF extent >= n THEN n - offset ELSE extent
      p == Pos(vals, offset)
      rest == SubSeq(vals, 1, p - 1) \o SubSeq(vals, p + del, n)
      q1 == [Touch(Use(q, i), i, rest) EXCEPT !.count = @ - del]
      q2 == quicklistDeleteIfEmpty(q1, i)
      gone == Len(q2.nodes) < Len(q1.nodes)
      q3 == IF gone THEN q2 ELSE quicklistRecompressOnly(q2, i)
  IN  IF extent = 0 THEN q
      ELSE IF whole THEN DelFrom(__quicklistDelNode(q, i), i, 0, extent - n)
      ELSE DelFrom(q3, IF gone THEN i ELSE i + 1, 0, extent - del)

quicklistDelRange(q, start, count) ==
  LET extent == IF start >= 0 /\ count > q.count - start THEN q.count - start
                ELSE IF start < 0 /\ count > -start THEN -start ELSE count
      e == quicklistIndex(q, start)
  IN  IF count <= 0 \/ e.node = 0 THEN q ELSE DelFrom(e.q, e.node, e.offset, extent)

-----------------------------------------------------------------------------
(* The iterator: a node, the element it stands on (zi, 0 for none) and the *)
(* offset of it, and a direction, 1 towards the tail, -1 towards the head. *)

quicklistGetIteratorAtIdx(e, dir) == [node |-> e.node, zi |-> 0, offset |-> e.offset, dir |-> dir]

RECURSIVE quicklistNext(_, _)
quicklistNext(q, it) ==
  LET q1 == IF it.zi = 0 THEN Use(q, it.node) ELSE q
      offset == IF it.zi = 0 THEN it.offset ELSE it.offset + it.dir
      p == IF it.zi = 0 THEN Pos(q.nodes[it.node].vals, offset)
           ELSE IF it.zi + it.dir \in DOMAIN q.nodes[it.node].vals THEN it.zi + it.dir ELSE 0
  IN  IF it.node \notin DOMAIN q.nodes THEN [q |-> q, it |-> it, found |-> FALSE]
      ELSE IF p # 0
      THEN [q |-> q1, it |-> [it EXCEPT !.zi = p, !.offset = offset], found |-> TRUE]
      ELSE quicklistNext(quicklistCompress(q1, it.node),
             [it EXCEPT !.node = @ + it.dir, !.zi = 0, !.offset = IF it.dir = 1 THEN 0 ELSE -1])

At(x) == x.q.nodes[x.it.node].vals[x.it.zi]

\* The element under the iterator is deleted.  The one after it takes its
\* offset, unless the node goes, and then it is the first of the next node.
quicklistDelEntry(x) ==
  LET i == x.it.node
      q == quicklistDelIndex(x.q, i, x.it.zi)
      gone == Len(q.nodes) < Len(x.q.nodes)
      towards == x.it.dir = 1
  IN  [q |-> q,
       it |-> IF gone THEN [x.it EXCEPT !.zi = 0, !.offset = IF towards THEN 0 ELSE -1,
                                        !.node = IF towards THEN i ELSE i - 1]
              ELSE [x.it EXCEPT !.zi = 0]]

-----------------------------------------------------------------------------
(* The list commands of t_list.c, on a key that holds the list.  A list    *)
(* left empty is deleted with its key, and the next push starts a new one. *)

IsQuicklist == kind = "quicklist"
Command(op) == IsQuicklist /\ op \in conf.ops /\ ~s.broken

QlPush(where, v) ==
  /\ Command("push")
  /\ s.count < conf.most
  /\ Call("push", <<where, v>>, quicklistPush(s, v, where), TRUE)

quicklistPopCustom(where) ==
  /\ Command("pop")
  /\ s.count > 0
  /\ LET i == IF where = "head" THEN 1 ELSE Len(s.nodes)
         vals == s.nodes[i].vals
         p == IF where = "head" THEN 1 ELSE Len(vals)
     IN  Call("pop", <<where>>, quicklistDelIndex(s, i, p), <<vals[p]>>)

\* RPOPLPUSH of a list to itself: a pop, then a push.
rpoplpush ==
  /\ Command("rotate")
  /\ s.count > 0
  /\ LET n == Len(s.nodes)
         p == Len(s.nodes[n].vals)
     IN  Call("rotate", <<>>, quicklistPushHead(quicklistDelIndex(s, n, p), s.nodes[n].vals[p]), TRUE)

\* RESTORE and the loading of an RDB file.
QlLoad(l) ==
  /\ Command("load")
  /\ s.count + Len(l) <= conf.most
  /\ Call("merge", <<l>>, quicklistAppendZiplist(s, l), TRUE)

lindexCommand(idx) ==
  /\ Command("index")
  /\ s.count > 0
  /\ LET e == quicklistIndex(s, idx)
         vals == e.q.nodes[e.node].vals
     IN  Call("index", <<idx>>, e.q, IF e.node = 0 THEN <<>> ELSE <<vals[Pos(vals, e.offset)]>>)

quicklistReplaceAtIndex(idx, v) ==
  /\ Command("set")
  /\ s.count > 0
  /\ LET e == quicklistIndex(s, idx)
         vals == e.q.nodes[e.node].vals
         q == Touch(e.q, e.node, [vals EXCEPT ![Pos(vals, e.offset)] = v])
     IN  Call("set", <<idx, v>>, IF e.node = 0 THEN s ELSE quicklistCompress(q, e.node), e.node # 0)

\* The indexes start and end of LRANGE and LTRIM, from 0 and within the list;
\* none if the range is empty.
Bounds(start, end) ==
  LET n == s.count
      from == IF start < 0 THEN IF n + start < 0 THEN 0 ELSE n + start ELSE start
      to == IF end < 0 THEN n + end ELSE IF end >= n THEN n - 1 ELSE end
  IN  IF from > to \/ from >= n THEN <<>> ELSE <<from, to>>

RECURSIVE Collect(_, _, _)
Collect(x, n, out) ==
  IF n = 0 THEN [q |-> x.q, out |-> out]
  ELSE LET y == quicklistNext(x.q, x.it) IN Collect(y, n - 1, Append(out, At(y)))

lrangeCommand(start, end) ==
  /\ Command("slice")
  /\ s.count > 0
  /\ LET b == Bounds(start, end)
         e == quicklistIndex(s, b[1])
         r == Collect([q |-> e.q, it |-> quicklistGetIteratorAtIdx(e, 1)], b[2] - b[1] + 1, <<>>)
     IN  IF b = <<>> THEN Call("slice", <<start, end>>, s, <<>>)
         ELSE Call("slice", <<start, end>>, r.q, r.out)

ltrimCommand(start, end) ==
  /\ Command("trim")
  /\ s.count > 0
  /\ LET b == Bounds(start, end)
         ltrim == IF b = <<>> THEN s.count ELSE b[1]
         rtrim == IF b = <<>> THEN 0 ELSE s.count - b[2] - 1
     IN  Call("trim", <<start, end>>, quicklistDelRange(quicklistDelRange(s, 0, ltrim), -rtrim, rtrim),
              TRUE)

RECURSIVE RemoveAll(_, _, _, _)
RemoveAll(x, v, toremove, removed) ==
  LET y == quicklistNext(x.q, x.it)
      z == quicklistDelEntry(y)
  IN  IF ~y.found THEN [q |-> y.q, removed |-> removed]
      ELSE IF At(y) # v THEN RemoveAll(y, v, toremove, removed)
      ELSE IF removed + 1 = toremove THEN [q |-> z.q, removed |-> toremove]
      ELSE RemoveAll(z, v, toremove, removed + 1)

lremCommand(toremove, v) ==
  /\ Command("rem")
  /\ s.count > 0
  /\ LET dir == IF toremove < 0 THEN -1 ELSE 1
     IN  \E e \in {quicklistIndex(s, IF toremove < 0 THEN -1 ELSE 0)} :
         \E r \in {RemoveAll([q |-> e.q, it |-> quicklistGetIteratorAtIdx(e, dir)], v, dir * toremove, 0)} :
           Call("rem", <<toremove, v>>, r.q, r.removed)

RECURSIVE Seek(_, _)
Seek(x, pivot) ==
  LET y == quicklistNext(x.q, x.it)
  IN  IF ~y.found \/ At(y) = pivot THEN y ELSE Seek(y, pivot)

linsertCommand(where, pivot, v) ==
  /\ Command("linsert")
  /\ 0 < s.count /\ s.count < conf.most
  /\ \E e \in {quicklistIndex(s, 0)} :
     \E y \in {Seek([q |-> e.q, it |-> quicklistGetIteratorAtIdx(e, 1)], pivot)} :
     \E q \in {IF y.found THEN _quicklistInsert(y.q, y.it.node, y.it.offset, v, where = "tail") ELSE y.q} :
       Call("linsert", <<where, pivot, v>>, q, IF y.found THEN q.count ELSE -1)

QuicklistNext ==
  \/ \E where \in {"head", "tail"} : quicklistPopCustom(where)
  \/ \E v \in conf.vals, where \in {"head", "tail"} :
       QlPush(where, v) \/ \E pivot \in conf.vals : linsertCommand(where, pivot, v)
  \/ rpoplpush
  \/ \E v, w \in conf.vals : QlLoad(<<v, w>>)
  \/ \E i \in conf.at : \/ lindexCommand(i)
                        \/ \E v \in conf.vals : quicklistReplaceAtIndex(i, v) \/ lremCommand(i, v)
                        \/ \E j \in conf.at : lrangeCommand(i, j) \/ ltrimCommand(i, j)

-----------------------------------------------------------------------------
(* Properties. *)

QuicklistView == FlattenSeq([i \in DOMAIN s.nodes |-> s.nodes[i].vals])

\* The counters that LLEN and every access by index trust agree with the
\* nodes, whatever mix of insertions, splits, merges and deletions: the list
\* counts its elements and its nodes, no node is empty, and with a positive
\* list-max-ziplist-size no node outgrows it except as an RDB file brought it.
QuicklistShape ==
  IsQuicklist =>
    /\ s.count = Len(QuicklistView)
    /\ s.len = Len(s.nodes)
    /\ \A i \in DOMAIN s.nodes : /\ s.nodes[i].vals # <<>>
                                /\ "load" \notin conf.ops /\ conf.fill > 0
                                     => Len(s.nodes[i].vals) <= conf.fill

\* The first and the last node, on which pushes and pops work in place, are
\* never compressed.
EndsRaw ==
  IsQuicklist => ~s.broken /\ \A i \in DOMAIN s.nodes : i \in {1, Len(s.nodes)} => s.nodes[i].enc = "raw"

\* The same, of lists that only see the calls that leave no node decompressed
\* behind them: pushes, pops, rotations, trims and appended ziplists.
EndsRawByEnds ==
  IsQuicklist /\ conf.ops \subseteq {"push", "pop", "rotate", "trim", "load"} => EndsRaw
=============================================================================
