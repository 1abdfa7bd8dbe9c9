-------------------------------- MODULE Zset --------------------------------
(***************************************************************************)
(* Sorted sets (t_zset.c): a ziplist of elements and scores while small,   *)
(* then a skip list and a hash table.                                      *)
(*                                                                         *)
(* Of the skip list, elements are integers, ordered as sdscmp orders the   *)
(* strings they stand for, and a node is named by its element; 0 is the    *)
(* header and NIL the null pointer.  A node is [score, forward, span,      *)
(* backward], with forward and span as long as its level; a node that is   *)
(* not in the list has level 0.  conf.maxlevel stands for                  *)
(* ZSKIPLIST_MAXLEVEL.                                                     *)
(*                                                                         *)
(* The object is [enc, zl, zsl, dict]: zl is the ziplist as a sequence of  *)
(* pairs <<element, score>>, dict gives the score the hash table holds for *)
(* each element, none as <<>>.                                             *)
(* Scores are integers, with Inf and -Inf for the infinities.              *)
(* An object of encoding "none" stands for a key that does not exist.      *)
(* conf.entries is zset-max-ziplist-entries, conf.long the elements longer *)
(* than zset-max-ziplist-value.                                            *)
(*                                                                         *)
(* The commands are on one key.  conf.adds are the lists of pairs given to *)
(* ZADD, conf.ranges the ranges of scores or names asked for, conf.at the  *)
(* ranks, conf.other the other source of unions, a set of elements;        *)
(* conf.big bounds the finite scores.                                      *)
(***************************************************************************)
EXTENDS Structure, SequencesExt

NIL == -1

NoNode == [score |-> 0, forward |-> <<>>, span |-> <<>>, backward |-> NIL]

Fill(x, n) == FoldLeft(LAMBDA q, i : Append(q, x), <<>>, [i \in 1..n |-> i])

zslCreate ==
  [level |-> 1, length |-> 0, tail |-> NIL,
   nodes |-> (0 :> [NoNode EXCEPT !.forward = Fill(NIL, conf.maxlevel), !.span = Fill(0, conf.maxlevel)])
             @@ [e \in conf.keys |-> NoNode]]

Fwd(zsl, x, i) == zsl.nodes[x].forward[i]

\* Along level i from node x, which r elements precede or are: the last node
\* reached through nodes that are in `skip'.
RECURSIVE Along(_, _, _, _, _)
Along(zsl, x, i, r, skip) ==
  IF Fwd(zsl, x, i) \in skip
  THEN Along(zsl, Fwd(zsl, x, i), i, r + zsl.nodes[x].span[i], skip)
  ELSE [x |-> x, r |-> r]

\* The descent every operation starts with, from level i down: for each
\* level the last node before the place sought, and its rank.
RECURSIVE Descend(_, _, _, _, _)
Descend(zsl, x, i, r, skip) ==
  IF i = 0 THEN [update |-> <<>>, rank |-> <<>>]
  ELSE LET a == Along(zsl, x, i, r, skip)
           d == Descend(zsl, a.x, i - 1, a.r, skip)
       IN  [update |-> Append(d.update, a.x), rank |-> Append(d.rank, a.r)]

zslFind(zsl, skip) == Descend(zsl, 0, zsl.level, 0, skip)

\* The elements that come before an element of this score, if in the list.
Smaller(zsl, score, ele) ==
  {e \in conf.keys : \/ zsl.nodes[e].score < score
                     \/ zsl.nodes[e].score = score /\ e < ele}

High(zsl, level) == IF level > zsl.level THEN level ELSE zsl.level

\* The nodes once a new one of the given level is linked in after those found
\* on the way: the spans that cross it are split or grow by one.
Linked(zsl, score, ele, level, d) ==
  LET upd(i) == IF i <= zsl.level THEN d.update[i] ELSE 0
      before(i) == d.rank[1] - (IF i <= zsl.level THEN d.rank[i] ELSE 0)
      Link(ns, i) ==
        LET span == IF i <= zsl.level THEN ns[upd(i)].span[i] ELSE zsl.length
        IN  IF i <= level
            THEN [ns EXCEPT ![ele].forward = Append(@, ns[upd(i)].forward[i]),
                            ![ele].span = Append(@, span - before(i)),
                            ![upd(i)].forward[i] = ele, ![upd(i)].span[i] = before(i) + 1]
            ELSE [ns EXCEPT ![upd(i)].span[i] = @ + 1]
      new == [NoNode EXCEPT !.score = score, !.backward = IF d.update[1] = 0 THEN NIL ELSE d.update[1]]
  IN  FoldLeft(Link, [zsl.nodes EXCEPT ![ele] = new], [i \in 1..High(zsl, level) |-> i])

\* The list of nodes ns with a new node, its successor pointing back to it.
LinkedBack(zsl, ns, ele, level) ==
  LET next == ns[ele].forward[1]
  IN  [level |-> High(zsl, level), length |-> zsl.length + 1,
       tail |-> IF next = NIL THEN ele ELSE zsl.tail,
       nodes |-> IF next = NIL THEN ns ELSE [ns EXCEPT ![next].backward = ele]]

zslInsert(zsl, score, ele, level) ==
  LinkedBack(zsl, Linked(zsl, score, ele, level, zslFind(zsl, Smaller(zsl, score, ele))), ele, level)

\* The list of nodes ns from which node x, as it was, has been unlinked: its
\* successor points back past it and the unused levels are given up.
UnlinkedBack(zsl, ns, node) ==
  LET next == node.forward[1]
      used == {i \in 2..zsl.level : ns[0].forward[i] # NIL}
  IN  [level |-> IF used = {} THEN 1 ELSE Max(used), length |-> zsl.length - 1,
       tail |-> IF next = NIL THEN node.backward ELSE zsl.tail,
       nodes |-> IF next = NIL THEN ns ELSE [ns EXCEPT ![next].backward = node.backward]]

\* Node x is unlinked, update[i] being the last node before it at level i.
zslDeleteNode(zsl, x, update) ==
  LET node == zsl.nodes[x]
      Unlink(ns, i) ==
        IF ns[update[i]].forward[i] = x
        THEN [ns EXCEPT ![update[i]].span[i] = @ + node.span[i] - 1,
                        ![update[i]].forward[i] = node.forward[i]]
        ELSE [ns EXCEPT ![update[i]].span[i] = @ - 1]
      ns1 == [FoldLeft(Unlink, zsl.nodes, [i \in 1..zsl.level |-> i]) EXCEPT ![x] = NoNode]
  IN  UnlinkedBack(zsl, ns1, node)

\* The list without the element, unchanged if it has not this score.
DeleteFound(zsl, score, ele, update) ==
  LET x == Fwd(zsl, update[1], 1)
  IN  IF x = ele /\ zsl.nodes[x].score = score THEN zslDeleteNode(zsl, x, update) ELSE zsl

zslDelete(zsl, score, ele) == DeleteFound(zsl, score, ele, zslFind(zsl, Smaller(zsl, score, ele)).update)

\* From x on, the nodes of `range' are deleted until one is not in it; the
\* answer is the list and the elements deleted.
RECURSIVE DeleteWhile(_, _, _, _, _)
DeleteWhile(zsl, x, update, range, gone) ==
  IF x \notin range THEN [zsl |-> zsl, gone |-> gone]
  ELSE DeleteWhile(zslDeleteNode(zsl, x, update), Fwd(zsl, x, 1), update, range, gone \cup {x})

\* The nodes below the range are skipped.
DeleteUpto(zsl, update, upto) == DeleteWhile(zsl, Fwd(zsl, update[1], 1), update, upto, {})
DeleteRange(zsl, below, upto) == DeleteUpto(zsl, zslFind(zsl, below).update, upto)

\* Positions are found by adding the spans crossed; the nodes reached at
\* level i are those that stay below the rank sought.
RECURSIVE AlongRank(_, _, _, _, _)
AlongRank(zsl, x, i, r, rank) ==
  IF Fwd(zsl, x, i) # NIL /\ r + zsl.nodes[x].span[i] <= rank
  THEN AlongRank(zsl, Fwd(zsl, x, i), i, r + zsl.nodes[x].span[i], rank)
  ELSE [x |-> x, r |-> r]

RECURSIVE DescendRank(_, _, _, _, _)
DescendRank(zsl, x, i, r, rank) ==
  IF i = 0 THEN [update |-> <<>>, rank |-> <<>>]
  ELSE LET a == AlongRank(zsl, x, i, r, rank)
           d == DescendRank(zsl, a.x, i - 1, a.r, rank)
       IN  [update |-> Append(d.update, a.x), rank |-> Append(d.rank, a.r)]

RECURSIVE DeleteCount(_, _, _, _, _)
DeleteCount(zsl, x, update, n, gone) ==
  IF x = NIL \/ n = 0 THEN [zsl |-> zsl, gone |-> gone]
  ELSE DeleteCount(zslDeleteNode(zsl, x, update), Fwd(zsl, x, 1), update, n - 1, gone \cup {x})

\* Ranks count from 1 and both ends are included.
zslDeleteRangeByRank(zsl, start, end) ==
  LET d == DescendRank(zsl, 0, zsl.level, 0, start - 1)
  IN  DeleteCount(zsl, Fwd(zsl, d.update[1], 1), d.update, end - d.rank[1], {})

\* 0 if the element is not there with that score.
zslGetRank(zsl, score, ele) ==
  LET d == zslFind(zsl, Smaller(zsl, score, ele) \cup {e \in {ele} : zsl.nodes[e].score = score})
      at == {i \in 1..zsl.level : d.update[i] = ele}
  IN  IF at = {} THEN 0 ELSE d.rank[Max(at)]

zslGetElementByRank(zsl, rank) ==
  LET d == DescendRank(zsl, 0, zsl.level, 0, rank)
      at == {i \in 1..zsl.level : d.rank[i] = rank}
  IN  IF at = {} THEN NIL ELSE d.update[Max(at)]

-----------------------------------------------------------------------------
Inf == 1000
NaN == 9999

\* Sum and product of two scores.
ScoreAdd(a, b) ==
  IF NaN \in {a, b} \/ {a, b} = {Inf, -Inf} THEN NaN ELSE IF Inf \in {a, b} THEN Inf
  ELSE IF -Inf \in {a, b} THEN -Inf ELSE a + b
ScoreMul(a, b) ==
  IF {a, b} \cap {Inf, -Inf} = {} THEN a * b
  ELSE IF 0 \in {a, b} THEN NaN ELSE IF (a < 0) = (b < 0) THEN Inf ELSE -Inf

createZsetObject == [enc |-> "skiplist", zl |-> <<>>, zsl |-> zslCreate, dict |-> [e \in conf.keys |-> <<>>]]
createZsetZiplistObject == [createZsetObject EXCEPT !.enc = "ziplist"]
NoKey == [createZsetObject EXCEPT !.enc = "none"]

-----------------------------------------------------------------------------
(* Ranges.  A score range is [lex |-> FALSE, min, max, minex, maxex], a    *)
(* range of names the same with lex |-> TRUE; there MinString and          *)
(* MaxString stand for "-" and "+".                                        *)

MinString == -1000
MaxString == 1000

\* The text of a bound: the two shared strings have one too.
Text(x) == IF x = MinString THEN conf.mintext ELSE IF x = MaxString THEN conf.maxtext ELSE x

sdscmplex(a, b) ==
  IF a = b THEN 0 ELSE IF a = MinString \/ b = MaxString THEN -1
  ELSE IF a = MaxString \/ b = MinString THEN 1 ELSE a - b

zslValueGteMin(v, r) == IF r.minex THEN v > r.min ELSE v >= r.min
zslValueLteMax(v, r) == IF r.maxex THEN v < r.max ELSE v <= r.max
zslLexValueGteMin(v, r) == IF r.minex THEN sdscmplex(v, r.min) > 0 ELSE sdscmplex(v, r.min) >= 0
zslLexValueLteMax(v, r) == IF r.maxex THEN sdscmplex(v, r.max) < 0 ELSE sdscmplex(v, r.max) <= 0

\* The same of a pair <<element, score>> and a range of either kind.
ValueGteMin(p, r) == IF r.lex THEN zslLexValueGteMin(p[1], r) ELSE zslValueGteMin(p[2], r)
ValueLteMax(p, r) == IF r.lex THEN zslLexValueLteMax(p[1], r) ELSE zslValueLteMax(p[2], r)

\* Mutant: the range of one score is taken for an empty one
MutantAlwaysEmpty(r) == r.min >= r.max

\* A range that holds nothing whatever the set.
AlwaysEmpty(r) == r.min > r.max \/ (r.min = r.max /\ (r.minex \/ r.maxex))

\* Two names must differ by more than 1, and their texts are compared even
\* where they are the shared ones.
LexAlwaysEmpty(r) ==
  sdscmplex(r.min, r.max) > 1 \/ (Text(r.min) = Text(r.max) /\ (r.minex \/ r.maxex))

Pair(zsl, e) == <<e, zsl.nodes[e].score>>
GteMin(zsl, r) == {e \in conf.keys : ValueGteMin(Pair(zsl, e), r)}
LteMax(zsl, r) == {e \in conf.keys : ValueLteMax(Pair(zsl, e), r)}

zslIsInRange(zsl, r) ==
  /\ ~(IF r.lex THEN LexAlwaysEmpty(r) ELSE AlwaysEmpty(r))
  /\ zsl.tail # NIL /\ zsl.tail \in GteMin(zsl, r)
  /\ Fwd(zsl, 0, 1) \in LteMax(zsl, r)

zslFirstInRange(zsl, r) ==
  LET d == zslFind(zsl, conf.keys \ GteMin(zsl, r))
      x == Fwd(zsl, d.update[1], 1)
  IN  IF zslIsInRange(zsl, r) /\ x \in LteMax(zsl, r) THEN x ELSE NIL

zslLastInRange(zsl, r) ==
  LET x == zslFind(zsl, LteMax(zsl, r)).update[1]
  IN  IF zslIsInRange(zsl, r) /\ x \in GteMin(zsl, r) THEN x ELSE NIL

\* Deletions answer the list and the elements deleted.
zslDeleteRangeByScore(zsl, r) == DeleteRange(zsl, conf.keys \ GteMin(zsl, r), LteMax(zsl, r))

\* The same functions written for names.
zslDeleteRangeByLex(zsl, r) == DeleteRange(zsl, conf.keys \ GteMin(zsl, r), LteMax(zsl, r))
zslFirstInLexRange(zsl, r) == zslFirstInRange(zsl, r)
zslLastInLexRange(zsl, r) == zslLastInRange(zsl, r)

-----------------------------------------------------------------------------
(* The ziplist encoding.  Positions are those of the pairs, 0 for none.    *)

zzlIsInRange(zl, r) ==
  /\ ~(IF r.lex THEN LexAlwaysEmpty(r) ELSE AlwaysEmpty(r))
  /\ zl # <<>> /\ ValueGteMin(Last(zl), r) /\ ValueLteMax(Head(zl), r)

First(zl, S) == IF S = {} THEN 0 ELSE Min(S)

zzlFirstInRange(zl, r) ==
  LET i == First(zl, {k \in DOMAIN zl : ValueGteMin(zl[k], r)})
  IN  IF zzlIsInRange(zl, r) /\ i # 0 /\ ValueLteMax(zl[i], r) THEN i ELSE 0

zzlLastInRange(zl, r) ==
  LET S == {k \in DOMAIN zl : ValueLteMax(zl[k], r)}
  IN  IF zzlIsInRange(zl, r) /\ S # {} /\ ValueGteMin(zl[Max(S)], r) THEN Max(S) ELSE 0

zzlFirstInLexRange(zl, r) == zzlFirstInRange(zl, r)
zzlLastInLexRange(zl, r) == zzlLastInRange(zl, r)

zzlFind(zl, ele) == First(zl, {k \in DOMAIN zl : zl[k][1] = ele})

zzlInsert(zl, ele, score) ==
  LET i == First(zl, {k \in DOMAIN zl : zl[k][2] > score \/ (zl[k][2] = score /\ zl[k][1] > ele)})
  IN  IF i = 0 THEN Append(zl, <<ele, score>>) ELSE InsertAt(zl, i, <<ele, score>>)

\* From position i on, pairs are deleted up to the first out of range.
DeleteFrom(zl, i, r) ==
  LET out == {k \in DOMAIN zl : k > i /\ ~ValueLteMax(zl[k], r)}
      next == IF out = {} THEN Len(zl) + 1 ELSE Min(out)
  IN  IF i = 0 THEN zl ELSE SubSeq(zl, 1, i - 1) \o SubSeq(zl, next, Len(zl))

zzlDeleteRangeByScore(zl, r) == DeleteFrom(zl, zzlFirstInRange(zl, r), r)
zzlDeleteRangeByLex(zl, r) == DeleteFrom(zl, zzlFirstInLexRange(zl, r), r)
zzlDeleteRangeByRank(zl, start, end) == SubSeq(zl, 1, start - 1) \o SubSeq(zl, end + 1, Len(zl))

-----------------------------------------------------------------------------
(* Both encodings. *)

zsetLength(o) == IF o.enc = "ziplist" THEN Len(o.zl) ELSE o.zsl.length

\* The skip list and the hash table of the pairs inserted one by one, with
\* the levels drawn for them.
RECURSIVE InsertPairs(_, _, _)
InsertPairs(o, pairs, level) ==
  IF pairs = <<>> THEN o
  ELSE LET p == Head(pairs)
       IN  InsertPairs([o EXCEPT !.zsl = zslInsert(o.zsl, p[2], p[1], level[p[1]]),
                                 !.dict[p[1]] = <<p[2]>>], Tail(pairs), level)

\* The pairs from a node on, in either order.
RECURSIVE Links(_, _, _)
Links(zsl, x, reverse) ==
  IF x = NIL THEN <<>>
  ELSE <<Pair(zsl, x)>> \o
       Links(zsl, IF reverse THEN zsl.nodes[x].backward ELSE Fwd(zsl, x, 1), reverse)

zsetConvert(o, enc, level) ==
  IF o.enc = enc THEN o
  ELSE IF enc = "skiplist" THEN InsertPairs(createZsetObject, o.zl, level)
  ELSE [createZsetZiplistObject EXCEPT !.zl = Links(o.zsl, Fwd(o.zsl, 0, 1), FALSE)]

zsetConvertToZiplistIfNeeded(o, maxlong) ==
  IF zsetLength(o) <= conf.entries /\ ~maxlong THEN zsetConvert(o, "ziplist", <<>>) ELSE o

\* The score of the element, <<>> if it is not a member.
zsetScore(o, ele) ==
  LET i == zzlFind(o.zl, ele)
  IN  IF o.enc = "skiplist" THEN o.dict[ele] ELSE IF i = 0 THEN <<>> ELSE <<o.zl[i][2]>>

\* A member gets another score: it is removed and inserted again.
SetScore(o, ele, cur, score, level) ==
  IF o.enc = "ziplist"
  THEN [o EXCEPT !.zl = zzlInsert(RemoveAt(o.zl, zzlFind(o.zl, ele)), ele, score)]
  ELSE [o EXCEPT !.zsl = zslInsert(zslDelete(o.zsl, cur, ele), score, ele, level[ele]),
                 !.dict[ele] = <<score>>]

Insert(o, ele, score, level) ==
  LET zl == zzlInsert(o.zl, ele, score)
      o1 == [o EXCEPT !.zl = zl]
  IN  IF o.enc = "skiplist" THEN InsertPairs(o, <<<<ele, score>>>>, level)
      ELSE IF Len(zl) > conf.entries \/ ele \in conf.long THEN zsetConvert(o1, "skiplist", level)
      ELSE o1

\* The object, what was done ("added", "updated", "none", "nop", "nan") and
\* the new score.  flags is a set of "incr", "nx" and "xx".
zsetAdd(o, given, ele, flags, level) ==
  LET cur == zsetScore(o, ele)
      score == IF cur # <<>> /\ "incr" \in flags THEN ScoreAdd(given, cur[1]) ELSE given
  IN  IF cur # <<>>
      THEN IF "nx" \in flags THEN [o |-> o, did |-> "nop", score |-> 0]
           ELSE IF score = NaN THEN [o |-> o, did |-> "nan", score |-> 0]
           ELSE IF score = cur[1] THEN [o |-> o, did |-> "none", score |-> score]
           ELSE [o |-> SetScore(o, ele, cur[1], score, level), did |-> "updated", score |-> score]
      ELSE IF "xx" \in flags THEN [o |-> o, did |-> "nop", score |-> 0]
      ELSE [o |-> Insert(o, ele, score, level), did |-> "added", score |-> score]

zsetDel(o, ele) ==
  LET i == zzlFind(o.zl, ele)
  IN  IF zsetScore(o, ele) = <<>> THEN o
      ELSE IF o.enc = "ziplist" THEN [o EXCEPT !.zl = RemoveAt(@, i)]
      ELSE [o EXCEPT !.zsl = zslDelete(@, o.dict[ele][1], ele), !.dict[ele] = <<>>]

\* The rank from 0, in increasing or decreasing order; -1 if not a member.
zsetRank(o, ele, reverse) ==
  LET rank == IF o.enc = "ziplist" THEN zzlFind(o.zl, ele)
              ELSE IF o.dict[ele] = <<>> THEN 0 ELSE zslGetRank(o.zsl, o.dict[ele][1], ele)
  IN  IF rank = 0 THEN -1 ELSE IF reverse THEN zsetLength(o) - rank ELSE rank - 1

-----------------------------------------------------------------------------
(* The commands *)

\* A random level for each element that a command may insert: those given,
\* and those of a ziplist that is converted.
Levels(o, given) == [given \cup {o.zl[i][1] : i \in DOMAIN o.zl} -> 1..conf.maxlevel]

-----------------------------------------------------------------------------
(* ZADD, ZINCRBY *)

\* What has been done so far, after one more pair.
Tally(n, a) ==
  [o |-> a.o, score |-> IF a.did = "nan" THEN NaN ELSE a.score,
   added |-> n.added + (IF a.did = "added" THEN 1 ELSE 0),
   updated |-> n.updated + (IF a.did = "updated" THEN 1 ELSE 0),
   processed |-> n.processed \/ a.did # "nop"]

Nothing(o) == [o |-> o, score |-> 0, added |-> 0, updated |-> 0, processed |-> FALSE]

\* The pairs are added in turn, until a score is not a number.
AddPairs(o, pairs, flags, level) ==
  LET One(n, p) == IF n.score = NaN THEN n ELSE Tally(n, zsetAdd(n.o, p[2], p[1], flags, level))
  IN  FoldLeft(One, Nothing(o), pairs)

\* The object they are added to, a new one if the key does not exist.
AddTo(o, ele) ==
  IF o.enc # "none" THEN o
  ELSE IF conf.entries = 0 \/ ele \in conf.long THEN createZsetObject ELSE createZsetZiplistObject

ZAddReply(n, flags) ==
  IF n.score = NaN THEN <<"nan">>
  ELSE IF "incr" \notin flags THEN <<n.added + (IF "ch" \in flags THEN n.updated ELSE 0)>>
  ELSE IF n.processed THEN <<n.score>> ELSE <<>>

\* The refused options, and what is done otherwise.
Refused(pairs, flags) == {"nx", "xx"} \subseteq flags \/ ("incr" \in flags /\ Len(pairs) > 1)

zaddGeneric(o, pairs, flags, level) ==
  IF o.enc = "none" /\ "xx" \in flags THEN Nothing(o)
  ELSE AddPairs(AddTo(o, pairs[1][1]), pairs, flags, level)

-----------------------------------------------------------------------------
(* Removals.  A set left empty is deleted with its key. *)

OrGone(o) == IF zsetLength(o) = 0 THEN NoKey ELSE o

\* <<the object, how many were deleted>>
RECURSIVE zrem(_, _)
zrem(o, eles) ==
  IF eles = <<>> \/ o.enc = "none" THEN <<o, 0>>
  ELSE LET d == zrem(OrGone(zsetDel(o, Head(eles))), Tail(eles))
       IN  <<d[1], d[2] + (IF zsetScore(o, Head(eles)) = <<>> THEN 0 ELSE 1)>>

\* Ranks as given, the last being -1, made ranks from 0; <<>> if there are none.
Sanitize(start, end, llen) ==
  LET a == IF start < 0 THEN llen + start ELSE start
      b == IF end < 0 THEN llen + end ELSE end
      from == IF a < 0 THEN 0 ELSE a
  IN  IF from > b \/ from >= llen THEN <<>>
      ELSE <<from, IF b >= llen THEN llen - 1 ELSE b>>

\* The skip list deletes the elements from the hash table too.
Without(o, d) == [o EXCEPT !.zsl = d.zsl, !.dict = [e \in conf.keys |-> IF e \in d.gone THEN <<>> ELSE @[e]]]

zremrangebyrank(o, start, end) ==
  LET r == Sanitize(start, end, zsetLength(o))
  IN  IF r = <<>> THEN o
      ELSE IF o.enc = "ziplist"
           THEN OrGone([o EXCEPT !.zl = zzlDeleteRangeByRank(@, r[1] + 1, r[2] + 1)])
      ELSE OrGone(Without(o, zslDeleteRangeByRank(o.zsl, r[1] + 1, r[2] + 1)))

zremrangebyscore(o, r) ==
  IF o.enc = "none" THEN o
  ELSE IF o.enc = "ziplist" THEN OrGone([o EXCEPT !.zl = zzlDeleteRangeByScore(@, r)])
  ELSE OrGone(Without(o, zslDeleteRangeByScore(o.zsl, r)))

zremrangebylex(o, r) ==
  IF o.enc = "none" THEN o
  ELSE IF o.enc = "ziplist" THEN OrGone([o EXCEPT !.zl = zzlDeleteRangeByLex(@, r)])
  ELSE OrGone(Without(o, zslDeleteRangeByLex(o.zsl, r)))

-----------------------------------------------------------------------------
(* Reads. *)

\* The pairs from a position (of the ziplist) or a node on, in either order.
Walk(o, x, reverse) ==
  IF o.enc # "ziplist" THEN Links(o.zsl, x, reverse)
  ELSE IF x = 0 THEN <<>>
  ELSE IF reverse THEN Reverse(SubSeq(o.zl, 1, x)) ELSE SubSeq(o.zl, x, Len(o.zl))

zrangeGeneric(o, start, end, reverse) ==
  LET llen == zsetLength(o)
      r == Sanitize(start, end, llen)
      rank == IF reverse THEN llen - r[1] ELSE r[1] + 1
      x == IF o.enc = "ziplist" THEN rank
           ELSE IF r[1] > 0 THEN zslGetElementByRank(o.zsl, rank)
           ELSE IF reverse THEN o.zsl.tail ELSE Fwd(o.zsl, 0, 1)
  IN  IF r = <<>> THEN <<>> ELSE SubSeq(Walk(o, x, reverse), 1, r[2] - r[1] + 1)

\* The pairs up to the first that is out of the range, at most `limit' of
\* them unless it is negative.
RECURSIVE TakeWhile(_, _, _, _)
TakeWhile(q, limit, r, reverse) ==
  IF q = <<>> \/ limit = 0 THEN <<>>
  ELSE IF ~(IF reverse THEN ValueGteMin(Head(q), r) ELSE ValueLteMax(Head(q), r)) THEN <<>>
  ELSE <<Head(q)>> \o TakeWhile(Tail(q), limit - 1, r, reverse)

\* The offset is skipped unchecked, and a negative one never runs out.
From(o, x, r, offset, limit, reverse) ==
  LET q == Walk(o, x, reverse)
  IN  IF offset < 0 \/ offset > Len(q) THEN <<>>
      ELSE TakeWhile(SubSeq(q, offset + 1, Len(q)), limit, r, reverse)

genericZrangebyscore(o, r, offset, limit, reverse) ==
  LET x == IF o.enc = "ziplist" THEN IF reverse THEN zzlLastInRange(o.zl, r) ELSE zzlFirstInRange(o.zl, r)
           ELSE IF reverse THEN zslLastInRange(o.zsl, r) ELSE zslFirstInRange(o.zsl, r)
  IN  From(o, x, r, offset, limit, reverse)

genericZrangebylex(o, r, offset, limit, reverse) ==
  LET x == IF o.enc = "ziplist" THEN IF reverse THEN zzlLastInLexRange(o.zl, r) ELSE zzlFirstInLexRange(o.zl, r)
           ELSE IF reverse THEN zslLastInLexRange(o.zsl, r) ELSE zslFirstInLexRange(o.zsl, r)
  IN  From(o, x, r, offset, limit, reverse)

\* The nodes a to z counted by their two ranks.
Between(zsl, a, z) ==
  LET rank(e) == zslGetRank(zsl, zsl.nodes[e].score, e)
  IN  IF a = NIL THEN 0
      ELSE zsl.length - (rank(a) - 1) - (IF z = NIL THEN 0 ELSE zsl.length - rank(z))

zcount(o, r) ==
  IF o.enc = "ziplist"
  THEN Len(TakeWhile(Walk(o, zzlFirstInRange(o.zl, r), FALSE), -1, r, FALSE))
  ELSE Between(o.zsl, zslFirstInRange(o.zsl, r), zslLastInRange(o.zsl, r))

zlexcount(o, r) ==
  IF o.enc = "ziplist"
  THEN Len(TakeWhile(Walk(o, zzlFirstInLexRange(o.zl, r), FALSE), -1, r, FALSE))
  ELSE Between(o.zsl, zslFirstInLexRange(o.zsl, r), zslLastInLexRange(o.zsl, r))

-----------------------------------------------------------------------------
(* ZUNIONSTORE, ZINTERSTORE.  A source is [of, weight], where `of' names   *)
(* the key, the other set or a key that does not exist.                    *)

\* The pairs of a source as its iterator gives them; a set's score 1.
zuiPairs(o, of) ==
  CASE of = "key" -> Walk(o, IF o.enc = "ziplist" THEN First(o.zl, DOMAIN o.zl) ELSE Fwd(o.zsl, 0, 1), FALSE)
    [] of = "other" -> SetToSeq({<<e, 1>> : e \in conf.other})
    [] of = "none" -> <<>>

zuiFind(o, of, e) ==
  CASE of = "key" -> zsetScore(o, e)
    [] of = "other" -> IF e \in conf.other THEN <<1>> ELSE <<>>
    [] of = "none" -> <<>>

zunionInterAggregate(target, val, aggregate) ==
  CASE aggregate = "sum" -> IF ScoreAdd(target, val) = NaN THEN 0 ELSE ScoreAdd(target, val)
    [] aggregate = "min" -> IF val # NaN /\ val < target THEN val ELSE target
    [] aggregate = "max" -> IF val # NaN /\ val > target THEN val ELSE target

OrZero(score) == IF score = NaN THEN 0 ELSE score

\* The elements of the first, smallest, source that the others have too.
zinter(o, src, aggregate) ==
  LET all(e) == \A j \in DOMAIN src : zuiFind(o, src[j].of, e) # <<>>
      Combine(score, x) == zunionInterAggregate(score, x, aggregate)
      score(p) == FoldLeft(Combine, OrZero(ScoreMul(src[1].weight, p[2])),
                    [j \in 1..(Len(src) - 1) |->
                       ScoreMul(zuiFind(o, src[j + 1].of, p[1])[1], src[j + 1].weight)])
      some == SelectSeq(zuiPairs(o, src[1].of), LAMBDA p : all(p[1]))
  IN  [i \in DOMAIN some |-> <<some[i][1], score(some[i])>>]

\* The accumulator has a score for each element met so far.
Accumulate(acc, p, aggregate) ==
  IF \E i \in DOMAIN acc : acc[i][1] = p[1]
  THEN LET i == CHOOSE k \in DOMAIN acc : acc[k][1] = p[1]
       IN  [acc EXCEPT ![i] = <<p[1], zunionInterAggregate(acc[i][2], p[2], aggregate)>>]
  ELSE Append(acc, p)

zunion(o, src, aggregate) ==
  LET one(j) == LET q == zuiPairs(o, src[j].of)
                IN  [i \in DOMAIN q |-> <<q[i][1], OrZero(ScoreMul(src[j].weight, q[i][2]))>>]
      all == FlattenSeq([j \in DOMAIN src |-> one(j)])
  IN  FoldLeft(LAMBDA acc, p : Accumulate(acc, p, aggregate), <<>>, all)

\* The sources are put in an order of increasing size and the result takes
\* the place of the key.
Stored(o, op, src, aggregate, level) ==
  LET pairs == IF op = "zunion" THEN zunion(o, src, aggregate)
               ELSE IF zuiPairs(o, src[1].of) = <<>> THEN <<>> ELSE zinter(o, src, aggregate)
      new == InsertPairs(createZsetObject, pairs, level)
  IN  IF pairs = <<>> THEN NoKey
      ELSE zsetConvertToZiplistIfNeeded(new, \E i \in DOMAIN pairs : pairs[i][1] \in conf.long)

\* Of at most two sources.
BySize(o, src) ==
  {q \in {src, Reverse(src)} :
     \A i \in 2..Len(q) : Len(zuiPairs(o, q[i - 1].of)) <= Len(zuiPairs(o, q[i].of))}

-----------------------------------------------------------------------------
IsZset == kind = "zset"

\* The bound on scores, which increments and weights would exceed.
InBound(o) == \A e \in conf.keys : zsetScore(o, e) # <<>> =>
                zsetScore(o, e)[1] \in (-conf.big)..conf.big \cup {Inf, -Inf}

ZAdd(pairs, flags) ==
  /\ IsZset
  /\ IF Refused(pairs, flags) THEN Call("zadd", <<pairs, flags>>, s, <<"error">>)
     ELSE \E level \in Levels(s, {pairs[i][1] : i \in DOMAIN pairs}) :
            \E n \in {zaddGeneric(s, pairs, flags, level)} :
              InBound(n.o) /\ Call("zadd", <<pairs, flags>>, n.o, ZAddReply(n, flags))
ZRem(eles) == IsZset /\ \E d \in {zrem(s, eles)} : Call("zrem", eles, d[1], d[2])
ZRemRangeByRank(start, end) ==
  /\ IsZset
  /\ \E o \in {zremrangebyrank(s, start, end)} :
       Call("zremrangebyrank", <<start, end>>, o, zsetLength(s) - zsetLength(o))
ZRemRange(r) ==
  /\ IsZset
  /\ \E o \in {IF r.lex THEN zremrangebylex(s, r) ELSE zremrangebyscore(s, r)} :
       Call("zremrange", <<r>>, o, zsetLength(s) - zsetLength(o))
ZStore(op, src, aggregate) ==
  /\ IsZset
  /\ \E q \in BySize(s, src), level \in Levels(s, conf.keys) :
       \E o \in {Stored(s, op, q, aggregate, level)} :
         InBound(o) /\ Call(op, <<src, aggregate, conf.other>>, o, zsetLength(o))

ZsetNext ==
  \/ \E pairs \in conf.adds, flags \in conf.flags : ZAdd(pairs, flags)
  \/ \E eles \in conf.rems : ZRem(eles)
  \/ \E start, end \in conf.at : ZRemRangeByRank(start, end)
  \/ \E r \in conf.ranges : ZRemRange(r)
  \/ \E op \in {"zunion", "zinter"}, src \in conf.srcs, agg \in conf.aggs : ZStore(op, src, agg)

-----------------------------------------------------------------------------
\* The pairs in order of score, then of name, by the scores looked up.
Precedes(p, q) == p[2] < q[2] \/ (p[2] = q[2] /\ p[1] < q[1])
Sorted(o) ==
  SetToSortSeq({<<e, zsetScore(o, e)[1]>> : e \in {e \in conf.keys : zsetScore(o, e) # <<>>}}, Precedes)

\* The skip list is sound after every insertion, deletion of one element or
\* of a range, and conversion: each level is a sublist of the one below, each
\* span is the distance it crosses, the backward links and the tail mirror
\* level 1, no level above the list's is used, and the hash table holds the
\* score of exactly the elements linked.
ZsetShape ==
  IsZset =>
    LET zsl == s.zsl
        q == Sorted(s)
        at(x) == IF x = 0 THEN 0 ELSE CHOOSE i \in DOMAIN q : q[i][1] = x
        node(i) == IF i = 0 THEN NIL ELSE q[i][1]
    IN  IF s.enc = "ziplist"
        THEN s.zl = q /\ zsl = zslCreate /\ Len(q) \in 1..conf.entries
        ELSE /\ Links(zsl, Fwd(zsl, 0, 1), FALSE) = q
             /\ zsl.length = Len(q) /\ zsl.tail = node(Len(q))
             /\ s.enc = "none" <=> q = <<>>
             /\ \A x \in {0} \cup {q[i][1] : i \in DOMAIN q} : \A l \in DOMAIN zsl.nodes[x].forward :
                  LET y == Fwd(zsl, x, l)
                      far == {i \in (at(x) + 1)..Len(q) : Len(zsl.nodes[q[i][1]].forward) >= l}
                  IN  /\ l > zsl.level => x = 0 /\ y = NIL
                      /\ y = IF far = {} THEN NIL ELSE q[Min(far)][1]
                      /\ l <= zsl.level =>
                           zsl.nodes[x].span[l] = IF far = {} THEN Len(q) - at(x) ELSE Min(far) - at(x)
             /\ \A i \in DOMAIN q : zsl.nodes[q[i][1]].backward = node(i - 1)

\* Every read gives what the sorted pairs say, in both encodings: ranges by
\* rank, by score and by name (for elements of one score), with offset and
\* limit, in both orders, the counts taken from two ranks, and the ranks.
ZsetReads ==
  IsZset =>
    LET q == Sorted(s)
        n == Len(q)
        pick(p, S) == [k \in 1..Cardinality(S) |-> p[SetToSortSeq(S, <)[k]]]
        inRange(p, r) == ValueGteMin(p, r) /\ ValueLteMax(p, r)
        asked(r) == ~r.lex \/ \A i, j \in DOMAIN q : q[i][2] = q[j][2]
    IN  \A reverse \in BOOLEAN :
          LET p == IF reverse THEN Reverse(q) ELSE q IN
          /\ \A a, b \in conf.at :
               zrangeGeneric(s, a, b, reverse) =
                 pick(p, {i \in 1..n : (IF a < 0 THEN a + n ELSE a) < i /\ i <= (IF b < 0 THEN b + n ELSE b) + 1})
          /\ \A r \in {r \in conf.ranges : asked(r)} :
               LET in == SelectSeq(p, LAMBDA x : inRange(x, r)) IN
               /\ (IF r.lex THEN zlexcount(s, r) ELSE zcount(s, r)) = Len(in)
               /\ \A off \in 0..2, lim \in {-1, 1} :
                    (IF r.lex THEN genericZrangebylex(s, r, off, lim, reverse)
                     ELSE genericZrangebyscore(s, r, off, lim, reverse)) =
                      pick(in, {i \in DOMAIN in : i > off /\ (lim < 0 \/ i <= off + lim)})
          /\ \A e \in conf.keys :
               zsetRank(s, e, reverse) =
                 IF \E i \in DOMAIN p : p[i][1] = e THEN (CHOOSE i \in DOMAIN p : p[i][1] = e) - 1 ELSE -1
=============================================================================
