--------------------------- MODULE StructureSpecs ---------------------------
(***************************************************************************)
(* What the data structures promise: a dictionary a map, a ziplist and a   *)
(* quicklist a sequence, an intset a set of integers and a sorted set a    *)
(* map from elements to scores.  `type' is the structure in use; the       *)
(* variables of the others stay as they began.                             *)
(***************************************************************************)
EXTENDS MapSpec

VARIABLES type, list, set, scores

-----------------------------------------------------------------------------
\* A sequence of values, and calls that read or change it by position, by end
\* or by value.  Positions count from 0; negative ones count from the tail, -1
\* being the last element.
\* The position, from 1, that index i names; out of 1..Len(list) if none.
At(i) == IF i >= 0 THEN i + 1 ELSE Len(list) + i + 1
Valid(i) == At(i) \in DOMAIN list

ListPush ==
  /\ Answers("push", TRUE)
  /\ list' = IF arg[1] = "head" THEN <<arg[2]>> \o list ELSE Append(list, arg[2])

ListInsert == Answers("insert", Valid(arg[1])) /\ list' = InsertAt(list, At(arg[1]), arg[2])

ListSet ==
  /\ Answers("set", Valid(arg[1]))
  /\ list' = IF Valid(arg[1]) THEN [list EXCEPT ![At(arg[1])] = arg[2]] ELSE list

ListDelete == Answers("delete", Valid(arg[1])) /\ list' = RemoveAt(list, At(arg[1]))

ListDeleteRange ==
  /\ Answers("range", Valid(arg[1]) /\ arg[2] > 0)
  /\ list' = IF Valid(arg[1])
             THEN SubSeq(list, 1, At(arg[1]) - 1) \o SubSeq(list, At(arg[1]) + arg[2], Len(list))
             ELSE list

ListPop ==
  LET head == arg[1] = "head"
  IN  IF list = <<>> THEN Answers("pop", <<>>) /\ UNCHANGED list
      ELSE /\ Answers("pop", <<IF head THEN Head(list) ELSE Last(list)>>)
           /\ list' = IF head THEN Tail(list) ELSE Front(list)

\* The tail element becomes the head.
ListRotate ==
  /\ Answers("rotate", TRUE)
  /\ list' = IF list = <<>> THEN list ELSE <<Last(list)>> \o Front(list)

ListConcat == Answers("merge", TRUE) /\ list' = list \o arg[1]

ListIndex == Answers("index", IF Valid(arg[1]) THEN <<list[At(arg[1])]>> ELSE <<>>) /\ UNCHANGED list

\* The first position that holds arg[1] among the first and every
\* (arg[2] + 1)th one after it; -1 if there is none.
ListFind ==
  /\ LET found == {p \in DOMAIN list : list[p] = arg[1] /\ (p - 1) % (arg[2] + 1) = 0}
     IN  Answers("find", IF found = {} THEN -1 ELSE Min(found) - 1)
  /\ UNCHANGED list

ListLength == Answers("len", Len(list)) /\ UNCHANGED list

\* The elements from index arg[1] to index arg[2], both included.
Part == SubSeq(list, Max({At(arg[1]), 1}), Min({At(arg[2]), Len(list)}))
ListSlice == Answers("slice", Part) /\ UNCHANGED list
ListTrim == Answers("trim", TRUE) /\ list' = Part

\* The first arg[1] elements equal to arg[2] go, from the tail if the number
\* is negative, all if it is 0.
ListRemoveEqual ==
  LET n == arg[1]
      equal == {p \in DOMAIN list : list[p] = arg[2]}
      gone == {p \in equal : \/ n = 0
                             \/ n > 0 /\ Cardinality({q \in equal : q < p}) < n
                             \/ n < 0 /\ Cardinality({q \in equal : q > p}) < -n}
      rank == SetToSortSeq(DOMAIN list \ gone, <)
  IN  /\ Answers("rem", Cardinality(gone))
      /\ list' = [k \in DOMAIN rank |-> list[rank[k]]]

\* arg[3] goes before or after the first element equal to arg[2]; the answer
\* is the new length, -1 if there is no such element.
ListInsertBeside ==
  LET at == {p \in DOMAIN list : list[p] = arg[2]}
  IN  IF at = {} THEN Answers("linsert", -1) /\ UNCHANGED list
      ELSE /\ Answers("linsert", Len(list) + 1)
           /\ list' = InsertAt(list, IF arg[1] = "head" THEN Min(at) ELSE Min(at) + 1, arg[3])

ListInit == list = <<>>
ListNext ==
  CASE last'.op = "push" -> ListPush
    [] last'.op = "insert" -> ListInsert
    [] last'.op = "set" -> ListSet
    [] last'.op = "delete" -> ListDelete
    [] last'.op = "range" -> ListDeleteRange
    [] last'.op = "pop" -> ListPop
    [] last'.op = "rotate" -> ListRotate
    [] last'.op = "merge" -> ListConcat
    [] last'.op = "index" -> ListIndex
    [] last'.op = "find" -> ListFind
    [] last'.op = "len" -> ListLength
    [] last'.op = "slice" -> ListSlice
    [] last'.op = "trim" -> ListTrim
    [] last'.op = "rem" -> ListRemoveEqual
    [] last'.op = "linsert" -> ListInsertBeside
    [] OTHER -> FALSE

-----------------------------------------------------------------------------
\* A set of integers: members are added, removed and looked up, counted,
\* listed in increasing order and drawn at random.
SetAdd == Answers("add", arg[1] \notin set) /\ set' = set \cup {arg[1]}
SetDel == Answers("del", arg[1] \in set) /\ set' = set \ {arg[1]}
SetHas == Answers("has", arg[1] \in set) /\ UNCHANGED set
SetCount == Answers("count", Cardinality(set)) /\ UNCHANGED set
SetAll == Answers("all", SetToSortSeq(set, <)) /\ UNCHANGED set
SetDraw == last'.op = "draw" /\ last'.res \in set /\ UNCHANGED set

SetInit == set = {}
SetNext == SetAdd \/ SetDel \/ SetHas \/ SetCount \/ SetAll \/ SetDraw

-----------------------------------------------------------------------------
\* A map from elements to scores, none as <<>>, that commands change and
\* count.  The order is that of the scores, and of the elements where scores
\* are equal.
Huge == 1000
NotANumber == 9999

Keys == DOMAIN scores
Members == {e \in Keys : scores[e] # <<>>}

Plus(a, b) ==
  CASE {a, b} = {Huge, -Huge} -> NotANumber
    [] Huge \in {a, b} /\ -Huge \notin {a, b} -> Huge
    [] -Huge \in {a, b} /\ Huge \notin {a, b} -> -Huge
    [] OTHER -> a + b
Times(a, w) == IF a \in {Huge, -Huge} THEN (IF w > 0 THEN a ELSE -a) ELSE a * w

\* The score of an element once the pair <<element, given>> is added.
Added(sc, pair, flags) ==
  LET cur == sc[pair[1]]
      new == IF cur # <<>> /\ "incr" \in flags THEN Plus(cur[1], pair[2]) ELSE pair[2]
  IN  IF (cur = <<>> /\ "xx" \in flags) \/ (cur # <<>> /\ "nx" \in flags) \/ new = NotANumber THEN sc
      ELSE [sc EXCEPT ![pair[1]] = <<new>>]

RECURSIVE Changes(_, _, _)
Changes(sc, pairs, flags) ==
  IF pairs = <<>> THEN 0
  ELSE LET sc1 == Added(sc, Head(pairs), flags)
           e == Head(pairs)[1]
           one == sc1 # sc /\ ("ch" \in flags \/ sc[e] = <<>>)
       IN  (IF one THEN 1 ELSE 0) + Changes(sc1, Tail(pairs), flags)

ZAdd ==
  LET pairs == arg[1]
      flags == arg[2]
      e == pairs[1][1]
      wrong == {"nx", "xx"} \subseteq flags \/ ("incr" \in flags /\ Len(pairs) > 1)
      after == FoldLeft(LAMBDA sc, p : Added(sc, p, flags), scores, pairs)
      skipped == IF scores[e] = <<>> THEN "xx" \in flags ELSE "nx" \in flags
      nan == ~skipped /\ scores[e] # <<>> /\ Plus(scores[e][1], pairs[1][2]) = NotANumber
  IN  /\ last'.op = "zadd"
      /\ scores' = IF wrong THEN scores ELSE after
      /\ last'.res = IF wrong THEN <<"error">>
                     ELSE IF "incr" \notin flags THEN <<Changes(scores, pairs, flags)>>
                     ELSE IF nan THEN <<"nan">> ELSE IF skipped THEN <<>> ELSE after[e]

Forget(S) ==
  /\ scores' = [e \in Keys |-> IF e \in S THEN <<>> ELSE scores[e]]
  /\ last'.res = Cardinality(S \cap Members)

ZRem == last'.op = "zrem" /\ Forget(ToSet(arg))

\* How many members come before an element.
Rank(e) == Cardinality({f \in Members : \/ scores[f][1] < scores[e][1]
                                        \/ scores[f] = scores[e] /\ f < e})

ZRemRangeByRank ==
  LET n == Cardinality(Members)
      from == IF arg[1] < 0 THEN n + arg[1] ELSE arg[1]
      to == IF arg[2] < 0 THEN n + arg[2] ELSE arg[2]
  IN  last'.op = "zremrangebyrank" /\ Forget({e \in Members : Rank(e) \in from..to})

\* A range of names is asked of members of one score only.
ZRemRange ==
  LET r == arg[1]
      value(e) == IF r.lex THEN e ELSE scores[e][1]
      in(e) == /\ (IF r.minex THEN value(e) > r.min ELSE value(e) >= r.min)
               /\ (IF r.maxex THEN value(e) < r.max ELSE value(e) <= r.max)
  IN  /\ last'.op = "zremrange"
      /\ (~r.lex \/ \A e, f \in Members : scores[e] = scores[f]) => Forget({e \in Members : in(e)})
      /\ \A e \in Keys : scores'[e] \in {<<>>, scores[e]}

\* The score an element has in a source, if any, times the weight.
Weighted(source, e) ==
  LET sc == CASE source.of = "key" -> scores[e]
              [] source.of = "other" -> (IF e \in arg[3] THEN <<1>> ELSE <<>>)
              [] source.of = "none" -> <<>>
  IN  IF sc = <<>> THEN <<>> ELSE <<Times(sc[1], source.weight)>>

Combined(a, b, how) ==
  CASE how = "sum" -> IF Plus(a, b) = NotANumber THEN 0 ELSE Plus(a, b)
    [] how = "min" -> IF a < b THEN a ELSE b
    [] how = "max" -> IF a > b THEN a ELSE b

\* Of at most two sources.
ZStore ==
  LET src == arg[1]
      has(e) == SelectSeq([j \in DOMAIN src |-> Weighted(src[j], e)], LAMBDA x : x # <<>>)
      score(e) == IF Len(has(e)) = 1 THEN has(e)[1] ELSE <<Combined(has(e)[1][1], has(e)[2][1], arg[2])>>
      all == {e \in Keys : IF last'.op = "zinter" THEN Len(has(e)) = Len(src) ELSE has(e) # <<>>}
  IN  /\ last'.op \in {"zunion", "zinter"}
      /\ scores' = [e \in Keys |-> IF e \in all THEN score(e) ELSE <<>>]
      /\ last'.res = Cardinality(all)

ZsetInit == Members = {}
ZsetNext == ZAdd \/ ZRem \/ ZRemRangeByRank \/ ZRemRange \/ ZStore

-----------------------------------------------------------------------------
Init == last.op = "none" /\ MapInit /\ ListInit /\ SetInit /\ ZsetInit
Next ==
  CASE type = "dict" -> MapNext
    [] type \in {"ziplist", "quicklist"} -> ListNext
    [] type = "intset" -> SetNext
    [] type = "zset" -> ZsetNext
Spec == Init /\ [][Next]_<<last.op, last.arg, last.res, map, list, set, scores>>
=============================================================================
