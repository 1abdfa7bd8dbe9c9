------------------------------- MODULE Intset -------------------------------
(***************************************************************************)
(* intset.c: a sorted array of integers, all as wide as the widest one     *)
(* needs.  The contents are cells of two bytes: an integer v stored in enc *)
(* bytes fills enc / 2 of them with <<v, enc, part>>, and reading cells    *)
(* that are not the parts of one integer yields Garbage.                   *)
(* conf.max16 and conf.max32 stand for INT16_MAX and INT32_MAX.            *)
(***************************************************************************)
EXTENDS Structure, SequencesExt

INTSET_ENC_INT16 == 2
INTSET_ENC_INT32 == 4
INTSET_ENC_INT64 == 8

Garbage == 9999

_intsetValueEncoding(v) ==
  IF v < -conf.max32 - 1 \/ v > conf.max32 THEN INTSET_ENC_INT64
  ELSE IF v < -conf.max16 - 1 \/ v > conf.max16 THEN INTSET_ENC_INT32
  ELSE INTSET_ENC_INT16

_intsetGetEncoded(is, pos, enc) ==
  LET n == enc \div 2
      cell(k) == is.contents[pos * n + k]
  IN  IF \A k \in 1..n : cell(k) = <<cell(1)[1], enc, k>> THEN cell(1)[1] ELSE Garbage
_intsetGet(is, pos) == _intsetGetEncoded(is, pos, is.encoding)

_intsetSet(is, pos, value) ==
  LET n == is.encoding \div 2
  IN  [is EXCEPT !.contents =
         SubSeq(@, 1, pos * n) \o [k \in 1..n |-> <<value, is.encoding, k>>]
         \o SubSeq(@, (pos + 1) * n + 1, Len(@))]

intsetNew == [encoding |-> INTSET_ENC_INT16, length |-> 0, contents |-> <<>>]

\* The block is cut or extended, with cells of no particular value.
intsetResize(is, len) ==
  LET n == len * (is.encoding \div 2)
  IN  [is EXCEPT !.contents =
         IF n <= Len(@) THEN SubSeq(@, 1, n) ELSE @ \o [k \in 1..(n - Len(@)) |-> <<Garbage, 0, 0>>]]

RECURSIVE Bisect(_, _, _, _)
Bisect(is, value, min, max) ==
  LET mid == (min + max) \div 2
      cur == _intsetGet(is, mid)
  IN  IF max < min THEN <<FALSE, min>>
      ELSE IF value > cur THEN Bisect(is, value, mid + 1, max)
      ELSE IF value < cur THEN Bisect(is, value, min, mid - 1)
      ELSE <<TRUE, mid>>

\* <<found, position>>: where the value is, or where it is to be inserted.
intsetSearch(is, value) ==
  IF is.length = 0 THEN <<FALSE, 0>>
  ELSE IF value > _intsetGet(is, is.length - 1) THEN <<FALSE, is.length>>
  ELSE IF value < _intsetGet(is, 0) THEN <<FALSE, 0>>
  ELSE Bisect(is, value, 0, is.length - 1)

\* The first `length' elements are read at their old width and written at
\* the new one, the last one first.
RECURSIVE Widen(_, _, _, _)
Widen(is, curenc, prepend, length) ==
  IF length = 0 THEN is
  ELSE Widen(_intsetSet(is, length - 1 + prepend, _intsetGetEncoded(is, length - 1, curenc)),
             curenc, prepend, length - 1)

intsetUpgradeAndAdd(is, value) ==
  LET prepend == IF value < 0 THEN 1 ELSE 0
      is1 == intsetResize([is EXCEPT !.encoding = _intsetValueEncoding(value)], is.length + 1)
      is2 == Widen(is1, is.encoding, prepend, is.length)
  IN  [_intsetSet(is2, IF prepend = 1 THEN 0 ELSE is.length, value) EXCEPT !.length = @ + 1]

intsetMoveTail(is, from, to) ==
  LET n == is.encoding \div 2
      moved == SubSeq(is.contents, from * n + 1, is.length * n)
      after == to * n + Len(moved)
  IN  [is EXCEPT !.contents =
         SubSeq(@, 1, to * n) \o moved \o SubSeq(@, after + 1, Len(@))]

\* <<the set, was the value added>>
intsetAdd(is, value) ==
  LET at == intsetSearch(is, value)
      is1 == intsetResize(is, is.length + 1)
      is2 == IF at[2] < is.length THEN intsetMoveTail(is1, at[2], at[2] + 1) ELSE is1
  IN  IF _intsetValueEncoding(value) > is.encoding THEN <<intsetUpgradeAndAdd(is, value), TRUE>>
      ELSE IF at[1] THEN <<is, FALSE>>
      ELSE <<[_intsetSet(is2, at[2], value) EXCEPT !.length = @ + 1], TRUE>>

intsetFind(is, value) ==
  _intsetValueEncoding(value) <= is.encoding /\ intsetSearch(is, value)[1]

intsetRemove(is, value) ==
  LET pos == intsetSearch(is, value)[2]
      is1 == IF pos < is.length - 1 THEN intsetMoveTail(is, pos + 1, pos) ELSE is
  IN  IF intsetFind(is, value)
      THEN <<[intsetResize(is1, is.length - 1) EXCEPT !.length = @ - 1], TRUE>>
      ELSE <<is, FALSE>>

-----------------------------------------------------------------------------
IsIntset == kind = "intset"

IntsetAdd(v) ==
  IsIntset /\ s.length < conf.most /\ Call("add", <<v>>, intsetAdd(s, v)[1], intsetAdd(s, v)[2])
IntsetRemove(v) ==
  IsIntset /\ Call("del", <<v>>, intsetRemove(s, v)[1], intsetRemove(s, v)[2])
IntsetFind(v) == IsIntset /\ Call("has", <<v>>, s, intsetFind(s, v))
intsetLen == IsIntset /\ Call("count", <<>>, s, s.length)
\* intsetGet at every position in turn
IntsetAll == IsIntset /\ Call("all", <<>>, s, [i \in 1..s.length |-> _intsetGet(s, i - 1)])
intsetRandom ==
  /\ IsIntset /\ s.length > 0
  /\ \E i \in 0..(s.length - 1) : Call("draw", <<>>, s, _intsetGet(s, i))

IntsetNext ==
  \/ \E v \in conf.vals : IntsetAdd(v) \/ IntsetRemove(v) \/ IntsetFind(v)
  \/ intsetLen \/ IntsetAll \/ intsetRandom

-----------------------------------------------------------------------------
\* The members, in the block's own width, are in strictly increasing order
\* and the block is exactly as long as they need, through every upgrade of
\* the width and every deletion: what the search by bisection relies on.
IntsetShape ==
  IsIntset =>
    /\ Len(s.contents) = s.length * (s.encoding \div 2)
    /\ \A i \in 0..(s.length - 1) : /\ _intsetGet(s, i) # Garbage
                                    /\ _intsetValueEncoding(_intsetGet(s, i)) <= s.encoding
                                    /\ i > 0 => _intsetGet(s, i - 1) < _intsetGet(s, i)
=============================================================================
