----------------------------- MODULE TypeSpecs -----------------------------
(***************************************************************************)
(* What the commands of the types promise.  `type' is the type in use; the *)
(* variables of the others stay as they began.  Numbers are the texts of   *)
(* integers from `lowest' to `highest', and no text is longer than         *)
(* `longest'; a byte has `bpb' bits; a HyperLogLog has `many' registers    *)
(* and sums powers of two in units of 2^-unit.                             *)
(***************************************************************************)
EXTENDS MapSpec

VARIABLES type, texts, ttl, ones, bytes, sets, registers,
          lowest, highest, longest, bpb, unit, many

k == arg[1]

-----------------------------------------------------------------------------
\* Strings: a text for each key, <<>> if there is none, the keys that have a
\* time to live, and commands that change the keys they name.
Digits(v) == IF v < 0 THEN <<10, -v>> ELSE <<v>>
Numbers(t) == {v \in lowest..highest : Digits(v) = t}
Value == IF texts[k] = <<>> THEN <<>> ELSE texts[k][1]
StrStore(t) == texts' = [texts EXCEPT ![k] = <<t>>]

StrSet ==
  IF ("nx" \in arg[3] /\ texts[k] # <<>>) \/ ("xx" \in arg[3] /\ texts[k] = <<>>)
  THEN Answers("set", <<0>>) /\ UNCHANGED <<texts, ttl>>
  ELSE /\ Answers("set", <<1>>) /\ StrStore(arg[2])
       /\ ttl' = IF "ex" \in arg[3] THEN ttl \cup {k} ELSE ttl \ {k}

GetSet == Answers("getset", texts[k]) /\ StrStore(arg[2]) /\ ttl' = ttl \ {k}

\* Written over the text from an offset, which zero bytes lead up to.
SetRange ==
  LET new == arg[2]
      from == arg[3]
      end == from + Len(new)
      long == IF end > Len(Value) THEN end ELSE Len(Value)
  IN  /\ UNCHANGED ttl
      /\ IF new = <<>> THEN Answers("setrange", <<Len(Value)>>) /\ UNCHANGED texts
         ELSE IF end > longest THEN Answers("setrange", <<>>) /\ UNCHANGED texts
         ELSE /\ Answers("setrange", <<long>>)
              /\ StrStore([p \in 1..long |-> IF p \in (from + 1)..end THEN new[p - from]
                                          ELSE IF p <= Len(Value) THEN Value[p] ELSE 12])

Append1 ==
  /\ UNCHANGED ttl
  /\ IF Len(Value) + Len(arg[2]) > longest
     THEN Answers("append", <<>>) /\ UNCHANGED texts
     ELSE Answers("append", <<Len(Value \o arg[2])>>) /\ StrStore(Value \o arg[2])

\* The exact sum, or an error and no change.
StrAdd(op, by) ==
  LET sum == {v + by : v \in IF texts[k] = <<>> THEN {0} ELSE Numbers(Value)} \cap (lowest..highest)
  IN  /\ UNCHANGED ttl
      /\ IF sum = {} THEN Answers(op, <<>>) /\ UNCHANGED texts
         ELSE \E v \in sum : Answers(op, Digits(v)) /\ StrStore(Digits(v))

\* The exact difference, or an error, but for the least number, whose negation
\* overflows and which is added.
StrSubtract == StrAdd("decrby", IF arg[2] = lowest THEN lowest ELSE -arg[2])

\* All keys or none; where a key is named two times the later value stays.
MSet ==
  IF arg[3] /\ \E j \in 1..2 : texts[k[j]] # <<>>
  THEN Answers("mset", <<0>>) /\ UNCHANGED <<texts, ttl>>
  ELSE /\ Answers("mset", <<1>>)
       /\ texts' = [texts EXCEPT ![k[1]] = <<arg[2][1]>>, ![k[2]] = <<arg[2][2]>>]
       /\ ttl' = ttl \ {k[1], k[2]}

StrDel ==
  /\ Answers("del", <<IF texts[k] = <<>> THEN 0 ELSE 1>>)
  /\ texts' = [texts EXCEPT ![k] = <<>>] /\ ttl' = ttl \ {k}

StrInit == (\A x \in DOMAIN texts : texts[x] = <<>>) /\ ttl = {}
StrNext ==
  CASE last'.op = "set" -> StrSet
    [] last'.op = "getset" -> GetSet
    [] last'.op = "setrange" -> SetRange
    [] last'.op = "append" -> Append1
    [] last'.op \in {"incrby", "float"} -> StrAdd(last'.op, arg[2])
    [] last'.op = "decrby" -> StrSubtract
    [] last'.op = "mset" -> MSet
    [] last'.op = "del" -> StrDel
    [] OTHER -> FALSE

-----------------------------------------------------------------------------
\* Bits: the set of the positions of a key that are one, of bits without end,
\* and its length in bytes, -1 if there is no such key.
Positive(n) == IF n < 0 THEN 0 ELSE n

\* The string is long enough for a bit, and has these ones.
BitBecomes(set, bit) ==
  /\ ones' = [ones EXCEPT ![k] = set]
  /\ bytes' = [bytes EXCEPT ![k] = Max({@, bit \div bpb + 1})]

BitSet ==
  LET t == arg[2]
  IN  /\ Answers("set", 1)
      /\ ones' = [ones EXCEPT ![k] = {i \in 0..(Len(t) * bpb - 1) : (t[i \div bpb + 1] \div 2 ^ (bpb - 1 - (i % bpb))) % 2 = 1}]
      /\ bytes' = [bytes EXCEPT ![k] = Len(t)]

SetBit ==
  /\ Answers("setbit", IF arg[2] \in ones[k] THEN 1 ELSE 0)
  /\ BitBecomes(IF arg[3] = 1 THEN ones[k] \cup {arg[2]} ELSE ones[k] \ {arg[2]}, arg[2])

\* Fields of a set of ones.
Lowest(op) == IF op.sign THEN -(2 ^ (op.bits - 1)) ELSE 0
Highest(op) == Lowest(op) + 2 ^ op.bits - 1
Wrapped(op, v) == Lowest(op) + ((v - Lowest(op)) % 2 ^ op.bits)
FieldOf(set, op) ==
  Wrapped(op, FoldLeft(LAMBDA v, j : 2 * v + IF op.at + j - 1 \in set THEN 1 ELSE 0, 0, [j \in 1..op.bits |-> j]))
With(set, op, v) ==
  {i \in set : i < op.at \/ i >= op.at + op.bits}
    \cup {op.at + j : j \in {x \in 0..(op.bits - 1) : ((v % 2 ^ op.bits) \div 2 ^ (op.bits - 1 - x)) % 2 = 1}}

\* [set |-> what an operation leaves, res |-> its replies]
Operate(a, op) ==
  LET old == FieldOf(a.set, op)
      exact == IF op.op = "incrby" THEN old + op.arg ELSE op.arg
      fits == Lowest(op) <= exact /\ exact <= Highest(op)
      \* A SET of a negative value in an unsigned field counts as too large.
      low == exact < Lowest(op) /\ (op.sign \/ op.op = "incrby")
      new == IF fits THEN exact ELSE IF op.ow = "wrap" THEN Wrapped(op, exact)
             ELSE IF low THEN Lowest(op) ELSE Highest(op)
  IN  IF op.op = "get" THEN [a EXCEPT !.res = Append(@, <<old>>)]
      ELSE IF ~fits /\ op.ow = "fail" THEN [a EXCEPT !.res = Append(@, <<>>)]
      ELSE [set |-> With(a.set, op, new), res |-> Append(a.res, <<IF op.op = "incrby" THEN new ELSE old>>)]

BitField ==
  LET a == FoldLeft(Operate, [set |-> ones[k], res |-> <<>>], arg[2])
      writes == {op \in Range(arg[2]) : op.op # "get"}
  IN  /\ Answers("bitfield", a.res)
      /\ IF writes = {} THEN UNCHANGED <<ones, bytes>>
         ELSE BitBecomes(a.set, Max({op.at + op.bits - 1 : op \in writes}))

BitOp ==
  LET of == [j \in DOMAIN arg[3] |-> ones[arg[3][j]]]
      long == Max({Positive(bytes[arg[3][j]]) : j \in DOMAIN arg[3]})
      result == CASE arg[2] = "and" -> {i \in of[1] : \A j \in DOMAIN of : i \in of[j]}
                  [] arg[2] = "or" -> UNION Range(of)
                  [] arg[2] = "xor" -> {i \in UNION Range(of) : Cardinality({j \in DOMAIN of : i \in of[j]}) % 2 = 1}
                  [] arg[2] = "not" -> (0..(long * bpb - 1)) \ of[1]
  IN  /\ Answers("bitop", long)
      /\ ones' = [ones EXCEPT ![k] = result]
      /\ bytes' = [bytes EXCEPT ![k] = IF long = 0 THEN -1 ELSE long]

BitInit == (\A x \in DOMAIN ones : ones[x] = {})
BitNext ==
  CASE last'.op = "set" -> BitSet
    [] last'.op = "setbit" -> SetBit
    [] last'.op = "bitfield" -> BitField
    [] last'.op = "bitop" -> BitOp
    [] OTHER -> FALSE

-----------------------------------------------------------------------------
\* Hashes: a map from fields to values.
\* Where a field is named two times the later value stays.
HSet ==
  LET named == {p[1] : p \in Range(arg)}
      lastOf(f) == arg[Max({p \in DOMAIN arg : arg[p][1] = f})][2]
  IN  /\ Answers("hset", Cardinality(named \ DOMAIN map))
      /\ map' = [f \in named |-> lastOf(f)] @@ map

HSetNX ==
  /\ Answers("hsetnx", IF arg[1] \in DOMAIN map THEN 0 ELSE 1)
  /\ map' = map @@ (arg[1] :> arg[2])

\* The exact sum, or an error and no change.
HIncr(op) ==
  LET old == IF arg[1] \in DOMAIN map THEN {v \in lowest..highest : Digits(v) = map[arg[1]]} ELSE {0}
      sum == {v + arg[2] : v \in old} \cap (lowest..highest)
  IN  IF sum = {} THEN Answers(op, 100) /\ UNCHANGED map
      ELSE \E v \in sum : Answers(op, v) /\ map' = (arg[1] :> Digits(v)) @@ map

HDel ==
  /\ Answers("hdel", Cardinality(DOMAIN map \cap Range(arg)))
  /\ map' = [f \in DOMAIN map \ Range(arg) |-> map[f]]

HashNext ==
  CASE last'.op = "hset" -> HSet
    [] last'.op = "hsetnx" -> HSetNX
    [] last'.op \in {"hincrby", "hincrbyfloat"} -> HIncr(last'.op)
    [] last'.op = "hdel" -> HDel
    [] OTHER -> FALSE

-----------------------------------------------------------------------------
\* Sets: a set of elements for each key, empty if there is no such key.
SetsBecomes(m) == sets' = [sets EXCEPT ![k] = m]

Result(op, ks) ==
  LET of == [j \in DOMAIN ks |-> sets[ks[j]]]
  IN  CASE op = "union" -> UNION Range(of)
        [] op = "inter" -> {e \in of[1] : \A j \in DOMAIN of : e \in of[j]}
        [] op = "diff" -> of[1] \ UNION Range(Tail(of))

SAdd == Answers("sadd", Cardinality(Range(arg[2]) \ sets[k])) /\ SetsBecomes(sets[k] \cup Range(arg[2]))
SRem == Answers("srem", Cardinality(Range(arg[2]) \cap sets[k])) /\ SetsBecomes(sets[k] \ Range(arg[2]))
SMove ==
  IF arg[3] \notin sets[k] THEN Answers("smove", 0) /\ UNCHANGED sets
  ELSE /\ Answers("smove", 1)
       /\ sets' = [[sets EXCEPT ![k] = @ \ {arg[3]}] EXCEPT ![arg[2]] = @ \cup {arg[3]}]
Drawn == /\ last'.res \subseteq sets[k]
         /\ Cardinality(last'.res) = Min({arg[2], Cardinality(sets[k])})
SPop == last'.op = "spop" /\ Drawn /\ SetsBecomes(sets[k] \ last'.res)
SStore ==
  /\ Answers("store", Cardinality(Result(arg[1], arg[3])))
  /\ sets' = [sets EXCEPT ![arg[2]] = Result(arg[1], arg[3])]

SetsInit == (\A x \in DOMAIN sets : sets[x] = {})
SetsNext ==
  CASE last'.op = "sadd" -> SAdd
    [] last'.op = "srem" -> SRem
    [] last'.op = "smove" -> SMove
    [] last'.op = "spop" -> SPop
    [] last'.op = "store" -> SStore
    [] OTHER -> FALSE

-----------------------------------------------------------------------------
\* HyperLogLogs: registers for each key, <<>> if there is no such key, that
\* only grow.  PFCOUNT is a function of the number of zero registers and of
\* the sum of 2^-register.
Of(x) == IF registers[x] = <<>> THEN [i \in 1..many |-> 0] ELSE registers[x]
Count(r) ==
  <<Cardinality({i \in 1..many : r[i] = 0}),
    FoldLeft(LAMBDA n, i : n + 2 ^ (unit - r[i]), 0, [i \in 1..many |-> i])>>

PfAdd ==
  LET new == [i \in 1..many |-> Max({Of(k)[i]} \cup {e[2] : e \in {x \in Range(arg[2]) : x[1] = i - 1}})]
  IN  /\ Answers("pfadd", IF registers[k] = <<>> \/ new # Of(k) THEN 1 ELSE 0)
      /\ registers' = [registers EXCEPT ![k] = new]
PfCount == Answers("pfcount", Count(Of(k))) /\ UNCHANGED registers
PfMerge ==
  /\ Answers("pfmerge", 1)
  /\ registers' = [registers EXCEPT ![k] = [i \in 1..many |-> Max({Of(arg[j])[i] : j \in DOMAIN arg})]]

HllInit == (\A x \in DOMAIN registers : registers[x] = <<>>)
HllNext ==
  CASE last'.op = "pfadd" -> PfAdd
    [] last'.op = "pfcount" -> PfCount
    [] last'.op = "pfmerge" -> PfMerge
    [] last'.op = "pfdebug" -> UNCHANGED registers
    [] OTHER -> FALSE

-----------------------------------------------------------------------------
Init == last.op = "none" /\ MapInit /\ StrInit /\ BitInit /\ SetsInit /\ HllInit
Next ==
  CASE type = "strings" -> StrNext
    [] type = "bits" -> BitNext
    [] type = "hash" -> HashNext
    [] type = "sets" -> SetsNext
    [] type = "hll" -> HllNext
    [] type = "rax" -> MapNext
Spec == Init /\ [][Next]_<<last.op, last.arg, last.res, map, texts, ttl, ones, bytes, sets, registers>>
=============================================================================
