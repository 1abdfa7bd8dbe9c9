-------------------------------- MODULE Bits --------------------------------
(***************************************************************************)
(* bitops.c: bits and integers of any width within strings.  A byte has    *)
(* conf.bpb bits and a 64-bit word conf.word; conf.chunk is the number of  *)
(* bytes BITOP takes at a time in its fast path, for up to conf.fastkeys   *)
(* keys, conf.long the bytes of an unsigned long, conf.buf the size of     *)
(* the buffer that BITFIELD GET reads from.  Shifting a word by its whole  *)
(* width is undefined in C: conf.full says whether the machine leaves the  *)
(* word as it is, which x86 and ARM do, or yields zero.                    *)
(***************************************************************************)
EXTENDS Strings

Word == 2 ^ conf.word
Signed(u) == IF u >= Word \div 2 THEN u - Word ELSE u
\* ((uint64_t)-1) << bits
Mask(bits) == IF bits < conf.word THEN Word - 2 ^ bits ELSE IF conf.full THEN Word - 1 ELSE 0
\* u | Mask(bits) and u & ~Mask(bits)
OrMask(u, bits) == IF bits < conf.word THEN Mask(bits) + (u % 2 ^ bits) ELSE IF conf.full THEN Word - 1 ELSE u
AndNotMask(u, bits) == IF bits < conf.word THEN u % 2 ^ bits ELSE IF conf.full THEN 0 ELSE u

Bit(text, i) == (text[i \div conf.bpb + 1] \div 2 ^ (conf.bpb - 1 - (i % conf.bpb))) % 2
WithBit(text, i, v) == [text EXCEPT ![i \div conf.bpb + 1] = @ + (v - Bit(text, i)) * 2 ^ (conf.bpb - 1 - (i % conf.bpb))]
\* The positions of n bits from an offset.
Upto(n) == [j \in 1..n |-> j - 1]

-----------------------------------------------------------------------------
(* Integers within a string *)

setUnsignedBitfield(text, offset, bits, value) ==
  FoldLeft(LAMBDA t, j : WithBit(t, offset + j, (value \div 2 ^ (bits - 1 - j)) % 2), text, Upto(bits))
setSignedBitfield(text, offset, bits, value) == setUnsignedBitfield(text, offset, bits, value % Word)
getUnsignedBitfield(text, offset, bits) ==
  FoldLeft(LAMBDA v, j : (2 * v + Bit(text, offset + j)) % Word, 0, Upto(bits))
getSignedBitfield(text, offset, bits) ==
  LET u == getUnsignedBitfield(text, offset, bits)
  IN  Signed(IF (u \div 2 ^ (bits - 1)) % 2 = 1 THEN OrMask(u, bits) ELSE u)

\* 0 if value + incr fits, otherwise 1 or -1, and what is stored instead.
NoOverflow == [over |-> 0, limit |-> 0]
checkUnsignedBitfieldOverflow(value, incr, bits, owtype) ==
  LET max == IF bits = conf.word THEN Word - 1 ELSE 2 ^ bits - 1
      maxincr == Signed((max - value) % Word)
      minincr == Signed((-value) % Word)
      wrapped == [over |-> 1, limit |-> AndNotMask((value + incr) % Word, bits)]
  IN  IF value > max \/ (incr > 0 /\ incr > maxincr)
      THEN IF owtype = "wrap" THEN wrapped ELSE [over |-> 1, limit |-> max]
      ELSE IF incr < 0 /\ incr < minincr
      THEN IF owtype = "wrap" THEN wrapped ELSE [over |-> -1, limit |-> 0]
      ELSE NoOverflow

checkSignedBitfieldOverflow(value, incr, bits, owtype) ==
  LET max == 2 ^ (bits - 1) - 1
      min == -max - 1
      maxincr == Signed((max - value) % Word)
      minincr == Signed((min - value) % Word)
      sum == (value + incr) % Word
      wrapped == [over |-> 1, limit |-> Signed(IF (sum \div 2 ^ (bits - 1)) % 2 = 1 THEN OrMask(sum, bits)
                                               ELSE AndNotMask(sum, bits))]
  IN  IF \/ value > max
         \/ bits # conf.word /\ incr > maxincr
         \/ value >= 0 /\ incr > 0 /\ incr > maxincr
      THEN IF owtype = "wrap" THEN wrapped ELSE [over |-> 1, limit |-> max]
      ELSE IF \/ value < min
              \/ bits # conf.word /\ incr < minincr
              \/ value < 0 /\ incr < 0 /\ incr < minincr
      THEN IF owtype = "wrap" THEN wrapped ELSE [over |-> -1, limit |-> min]
      ELSE NoOverflow

-----------------------------------------------------------------------------
(* The commands *)

ZeroBytes(n) == FoldLeft(LAMBDA t, j : Append(t, 0), <<>>, Upto(n))
Grown(text, n) == IF Len(text) >= n THEN text ELSE text \o ZeroBytes(n - Len(text))

\* <<the memory, the object to write to, with room for maxbit>>
lookupStringForBitCommand(m, k, maxbit) ==
  LET n == maxbit \div conf.bpb + 1
      u == IF Absent(m, k) THEN <<dbAdd(New(m, createRawStringObject(ZeroBytes(n))), k, Fresh(m)), Fresh(m)>>
           ELSE dbUnshareStringValue(m, k)
  IN  <<[u[1] EXCEPT !.heap[u[2]] = Resized(@, Grown(@.text, n))], u[2]>>

\* The bytes of a value in any encoding.
getObjectReadOnlyString(m, k) == IF Absent(m, k) THEN <<>> ELSE m.heap[m.db[k]].text

SetBitOf(u, i, on) ==
  Reply([u[1] EXCEPT !.heap[u[2]].text = WithBit(@, i, on)], Bit(u[1].heap[u[2]].text, i))
setbit(m, k, i, on) == SetBitOf(lookupStringForBitCommand(m, k, i), i, on)

getbit(m, k, i) ==
  LET text == getObjectReadOnlyString(m, k) IN IF i \div conf.bpb < Len(text) THEN Bit(text, i) ELSE 0

\* One operation on the text it is applied to: [text, replies].
Overflow(op, old) ==
  LET value == IF op.op = "incrby" THEN old ELSE IF op.sign THEN op.arg ELSE op.arg % Word
      incr == IF op.op = "incrby" THEN op.arg ELSE 0
  IN  IF op.sign THEN checkSignedBitfieldOverflow(value, incr, op.bits, op.ow)
      ELSE checkUnsignedBitfieldOverflow(value, incr, op.bits, op.ow)
WriteField(a, op) ==
  LET old == IF op.sign THEN getSignedBitfield(a.text, op.at, op.bits) ELSE getUnsignedBitfield(a.text, op.at, op.bits)
      o == Overflow(op, old)
      new == IF o.over # 0 THEN o.limit ELSE IF op.op = "incrby" THEN old + op.arg ELSE op.arg
      res == IF op.op = "incrby" THEN new ELSE old
  IN  IF o.over # 0 /\ op.ow = "fail" THEN [a EXCEPT !.replies = Append(@, <<>>)]
      ELSE [text |-> IF op.sign THEN setSignedBitfield(a.text, op.at, op.bits, new)
                     ELSE setUnsignedBitfield(a.text, op.at, op.bits, new),
            replies |-> Append(a.replies, <<res>>)]
\* Reads are from a copy that zeros follow.
ReadField(text, op) ==
  LET byte == op.at \div conf.bpb
      buf == [p \in 1..conf.buf |-> IF p + byte <= Len(text) THEN text[p + byte] ELSE 0]
      at == op.at - byte * conf.bpb
  IN  IF op.sign THEN getSignedBitfield(buf, at, op.bits) ELSE getUnsignedBitfield(buf, at, op.bits)

Operate(text, ops) ==
  FoldLeft(LAMBDA a, op : IF op.op = "get" THEN [a EXCEPT !.replies = Append(@, <<ReadField(a.text, op)>>)]
                          ELSE WriteField(a, op), [text |-> text, replies |-> <<>>], ops)
Highest(ops) == Max({op.at + op.bits - 1 : op \in {o \in Range(ops) : o.op # "get"}})

FieldsOf(u, ops) ==
  LET a == Operate(u[1].heap[u[2]].text, ops) IN Reply([u[1] EXCEPT !.heap[u[2]].text = a.text], a.replies)
bitfield(m, k, ops) ==
  IF \A op \in Range(ops) : op.op = "get" THEN Reply(m, Operate(getObjectReadOnlyString(m, k), ops).replies)
  ELSE FieldsOf(lookupStringForBitCommand(m, k, Highest(ops)), ops)

\* The bit operation on bytes, bit by bit.
OnBits(op, a, b) ==
  CASE op = "and" -> a * b [] op = "or" -> a + b - a * b [] op = "xor" -> (a + b) % 2
OnBytes(op, a, b) ==
  FoldLeft(LAMBDA v, j : 2 * v + OnBits(op, (a \div 2 ^ (conf.bpb - 1 - j)) % 2, (b \div 2 ^ (conf.bpb - 1 - j)) % 2),
           0, Upto(conf.bpb))
Complement(a) == 2 ^ conf.bpb - 1 - a

SlowByte(op, src, j) ==
  LET At(i) == IF Len(src[i]) < j THEN 0 ELSE src[i][j]
  IN  IF op = "not" THEN Complement(At(1))
      ELSE FoldLeft(LAMBDA v, i : OnBytes(op, v, At(i)), At(1), [i \in 1..(Len(src) - 1) |-> i + 1])
FastByte(op, src, j) ==
  IF op = "not" THEN Complement(src[1][j])
  ELSE FoldLeft(LAMBDA v, t : OnBytes(op, v, t[j]), src[1][j], Tail(src))
bitopText(op, src) ==
  LET lens == {Len(src[i]) : i \in DOMAIN src}
      minlen == Min(lens)
      fast == IF minlen >= conf.chunk /\ Len(src) <= conf.fastkeys THEN (minlen \div conf.chunk) * conf.chunk ELSE 0
  IN  [j \in 1..Max(lens) |-> IF j <= fast THEN FastByte(op, src, j) ELSE SlowByte(op, src, j)]

\* The new object replaces what the key holds and its time to live.
StoreText(m, k, text) == decrRefCount(setKey(New(m, createRawStringObject(text)), k, Fresh(m)), Fresh(m))
bitop(m, op, dst, ks) ==
  LET text == bitopText(op, [i \in DOMAIN ks |-> getObjectReadOnlyString(m, ks[i])])
  IN  Reply(IF text = <<>> THEN dbDelete(m, dst) ELSE StoreText(m, dst, text), Len(text))

-----------------------------------------------------------------------------
(* Counting and searching *)

redisPopcount(bytes) ==
  FoldLeft(LAMBDA n, b : n + FoldLeft(LAMBDA x, j : x + ((b \div 2 ^ j) % 2), 0, Upto(conf.bpb)), 0, bytes)

\* How many of the n items from the first satisfy T, before one that does not.
Leading(n, T(_)) == Max({i \in 0..n : \A j \in 1..i : T(j)})
\* Mutant: no zeros are taken to follow the last byte
MutantBitpos(bytes, bit, align) ==
  LET found == {i \in 0..(Len(bytes) * conf.bpb - 1) : Bit(bytes, i) = bit} IN IF found = {} THEN -1 ELSE Min(found)

\* Byte by byte up to an aligned address, align bytes away; then by words;
\* the word found is scanned with zeros after the last byte.
redisBitpos(bytes, bit, align) ==
  LET skip == IF bit = 1 THEN 0 ELSE 2 ^ conf.bpb - 1
      unaligned == Min({align, Len(bytes)})
      head == Leading(unaligned, LAMBDA j : bytes[j] = skip)
      words == IF head < unaligned THEN 0
               ELSE Leading((Len(bytes) - head) \div conf.long,
                            LAMBDA w : \A j \in 1..conf.long : bytes[head + (w - 1) * conf.long + j] = skip)
      from == head + words * conf.long
      word == [j \in 1..conf.long |-> IF from + j <= Len(bytes) THEN bytes[from + j] ELSE 0]
      found == {i \in 0..(conf.long * conf.bpb - 1) : Bit(word, i) = bit}
  IN  IF bit = 1 /\ found = {} THEN -1 ELSE from * conf.bpb + Min(found)

Clamped(i, len) == IF i >= 0 THEN i ELSE IF len + i < 0 THEN 0 ELSE len + i
EndOf(end, len) == Min({Clamped(end, len), len - 1})

bitcount(m, k, start, end) ==
  LET text == getObjectReadOnlyString(m, k)
      len == Len(text)
  IN  IF (start < 0 /\ end < 0 /\ start > end) \/ Clamped(start, len) > EndOf(end, len) THEN 0
      ELSE redisPopcount(SubSeq(text, Clamped(start, len) + 1, EndOf(end, len) + 1))

\* range is <<>>, <<start>> or <<start, end>>.
bitpos(m, k, bit, range, align) ==
  LET text == getObjectReadOnlyString(m, k)
      len == Len(text)
      start == IF range = <<>> THEN 0 ELSE Clamped(range[1], len)
      end == IF Len(range) < 2 THEN len - 1 ELSE EndOf(range[2], len)
      pos == redisBitpos(SubSeq(text, start + 1, end + 1), bit, align)
  IN  IF Absent(m, k) THEN IF bit = 1 THEN -1 ELSE 0
      ELSE IF start > end THEN -1
      ELSE IF Len(range) = 2 /\ bit = 0 /\ pos = (end - start + 1) * conf.bpb THEN -1
      ELSE IF pos = -1 THEN -1 ELSE pos + start * conf.bpb

-----------------------------------------------------------------------------
IsBits == kind = "bits"
BitsCall(op, arg, r) == IsBits /\ Call(op, arg, r.m, r.res)
SetInput(k, t) ==
  BitsCall("set", <<k, t>>, LET r == set(Argument(s, "client", 2, t), k, {}) IN
                            Reply(Released(r.m, "client", <<<<2, t>>>>), 1))
SetBit(k, i, on) == BitsCall("setbit", <<k, i, on>>, setbit(s, k, i, on))
BitField(k, ops) == BitsCall("bitfield", <<k, ops>>, bitfield(s, k, ops))
BitOp(op, dst, ks) ==
  /\ op = "not" => Len(ks) = 1
  /\ BitsCall("bitop", <<dst, op, ks>>, bitop(s, op, dst, ks))

BitsNext ==
  IsBits /\ \E k \in conf.keys :
    \/ \E t \in conf.texts : SetInput(k, t)
    \/ \E i \in conf.at, on \in 0..1 : SetBit(k, i, on)
    \/ \E ops \in conf.ops : BitField(k, ops)
    \/ k \in conf.dsts /\ \E op \in conf.bitops, ks \in conf.srcs : BitOp(op, k, ks)

-----------------------------------------------------------------------------
BitRanges == {<<>>} \cup {<<i>> : i \in -3..2} \cup {<<i, j>> : i \in -3..2, j \in -3..2}

\* The bytes of a range, from 0.
BytesOf(len, r) ==
  LET a == IF r = <<>> THEN 0 ELSE r[1]
      b == IF Len(r) < 2 THEN -1 ELSE r[2]
      Abs(i) == IF i >= 0 THEN i ELSE Max({0, len + i})
  IN  {i \in 0..(len - 1) : Abs(a) <= i /\ i <= Abs(b)}
ReadsAgree(k, len, r, bytes, ones, zeros) ==
  /\ Len(r) = 2 /\ ~(r[1] < 0 /\ r[2] < 0 /\ r[1] > r[2]) => bitcount(s, k, r[1], r[2]) = Cardinality(ones)
  /\ \A align \in 0..(conf.long - 1) :
       /\ bitpos(s, k, 1, r, align) = IF ones = {} THEN -1 ELSE Min(ones)
       /\ bitpos(s, k, 0, r, align) =
            IF zeros # {} THEN Min(zeros)
            ELSE IF ~Absent(s, k) /\ (bytes = {} \/ Len(r) = 2) THEN -1 ELSE len * conf.bpb
\* BITCOUNT and BITPOS answer for a range of bytes what the single bits say,
\* wherever the string is in memory: BITPOS finds the first bit, the first
\* zero past the end only if no end was given, and -1 if there is none.
BitReads ==
  IsBits => \A k \in conf.keys : \A len \in {Len(getObjectReadOnlyString(s, k))} :
    \A on \in {{i \in 0..(len * conf.bpb - 1) : getbit(s, k, i) = 1}}, r \in BitRanges :
      \A bytes \in {BytesOf(len, r)} : \A ones \in {{i \in on : i \div conf.bpb \in bytes}},
         zeros \in {{i \in 0..(len * conf.bpb - 1) : i \div conf.bpb \in bytes /\ i \notin on}} :
        ReadsAgree(k, len, r, bytes, ones, zeros)
=============================================================================
