-------------------------------- MODULE Rdb ---------------------------------
(***************************************************************************)
(* The RDB file (rdb.c): its encodings, what is saved and how it is        *)
(* loaded, SAVE, BGSAVE and the other moments at which the file is         *)
(* written, and the count of changes that are not in the file.             *)
(*                                                                         *)
(* The file is a sequence of bytes.  Opcodes are as in rdb.h; a byte of a  *)
(* length or of an integer has 4 bits instead of 8, so that every width is *)
(* met by short values.  A text is a sequence of characters: 0 to 9 are    *)
(* digits, Minus is itself, others are letters.  An object is a record     *)
(* [type, enc, v], where v is a text, a sequence of ziplists (a list), a   *)
(* set of texts, or a sequence of pairs (sorted sets and hashes); an item  *)
(* of the dataset is an object with its time to expire, ex, None if it has *)
(* none.                                                                   *)
(*                                                                         *)
(* s.file is the file in its place, s.snap the dataset that was saved in   *)
(* it; s.child is the state of the child that saves, s.forked the dataset  *)
(* as it was when the child was made.                                      *)
(***************************************************************************)
EXTENDS Structure, SequencesExt

IsRdb == kind = "rdb"

None == -1
NoKey == [type |-> "none"]
NoFile == <<>>

B == 16       \* values of a byte, 2^8 in the code
Q == 4        \* 2^6 in the code: the two upper bits of a byte are a type
RDB_6BITLEN == 0
RDB_14BITLEN == 1
RDB_32BITLEN == 2 * Q
RDB_64BITLEN == 2 * Q + 1
RDB_ENCVAL == 3
RDB_ENC_INT8 == 0
RDB_ENC_INT16 == 1
RDB_ENC_INT32 == 2
RDB_ENC_LZF == 3
INT32LEN == 3  \* bytes of a 32 bit integer
MaxIntLen == 5 \* 11 in the code: the length of the longest such integer
MinLzfLen == 20
MIN_COMPRESS_BYTES == 48
MIN_COMPRESS_IMPROVE == 8

Encval(enc) == RDB_ENCVAL * Q + enc
BigEndian(n, k) == [i \in 1..k |-> (n \div B^(k - i)) % B]
FromBig(bytes) == FoldLeft(LAMBDA n, x : n * B + x, 0, bytes)

-----------------------------------------------------------------------------
(* Writing *)

rdbSaveLen(len) ==
  IF len < Q THEN <<RDB_6BITLEN * Q + len>>
  ELSE IF len < Q * B THEN <<RDB_14BITLEN * Q + len \div B, len % B>>
  ELSE IF len < B^2 THEN <<RDB_32BITLEN>> \o BigEndian(len, 2)
  ELSE <<RDB_64BITLEN>> \o BigEndian(len, 4)

\* v fits in k bytes; its bytes, the least significant first.
Fits(v, k) == v \in -(B^k \div 2)..(B^k \div 2 - 1)
LittleEndian(v, k) == [i \in 1..k |-> (v \div B^(i - 1)) % B]

rdbEncodeInteger(v) ==
  IF Fits(v, 1) THEN <<Encval(RDB_ENC_INT8)>> \o LittleEndian(v, 1)
  ELSE IF Fits(v, 2) THEN <<Encval(RDB_ENC_INT16)>> \o LittleEndian(v, 2)
  ELSE IF Fits(v, INT32LEN) THEN <<Encval(RDB_ENC_INT32)>> \o LittleEndian(v, INT32LEN)
  ELSE <<>>

Minus == 10
RECURSIVE Decimal(_)
Decimal(n) == IF n < 10 THEN <<n>> ELSE Append(Decimal(n \div 10), n % 10)
ll2string(v) == IF v < 0 THEN <<Minus>> \o Decimal(-v) ELSE Decimal(v)
\* The integer that a text of digits, perhaps with a sign, stands for; 0 if it is no such text.
strtoll(t) ==
  LET signed == t # <<>> /\ t[1] = Minus
      d == IF signed THEN Tail(t) ELSE t
      n == IF ToSet(d) \subseteq 0..9 THEN FoldLeft(LAMBDA k, x : k * 10 + x, 0, d) ELSE 0
  IN  IF signed THEN -n ELSE n
IsInteger(t) == ll2string(strtoll(t)) = t

rdbTryIntegerEncoding(t) == IF IsInteger(t) THEN rdbEncodeInteger(strtoll(t)) ELSE <<>>

-----------------------------------------------------------------------------
(* lzf: runs of literals and references to what came before.  The state of *)
(* the compressor is the place ip of the next byte, the output, the        *)
(* literals of the run that is open, and the places that are in the hash   *)
(* table; that a slot is shared by other bytes, or was never written, is   *)
(* left out: it changes which of several references is taken.              *)

MAX_LIT == 32
MAX_OFF == 8192
MAX_REF == 264

LitRun(lit) == IF lit = <<>> THEN <<>> ELSE <<Len(lit) - 1>> \o lit
Literal(z, x) ==
  LET lit == Append(z.lit, x)
  IN  IF Len(lit) < MAX_LIT THEN [z EXCEPT !.ip = @ + 1, !.lit = lit]
      ELSE [z EXCEPT !.ip = @ + 1, !.out = @ \o LitRun(lit), !.lit = <<>>]

\* Earlier places with the same three bytes; the first byte is never one.
References(t, z) ==
  {i \in z.seen : i > 1 /\ z.ip - i - 1 < MAX_OFF /\ SubSeq(t, i, i + 2) = SubSeq(t, z.ip, z.ip + 2)}

\* How many bytes agree.  The end is looked at from the third byte on, or only
\* after sixteen more where it is far away.
Octets(t, ip, ref) ==
  LET most == Min({Len(t) - ip - 1, MAX_REF})
      least == IF most > 16 THEN 19 ELSE 3
  IN  Min({n \in 3..Max({least, most}) : n >= Max({least, most}) \/ t[ref + n] # t[ip + n]})

Backref(off, len) ==
  IF len < 7 THEN <<off \div 256 + 32 * len, off % 256>> ELSE <<off \div 256 + 32 * 7, len - 7, off % 256>>

\* Of the bytes the reference stands for the last two are put in the table.
Matched(t, z, ref) ==
  LET n == Octets(t, z.ip, ref)
      end == z.ip + n
  IN  [ip |-> end, out |-> z.out \o LitRun(z.lit) \o Backref(z.ip - ref - 1, n - 2), lit |-> <<>>,
       seen |-> z.seen \cup {z.ip} \cup {i \in {end - 2, end - 1} : end <= Len(t) - 2}]

RECURSIVE LzfFrom(_, _, _)
LzfFrom(t, outlen, z) ==
  LET refs == References(t, z)
      op == Len(z.out) + 1 + Len(z.lit)
      rest == FoldLeft(Literal, z, SubSeq(t, z.ip, Len(t)))
  IN  IF z.ip > Len(t) - 2
      THEN IF op + 3 > outlen THEN <<>> ELSE rest.out \o LitRun(rest.lit)
      ELSE IF refs = {}
      THEN IF op >= outlen THEN <<>> ELSE LzfFrom(t, outlen, [Literal(z, t[z.ip]) EXCEPT !.seen = @ \cup {z.ip}])
      ELSE IF Len(z.out \o LitRun(z.lit)) + 4 >= outlen THEN <<>> ELSE LzfFrom(t, outlen, Matched(t, z, Max(refs)))

\* <<>> if the text cannot be written in outlen bytes.
lzf_compress(t, outlen) ==
  IF t = <<>> \/ outlen = 0 THEN <<>> ELSE LzfFrom(t, outlen, [ip |-> 1, out |-> <<>>, lit |-> <<>>, seen |-> {}])

\* The bytes of a reference may be among those it adds.
Copied(out, ref, n) == out \o [i \in 1..n |-> out[ref + ((i - 1) % (Len(out) + 1 - ref))]]

RECURSIVE UnlzfFrom(_, _, _, _)
UnlzfFrom(c, outlen, p, out) ==
  LET ctrl == c[p]
      long == ctrl \div 32 = 7
      at == IF long THEN p + 2 ELSE p + 1
      n == ctrl \div 32 + 2 + (IF long THEN c[p + 1] ELSE 0)
      ref == Len(out) - 256 * (ctrl % 32) - c[at]
  IN  IF p > Len(c) THEN out
      ELSE IF ctrl < 32
      THEN IF Len(out) + ctrl + 1 > outlen \/ p + ctrl + 1 > Len(c) THEN <<>>
           ELSE UnlzfFrom(c, outlen, p + ctrl + 2, out \o SubSeq(c, p + 1, p + ctrl + 1))
      ELSE IF at > Len(c) \/ Len(out) + n > outlen \/ ref < 1 THEN <<>>
      ELSE UnlzfFrom(c, outlen, at + 1, Copied(out, ref, n))
lzf_decompress(c, outlen) == UnlzfFrom(c, outlen, 1, <<>>)

-----------------------------------------------------------------------------
rdbSaveLzfBlob(c, len) == <<Encval(RDB_ENC_LZF)>> \o rdbSaveLen(Len(c)) \o rdbSaveLen(len) \o c
LzfOrNot(c, len) == IF c = <<>> THEN <<>> ELSE rdbSaveLzfBlob(c, len)
rdbSaveLzfStringObject(t) == IF Len(t) <= 4 THEN <<>> ELSE LzfOrNot(lzf_compress(t, Len(t) - 4), Len(t))

\* What is written, if that can be, and what is written otherwise.
OrElse(bytes, other) == IF bytes # <<>> THEN bytes ELSE other
rdbSaveRawString(t) ==
  OrElse(IF Len(t) <= MaxIntLen THEN rdbTryIntegerEncoding(t) ELSE <<>>,
         OrElse(IF conf.compression /\ Len(t) > MinLzfLen THEN rdbSaveLzfStringObject(t) ELSE <<>>, rdbSaveLen(Len(t)) \o t))

rdbSaveLongLongAsStringObject(v) == OrElse(rdbEncodeInteger(v), rdbSaveLen(Len(ll2string(v))) \o ll2string(v))

rdbSaveStringObject(o) ==
  IF o.enc = "int" THEN rdbSaveLongLongAsStringObject(strtoll(o.v)) ELSE rdbSaveRawString(o.v)

-----------------------------------------------------------------------------
(* Objects *)

\* The memory of a ziplist and of an intset: a header, then every entry with its length.
Concat(seqs) == FoldLeft(LAMBDA out, t : out \o t, <<>>, seqs)
Blob(texts) == <<200>> \o Concat([i \in DOMAIN texts |-> <<Len(texts[i])>> \o texts[i]])
RECURSIVE Entries(_)
Entries(blob) ==
  IF blob = <<>> THEN <<>>
  ELSE <<SubSeq(blob, 2, blob[1] + 1)>> \o Entries(SubSeq(blob, blob[1] + 2, Len(blob)))
Unblob(blob) == Entries(Tail(blob))
\* The score of an element is one character of the text of a ziplist.
Flat(pairs) == Concat([i \in DOMAIN pairs |-> <<pairs[i][1], pairs[i][2]>>])
Paired(texts) == [i \in 1..(Len(texts) \div 2) |-> <<texts[2 * i - 1], texts[2 * i]>>]

\* A node of a list that the depth of compression leaves compressed is saved as it is in memory.
Inner(list, i) == conf.depth > 0 /\ i > conf.depth /\ i <= Len(list) - conf.depth
__quicklistCompressNode(zl) ==
  LET c == lzf_compress(zl, Len(zl))
  IN  IF Len(zl) < MIN_COMPRESS_BYTES \/ Len(c) + MIN_COMPRESS_IMPROVE >= Len(zl) THEN <<>> ELSE c
SaveNode(zl, inner) ==
  OrElse(IF inner THEN LzfOrNot(__quicklistCompressNode(zl), Len(zl)) ELSE <<>>, rdbSaveRawString(zl))

rdbSaveBinaryDoubleValue(score) == score

RDB_TYPE == [string |-> 0, set |-> 2, hash |-> 4, zset |-> 5, intset |-> 11, zsetziplist |-> 12, hashziplist |-> 13, list |-> 14]
rdbSaveObjectType(o) ==
  CASE o.type \in {"string", "list"} -> <<RDB_TYPE[o.type]>>
    [] o.type = "set" -> <<IF o.enc = "intset" THEN RDB_TYPE["intset"] ELSE RDB_TYPE["set"]>>
    [] o.type = "zset" -> <<IF o.enc = "ziplist" THEN RDB_TYPE["zsetziplist"] ELSE RDB_TYPE["zset"]>>
    [] o.type = "hash" -> <<IF o.enc = "ziplist" THEN RDB_TYPE["hashziplist"] ELSE RDB_TYPE["hash"]>>

SaveList(o) == rdbSaveLen(Len(o.v)) \o Concat([i \in DOMAIN o.v |-> SaveNode(Blob(o.v[i]), Inner(o.v, i))])
SaveTexts(texts) == rdbSaveLen(Len(texts)) \o Concat([i \in DOMAIN texts |-> rdbSaveRawString(texts[i])])
SaveSet(o) ==
  IF o.enc = "intset" THEN rdbSaveRawString(Blob(SetToSeq(o.v))) ELSE SaveTexts(SetToSeq(o.v))
\* From the greatest to the smallest.
SaveScored(pair) == rdbSaveRawString(pair[1]) \o rdbSaveBinaryDoubleValue(pair[2])
SaveZset(o) ==
  IF o.enc = "ziplist" THEN rdbSaveRawString(Blob(Flat(o.v)))
  ELSE rdbSaveLen(Len(o.v)) \o
       Concat([i \in DOMAIN o.v |-> SaveScored(Reverse(o.v)[i])])
SaveHash(o) ==
  IF o.enc = "ziplist" THEN rdbSaveRawString(Blob(Flat(o.v)))
  ELSE rdbSaveLen(Len(o.v)) \o Concat([i \in DOMAIN Flat(o.v) |-> rdbSaveRawString(Flat(o.v)[i])])
rdbSaveObject(o) ==
  CASE o.type = "string" -> rdbSaveStringObject(o)
    [] o.type = "list" -> SaveList(o)
    [] o.type = "set" -> SaveSet(o)
    [] o.type = "zset" -> SaveZset(o)
    [] o.type = "hash" -> SaveHash(o)

RDB_VERSION == 8
RDB_OPCODE_AUX == 250
RDB_OPCODE_RESIZEDB == 251
RDB_OPCODE_EXPIRETIME_MS == 252
RDB_OPCODE_SELECTDB == 254
RDB_OPCODE_EOF == 255

\* A time is one unit of the file.
rdbSaveKeyValuePair(key, item) ==
  (IF item.ex # None THEN <<RDB_OPCODE_EXPIRETIME_MS, item.ex>> ELSE <<>>)
  \o rdbSaveObjectType(item) \o rdbSaveRawString(key) \o rdbSaveObject(item)

\* Names of fields, as texts
VERSION == <<21, 22>>
STREAMDB == <<23, 24>>
REPLID == <<25, 26>>
REPLOFFSET == <<27, 28>>
LUA == <<29>>
RunIdSize == 2

rdbSaveAuxField(key, val) == <<RDB_OPCODE_AUX>> \o rdbSaveRawString(key) \o rdbSaveRawString(val)
rdbSaveInfoAuxFields(rsi) ==
  rdbSaveAuxField(VERSION, <<4, 0>>)
  \o (IF rsi = <<>> THEN <<>>
      ELSE rdbSaveAuxField(STREAMDB, ll2string(rsi.db)) \o rdbSaveAuxField(REPLID, rsi.id)
           \o rdbSaveAuxField(REPLOFFSET, ll2string(rsi.offset)))

Keys(data, d) == {k \in DOMAIN data : k[1] = d /\ data[k] # NoKey}
SaveKeys(data, d, keys) ==
  IF keys = <<>> THEN <<>>
  ELSE <<RDB_OPCODE_SELECTDB>> \o rdbSaveLen(d)
       \o <<RDB_OPCODE_RESIZEDB>> \o rdbSaveLen(Len(keys)) \o rdbSaveLen(Cardinality({k \in Keys(data, d) : data[k].ex # None}))
       \o Concat([i \in DOMAIN keys |-> rdbSaveKeyValuePair(keys[i][2], data[keys[i]])])
SaveDb(data, d) == SaveKeys(data, d, SetToSeq(Keys(data, d)))

\* The checksum of what is before it, 0 where checksums are disabled; a small
\* one stands for the 64 bits and the table of the code.
crc64(bytes) ==
  LET crc[i \in 0..Len(bytes)] == IF i = 0 THEN 1 ELSE (3 * crc[i - 1] + bytes[i]) % 97 IN 1 + crc[Len(bytes)]

\* p is what there is to save: the dataset, the scripts, and the replication information, <<>> if there is none.
SaveScripts(scripts) == Concat([i \in DOMAIN scripts |-> rdbSaveAuxField(LUA, scripts[i])])
Sealed(bytes) == Append(bytes, IF conf.checksum THEN crc64(bytes) ELSE 0)
rdbSaveRio(p) ==
  Sealed(<<RDB_VERSION>> \o rdbSaveInfoAuxFields(p.rsi)
         \o Concat([d \in 1..conf.dbnum |-> SaveDb(p.data, d - 1)])
         \o (IF p.rsi = <<>> THEN <<>> ELSE SaveScripts(SetToSeq(p.scripts)))
         \o <<RDB_OPCODE_EOF>>)

-----------------------------------------------------------------------------
(* Reading: what is read from position p of the bytes b, and the position   *)
(* after it.  That position is 0 when the read is past the end or what is   *)
(* there is not known, and so for all that is read after it: the server     *)
(* exits.                                                                   *)

Got(v, p) == [v |-> v, p |-> p]
Short == Got(<<>>, 0)
\* v, unless the last read r failed.
Read(r, v) == IF r.p = 0 THEN Short ELSE Got(v, r.p)
rioRead(b, p, n) == IF p = 0 \/ p + n > Len(b) + 1 THEN Short ELSE Got(SubSeq(b, p, p + n - 1), p + n)

\* A length, or the code of an encoding; x is the first byte, y has the others.
LenMore(y, high) == Read(y, [enc |-> FALSE, n |-> high * B + FromBig(y.v)])
LenFrom(b, x) ==
  IF x.p = 0 THEN Short
  ELSE CASE x.v[1] \div Q = RDB_ENCVAL -> Read(x, [enc |-> TRUE, n |-> x.v[1] % Q])
         [] x.v[1] \div Q = RDB_6BITLEN -> Read(x, [enc |-> FALSE, n |-> x.v[1] % Q])
         [] x.v[1] \div Q = RDB_14BITLEN -> LenMore(rioRead(b, x.p, 1), x.v[1] % Q)
         [] x.v[1] = RDB_32BITLEN -> LenMore(rioRead(b, x.p, 2), 0)
         [] x.v[1] = RDB_64BITLEN -> LenMore(rioRead(b, x.p, 4), 0)
         [] OTHER -> Short
rdbLoadLenByRef(b, p) == LenFrom(b, rioRead(b, p, 1))
LenOnly(r) == Read(r, r.v.n)
rdbLoadLen(b, p) == LenOnly(rdbLoadLenByRef(b, p))

\* Mutant: the bytes are not taken as a signed number
MutantSigned(n, k) == n
Signed(n, k) == IF n >= B^k \div 2 THEN n - B^k ELSE n
IntegerIn(r, k) == Read(r, ll2string(Signed(FromBig(Reverse(r.v)), k)))
rdbLoadIntegerObject(b, p, enctype) ==
  CASE enctype = RDB_ENC_INT8 -> IntegerIn(rioRead(b, p, 1), 1)
    [] enctype = RDB_ENC_INT16 -> IntegerIn(rioRead(b, p, 2), 2)
    [] enctype = RDB_ENC_INT32 -> IntegerIn(rioRead(b, p, INT32LEN), INT32LEN)

LzfOut(c, t) == IF c.p = 0 \/ t = <<>> THEN Short ELSE Got(t, c.p)
LzfIn(c, len) == LzfOut(c, IF c.p = 0 THEN <<>> ELSE lzf_decompress(c.v, len))
LzfLens(b, clen, len) == LzfIn(rioRead(b, len.p, clen.v), len.v)
LzfLen(b, clen) == LzfLens(b, clen, rdbLoadLen(b, clen.p))
rdbLoadLzfStringObject(b, p) == LzfLen(b, rdbLoadLen(b, p))

StringFrom(b, r) ==
  IF r.p = 0 THEN Short
  ELSE IF ~r.v.enc THEN rioRead(b, r.p, r.v.n)
  ELSE IF r.v.n = RDB_ENC_LZF THEN rdbLoadLzfStringObject(b, r.p) ELSE rdbLoadIntegerObject(b, r.p, r.v.n)
rdbGenericLoadStringObject(b, p) == StringFrom(b, rdbLoadLenByRef(b, p))

\* n more strings, and n more pairs of a string and a score, after those of r.
Push(r, x) == Read(x, Append(r.v, x.v))
RECURSIVE LoadStrings(_, _, _)
LoadStrings(b, r, n) ==
  IF n = 0 \/ r.p = 0 THEN r ELSE LoadStrings(b, Push(r, rdbGenericLoadStringObject(b, r.p)), n - 1)
PushScored(r, t, score) == Read(score, Append(r.v, <<t.v, score.v>>))
Scored(b, r, t) == PushScored(r, t, rioRead(b, t.p, 1))
RECURSIVE LoadScored(_, _, _)
LoadScored(b, r, n) ==
  IF n = 0 \/ r.p = 0 THEN r ELSE LoadScored(b, Scored(b, r, rdbGenericLoadStringObject(b, r.p)), n - 1)
Strings(b, n, each) == IF n.p = 0 THEN n ELSE LoadStrings(b, Got(<<>>, n.p), each * n.v)
Scores(b, n) == IF n.p = 0 THEN n ELSE LoadScored(b, Got(<<>>, n.p), n.v)

\* zslInsert of every element.
Before(x, y) == x[2][1] < y[2][1]
Sorted(pairs) == SortSeq(pairs, Before)
Long(texts, limit) == \E t \in ToSet(texts) : Len(t) > limit
Obj(type, enc, v) == [type |-> type, enc |-> enc, v |-> v]

\* The object of a container, with the encoding the current limits give it: a blob that was saved
\* is only converted when it has too many entries.
SetObject(texts, blob) ==
  Obj("set", IF Len(texts) > s.limits.intset \/ (~blob /\ \E t \in ToSet(texts) : ~IsInteger(t)) THEN "ht" ELSE "intset",
      ToSet(texts))
ZsetObject(pairs, blob) ==
  Obj("zset", IF Len(pairs) > s.limits.entries \/ (~blob /\ Long([i \in DOMAIN pairs |-> pairs[i][1]], s.limits.value))
              THEN "skiplist" ELSE "ziplist", pairs)
HashObject(texts, blob) ==
  Obj("hash", IF Len(texts) \div 2 > s.limits.entries \/ (~blob /\ Long(texts, s.limits.value)) THEN "ht" ELSE "ziplist",
      Paired(texts))

Lists == {RDB_TYPE["list"], RDB_TYPE["set"], RDB_TYPE["hash"]}
\* The object, of what was read for it.
ObjectOf(type, r) ==
  IF r.p = 0 THEN r
  ELSE Read(r, CASE type = RDB_TYPE["string"] -> Obj("string", IF IsInteger(r.v) THEN "int" ELSE "raw", r.v)
                 [] type = RDB_TYPE["list"] -> Obj("list", "quicklist", [i \in DOMAIN r.v |-> Unblob(r.v[i])])
                 [] type = RDB_TYPE["set"] -> SetObject(r.v, FALSE)
                 [] type = RDB_TYPE["zset"] -> ZsetObject(Sorted(r.v), FALSE)
                 [] type = RDB_TYPE["hash"] -> HashObject(r.v, FALSE)
                 [] type = RDB_TYPE["intset"] -> SetObject(Unblob(r.v), TRUE)
                 [] type = RDB_TYPE["zsetziplist"] -> ZsetObject(Paired(Unblob(r.v)), TRUE)
                 [] type = RDB_TYPE["hashziplist"] -> HashObject(Unblob(r.v), TRUE))
rdbLoadObject(type, b, p) ==
  ObjectOf(type, CASE type \in Lists -> Strings(b, rdbLoadLen(b, p), IF type = RDB_TYPE["hash"] THEN 2 ELSE 1)
                   [] type = RDB_TYPE["zset"] -> Scores(b, rdbLoadLen(b, p))
                   [] OTHER -> IF type \in Range(RDB_TYPE) THEN rdbGenericLoadStringObject(b, p) ELSE Short)

\* p with a field that was read.
AuxField(p, key, val) ==
  CASE key = STREAMDB -> [p EXCEPT !.rsi.db = strtoll(val)]
    [] key = REPLID /\ Len(val) = RunIdSize -> [p EXCEPT !.rsi.id = val]
    [] key = REPLOFFSET -> [p EXCEPT !.rsi.offset = strtoll(val)]
    [] key = LUA -> [p EXCEPT !.scripts = @ \cup {val}]
    [] OTHER -> p

Expired(item, now) == item.ex # None /\ item.ex < now

\* One key; ex is the time that was read before it.  A slave leaves it to its master to expire keys.
\* st has the current database and what was loaded.
Add(st, key, ex, o) ==
  Read(o, IF ~conf.slave /\ Expired([ex |-> ex], s.now) THEN st
          ELSE [st EXCEPT !.out.data[<<st.d, key.v>>] = o.v @@ [ex |-> ex]])
LoadValue(b, st, key, ex, type) == Add(st, key, ex, rdbLoadObject(type, b, key.p))
LoadKey(b, p, st, ex, type) == LoadValue(b, st, rdbGenericLoadStringObject(b, p), ex, type)

\* What follows an opcode.
Selected(st, n) == IF n.p = 0 \/ n.v >= conf.dbnum THEN Short ELSE Got([st EXCEPT !.d = n.v], n.p)
WithField(st, kv) == Read(kv, [st EXCEPT !.out = AuxField(@, kv.v[1], kv.v[2])])
WithTime(b, st, y) == IF y.p = 0 THEN y ELSE LoadKey(b, y.p, st, y.v[1], y.v[2])
Opcode(b, st, x) ==
  IF x.p = 0 THEN x
  ELSE CASE x.v[1] = RDB_OPCODE_EOF -> Read(x, [st EXCEPT !.eof = TRUE])
         [] x.v[1] = RDB_OPCODE_SELECTDB -> Selected(st, rdbLoadLen(b, x.p))
         [] x.v[1] = RDB_OPCODE_RESIZEDB -> Read(rdbLoadLen(b, rdbLoadLen(b, x.p).p), st)
         [] x.v[1] = RDB_OPCODE_AUX -> WithField(st, LoadStrings(b, Got(<<>>, x.p), 2))
         [] x.v[1] = RDB_OPCODE_EXPIRETIME_MS -> WithTime(b, st, rioRead(b, x.p, 2))
         [] OTHER -> LoadKey(b, x.p, st, None, x.v[1])
RECURSIVE LoadFrom(_, _)
LoadFrom(b, r) == IF r.p = 0 \/ r.v.eof THEN r ELSE LoadFrom(b, Opcode(b, r.v, rioRead(b, r.p, 1)))

NoInfo == [db |-> -1, id |-> <<>>, offset |-> -1]
Blank == [data |-> [k \in conf.keys |-> NoKey], scripts |-> {}, rsi |-> NoInfo]
Summed(b, r, sum) ==
  IF sum.p = 0 \/ (conf.checksum /\ sum.v[1] \notin {0, crc64(SubSeq(b, 1, r.p - 1))}) THEN Short ELSE Got(r.v.out, sum.p)
CheckSum(b, r) == Summed(b, r, rioRead(b, r.p, 1))
rdbLoadRio(b) ==
  CheckSum(b, IF b[1] \in 1..RDB_VERSION THEN LoadFrom(b, Got([d |-> 0, eof |-> FALSE, out |-> Blank], 2)) ELSE Short)

-----------------------------------------------------------------------------
(* The server *)

\* What would be saved now (rdbPopulateSaveInfo).
Payload(t) ==
  [data |-> t.data, scripts |-> t.scripts,
   rsi |-> IF conf.repl THEN [db |-> 0, id |-> <<30, 31>>, offset |-> t.offset] ELSE <<>>]

RdbInit ==
  [data |-> Blank.data, scripts |-> {}, offset |-> 0, dirty |-> 0, before |-> 0, lastsave |-> 0, try |-> 0,
   status |-> TRUE, child |-> "none", forked |-> Blank, file |-> NoFile, snap |-> Blank, limits |-> conf.limits,
   now |-> 0, ops |-> 0, up |-> TRUE]

\* The file is renamed to its place when it is complete; ok: no error in this.
InPlace(t, p) == [t EXCEPT !.file = rdbSaveRio(p), !.snap = p]
rdbSave(t, ok) ==
  IF ~ok THEN t ELSE [InPlace(t, Payload(t)) EXCEPT !.dirty = 0, !.lastsave = t.now, !.status = TRUE]

\* forked: fork() succeeds.
rdbSaveBackground(t, forked) ==
  IF t.child # "none" THEN t
  ELSE IF ~forked THEN [t EXCEPT !.before = t.dirty, !.try = t.now, !.status = FALSE]
  ELSE [t EXCEPT !.before = t.dirty, !.try = t.now, !.child = "saving", !.forked = Payload(t)]

Outcomes == IF conf.errors THEN BOOLEAN ELSE {TRUE}

Execute(c) ==
  /\ s.up /\ s.ops < conf.maxops
  /\ Quiet([s EXCEPT !.ops = @ + 1, !.dirty = @ + 1, !.offset = @ + 1, !.data[c.k] = c.item])
Script(t) ==
  /\ s.up /\ t \notin s.scripts
  /\ Quiet([s EXCEPT !.scripts = @ \cup {t}])
\* activeExpireCycleTryExpire, which is not counted as a change.
ExpireKey(k) ==
  /\ s.up /\ ~conf.slave /\ s.data[k] # NoKey /\ Expired(s.data[k], s.now)
  /\ Quiet([s EXCEPT !.data[k] = NoKey])

saveCommand(ok) ==
  /\ s.up /\ s.child = "none"
  /\ Quiet(rdbSave(s, ok))
bgsaveCommand(forked) ==
  /\ s.up /\ s.child = "none"
  /\ Quiet(rdbSaveBackground(s, forked))
\* The save parameters: conf.changes changes in conf.seconds.
CronSave(forked) ==
  /\ s.up /\ s.child = "none" /\ conf.changes > 0
  /\ s.dirty >= conf.changes /\ s.now - s.lastsave > conf.seconds
  /\ s.now - s.try > conf.delay \/ s.status
  /\ Quiet(rdbSaveBackground(s, forked))

\* The child: it has renamed its file, failed, or was killed by the system.
ChildEnds(how) ==
  /\ s.child = "saving"
  /\ Quiet(IF how = "renamed" THEN InPlace([s EXCEPT !.child = how], s.forked)
           ELSE [s EXCEPT !.child = how])

\* Mutant: changes made while the child saved are taken as saved
MutantDone(t) == [t EXCEPT !.dirty = 0, !.lastsave = t.now, !.status = TRUE]
SavedInBackground(t) == [t EXCEPT !.dirty = t.dirty - t.before, !.lastsave = t.now, !.status = TRUE]
\* The signal of a child that was killed on purpose is no error.
backgroundSaveDoneHandlerDisk ==
  /\ s.up /\ s.child \notin {"none", "saving"}
  /\ LET t == [s EXCEPT !.child = "none", !.forked = Blank]
     IN  Quiet(CASE s.child = "renamed" -> SavedInBackground(t)
                 [] s.child = "killed" -> t
                 [] OTHER -> [t EXCEPT !.status = FALSE])

KillChild(t) == IF t.child = "saving" THEN [t EXCEPT !.child = "killed"] ELSE t

\* rdbSave resets dirty, which is put back.
SaveEmpty(t, ok) == IF conf.changes > 0 THEN [rdbSave(t, ok) EXCEPT !.dirty = t.dirty + 1] ELSE [t EXCEPT !.dirty = @ + 1]
flushallCommand(ok) ==
  /\ s.up /\ s.ops < conf.maxops
  /\ LET removed == Cardinality({k \in conf.keys : s.data[k] # NoKey})
     IN  Quiet(SaveEmpty(KillChild([s EXCEPT !.data = Blank.data, !.dirty = @ + removed, !.ops = @ + 1, !.offset = @ + 1]), ok))

\* It goes on when the dataset cannot be saved.
prepareForShutdown(save, ok) ==
  /\ s.up
  /\ Quiet(IF save THEN [rdbSave(KillChild(s), ok) EXCEPT !.up = ~ok] ELSE [KillChild(s) EXCEPT !.up = FALSE])

\* The server and its child are killed.
Crash ==
  /\ s.up /\ conf.crash
  /\ Quiet([s EXCEPT !.up = FALSE])

\* The server starts and loads the file, if there is one.
Loaded(r) ==
  /\ r.p # 0
  /\ Quiet([s EXCEPT !.up = TRUE, !.data = r.v.data, !.scripts = r.v.scripts, !.child = "none", !.forked = Blank,
                     !.offset = IF conf.slave /\ -1 \notin {r.v.rsi.offset, r.v.rsi.db} THEN r.v.rsi.offset ELSE 0,
                     !.dirty = 0, !.before = 0, !.lastsave = s.now, !.try = 0, !.status = TRUE])
loadDataFromDisk ==
  /\ ~s.up
  /\ Loaded(IF s.file = NoFile THEN Got(Blank, 1) ELSE rdbLoadRio(s.file))

ConfigSet(limits) ==
  /\ s.up /\ s.limits # limits
  /\ Quiet([s EXCEPT !.limits = limits])
RdbTick ==
  /\ s.now < conf.maxnow
  /\ Quiet([s EXCEPT !.now = @ + 1])

RdbNext ==
  /\ IsRdb
  /\ \/ \E i \in DOMAIN conf.cmds : Execute(conf.cmds[i])
     \/ \E t \in conf.scripts : Script(t)
     \/ \E k \in conf.keys : ExpireKey(k)
     \/ \E ok \in Outcomes : saveCommand(ok) \/ bgsaveCommand(ok) \/ CronSave(ok)
     \/ \E how \in (IF conf.errors THEN {"renamed", "failed", "crashed"} ELSE {"renamed"}) : ChildEnds(how)
     \/ backgroundSaveDoneHandlerDisk
     \/ \E ok \in Outcomes : flushallCommand(ok)
     \/ \E ok \in Outcomes : prepareForShutdown(TRUE, ok)
     \/ prepareForShutdown(FALSE, TRUE)
     \/ Crash \/ loadDataFromDisk
     \/ \E l \in conf.otherlimits : ConfigSet(l)
     \/ RdbTick

-----------------------------------------------------------------------------
\* What a client sees of an item.
Value(item) ==
  IF item = NoKey THEN NoKey
  ELSE [type |-> item.type, ex |-> item.ex,
        v |-> CASE item.type = "list" -> Concat(item.v)
                [] item.type \in {"zset", "hash"} -> ToSet(item.v)
                [] OTHER -> item.v]
Gone(item) == item # NoKey /\ ~conf.slave /\ Expired(item, s.now)

\* Lengths and integers of every width are read back as they were written, and
\* a text that lzf compresses within the room it was given, never more, is the
\* same after decompression.
EncodingsReadBack ==
  (IsRdb /\ s.ops + s.now = 0) =>
    /\ \A n \in conf.lens : rdbLoadLen(rdbSaveLen(n), 1) = Got(n, Len(rdbSaveLen(n)) + 1)
    /\ \A v \in conf.lens \cup {-n : n \in conf.lens} :
         LET b == rdbSaveRawString(ll2string(v)) IN rdbGenericLoadStringObject(b, 1) = Got(ll2string(v), Len(b) + 1)
    /\ \A t \in conf.texts, room \in conf.rooms :
         LET c == lzf_compress(t, room) IN c # <<>> => Len(c) <= room /\ lzf_decompress(c, Len(t)) = t

\* The file in its place can be loaded at any time, under the limits of any configuration, and
\* holds a dataset that the server had at one moment: every value in whatever encoding it was
\* saved, every time, the scripts and the place in the history of replication.
FileLoads ==
  (IsRdb /\ s.file # NoFile) =>
    LET r == rdbLoadRio(s.file)
    IN  /\ r.p # 0
        /\ \A k \in conf.keys : Value(r.v.data[k]) = IF Gone(s.snap.data[k]) THEN NoKey ELSE Value(s.snap.data[k])
        /\ s.snap.rsi # <<>> => r.v.rsi = s.snap.rsi /\ r.v.scripts = s.snap.scripts

\* While server.dirty is 0 the file has the dataset, whatever failed or changed while a child
\* was saving; dirty is never negative.
NothingUnsaved ==
  (IsRdb /\ s.up) =>
    /\ s.dirty >= 0
    /\ s.dirty = 0 => \A k \in conf.keys : Value(s.data[k]) = Value(s.snap.data[k]) \/ Gone(s.snap.data[k])
=============================================================================
