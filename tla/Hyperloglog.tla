---------------------------- MODULE Hyperloglog ----------------------------
(***************************************************************************)
(* hyperloglog.c: registers that each hold the largest count seen, in a    *)
(* string that is sparse, a sequence of opcodes, or dense, packed          *)
(* counters.  s.db holds the values by key, s.replica those of a replica   *)
(* that runs what is propagated, s.dirty by how much the last command      *)
(* raised server.dirty.  A value is reachable only through its key, so     *)
(* dbUnshareStringValue leaves it as it is.                                *)
(* conf.regs stands for HLL_REGISTERS, conf.hbits for HLL_BITS,            *)
(* conf.hbyte for the bits of a byte, conf.valmax, conf.vallen and         *)
(* conf.zerolen for HLL_SPARSE_VAL_MAX_VALUE, HLL_SPARSE_VAL_MAX_LEN and   *)
(* HLL_SPARSE_ZERO_MAX_LEN, conf.maxbytes for hll-sparse-max-bytes without *)
(* the header.  An element is <<register, count>>: what hllPatLen finds in *)
(* the hash of it.                                                         *)
(***************************************************************************)
EXTENDS Structure, SequencesExt

Registers == [i \in 1..conf.regs |-> i - 1]

-----------------------------------------------------------------------------
(* The dense representation: counters of HLL_BITS bits in bytes, from the  *)
(* lowest bit on, and one byte more.                                       *)

NoneSet == FoldLeft(LAMBDA t, j : Append(t, 0), <<>>, [j \in 1..((conf.regs * conf.hbits) \div conf.hbyte + 2) |-> j])
At(i) == (i * conf.hbits) \div conf.hbyte + 1
Fb(i) == (i * conf.hbits) % conf.hbyte
Fb8(i) == conf.hbyte - Fb(i)
Byte(v) == v % 2 ^ conf.hbyte

HLL_DENSE_GET_REGISTER(d, i) == (d[At(i)] \div 2 ^ Fb(i) + d[At(i) + 1] * 2 ^ Fb8(i)) % 2 ^ conf.hbits
\* b & ~(HLL_REGISTER_MAX << by) and b & ~(HLL_REGISTER_MAX >> by)
ClearedUp(b, by) == (b % 2 ^ by) + Byte((b \div 2 ^ (by + conf.hbits)) * 2 ^ (by + conf.hbits))
ClearedDown(b, by) == IF by >= conf.hbits THEN b ELSE (b \div 2 ^ (conf.hbits - by)) * 2 ^ (conf.hbits - by)

HLL_DENSE_SET_REGISTER(d, i, v) ==
  [d EXCEPT ![At(i)] = ClearedUp(@, Fb(i)) + Byte(v * 2 ^ Fb(i)),
            ![At(i) + 1] = ClearedDown(@, Fb8(i)) + v \div 2 ^ Fb8(i)]

-----------------------------------------------------------------------------
(* The sparse representation: runs of zeros, short in one byte or long in  *)
(* two, and runs of a value.                                               *)

Op(op, len, val) == [op |-> op, len |-> len, val |-> val]
ZeroRun(len) == Op(IF len > conf.zerolen THEN "xzero" ELSE "zero", len, 0)
Val(v, len) == Op("val", len, v)
OpBytes(o) == IF o.op = "xzero" THEN 2 ELSE 1
SparseBytes(ops) == FoldLeft(LAMBDA n, o : n + OpBytes(o), 0, ops)

\* The object, with its cached cardinality if it is valid.
Sparse(ops, card) == [enc |-> "sparse", ops |-> ops, regs |-> <<>>, card |-> card]
NoHll == [enc |-> "none", ops |-> <<>>, regs |-> <<>>, card |-> <<>>]
\* What PFCOUNT computes from: the number of registers that are zero and the
\* sum of 2^-register, in units of 2^-conf.most.
Sum(regs) ==
  FoldLeft(LAMBDA a, v : <<a[1] + (IF v = 0 THEN 1 ELSE 0), a[2] + 2 ^ (conf.most - v)>>, <<0, 0>>, regs)
Zero == Sum([i \in 1..conf.regs |-> 0])

\* The cached cardinality of a new object is 0, which is valid.
createHLLObject == Sparse(<<Op("xzero", conf.regs, 0)>>, <<Zero>>)
HLL_INVALIDATE_CACHE(o) == [o EXCEPT !.card = <<>>]

RunOf(o) == FoldLeft(LAMBDA t, j : Append(t, o.val), <<>>, [j \in 1..o.len |-> j])
RegistersOf(o) ==
  IF o.enc = "dense" THEN [i \in 1..conf.regs |-> HLL_DENSE_GET_REGISTER(o.regs, i - 1)]
  ELSE FoldLeft(LAMBDA t, x : t \o RunOf(x), <<>>, o.ops)

\* hllDenseSum, hllSparseSum and hllRawSum, which hllCount works with.
hllSparseSum(ops) ==
  FoldLeft(LAMBDA a, x : IF x.op = "val" THEN <<a[1], a[2] + x.len * 2 ^ (conf.most - x.val)>>
                         ELSE <<a[1] + x.len, a[2] + x.len * 2 ^ conf.most>>, <<0, 0>>, ops)
hllCount(o) == IF o.enc = "dense" THEN Sum(RegistersOf(o)) ELSE hllSparseSum(o.ops)

hllSparseToDense(o) ==
  IF o.enc = "dense" THEN o
  ELSE [enc |-> "dense", ops |-> <<>>, card |-> o.card,
        regs |-> FoldLeft(LAMBDA d, i : IF RegistersOf(o)[i + 1] = 0 THEN d
                                        ELSE HLL_DENSE_SET_REGISTER(d, i, RegistersOf(o)[i + 1]),
                          NoneSet, Registers)]

\* <<the object, 1 if the register grew>>, here and below.
hllDenseSet(o, index, count) ==
  IF count > HLL_DENSE_GET_REGISTER(o.regs, index)
  THEN <<[o EXCEPT !.regs = HLL_DENSE_SET_REGISTER(@, index, count)], 1>>
  ELSE <<o, 0>>

\* Step 1: the opcode that covers a register, and its first register.
FirstOf(ops, p) == FoldLeft(LAMBDA n, o : n + o.len, 0, SubSeq(ops, 1, p - 1))
Covers(ops, index) == CHOOSE p \in DOMAIN ops : FirstOf(ops, p) <= index /\ index <= FirstOf(ops, p) + ops[p].len - 1

\* Steps 2 and 3: what takes its place.
Split(o, first, index, count) ==
  LET Part(len) == IF len = 0 THEN <<>> ELSE IF o.op = "val" THEN <<Val(o.val, len)>> ELSE <<ZeroRun(len)>>
  IN  Part(index - first) \o <<Val(count, 1)>> \o Part(first + o.len - 1 - index)

\* Step 4: of up to five opcodes from the one before, two that are equal
\* become one if it can be as long.
Mergeable(a, b) == a.op = "val" /\ b.op = "val" /\ a.val = b.val /\ a.len + b.len <= conf.vallen
MergeStep(a) ==
  IF a.p > Len(a.ops) THEN a
  ELSE IF a.p < Len(a.ops) /\ Mergeable(a.ops[a.p], a.ops[a.p + 1])
  THEN [a EXCEPT !.ops = SubSeq(@, 1, a.p - 1) \o <<Val(@[a.p].val, @[a.p].len + @[a.p + 1].len)>>
                           \o SubSeq(@, a.p + 2, Len(@))]
  ELSE [a EXCEPT !.p = @ + 1]
Merged(ops, p) == FoldLeft(LAMBDA a, j : MergeStep(a), [ops |-> ops, p |-> p], <<1, 2, 3, 4, 5>>).ops

TooLong(bytes, delta) == delta > 0 /\ bytes + delta > conf.maxbytes

Promoted(o, index, count) == hllDenseSet(hllSparseToDense(o), index, count)
SparseUpdate(o, p, count, new) ==
  <<Sparse(Merged(SubSeq(o.ops, 1, p - 1) \o new \o SubSeq(o.ops, p + 1, Len(o.ops)), Max({1, p - 1})), <<>>), 1>>
hllSparseSet(o, index, count) ==
  IF count > conf.valmax THEN Promoted(o, index, count)
  ELSE LET p == Covers(o.ops, index)
           new == Split(o.ops[p], FirstOf(o.ops, p), index, count)
           delta == SparseBytes(new) - OpBytes(o.ops[p])
       IN  IF o.ops[p].op = "val" /\ o.ops[p].val >= count THEN <<o, 0>>
           ELSE IF TooLong(SparseBytes(o.ops), delta) THEN Promoted(o, index, count)
           ELSE SparseUpdate(o, p, count, new)

hllAdd(o, e) == IF o.enc = "dense" THEN hllDenseSet(o, e[1], e[2]) ELSE hllSparseSet(o, e[1], e[2])
\* hllMerge: the larger of each register and of that of an object.
hllMerge(max, o) == [i \in 1..conf.regs |-> Max({max[i], RegistersOf(o)[i]})]

-----------------------------------------------------------------------------
(* The commands: the values left, the reply, and how much dirty grows.     *)

Effect(db, res, dirty) == [db |-> db, res |-> res, dirty |-> dirty]
OrCreate(o) == IF o = NoHll THEN createHLLObject ELSE o

Added(a) == IF a[2] > 0 THEN HLL_INVALIDATE_CACHE(a[1]) ELSE a[1]

pfadd(db, k, eles) ==
  LET a == FoldLeft(LAMBDA x, e : LET r == hllAdd(x[1], e) IN <<r[1], x[2] + r[2]>>,
                    <<OrCreate(db[k]), IF db[k] = NoHll THEN 1 ELSE 0>>, eles)
  IN  Effect([db EXCEPT ![k] = Added(a)], IF a[2] > 0 THEN 1 ELSE 0, IF a[2] > 0 THEN 1 ELSE 0)

pfcount(db, k) ==
  IF db[k] = NoHll THEN Effect(db, Zero, 0)
  ELSE IF db[k].card # <<>> THEN Effect(db, db[k].card[1], 0)
  ELSE Effect([db EXCEPT ![k].card = <<hllCount(db[k])>>], hllCount(db[k]), 1)
\* Of several keys: that of their union.
MaxOf(db, ks) ==
  FoldLeft(LAMBDA m, k : IF db[k] = NoHll THEN m ELSE hllMerge(m, db[k]), [i \in 1..conf.regs |-> 0], ks)
pfcountUnion(db, ks) == Sum(MaxOf(db, ks))

Written(o, max) ==
  FoldLeft(LAMBDA x, i : IF max[i + 1] = 0 THEN x ELSE hllAdd(x, <<i, max[i + 1]>>)[1], o, Registers)
pfmerge(db, ks) ==
  LET o == OrCreate(db[ks[1]])
      dense == \E j \in DOMAIN ks : db[ks[j]].enc = "dense"
  IN  Effect([db EXCEPT ![ks[1]] = HLL_INVALIDATE_CACHE(Written(IF dense THEN hllSparseToDense(o) ELSE o, MaxOf(db, ks)))],
             1, 1)

\* PFDEBUG TODENSE; GETREG does the same to the object.
pfdebug(db, k) ==
  IF db[k] = NoHll THEN Effect(db, -1, 0)
  ELSE IF db[k].enc = "dense" THEN Effect(db, 0, 0)
  ELSE Effect([db EXCEPT ![k] = hllSparseToDense(@)], 1, 1)

-----------------------------------------------------------------------------
IsHll == kind = "hll"
HllInit == LET db == [k \in conf.keys |-> NoHll] IN [db |-> db, replica |-> db, dirty |-> 0]

\* The replica runs the command if it raised server.dirty.
HllCall(op, arg, Command(_)) ==
  \E e \in {Command(s.db)} :
    Call(op, arg, [db |-> e.db, dirty |-> e.dirty,
                   replica |-> IF e.dirty > 0 THEN Command(s.replica).db ELSE s.replica], e.res)

PfAdd(k, eles) == IsHll /\ HllCall("pfadd", <<k, eles>>, LAMBDA db : pfadd(db, k, eles))
PfCount(k) == IsHll /\ HllCall("pfcount", <<k>>, LAMBDA db : pfcount(db, k))
PfMerge(ks) == IsHll /\ HllCall("pfmerge", ks, LAMBDA db : pfmerge(db, ks))
PfDebug(k) == IsHll /\ HllCall("pfdebug", <<k>>, LAMBDA db : pfdebug(db, k))

HllNext ==
  IsHll /\ \/ \E k \in conf.keys : PfCount(k) \/ PfDebug(k) \/ \E eles \in conf.adds : PfAdd(k, eles)
           \/ \E ks \in conf.srcs : PfMerge(ks)

-----------------------------------------------------------------------------
\* The opcodes cover every register once, none is longer or larger than it
\* can say, long runs of zeros are told from short ones, no two neighbours
\* could be one, and no string is longer than the setting allows.
HllShape ==
  IsHll => \A k \in conf.keys :
    LET ops == s.db[k].ops
    IN  /\ s.db[k].enc = "sparse" =>
             /\ FirstOf(ops, Len(ops) + 1) = conf.regs
             /\ SparseBytes(ops) <= Max({2, conf.maxbytes})
             /\ \A p \in DOMAIN ops : /\ ops[p].len > 0
                                      /\ ops[p].op = "zero" => ops[p].len <= conf.zerolen
                                      /\ ops[p].op = "val" => ops[p].val \in 1..conf.valmax /\ ops[p].len <= conf.vallen
             /\ \A p \in 1..(Len(ops) - 1) : ~Mergeable(ops[p], ops[p + 1])
        /\ s.db[k].enc = "dense" => \A p \in DOMAIN s.db[k].regs : s.db[k].regs[p] \in 0..(2 ^ conf.hbyte - 1)

\* A cached cardinality that is valid is that of the registers.
HllCacheFresh == IsHll => \A k \in conf.keys : s.db[k].card # <<>> => s.db[k].card = <<hllCount(s.db[k])>>

\* PFCOUNT of several keys, which leaves them alone, is the PFCOUNT of the key
\* that a PFMERGE of them would leave, whatever their representations are and
\* whether or not the merge turns the target into a dense one on its way.
HllUnion ==
  IsHll => \A ks \in conf.srcs :
             \E merged \in {pfmerge(s.db, ks).db} : pfcountUnion(s.db, ks) = hllCount(merged[ks[1]])

\* The replica holds the same strings, byte by byte: their encoding and the
\* cached cardinality, which PFCOUNT changes, included.
HllReplicaSame == IsHll => s.replica = s.db
=============================================================================
