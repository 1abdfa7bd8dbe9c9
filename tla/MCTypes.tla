------------------------------ MODULE MCTypes ------------------------------
EXTENDS Bits, Hashes, Sets, Hyperloglog, Rax

CONSTANT Configs

StringBase == [kind |-> "strings", calls |-> TRUE, keys |-> 1..2, vias |-> {"client"}, texts |-> {<<1>>, <<11>>},
               flags |-> {{}}, at |-> {}, nums |-> {1, -1}, nxs |-> {}, maxll |-> 1, shared |-> 1, emb |-> 1,
               luamax |-> 2, maxlen |-> 2, private |-> FALSE]
StringEdits == [StringBase EXCEPT !.calls = FALSE, !.nxs = {FALSE}, !.texts = {<<1>>, <<11>>, <<11, 1>>}, !.at = {1}]
StringScripts == [StringBase EXCEPT !.calls = FALSE, !.vias = {"lua"}, !.nums = {1}, !.texts = {<<11>>, <<11, 11>>}]
StringPrivate == [StringBase EXCEPT !.calls = FALSE, !.private = TRUE, !.nums = {1}, !.texts = {<<0>>, <<11>>}]
StringCalls == [StringBase EXCEPT !.keys = {1}, !.nums = {-4, -1, 1, 2}, !.maxll = 3, !.at = {0, 1},
                 !.texts = {<<1>>, <<11>>, <<>>, <<11, 1>>}, !.flags = {{}, {"nx"}, {"xx", "ex"}}]
StringPairs == [StringBase EXCEPT !.nxs = BOOLEAN, !.flags = {{"ex"}}, !.nums = {}, !.texts = {<<11>>}]
Field(op, sign, bits, at, value, ow) == [op |-> op, sign |-> sign, bits |-> bits, at |-> at, arg |-> value, ow |-> ow]
BitBase == [kind |-> "bits", calls |-> TRUE, keys |-> {1}, texts |-> {<<1>>}, maxll |-> 1, shared |-> 2, emb |-> 1,
            luamax |-> 2, maxlen |-> 2, private |-> FALSE, bpb |-> 4, word |-> 6, chunk |-> 2, fastkeys |-> 2,
            long |-> 2, buf |-> 3, full |-> TRUE, at |-> {}, ops |-> {}, bitops |-> {}, dsts |-> {}, srcs |-> {}]
\* A signed SET to the least value there is, with saturation, is left out: maxincr
\* overflows in checkSignedBitfieldOverflow, and the code stores the largest value.
BitOverflows == [BitBase EXCEPT !.word = 5, !.at = {0},
  !.ops = {<<f>> : f \in {Field(op, sign, 3, 1, v, ow) : op \in {"set", "incrby"}, sign \in BOOLEAN, v \in {-16, -5, 1, 15},
                                                         ow \in {"wrap", "sat", "fail"}}
                         \ {Field("set", TRUE, 3, 1, -16, "sat")}}]
BitFields == [BitBase EXCEPT !.texts = {<<11, 1>>}, !.at = {7},
  !.ops = {<<Field("set", FALSE, 3, 3, 5, "wrap"), Field("incrby", TRUE, 2, 0, 3, "sat"),
             Field("get", TRUE, 5, 3, 0, "wrap"), Field("get", FALSE, 4, 11, 0, "wrap")>>,
           <<Field("get", TRUE, 5, 2, 0, "wrap")>>,
           <<Field("incrby", FALSE, 5, 2, 3, "wrap"), Field("incrby", TRUE, 2, 0, -3, "wrap")>>}]
BitOps == [BitBase EXCEPT !.keys = {1, 2}, !.dsts = {2}, !.texts = {<<1>>, <<>>, <<3, 5>>},
             !.bitops = {"and", "or", "xor", "not"}, !.srcs = {<<1>>, <<1, 2>>, <<2, 1, 2>>}]
HashCalls == [kind |-> "hash", calls |-> TRUE, fields |-> {<<1>>, <<11>>, <<11, 11>>}, texts |-> {<<0, 1>>},
              nums |-> {1, -2}, maxll |-> 1, limit |-> [entries |-> 2, value |-> 1], other |-> [entries |-> 1, value |-> 2]]
SetCalls == [kind |-> "sets", calls |-> TRUE, keys |-> 1..2, eles |-> 1..4, ints |-> 1..3,
             adds |-> {<<1, 2>>, <<3, 4, 3>>}, counts |-> {0, 2}, limit |-> 2, other |-> 1, mul |-> 2,
             srcs |-> {<<1, 2>>, <<2, 1, 2>>, <<1, 2, 2, 2>>}]
HllBase == [kind |-> "hll", calls |-> TRUE, keys |-> {1}, regs |-> 7, hbits |-> 3, hbyte |-> 4, valmax |-> 2,
            vallen |-> 2, zerolen |-> 2, maxbytes |-> 20, most |-> 3, adds |-> {}, srcs |-> {}]
HllSparse == [HllBase EXCEPT !.calls = FALSE, !.regs = 6, !.adds = {<<<<i, c>>>> : i \in 0..5, c \in 1..2}]
HllMerges == [HllBase EXCEPT !.keys = {1, 2}, !.regs = 4, !.maxbytes = 4,
               !.adds = {<<<<0, 1>>>>, <<<<1, 2>>, <<3, 2>>>>, <<<<1, 3>>>>},
               !.srcs = {<<1, 2>>, <<2, 1, 2>>}]
RaxBase == [kind |-> "rax", calls |-> TRUE, slots |-> 0, vals |-> {1}, strs |-> {}, probes |-> {}]
RaxCalls == [RaxBase EXCEPT !.strs = {<<>>, <<1>>, <<1, 2>>, <<1, 2, 1>>, <<1, 2, 2, 1>>, <<2, 1, 1>>},
              !.probes = {<<1>>, <<1, 2, 1, 1>>, <<1, 2, 2>>, <<1, 3>>, <<2, 1, 2>>, <<3>>}]
RaxDeep == [RaxBase EXCEPT !.calls = FALSE,
             !.strs = {<<1, 2, 3, 4>>, <<1, 2, 3, 5>>, <<1, 2>>, <<1, 2, 3>>, <<1, 3, 3, 3>>, <<1, 2, 3, 4, 5, 6>>, <<2>>},
             !.probes = {<<1>>, <<1, 2>>, <<1, 2, 3, 4, 5>>, <<1, 2, 2>>, <<1, 3>>, <<1, 3, 3, 2>>, <<1, 3, 3, 4>>,
                         <<1, 2, 3, 4, 5, 7>>, <<1, 2, 3, 4, 5, 5>>}]
RaxSlots == [RaxBase EXCEPT !.slots = 2, !.strs = {<<1, 2, 3>>, <<1, 2>>, <<1, 3, 3>>, <<2, 2, 3>>, <<2, 2, 4>>}]

\* Every type with the settings that reach its own hard cases.
Types == {StringEdits, StringScripts, StringPrivate, StringCalls, StringPairs, BitOverflows, BitFields, BitOps,
          HashCalls, SetCalls, HllSparse, HllMerges, RaxCalls, RaxDeep, RaxSlots}

Init ==
  /\ conf \in Configs
  /\ kind = conf.kind
  /\ s = CASE conf.kind \in {"strings", "bits"} -> StringsInit
         [] conf.kind = "hash" -> HashInit
         [] conf.kind = "sets" -> SetsInit
         [] conf.kind = "hll" -> HllInit
         [] conf.kind = "rax" -> RaxInit
  /\ last = NoCall
Next == StringsNext \/ BitsNext \/ HashNext \/ SetsNext \/ HllNext \/ RaxNext
Spec == Init /\ [][Next]_svars

-----------------------------------------------------------------------------
\* Each type keeps the shape its own code relies on: the reference counts of
\* objects, the encoding limits of hashes and sets, the opcodes and the valid
\* cached cardinality of a HyperLogLog, the nodes of a radix tree and the key
\* counts of the slots; and what the reading commands answer agrees with the
\* whole value, in every encoding: ranges, bit counts and positions, field by
\* field reads, unions and differences of sets, PFCOUNT of several keys and
\* seeks in a radix tree.  What is propagated leaves a replica, whose encodings
\* may be others, with the same values, though SPOP draws at random,
\* INCRBYFLOAT rounds and PFCOUNT writes a cache.
TypesSound ==
  /\ RefCounts /\ HashShape /\ SetsShape /\ HllShape /\ HllCacheFresh /\ RaxShape /\ SlotsCounted
  /\ StringReads /\ BitReads /\ HashReads /\ SetReads /\ HllUnion /\ RaxSeeks
  /\ HashReplicaAgrees /\ SetReplicaAgrees /\ HllReplicaSame

\* A command that changes a hash or a set tells the clients that watch its key
\* and is propagated, on every path that leaves the command early.
ChangesSeen == [][HashChangeSeen /\ SetChangeSeen]_svars

\* What a caller sees of the type in use, in the settings that record the
\* calls.
Abstract == INSTANCE TypeSpecs
  WITH type <- kind,
       last <- last,
       texts <- IF IsStrings /\ conf.calls THEN [k \in conf.keys |-> Get(s, k)] ELSE <<>>,
       ttl <- IF IsStrings /\ conf.calls THEN s.expires ELSE {},
       ones <- IF IsBits /\ conf.calls
               THEN [k \in conf.keys |-> {i \in 0..(Len(getObjectReadOnlyString(s, k)) * conf.bpb - 1) : getbit(s, k, i) = 1}]
               ELSE <<>>,
       bytes <- IF IsBits /\ conf.calls
                THEN [k \in conf.keys |-> IF Absent(s, k) THEN -1 ELSE Len(getObjectReadOnlyString(s, k))]
                ELSE <<>>,
       map <- CASE IsHash /\ conf.calls -> HashMap(s.o)
                [] IsRax /\ conf.calls -> Contents(s.t, s.t.head, <<>>)
                [] OTHER -> <<>>,
       sets <- IF IsSets /\ conf.calls THEN [k \in conf.keys |-> s.db[k].members] ELSE <<>>,
       registers <- IF IsHll /\ conf.calls
                    THEN [k \in conf.keys |-> IF s.db[k] = NoHll THEN <<>> ELSE RegistersOf(s.db[k])] ELSE <<>>,
       lowest <- IF IsStrings \/ IsHash THEN minll ELSE 0,
       highest <- IF IsStrings \/ IsHash THEN conf.maxll ELSE 0,
       longest <- IF IsStrings THEN conf.maxlen ELSE 0,
       bpb <- IF IsBits THEN conf.bpb ELSE 1,
       unit <- IF IsHll THEN conf.most ELSE 0,
       many <- IF IsHll THEN conf.regs ELSE 0
\* The commands of every type answer and change the values as their
\* specification says: shared integers and objects modified in place,
\* encodings and their changes, the fast paths of BITOP, the two ways to pop
\* and the representations of registers cannot be observed.  DECRBY of the
\* least number is specified as the code has it: it adds that number.
TypesRefine == Abstract!Spec
=============================================================================
