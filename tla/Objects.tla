------------------------------ MODULE Objects ------------------------------
(***************************************************************************)
(* object.c, and the functions of db.c that put string objects in the      *)
(* keyspace: string objects with their encoding, their capacity and their  *)
(* reference count.  s.heap holds the objects in memory by address, s.db   *)
(* the address each key refers to (NoObj if there is no such key),         *)
(* s.expires the keys with a time to live, s.argv the arguments of the     *)
(* command being run, by position, and s.cache those that                  *)
(* luaRedisGenericCommand keeps for its next call.                         *)
(* A text is a sequence of characters: 0 to 9 are digits, Minus and        *)
(* ZeroByte are themselves, others are letters.  conf.maxll stands for     *)
(* LLONG_MAX, conf.shared for OBJ_SHARED_INTEGERS, conf.emb for            *)
(* OBJ_ENCODING_EMBSTR_SIZE_LIMIT, conf.maxlen for the 512 MB limit,       *)
(* conf.luamax for LUA_CMD_OBJCACHE_MAX_LEN; conf.private says that        *)
(* maxmemory and its policy forbid shared integers.                        *)
(***************************************************************************)
EXTENDS Structure, SequencesExt

Minus == 10
ZeroByte == 12
NoObj == -1
SharedRef == 99

minll == -conf.maxll - 1
ll2string(v) == IF v < 0 THEN <<Minus, -v>> ELSE <<v>>
\* The integer a text stands for, as a set with at most one element.
string2ll(text) == {v \in minll..conf.maxll : ll2string(v) = text}
\* Arithmetic in 64 bits.
Wrap(v) == ((v - minll) % (2 * (conf.maxll + 1))) + minll

-----------------------------------------------------------------------------
(* Objects *)

Object(enc, text) ==
  [enc |-> enc, text |-> text, alloc |-> IF enc = "int" THEN 0 ELSE Len(text), ref |-> 1]
createRawStringObject(text) == Object("raw", text)
createStringObject(text) == Object(IF Len(text) <= conf.emb THEN "embstr" ELSE "raw", text)

\* The address of the next object.
Fresh(m) == CHOOSE i \in conf.shared..20 : i \notin DOMAIN m.heap /\ \A j \in conf.shared..(i - 1) : j \in DOMAIN m.heap
New(m, o) == [m EXCEPT !.heap = @ @@ (Fresh(m) :> o)]

incrRefCount(m, i) == IF m.heap[i].ref = SharedRef THEN m ELSE [m EXCEPT !.heap[i].ref = @ + 1]
decrRefCount(m, i) ==
  IF m.heap[i].ref = SharedRef THEN m
  ELSE IF m.heap[i].ref = 1 THEN [m EXCEPT !.heap = [j \in DOMAIN @ \ {i} |-> @[j]]]
  ELSE [m EXCEPT !.heap[i].ref = @ - 1]

stringObjectLen(o) == IF o.enc = "int" THEN Len(ll2string(CHOOSE v \in string2ll(o.text) : TRUE)) ELSE Len(o.text)

\* <<the memory, the address of the object>>, here and below.
createStringObjectFromLongLong(m, v) ==
  IF v \in 0..(conf.shared - 1) THEN <<m, v>>
  ELSE <<New(m, Object("int", ll2string(v))), Fresh(m)>>

tryObjectEncoding(m, i) ==
  LET o == m.heap[i]
      n == string2ll(o.text)
      len == Len(o.text)
  IN  IF o.enc = "int" \/ o.ref > 1 THEN <<m, i>>
      ELSE IF n # {} THEN
        IF ~conf.private /\ n \subseteq 0..(conf.shared - 1)
        THEN <<decrRefCount(m, i), CHOOSE v \in n : TRUE>>
        ELSE <<[m EXCEPT !.heap[i] = [@ EXCEPT !.enc = "int", !.alloc = 0]], i>>
      ELSE IF len <= conf.emb THEN
        IF o.enc = "embstr" THEN <<m, i>>
        ELSE <<decrRefCount(New(m, Object("embstr", o.text)), i), Fresh(m)>>
      ELSE IF o.enc = "raw" /\ o.alloc - len > len \div 10
        THEN <<[m EXCEPT !.heap[i].alloc = len], i>>
      ELSE <<m, i>>

getDecodedObject(m, i) ==
  IF m.heap[i].enc # "int" THEN <<incrRefCount(m, i), i>>
  ELSE <<New(m, createStringObject(m.heap[i].text)), Fresh(m)>>

-----------------------------------------------------------------------------
(* The keyspace *)

dbAdd(m, k, i) == [m EXCEPT !.db[k] = i]
dbOverwrite(m, k, i) == decrRefCount([m EXCEPT !.db[k] = i], m.db[k])
AddOrOverwrite(m, k, i) == IF m.db[k] = NoObj THEN dbAdd(m, k, i) ELSE dbOverwrite(m, k, i)
removeExpire(m, k) == [m EXCEPT !.expires = @ \ {k}]
setExpire(m, k) == [m EXCEPT !.expires = @ \cup {k}]

setKey(m, k, i) == removeExpire(incrRefCount(AddOrOverwrite(m, k, i), i), k)

dbDelete(m, k) ==
  IF m.db[k] = NoObj THEN m ELSE removeExpire(decrRefCount([m EXCEPT !.db[k] = NoObj], m.db[k]), k)

\* The object is copied unless it is a raw one that only the key refers to:
\* <<the memory, the address to write to>>.
Decoded(m, k, d) ==
  LET m1 == decrRefCount(New(d[1], createRawStringObject(d[1].heap[d[2]].text)), d[2])
  IN  <<dbOverwrite(m1, k, Fresh(d[1])), Fresh(d[1])>>

dbUnshareStringValue(m, k) ==
  LET o == m.heap[m.db[k]]
  IN  IF o.ref # 1 \/ o.enc # "raw" THEN Decoded(m, k, getDecodedObject(m, m.db[k])) ELSE <<m, m.db[k]>>

-----------------------------------------------------------------------------
(* Arguments, from a client or from a script *)

Cached(m, pos, text) == m.cache[pos] # NoObj /\ m.heap[m.cache[pos]].alloc >= Len(text)

Argument(m, via, pos, text) ==
  IF via = "lua" /\ Cached(m, pos, text)
  THEN [m EXCEPT !.argv = @ @@ (pos :> m.cache[pos]), !.cache[pos] = NoObj, !.heap[m.cache[pos]].text = text]
  ELSE [New(m, createStringObject(text)) EXCEPT !.argv = @ @@ (pos :> Fresh(m))]

Keeps(o) == o.ref = 1 /\ o.enc # "int" /\ Len(o.text) <= conf.luamax

\* The arguments are released, or kept for the next call of a script.
Release(m, via, pos) ==
  LET i == m.argv[pos]
      m1 == IF m.cache[pos] = NoObj THEN m ELSE decrRefCount(m, m.cache[pos])
  IN  IF via = "lua" /\ Keeps(m.heap[i]) THEN [m1 EXCEPT !.cache[pos] = i]
      ELSE decrRefCount(m, i)

Arguments(m, via, given) == FoldLeft(LAMBDA n, a : Argument(n, via, a[1], a[2]), m, given)
Released(m, via, given) ==
  [FoldLeft(LAMBDA n, a : Release(n, via, a[1]), m, given) EXCEPT !.argv = <<>>]

\* rewriteClientCommandArgument
Rewritten(m, pos, i) == decrRefCount([incrRefCount(m, i) EXCEPT !.argv[pos] = i], m.argv[pos])
=============================================================================
