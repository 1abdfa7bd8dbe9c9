------------------------------- MODULE Hashes -------------------------------
(***************************************************************************)
(* t_hash.c: the commands on one hash, and the same hash of a replica that *)
(* runs what is propagated, with limits of its own.  A hash is a ziplist   *)
(* of fields and values in turn, seen here as a sequence of texts (Ziplist *)
(* shows that it is one), or a hash table, seen as a map (Dict).  s.o is   *)
(* the hash, s.replica that of the replica; s.touched says whether the     *)
(* last command signalled the key as modified and s.dirty by how much it   *)
(* raised server.dirty.  conf.limit and conf.other are the settings        *)
(* [entries |-> hash-max-ziplist-entries, value |-> hash-max-ziplist-value]*)
(* of the two servers.                                                     *)
(***************************************************************************)
EXTENDS Objects

NoHash == [enc |-> "none", zl |-> <<>>, ht |-> <<>>]
createHashObject == [NoHash EXCEPT !.enc = "ziplist"]

FieldAt(zl, field) ==
  LET at == {p \in DOMAIN zl : p % 2 = 1 /\ zl[p] = field} IN IF at = {} THEN 0 ELSE Min(at)

hashTypeGetFromZiplist(o, field) ==
  LET p == FieldAt(o.zl, field) IN IF p = 0 THEN <<>> ELSE <<o.zl[p + 1]>>
hashTypeGetFromHashTable(o, field) == IF field \in DOMAIN o.ht THEN <<o.ht[field]>> ELSE <<>>
hashTypeGetValue(o, field) ==
  IF o.enc = "ziplist" THEN hashTypeGetFromZiplist(o, field) ELSE hashTypeGetFromHashTable(o, field)
hashTypeExists(o, field) == hashTypeGetValue(o, field) # <<>>
\* An entry of a ziplist that is a number has the length of its digits.
hashTypeGetValueLength(o, field) ==
  LET v == hashTypeGetValue(o, field) IN IF v = <<>> THEN 0 ELSE Len(v[1])
hashTypeLength(o) == IF o.enc = "ziplist" THEN Len(o.zl) \div 2 ELSE Cardinality(DOMAIN o.ht)

\* The pairs in the order of an iterator; a hash table has no fixed order.
hashTypeNext(o) ==
  IF o.enc = "ziplist" THEN [p \in 1..hashTypeLength(o) |-> <<o.zl[2 * p - 1], o.zl[2 * p]>>]
  ELSE LET fields == SetToSeq(DOMAIN o.ht) IN [p \in DOMAIN fields |-> <<fields[p], o.ht[fields[p]]>>]

hashTypeConvert(o) ==
  [NoHash EXCEPT !.enc = "ht", !.ht = FoldLeft(LAMBDA m, p : m @@ (p[1] :> p[2]), <<>>, hashTypeNext(o))]

hashTypeTryConversion(o, args, limit) ==
  IF o.enc = "ziplist" /\ \E a \in args : Len(a) > limit.value THEN hashTypeConvert(o) ELSE o

Limited(o, limit) == IF hashTypeLength(o) > limit.entries THEN hashTypeConvert(o) ELSE o

\* The value is deleted and the new one inserted in its place, or the pair
\* is pushed at the tail.
hashTypeSet(o, field, value, limit) ==
  IF o.enc = "ht" THEN [o EXCEPT !.ht = (field :> value) @@ @]
  ELSE LET p == FieldAt(o.zl, field)
       IN  IF p # 0 THEN Limited([o EXCEPT !.zl = InsertAt(RemoveAt(@, p + 1), p + 1, value)], limit)
           ELSE Limited([o EXCEPT !.zl = @ \o <<field, value>>], limit)

hashTypeDelete(o, field) ==
  IF o.enc = "ht" THEN [o EXCEPT !.ht = [f \in DOMAIN @ \ {field} |-> @[f]]]
  ELSE LET p == FieldAt(o.zl, field)
       IN  IF p = 0 THEN o ELSE [o EXCEPT !.zl = RemoveAt(RemoveAt(@, p), p)]

hashTypeLookupWriteOrCreate(o) == IF o.enc = "none" THEN createHashObject ELSE o

-----------------------------------------------------------------------------
(* The commands: the hash o, the reply, whether the key is touched, how    *)
(* much dirty grows, and the command that is propagated.                   *)

Done(o, res, touched, dirty, cmd) == [o |-> o, res |-> res, touched |-> touched, dirty |-> dirty, cmd |-> cmd]

hsetnx(o, field, value, limit) ==
  LET o1 == hashTypeTryConversion(hashTypeLookupWriteOrCreate(o), {field, value}, limit)
      cmd == <<"hsetnx", <<<<field, value>>>>>>
  IN  IF hashTypeExists(o1, field) THEN Done(o1, 0, FALSE, 0, cmd)
      ELSE Done(hashTypeSet(o1, field, value, limit), 1, TRUE, 1, cmd)

\* Pairs set in turn, and how many fields were created.
SetPairs(o, pairs, limit) ==
  FoldLeft(LAMBDA a, p : [o |-> hashTypeSet(a.o, p[1], p[2], limit),
                          created |-> a.created + (IF hashTypeExists(a.o, p[1]) THEN 0 ELSE 1)],
           [o |-> o, created |-> 0], pairs)

hset(o, pairs, limit) ==
  LET o1 == hashTypeTryConversion(hashTypeLookupWriteOrCreate(o),
                                  {p[1] : p \in Range(pairs)} \cup {p[2] : p \in Range(pairs)}, limit)
      a == SetPairs(o1, pairs, limit)
  IN  Done(a.o, a.created, TRUE, 1, <<"hset", pairs>>)

\* The value of a field as a number; 0 if there is no such field.
FieldNumber(o, field) ==
  IF hashTypeExists(o, field) THEN string2ll(hashTypeGetValue(o, field)[1]) ELSE {0}

NotANumber == 100
hincrby(o, field, incr, limit) ==
  LET o1 == hashTypeLookupWriteOrCreate(o)
      cmd == <<"hincrby", <<<<field, ll2string(incr)>>>>>>
      old == FieldNumber(o1, field)
      new == CHOOSE v \in {x + incr : x \in old} : TRUE
  IN  IF \/ old = {}
         \/ \E v \in old : \/ incr < 0 /\ v < 0 /\ incr < minll - v
                           \/ incr > 0 /\ v > 0 /\ incr > conf.maxll - v
      THEN Done(o1, NotANumber, FALSE, 0, cmd)
      ELSE Done(hashTypeSet(o1, field, ll2string(Wrap(new)), limit), Wrap(new), TRUE, 1, cmd)

\* For floats that are integers here.
hincrbyfloat(o, field, incr, limit) ==
  LET o1 == hashTypeLookupWriteOrCreate(o)
      old == FieldNumber(o1, field)
      new == ll2string(CHOOSE v \in {x + incr : x \in old} : TRUE)
  IN  IF old = {} THEN Done(o1, NotANumber, FALSE, 0, <<"none", <<>>>>)
      ELSE Done(hashTypeSet(o1, field, new, limit), CHOOSE v \in {x + incr : x \in old} : TRUE,
                TRUE, 1, <<"hset", <<<<field, new>>>>>>)

\* The fields in turn, until the hash is empty and its key deleted.
DeleteFields(o, fields) ==
  FoldLeft(LAMBDA a, f :
             IF a.o.enc = "none" \/ ~hashTypeExists(a.o, f) THEN a
             ELSE LET o1 == hashTypeDelete(a.o, f)
                  IN  [o |-> IF hashTypeLength(o1) = 0 THEN NoHash ELSE o1, deleted |-> a.deleted + 1],
           [o |-> o, deleted |-> 0], fields)

hdel(o, fields) ==
  LET a == DeleteFields(o, fields)
  IN  Done(a.o, a.deleted, a.deleted > 0, a.deleted, <<"hdel", [p \in DOMAIN fields |-> <<fields[p], <<>>>>]>>)

\* What the replica does with the command it is sent.
Replay(o, cmd) ==
  CASE cmd[1] = "hset" -> hset(o, cmd[2], conf.other).o
    [] cmd[1] = "hsetnx" -> hsetnx(o, cmd[2][1][1], cmd[2][1][2], conf.other).o
    [] cmd[1] = "hincrby" -> hincrby(o, cmd[2][1][1], CHOOSE v \in string2ll(cmd[2][1][2]) : TRUE, conf.other).o
    [] cmd[1] = "hdel" -> hdel(o, [p \in DOMAIN cmd[2] |-> cmd[2][p][1]]).o

-----------------------------------------------------------------------------
IsHash == kind = "hash"
HashInit == [o |-> NoHash, replica |-> NoHash, touched |-> FALSE, dirty |-> 0]

\* A command is propagated if it raised server.dirty.
HashCall(op, arg, d) ==
  /\ IsHash
  /\ Call(op, arg, [o |-> d.o, touched |-> d.touched, dirty |-> d.dirty,
                    replica |-> IF d.dirty > 0 THEN Replay(s.replica, d.cmd) ELSE s.replica], d.res)

HSet(pairs) == HashCall("hset", pairs, hset(s.o, pairs, conf.limit))
HSetNX(f, v) == HashCall("hsetnx", <<f, v>>, hsetnx(s.o, f, v, conf.limit))
HIncrBy(f, n) == HashCall("hincrby", <<f, n>>, hincrby(s.o, f, n, conf.limit))
\* Floats out of the range of the model's integers are left out.
HIncrByFloat(f, n) ==
  /\ IsHash /\ \A v \in FieldNumber(s.o, f) : v + n \in minll..conf.maxll
  /\ HashCall("hincrbyfloat", <<f, n>>, hincrbyfloat(s.o, f, n, conf.limit))
HDel(fields) == HashCall("hdel", fields, hdel(s.o, fields))

HashNext ==
  IsHash /\
    \/ \E f \in conf.fields :
         \/ HDel(<<f>>) \/ \E g \in conf.fields : HDel(<<f, g, f>>)
         \/ \E n \in conf.nums : HIncrBy(f, n) \/ HIncrByFloat(f, n)
         \/ \E v \in conf.texts :
              \/ HSet(<<<<f, v>>>>) \/ HSetNX(f, v)
              \/ \E g \in conf.fields : HSet(<<<<f, v>>, <<g, <<1>>>>>>)

-----------------------------------------------------------------------------
HashMap(o) == FoldLeft(LAMBDA m, p : m @@ (p[1] :> p[2]), <<>>, hashTypeNext(o))

\* A hash is never empty, holds each field once, and is a ziplist only while
\* it has as few entries as the setting allows.
HashShape ==
  IsHash => \A x \in {<<s.o, conf.limit>>, <<s.replica, conf.other>>} :
    /\ x[1].enc # "none" => hashTypeLength(x[1]) > 0
    /\ x[1].enc = "ziplist" => /\ Len(x[1].zl) % 2 = 0
                               /\ Cardinality(DOMAIN HashMap(x[1])) = hashTypeLength(x[1])
                               /\ hashTypeLength(x[1]) <= x[2].entries

\* In either encoding HGET, HSTRLEN, HLEN and HGETALL agree: each pair of an
\* iteration comes once and is what its field has.
HashReads ==
  IsHash => LET all == hashTypeNext(s.o) IN
    /\ Len(all) = hashTypeLength(s.o)
    /\ \A f \in conf.fields :
         LET pairs == {p \in Range(all) : p[1] = f}
         IN  /\ hashTypeGetValue(s.o, f) = IF pairs = {} THEN <<>> ELSE <<(CHOOSE p \in pairs : TRUE)[2]>>
             /\ hashTypeGetValueLength(s.o, f) = IF pairs = {} THEN 0 ELSE Len((CHOOSE p \in pairs : TRUE)[2])

\* The replica, whose encodings may be others, has the same fields and
\* values after each command.
HashReplicaAgrees == IsHash => HashMap(s.replica) = HashMap(s.o)

\* A command that changes the hash tells the clients that watch the key and
\* is propagated.
HashChangeSeen == IsHash /\ HashMap(s'.o) # HashMap(s.o) => s'.touched /\ s'.dirty > 0
=============================================================================
