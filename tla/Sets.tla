-------------------------------- MODULE Sets --------------------------------
(***************************************************************************)
(* t_set.c: the commands on sets, and the same sets on a replica that runs *)
(* what is propagated, with a limit of its own.  A set is an intset or a   *)
(* hash table (Intset and Dict show what these are) and seen here as its   *)
(* encoding and its members.  s.db holds the sets by key, s.replica those  *)
(* of the replica, s.touched the keys the last command signalled as        *)
(* modified and s.dirty how much it raised server.dirty.                   *)
(* conf.ints are the elements that are integers, conf.limit and conf.other *)
(* the settings set-max-intset-entries of the two servers, conf.mul stands *)
(* for SPOP_MOVE_STRATEGY_MUL and SRANDMEMBER_SUB_STRATEGY_MUL.            *)
(***************************************************************************)
EXTENDS Structure, SequencesExt

NoSet == [enc |-> "none", members |-> {}]
createIntsetObject == [enc |-> "intset", members |-> {}]
createSetObject == [enc |-> "ht", members |-> {}]
setTypeCreate(e) == IF e \in conf.ints THEN createIntsetObject ELSE createSetObject
setTypeConvert(o) == [o EXCEPT !.enc = "ht"]
setTypeSize(o) == Cardinality(o.members)

\* An intset finds no element that is not an integer.
setTypeIsMember(o, e) == (o.enc = "ht" \/ e \in conf.ints) /\ e \in o.members

setTypeAdd(o, e, limit) ==
  LET o1 == [o EXCEPT !.members = @ \cup {e}]
  IN  IF o.enc = "ht" THEN o1
      ELSE IF e \notin conf.ints THEN [setTypeConvert(o) EXCEPT !.members = @ \cup {e}]
      ELSE IF e \notin o.members /\ setTypeSize(o1) > limit THEN setTypeConvert(o1)
      ELSE o1
setTypeRemove(o, e) == IF setTypeIsMember(o, e) THEN [o EXCEPT !.members = @ \ {e}] ELSE o

AddAll(o, eles, limit) == FoldLeft(LAMBDA x, e : setTypeAdd(x, e, limit), o, eles)
OrNone(o) == IF setTypeSize(o) = 0 THEN NoSet ELSE o

-----------------------------------------------------------------------------
(* The commands on the sets db of a server: what they leave, the reply,    *)
(* the keys touched, how much dirty grows and what is propagated.          *)

Outcome(db, res, touched, dirty, cmds) ==
  [db |-> db, res |-> res, touched |-> touched, dirty |-> dirty, cmds |-> cmds]
Nothing(db, res) == Outcome(db, res, {}, 0, <<>>)

sadd(db, k, eles, limit) ==
  LET o == IF db[k] = NoSet THEN setTypeCreate(eles[1]) ELSE db[k]
      o1 == AddAll(o, eles, limit)
      added == setTypeSize(o1) - setTypeSize(o)
  IN  Outcome([db EXCEPT ![k] = o1], added, IF added > 0 THEN {k} ELSE {}, added, <<<<"sadd", k, eles>>>>)

\* In turn, until the set is empty and its key deleted.
srem(db, k, eles) ==
  LET o1 == FoldLeft(LAMBDA o, e : setTypeRemove(o, e), db[k], eles)
      deleted == setTypeSize(db[k]) - setTypeSize(o1)
  IN  Outcome([db EXCEPT ![k] = OrNone(o1)], deleted, IF deleted > 0 THEN {k} ELSE {}, deleted,
              <<<<"srem", k, eles>>>>)

\* Mutant: only the source is signalled as modified
MutantMoveSignals(src, dst) == {src}
MoveSignals(src, dst) == {src, dst}

smove(db, src, dst, e, limit) ==
  LET db1 == [db EXCEPT ![src] = OrNone(setTypeRemove(@, e))]
      to == IF db[dst] = NoSet THEN setTypeCreate(e) ELSE db[dst]
      added == IF setTypeIsMember(to, e) THEN 0 ELSE 1
  IN  IF db[src] = NoSet THEN Nothing(db, 0)
      ELSE IF src = dst THEN Nothing(db, IF setTypeIsMember(db[src], e) THEN 1 ELSE 0)
      ELSE IF ~setTypeIsMember(db[src], e) THEN Nothing(db, 0)
      ELSE Outcome([db1 EXCEPT ![dst] = setTypeAdd(to, e, limit)], 1, MoveSignals(src, dst), 1 + added,
                   <<<<"smove", src, dst, e>>>>)

\* SPOP of one element, drawn at random.
spop(db, k, e) ==
  Outcome([db EXCEPT ![k] = OrNone([@ EXCEPT !.members = @ \ {e}])], {e}, {k}, 1, <<<<"srem", k, <<e>>>>>>)

Removals(k, gone) == [j \in 1..Cardinality(gone) |-> <<"srem", k, <<SetToSeq(gone)[j]>>>>]

\* SPOP of count elements, fewer than there are: `drawn' are those removed, or
\* those kept in a new set if they are few.
\* Mutant: the elements drawn are propagated as removed either way
MutantSpopSome(db, k, count, drawn, limit) ==
  LET o == db[k]
      remaining == setTypeSize(o) - count
      gone == IF remaining * conf.mul > count THEN drawn ELSE o.members \ drawn
  IN  Outcome([db EXCEPT ![k] = IF remaining * conf.mul > count THEN [o EXCEPT !.members = @ \ drawn]
                                ELSE AddAll(setTypeCreate(SetToSeq(drawn)[1]), SetToSeq(drawn), limit)],
              gone, {k}, count + 1, Removals(k, drawn))

SpopSome(db, k, count, drawn, limit) ==
  LET o == db[k]
      remaining == setTypeSize(o) - count
      gone == IF remaining * conf.mul > count THEN drawn ELSE o.members \ drawn
  IN  Outcome([db EXCEPT ![k] = IF remaining * conf.mul > count THEN [o EXCEPT !.members = @ \ drawn]
                                ELSE AddAll(setTypeCreate(SetToSeq(drawn)[1]), SetToSeq(drawn), limit)],
              gone, {k}, count + 1, Removals(k, gone))

\* The sets of elements that may be drawn.
SpopDraws(o, count) ==
  LET remaining == setTypeSize(o) - count
  IN  kSubset(IF remaining * conf.mul > count THEN count ELSE remaining, o.members)

spopWithCount(db, k, count, drawn, limit) ==
  IF db[k] = NoSet \/ count = 0 THEN Nothing(db, {})
  ELSE IF count >= setTypeSize(db[k])
  THEN Outcome([db EXCEPT ![k] = NoSet], db[k].members, {k}, count + 1, <<<<"del", k>>>>)
  ELSE SpopSome(db, k, count, drawn, limit)

\* The replies SRANDMEMBER with a positive count may give.
srandmemberWithCount(o, count) ==
  LET size == setTypeSize(o)
  IN  IF count = 0 \/ o = NoSet THEN {{}}
      ELSE IF count >= size THEN {o.members}
      ELSE IF count * conf.mul > size THEN {o.members \ r : r \in kSubset(size - count, o.members)}
      ELSE kSubset(count, o.members)

-----------------------------------------------------------------------------
(* Intersections, unions and differences of the sets of the keys ks *)

BySize(os) == SortSeq(os, LAMBDA a, b : setTypeSize(a[2]) < setTypeSize(b[2]))
ByRevSize(os) == SortSeq(os, LAMBDA a, b : setTypeSize(a[2]) > setTypeSize(b[2]))
\* The keys, which tell whether two sets are the same object, and the sets.
Sources(db, ks) == [j \in DOMAIN ks |-> <<ks[j], db[ks[j]]>>]

\* The members of the smallest set that no other set lacks.
InterOf(os, limit) ==
  AddAll(createIntsetObject,
         SetToSeq({e \in os[1][2].members :
                     \A j \in 2..Len(os) : os[j][1] = os[1][1] \/ setTypeIsMember(os[j][2], e)}), limit)
sinter(db, ks, limit) ==
  IF \E j \in DOMAIN ks : db[ks[j]] = NoSet THEN NoSet ELSE InterOf(BySize(Sources(db, ks)), limit)

sunion(db, ks, limit) ==
  FoldLeft(LAMBDA o, k : AddAll(o, SetToSeq(db[k].members), limit), createIntsetObject, ks)

Present(db, ks) == SelectSeq(ks, LAMBDA k : db[k] # NoSet)
\* Each element of the first set is looked up in the others.
DiffOne(os, limit) ==
  AddAll(createIntsetObject,
         SetToSeq({e \in os[1][2].members :
                     \A j \in 2..Len(os) : os[j][1] # os[1][1] /\ ~setTypeIsMember(os[j][2], e)}), limit)
\* The elements of the others are removed from a copy of the first.
DiffTwo(os, limit) ==
  FoldLeft(LAMBDA o, x : FoldLeft(LAMBDA y, e : setTypeRemove(y, e), o, SetToSeq(x[2].members)),
           AddAll(createIntsetObject, SetToSeq(os[1][2].members), limit), Tail(os))
sdiff(db, ks, limit) ==
  LET there == Present(db, ks)
      one == (setTypeSize(db[ks[1]]) * Len(there)) \div 2
      two == FoldLeft(LAMBDA n, k : n + setTypeSize(db[k]), 0, there)
      os == Sources(db, there)
  IN  IF db[ks[1]] = NoSet THEN NoSet
      ELSE IF one <= two THEN DiffOne(<<os[1]>> \o ByRevSize(Tail(os)), limit)
      ELSE DiffTwo(os, limit)

Combine(op, db, ks, limit) ==
  IF op = "inter" THEN sinter(db, ks, limit)
  ELSE IF op = "union" THEN sunion(db, ks, limit) ELSE sdiff(db, ks, limit)

\* The result replaces what the destination held.  An intersection with a key
\* that does not exist changes and signals the destination only if it exists.
StoreResult(op, db, dst, ks, limit) ==
  LET o == Combine(op, db, ks, limit)
      none == op = "inter" /\ \E j \in DOMAIN ks : db[ks[j]] = NoSet
  IN  IF none /\ db[dst] = NoSet THEN Nothing(db, 0)
      ELSE Outcome([db EXCEPT ![dst] = OrNone(o)], setTypeSize(o), {dst}, 1, <<<<"store", op, dst, ks>>>>)

\* What a server does with a command it is sent.
ReplaySets(db, cmd, limit) ==
  CASE cmd[1] = "sadd" -> sadd(db, cmd[2], cmd[3], limit).db
    [] cmd[1] = "srem" -> srem(db, cmd[2], cmd[3]).db
    [] cmd[1] = "smove" -> smove(db, cmd[2], cmd[3], cmd[4], limit).db
    [] cmd[1] = "del" -> [db EXCEPT ![cmd[2]] = NoSet]
    [] cmd[1] = "store" -> StoreResult(cmd[2], db, cmd[3], cmd[4], limit).db

-----------------------------------------------------------------------------
IsSets == kind = "sets"
SetsInit == LET db == [k \in conf.keys |-> NoSet] IN [db |-> db, replica |-> db, touched |-> {}, dirty |-> 0]

\* What is propagated, if the command raised server.dirty, goes to the replica.
SetCall(op, arg, d) ==
  /\ IsSets
  /\ Call(op, arg, [db |-> d.db, touched |-> d.touched, dirty |-> d.dirty,
                    replica |-> IF d.dirty = 0 THEN s.replica
                                ELSE FoldLeft(LAMBDA r, c : ReplaySets(r, c, conf.other), s.replica, d.cmds)], d.res)

SAdd(k, eles) == SetCall("sadd", <<k, eles>>, sadd(s.db, k, eles, conf.limit))
SRem(k, eles) == SetCall("srem", <<k, eles>>, srem(s.db, k, eles))
SMove(src, dst, e) == SetCall("smove", <<src, dst, e>>, smove(s.db, src, dst, e, conf.limit))
SPop(k) ==
  IF s.db[k] = NoSet THEN SetCall("spop", <<k, 1>>, Nothing(s.db, {}))
  ELSE \E e \in s.db[k].members : SetCall("spop", <<k, 1>>, spop(s.db, k, e))
SPopCount(k, count) ==
  \E drawn \in IF count < setTypeSize(s.db[k]) THEN SpopDraws(s.db[k], count) ELSE {{}} :
    SetCall("spop", <<k, count>>, spopWithCount(s.db, k, count, drawn, conf.limit))
SStore(op, dst, ks) == SetCall("store", <<op, dst, ks>>, StoreResult(op, s.db, dst, ks, conf.limit))

SetsNext ==
  IsSets /\ \E k \in conf.keys :
    \/ \E eles \in conf.adds : SAdd(k, eles) \/ SRem(k, eles)
    \/ \E l \in conf.keys, e \in conf.eles : SMove(k, l, e)
    \/ SPop(k) \/ \E n \in conf.counts : SPopCount(k, n)
    \/ \E op \in {"inter", "union", "diff"}, ks \in conf.srcs : SStore(op, k, ks)

-----------------------------------------------------------------------------
\* No key holds an empty set, and an intset has integers only, not more of
\* them than the setting allows.
SetsShape ==
  IsSets => \A k \in conf.keys : \A x \in {<<s.db[k], conf.limit>>, <<s.replica[k], conf.other>>} :
    /\ x[1] # NoSet => x[1].members # {}
    /\ x[1].enc = "intset" => x[1].members \subseteq conf.ints /\ setTypeSize(x[1]) <= x[2]

\* SINTER, SUNION and SDIFF reply with the intersection, the union and the
\* difference, whatever the order in which the sets are tried and the
\* algorithm chosen; SRANDMEMBER replies with as many different members as
\* asked for, or with all.
SetReads ==
  IsSets =>
    /\ \A ks \in conf.srcs :
         LET of == [j \in DOMAIN ks |-> s.db[ks[j]].members]
         IN  /\ sinter(s.db, ks, conf.limit).members = {e \in of[1] : \A j \in DOMAIN of : e \in of[j]}
             /\ sunion(s.db, ks, conf.limit).members = UNION Range(of)
             /\ sdiff(s.db, ks, conf.limit).members = of[1] \ UNION Range(Tail(of))
    /\ \A k \in conf.keys, n \in conf.counts : \A res \in srandmemberWithCount(s.db[k], n) :
         res \subseteq s.db[k].members /\ Cardinality(res) = Min({n, setTypeSize(s.db[k])})

\* The replica has the same members after each command, though SPOP draws at
\* random and the encodings may differ.
SetReplicaAgrees == IsSets => \A k \in conf.keys : s.replica[k].members = s.db[k].members

\* A command that changes the members of a set tells the clients that watch
\* its key and is propagated.
SetChangeSeen ==
  IsSets => \A k \in conf.keys : s'.db[k].members # s.db[k].members => k \in s'.touched /\ s'.dirty > 0
=============================================================================
