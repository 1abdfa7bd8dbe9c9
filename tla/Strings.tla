------------------------------ MODULE Strings ------------------------------
(***************************************************************************)
(* t_string.c: the commands on strings, sent by a client or called by a    *)
(* script.  Each takes the memory with its arguments and yields            *)
(* [m |-> memory, res |-> reply]; the reply Failed is an error.            *)
(* conf.texts are the texts given, conf.nums the increments, conf.at the   *)
(* offsets.                                                                *)
(***************************************************************************)
EXTENDS Objects

Failed == <<>>
Reply(m, res) == [m |-> m, res |-> res]
Absent(m, k) == m.db[k] = NoObj
Encoded(m, pos) == LET t == tryObjectEncoding(m, m.argv[pos]) IN [t[1] EXCEPT !.argv[pos] = t[2]]

\* Mutant: the time to live is set before the value
MutantSetLate(m, k, flags) ==
  IF ("nx" \in flags /\ ~Absent(m, k)) \/ ("xx" \in flags /\ Absent(m, k)) THEN Reply(m, <<0>>)
  ELSE Reply(setKey(IF "ex" \in flags THEN setExpire(m, k) ELSE m, k, m.argv[2]), <<1>>)

setGeneric(m, k, flags) ==
  IF ("nx" \in flags /\ ~Absent(m, k)) \/ ("xx" \in flags /\ Absent(m, k)) THEN Reply(m, <<0>>)
  ELSE LET m1 == setKey(m, k, m.argv[2])
       IN  Reply(IF "ex" \in flags THEN setExpire(m1, k) ELSE m1, <<1>>)
set(m, k, flags) == setGeneric(Encoded(m, 2), k, flags)

Get(m, k) == IF Absent(m, k) THEN <<>> ELSE <<m.heap[m.db[k]].text>>

getset(m, k) == LET m1 == Encoded(m, 2) IN Reply(setKey(m1, k, m1.argv[2]), Get(m, k))

\* sdsgrowzero and sdscatlen make room for twice what is needed.
Resized(o, text) ==
  [o EXCEPT !.text = text, !.alloc = IF @ >= Len(text) THEN @ ELSE 2 * Len(text)]
Overwritten(text, offset, value) ==
  LET long == IF offset + Len(value) <= Len(text) THEN text
              ELSE text \o [p \in 1..(offset + Len(value) - Len(text)) |-> ZeroByte]
  IN  SubSeq(long, 1, offset) \o value \o SubSeq(long, offset + Len(value) + 1, Len(long))

Patch(u, offset, value) ==
  LET new == Resized(u[1].heap[u[2]], Overwritten(u[1].heap[u[2]].text, offset, value))
  IN  Reply([u[1] EXCEPT !.heap[u[2]] = new], <<Len(new.text)>>)

setrange(m, k, offset) ==
  LET value == m.heap[m.argv[3]].text
  IN  IF offset < 0 THEN Reply(m, Failed)
      ELSE IF value = <<>> THEN Reply(m, <<IF Absent(m, k) THEN 0 ELSE stringObjectLen(m.heap[m.db[k]])>>)
      ELSE IF offset + Len(value) > conf.maxlen THEN Reply(m, Failed)
      ELSE IF Absent(m, k)
      THEN Patch(<<dbAdd(New(m, createRawStringObject([p \in 1..(offset + Len(value)) |-> ZeroByte])), k, Fresh(m)),
                   Fresh(m)>>, offset, value)
      ELSE Patch(dbUnshareStringValue(m, k), offset, value)

append(m, k) ==
  LET add == m.heap[m.argv[2]].text
      m1 == Encoded(m, 2)
  IN  IF Absent(m, k)
      THEN Reply(incrRefCount(dbAdd(m1, k, m1.argv[2]), m1.argv[2]), <<stringObjectLen(m1.heap[m1.argv[2]])>>)
      ELSE LET len == stringObjectLen(m.heap[m.db[k]])
           IN  IF len + Len(add) > conf.maxlen THEN Reply(m, Failed)
               ELSE Patch(dbUnshareStringValue(m, k), len, add)

Overflows(old, incr) ==
  (incr < 0 /\ old < 0 /\ incr < minll - old) \/ (incr > 0 /\ old > 0 /\ incr > conf.maxll - old)

Stored(t, k) == Reply(AddOrOverwrite(t[1], k, t[2]), t[1].heap[t[2]].text)

incrDecr(m, k, incr) ==
  LET old == IF Absent(m, k) THEN {0} ELSE string2ll(m.heap[m.db[k]].text)
      value == Wrap(CHOOSE v \in {x + incr : x \in old} : TRUE)
      inplace == /\ ~Absent(m, k) /\ m.heap[m.db[k]].ref = 1 /\ m.heap[m.db[k]].enc = "int"
                 /\ value \notin 0..(conf.shared - 1)
  IN  IF old = {} \/ \E v \in old : Overflows(v, incr) THEN Reply(m, Failed)
      ELSE IF inplace THEN Reply([m EXCEPT !.heap[m.db[k]].text = ll2string(value)], ll2string(value))
      ELSE Stored(createStringObjectFromLongLong(m, value), k)

\* The result, a text, replaces the increment among the arguments.
Propagated(m, k, i) == Reply(Rewritten(AddOrOverwrite(m, k, i), 2, i), m.heap[i].text)
incrbyfloat(m, k, incr) ==
  LET old == IF Absent(m, k) THEN {0} ELSE string2ll(m.heap[m.db[k]].text)
  IN  IF old = {} THEN Reply(m, Failed)
      ELSE Propagated(New(m, createStringObject(ll2string(CHOOSE v \in {x + incr : x \in old} : TRUE))), k, Fresh(m))

\* Keys and arguments 2 and 4 in turn.
mset(m, ks, nx) ==
  IF nx /\ \E j \in DOMAIN ks : ~Absent(m, ks[j]) THEN Reply(m, <<0>>)
  ELSE Reply(FoldLeft(LAMBDA n, j : LET n1 == Encoded(n, 2 * j) IN setKey(n1, ks[j], n1.argv[2 * j]),
                      m, [j \in DOMAIN ks |-> j]), <<1>>)

getrange(m, k, start, end) ==
  LET text == IF Absent(m, k) THEN <<>> ELSE m.heap[m.db[k]].text
      len == Len(text)
      Clamp(i) == IF i >= 0 THEN i ELSE IF len + i < 0 THEN 0 ELSE len + i
      last1 == IF Clamp(end) >= len THEN len - 1 ELSE Clamp(end)
  IN  IF (start < 0 /\ end < 0 /\ start > end) \/ Clamp(start) > last1 \/ len = 0 THEN <<>>
      ELSE SubSeq(text, Clamp(start) + 1, last1 + 1)

-----------------------------------------------------------------------------
IsStrings == kind = "strings"
OnObjects == kind \in {"strings", "bits"}
StringsInit ==
  [heap |-> [i \in 0..(conf.shared - 1) |-> [Object("int", ll2string(i)) EXCEPT !.ref = SharedRef]],
   db |-> [k \in conf.keys |-> NoObj], expires |-> {}, argv |-> <<>>, cache |-> [p \in 2..4 |-> NoObj]]

\* A command with arguments given, a sequence of <<position, text>>.
Run(op, arg, via, given, Command(_)) ==
  /\ IsStrings
  /\ \E r \in {Command(Arguments(s, via, given))} : Call(op, arg, Released(r.m, via, given), r.res)

Set(via, k, t, flags) == Run("set", <<k, t, flags>>, via, <<<<2, t>>>>, LAMBDA m : set(m, k, flags))
GetSet(via, k, t) == Run("getset", <<k, t>>, via, <<<<2, t>>>>, LAMBDA m : getset(m, k))
SetRange(via, k, t, i) ==
  Run("setrange", <<k, t, i>>, via, <<<<2, <<1>>>>, <<3, t>>>>, LAMBDA m : setrange(m, k, i))
Append2(via, k, t) == Run("append", <<k, t>>, via, <<<<2, t>>>>, LAMBDA m : append(m, k))
IncrBy(via, k, n) == Run("incrby", <<k, n>>, via, <<<<2, ll2string(n)>>>>, LAMBDA m : incrDecr(m, k, n))
\* The increment is negated without a check: the least value stays what it is.
DecrBy(via, k, n) == Run("decrby", <<k, n>>, via, <<<<2, ll2string(n)>>>>, LAMBDA m : incrDecr(m, k, Wrap(-n)))
\* The model has floats that are small integers only.
IncrByFloat(via, k, n) ==
  /\ \A t \in Range(Get(s, k)) : \A v \in string2ll(t) : v + n \in minll..conf.maxll
  /\ Run("float", <<k, n>>, via, <<<<2, ll2string(n)>>>>, LAMBDA m : incrbyfloat(m, k, n))
MSet(via, ks, t, u, nx) ==
  Run("mset", <<ks, <<t, u>>, nx>>, via, <<<<2, t>>, <<4, u>>>>, LAMBDA m : mset(m, ks, nx))
Del(k) == IsStrings /\ Call("del", <<k>>, dbDelete(s, k), <<IF Absent(s, k) THEN 0 ELSE 1>>)

StringsNext ==
  IsStrings /\ \E k \in conf.keys :
    \/ Del(k)
    \/ \E via \in conf.vias :
         \/ \E t \in conf.texts :
              \/ \E flags \in conf.flags : Set(via, k, t, flags)
              \/ GetSet(via, k, t) \/ Append2(via, k, t)
              \/ \E i \in conf.at : SetRange(via, k, t, i)
              \/ \E l \in conf.keys, nx \in conf.nxs : MSet(via, <<k, l>>, t, <<1>>, nx)
         \/ \E n \in conf.nums : IncrBy(via, k, n) \/ DecrBy(via, k, n) \/ IncrByFloat(via, k, n)

-----------------------------------------------------------------------------
\* The references an object has.
References(i) == Cardinality({k \in conf.keys : s.db[k] = i}) + Cardinality({p \in DOMAIN s.cache : s.cache[p] = i})

\* Between two commands an object is in memory exactly while a key or the
\* cache of the scripts refers to it, its count is the number of these
\* references, its text fits its block, and the shared integers are what
\* they were at startup.
RefCounts ==
  OnObjects => \A i \in DOMAIN s.heap :
    IF i < conf.shared
    THEN s.heap[i] = [Object("int", ll2string(i)) EXCEPT !.ref = SharedRef]
    ELSE /\ s.heap[i].ref = References(i) /\ s.heap[i].ref > 0
         /\ s.heap[i].enc = "int" => string2ll(s.heap[i].text) # {}
         /\ s.heap[i].enc # "int" => Len(s.heap[i].text) <= s.heap[i].alloc

\* GETRANGE cuts a value in two at any place, and STRLEN is the length of
\* what GET returns, whatever the encoding.
StringReads ==
  OnObjects => \A k \in conf.keys :
    /\ \A i \in 0..conf.maxlen : getrange(s, k, 0, i) \o getrange(s, k, i + 1, -1) = getrange(s, k, 0, -1)
    /\ ~Absent(s, k) => /\ stringObjectLen(s.heap[s.db[k]]) = Len(Get(s, k)[1])
                        /\ getrange(s, k, 0, -1) = Get(s, k)[1]
=============================================================================
