-------------------------------- MODULE Dict --------------------------------
(***************************************************************************)
(* dict.c: the hash table with incremental rehashing that holds every      *)
(* keyspace, set, hash and index of the server, its safe iterator and its  *)
(* stateless scan.                                                         *)
(*                                                                         *)
(* A table is a function from bucket numbers to chains; an entry of a      *)
(* chain is <<key, value>>.  conf.hash gives the hash of each key,         *)
(* conf.initial is DICT_HT_INITIAL_SIZE, conf.visits the empty buckets one *)
(* step of rehashing may visit (10 in the code), conf.ratio is             *)
(* dict_force_resize_ratio and conf.fill is HASHTABLE_MIN_FILL.            *)
(* In the state of a behaviour of kind "dict",                             *)
(*   d       the dictionary: two tables, rehashidx, iterators;             *)
(*   resize  dict_can_resize;                                              *)
(*   walk    "idle", or the walk in progress: "scan", "iterate";           *)
(*   cursor  the cursor the last dictScan returned;                        *)
(*   it      the iterator: index, table, entry and nextEntry (chains of    *)
(*           length at most one, holding the key pointed to);              *)
(*   must    the keys present since the walk began and not yet returned;   *)
(*   given   the keys this iteration returned, and not deleted since;      *)
(*   missed, twice  the keys a finished walk missed, or an iterator        *)
(*           returned two times.                                           *)
(***************************************************************************)
EXTENDS Structure, SequencesExt

NoTable == [table |-> <<>>, used |-> 0]

dictCreate == [ht |-> <<NoTable, NoTable>>, rehashidx |-> -1, iterators |-> 0]

TableSize(t) == Cardinality(DOMAIN t.table)
dictIsRehashing(d) == d.rehashidx # -1
dictSize(d) == d.ht[1].used + d.ht[2].used
Tables(d) == IF dictIsRehashing(d) THEN {1, 2} ELSE {1}

\* The bucket of key k in table t: its hash and the size mask.
Bucket(t, k) == conf.hash[k] % TableSize(t)
Chain(t, k) == IF TableSize(t) = 0 THEN <<>> ELSE t.table[Bucket(t, k)]
KeysOf(chain) == {chain[i][1] : i \in DOMAIN chain}
HasKey(t, k) == k \in KeysOf(Chain(t, k))

Chains(t) == Range(t.table)
DictKeys(d) == UNION {KeysOf(c) : c \in Chains(d.ht[1]) \cup Chains(d.ht[2])}
DictVal(d, k) ==
  LET t == CHOOSE t \in {1, 2} : HasKey(d.ht[t], k)
      c == Chain(d.ht[t], k)
  IN  c[CHOOSE i \in DOMAIN c : c[i][1] = k][2]
DictMap(d) == [k \in DictKeys(d) |-> DictVal(d, k)]

-----------------------------------------------------------------------------
(* Growing, shrinking and rehashing. *)

_dictNextPower(n) ==
  conf.initial * 2 ^ (CHOOSE e \in 0..n : /\ conf.initial * 2 ^ e >= n
                                          /\ \A x \in 0..(e - 1) : conf.initial * 2 ^ x < n)

\* <<the dictionary, DICT_OK?>>
dictExpand(d, size) ==
  LET realsize == _dictNextPower(size)
      n == [table |-> [b \in 0..(realsize - 1) |-> <<>>], used |-> 0]
  IN  IF dictIsRehashing(d) \/ d.ht[1].used > size \/ realsize = TableSize(d.ht[1])
      THEN <<d, FALSE>>
      ELSE IF TableSize(d.ht[1]) = 0
      THEN <<[d EXCEPT !.ht[1] = n], TRUE>>
      ELSE <<[d EXCEPT !.ht[2] = n, !.rehashidx = 0], TRUE>>

dictResize(d, can) ==
  IF ~can \/ dictIsRehashing(d) THEN d
  ELSE dictExpand(d, IF d.ht[1].used < conf.initial THEN conf.initial ELSE d.ht[1].used)[1]

_dictExpandIfNeeded(d, can) ==
  LET used == d.ht[1].used
      size == TableSize(d.ht[1])
  IN  IF dictIsRehashing(d) THEN <<d, TRUE>>
      ELSE IF size = 0 THEN dictExpand(d, conf.initial)
      ELSE IF used >= size /\ (can \/ used \div size > conf.ratio)
      THEN dictExpand(d, used * 2)
      ELSE <<d, TRUE>>

\* One entry goes to the head of its chain in the new table.
MoveEntry(d, e) ==
  [d EXCEPT !.ht[1].used = @ - 1, !.ht[2].used = @ + 1,
            !.ht[2].table[Bucket(d.ht[2], e[1])] = <<e>> \o @]

MoveBucket(d) ==
  LET i == d.rehashidx
      e == FoldLeft(MoveEntry, d, d.ht[1].table[i])
  IN  [e EXCEPT !.ht[1].table[i] = <<>>, !.rehashidx = i + 1]

\* The empty buckets that follow rehashidx in the old table.
EmptyAhead(d) == CHOOSE n \in 0..TableSize(d.ht[1]) :
             /\ d.ht[1].table[d.rehashidx + n] # <<>>
             /\ \A m \in 0..(n - 1) : d.ht[1].table[d.rehashidx + m] = <<>>

RehashDone(d) ==
  IF d.ht[1].used = 0
  THEN [d EXCEPT !.ht = <<@[2], NoTable>>, !.rehashidx = -1]
  ELSE d

RECURSIVE RehashBuckets(_, _, _)
RehashBuckets(d, n, visits) ==
  IF n = 0 \/ d.ht[1].used = 0 THEN RehashDone(d)
  ELSE IF EmptyAhead(d) >= visits THEN [d EXCEPT !.rehashidx = @ + visits]
  ELSE RehashBuckets(MoveBucket([d EXCEPT !.rehashidx = @ + EmptyAhead(d)]), n - 1, visits - EmptyAhead(d))

dictRehash(d, n) == IF dictIsRehashing(d) THEN RehashBuckets(d, n, n * conf.visits) ELSE d

_dictRehashStep(d) == IF d.iterators = 0 THEN dictRehash(d, 1) ELSE d

-----------------------------------------------------------------------------
(* The interface on keys. *)

\* [d, res: was the key added, at: the table that holds the key]
dictAddRaw(d, can, k, v) ==
  LET d1 == _dictRehashStep(d)
      e == _dictExpandIfNeeded(d1, can)
      d2 == e[1]
      t == IF dictIsRehashing(d2) THEN 2 ELSE 1
  IN  IF ~e[2] \/ \E x \in Tables(d2) : HasKey(d2.ht[x], k)
      THEN [d |-> d2, res |-> FALSE]
      ELSE [d |-> [d2 EXCEPT !.ht[t].used = @ + 1,
                             !.ht[t].table[Bucket(d2.ht[t], k)] = <<<<k, v>>>> \o @],
            res |-> TRUE]

SetValue(d, k, v) ==
  LET t == CHOOSE t \in Tables(d) : HasKey(d.ht[t], k)
  IN  [d EXCEPT !.ht[t].table[Bucket(d.ht[t], k)] =
         [i \in DOMAIN @ |-> IF @[i][1] = k THEN <<k, v>> ELSE @[i]]]

dictReplace(d, can, k, v) ==
  LET a == dictAddRaw(d, can, k, v)
  IN  IF a.res THEN a ELSE [d |-> SetValue(a.d, k, v), res |-> FALSE]

dictGenericDelete(d, k) ==
  LET d1 == _dictRehashStep(d)
      found == {t \in Tables(d1) : HasKey(d1.ht[t], k)}
      t == IF 1 \in found THEN 1 ELSE 2
  IN  IF dictSize(d) = 0 THEN [d |-> d, res |-> FALSE]
      ELSE IF found = {} THEN [d |-> d1, res |-> FALSE]
      ELSE [d |-> [d1 EXCEPT !.ht[t].used = @ - 1,
                             !.ht[t].table[Bucket(d1.ht[t], k)] =
                               SelectSeq(@, LAMBDA e : e[1] # k)],
            res |-> TRUE]


dictFind(d, k) ==
  LET d1 == IF dictSize(d) = 0 THEN d ELSE _dictRehashStep(d)
      found == {t \in Tables(d1) : HasKey(d1.ht[t], k)}
  IN  [d |-> d1, res |-> {DictVal(d1, k) : t \in found}]

\* The keys the random indexes of dictGetRandomKey can lead to.
dictGetRandomKey(d) ==
  LET d1 == _dictRehashStep(d)
      n == TableSize(d1.ht[1])
      h == IF dictIsRehashing(d1) THEN d1.rehashidx..(n + TableSize(d1.ht[2]) - 1) ELSE 0..(n - 1)
  IN  [d |-> d1, res |-> UNION {KeysOf(IF i >= n THEN d1.ht[2].table[i - n]
                                                  ELSE d1.ht[1].table[i]) : i \in h}]

-----------------------------------------------------------------------------
(* Walking the table. *)

\* The cursor has conf.bits bits (64 in the code), at least those of the
\* largest table; rev reverses them.
CursorBit(v, i) == (v \div 2 ^ i) % 2
rev(v) == LET w == conf.bits IN
          SumFunctionOnSet([i \in 0..(w - 1) |-> CursorBit(v, i) * 2 ^ (w - 1 - i)], 0..(w - 1))

\* Mutant: the cursor counts upwards from the low bits
MutantForward(v, n) == ((v % n) + 1) % n

\* v |= ~mask; v = rev(v); v++; v = rev(v), for the mask of a table of n buckets.
NextCursor(v, n) ==
  rev((rev((v % n) + (2 ^ conf.bits - n)) + 1) % 2 ^ conf.bits)

\* The expansions of the cursor in the larger table: the keys emitted and the
\* cursor after the last one.
RECURSIVE Expansions(_, _, _, _)
Expansions(t1, n0, v, keys) ==
  LET n1 == TableSize(t1)
      emitted == keys \cup KeysOf(t1.table[v % n1])
      next == NextCursor(v, n1)
  IN  IF (next % n1) \div n0 # 0 THEN Expansions(t1, n0, next, emitted)
      ELSE [keys |-> emitted, cursor |-> next]

dictScan(d, v) ==
  LET small == IF TableSize(d.ht[1]) > TableSize(d.ht[2]) THEN 2 ELSE 1
      t0 == d.ht[small]
      t == d.ht[1]
  IN  IF dictSize(d) = 0 THEN [keys |-> {}, cursor |-> 0]
      ELSE IF ~dictIsRehashing(d)
      THEN [keys |-> KeysOf(t.table[v % TableSize(t)]), cursor |-> NextCursor(v, TableSize(t))]
      ELSE Expansions(d.ht[3 - small], TableSize(t0), v, KeysOf(t0.table[v % TableSize(t0)]))

NoIterator == [index |-> -1, table |-> 1, entry |-> <<>>, nextEntry |-> <<>>]

\* The keys of the entry that follows key k in its chain.
EntryAfter(d, k) ==
  LET t == CHOOSE t \in {1, 2} : HasKey(d.ht[t], k)
      c == Chain(d.ht[t], k)
      i == CHOOSE i \in DOMAIN c : c[i][1] = k
  IN  IF i = Len(c) THEN <<>> ELSE <<c[i + 1][1]>>

\* The key at the head of bucket i of table t.
ChainHead(d, t, i) == LET c == d.ht[t].table[i] IN IF c = <<>> THEN <<>> ELSE <<c[1][1]>>

\* dictNext: the entry saved when the last one was returned, or the head of
\* the next bucket that has one; it.entry is <<>> at the end of the tables.
RECURSIVE NextEntry(_, _)
NextEntry(d, it) ==
  LET over == it.index + 1 >= TableSize(d.ht[it.table])
      t == IF over THEN 2 ELSE it.table
      i == IF over THEN 0 ELSE it.index + 1
      e == IF it.entry = <<>> THEN ChainHead(d, t, i) ELSE it.nextEntry
      at == IF it.entry = <<>> THEN [it EXCEPT !.table = t, !.index = i] ELSE it
  IN  IF it.entry = <<>> /\ over /\ (~dictIsRehashing(d) \/ it.table = 2)
      THEN [it EXCEPT !.index = @ + 1]
      ELSE IF e = <<>> THEN NextEntry(d, [at EXCEPT !.entry = <<>>])
      ELSE [at EXCEPT !.entry = e, !.nextEntry = EntryAfter(d, e[1])]

dictNext(d, it) ==
  LET d1 == IF it.index = -1 /\ it.table = 1 THEN [d EXCEPT !.iterators = @ + 1] ELSE d
  IN  [d |-> d1, it |-> NextEntry(d1, it)]

dictReleaseIterator(d, it) ==
  IF it.index = -1 /\ it.table = 1 THEN d ELSE [d EXCEPT !.iterators = @ - 1]

-----------------------------------------------------------------------------
(* The actions. *)

DictInit ==
  [d |-> dictCreate, resize |-> TRUE, walk |-> "idle", cursor |-> 0, it |-> NoIterator,
   must |-> {}, given |-> {}, missed |-> {}, twice |-> {}]

IsDict == kind = "dict"
WithDict(d) == [s EXCEPT !.d = d]

AddKey(k, v) ==
  /\ IsDict
  /\ LET a == dictAddRaw(s.d, s.resize, k, v) IN Call("add", <<k, v>>, WithDict(a.d), a.res)

ReplaceKey(k, v) ==
  /\ IsDict
  /\ LET a == dictReplace(s.d, s.resize, k, v) IN Call("replace", <<k, v>>, WithDict(a.d), a.res)

\* While an iterator is open only the entry it returned may be deleted: the
\* iterator holds a pointer to the next one.
DeleteKey(k) ==
  /\ IsDict
  /\ s.walk = "iterate" => s.it.entry = <<k>> \/ ~(k \in DictKeys(s.d))
  /\ LET a == dictGenericDelete(s.d, k)
     IN  Call("delete", <<k>>, [WithDict(a.d) EXCEPT !.must = @ \ {k}, !.given = @ \ {k}], a.res)

FindKey(k) ==
  /\ IsDict
  /\ LET a == dictFind(s.d, k) IN Call("find", <<k>>, WithDict(a.d), a.res)

RandomKey ==
  /\ IsDict
  /\ dictSize(s.d) > 0
  /\ LET a == dictGetRandomKey(s.d) IN Call("random", <<>>, WithDict(a.d), a.res)

dictEmpty ==
  /\ IsDict
  /\ s.walk # "iterate"
  /\ Call("clear", <<>>, [WithDict(dictCreate) EXCEPT !.must = {}], TRUE)

\* The cron of the server, between two events, so with no iterator open:
\* a table that is too empty is shrunk, and a rehashing goes on for a
\* while, 100 buckets at a time.
htNeedsResize(d) ==
  LET size == TableSize(d.ht[1]) + TableSize(d.ht[2])
  IN  size > conf.initial /\ (dictSize(d) * 100) \div size < conf.fill
ShrinkCron ==
  /\ IsDict
  /\ s.walk # "iterate"
  /\ htNeedsResize(s.d)
  /\ Quiet(WithDict(dictResize(s.d, s.resize)))
RehashCron ==
  /\ IsDict
  /\ s.walk # "iterate"
  /\ dictIsRehashing(s.d)
  /\ Quiet(WithDict(dictRehash(s.d, 100)))

\* dictEnableResize and dictDisableResize, as a saving child ends or starts.
updateDictResizePolicy ==
  /\ IsDict
  /\ conf.children
  /\ Quiet([s EXCEPT !.resize = ~@])

\* A caller scans, keeping only the cursor between two calls.
ScanStep ==
  /\ IsDict
  /\ s.walk = "scan" \/ (s.walk = "idle" /\ conf.walk = "scan")
  /\ LET first == s.walk = "idle"
         r == dictScan(s.d, IF first THEN 0 ELSE s.cursor)
         must == (IF first THEN DictKeys(s.d) ELSE s.must) \ r.keys
     IN  Quiet([s EXCEPT !.cursor = r.cursor,
                         !.walk = IF r.cursor = 0 THEN "idle" ELSE "scan",
                         !.must = IF r.cursor = 0 THEN {} ELSE must,
                         !.missed = IF r.cursor = 0 THEN must ELSE {}])

GetSafeIterator ==
  /\ IsDict
  /\ s.walk = "idle" /\ conf.walk = "iterate"
  /\ Quiet([s EXCEPT !.walk = "iterate", !.it = NoIterator, !.must = DictKeys(s.d),
                      !.given = {}, !.missed = {}])

\* The iterator moves, and is released when it returns no entry.
NextStep ==
  /\ IsDict
  /\ s.walk = "iterate"
  /\ LET r == dictNext(s.d, s.it)
         k == {r.it.entry[i] : i \in DOMAIN r.it.entry}
     IN  Quiet(IF k # {}
               THEN [s EXCEPT !.d = r.d, !.it = r.it, !.must = @ \ k, !.given = @ \cup k,
                              !.twice = k \cap s.given]
               ELSE [s EXCEPT !.d = dictReleaseIterator(r.d, r.it), !.it = NoIterator,
                              !.walk = "idle", !.must = {}, !.given = {}, !.missed = s.must])

DictNext ==
  \/ \E k \in conf.keys :
       \/ DeleteKey(k) \/ FindKey(k)
       \/ \E v \in conf.vals : AddKey(k, v) \/ ReplaceKey(k, v)
  \/ RandomKey \/ dictEmpty
  \/ ShrinkCron \/ RehashCron \/ updateDictResizePolicy
  \/ ScanStep \/ GetSafeIterator \/ NextStep

-----------------------------------------------------------------------------
(* Properties. *)

\* Between two calls every key is in the bucket its hash names, in one table
\* only and once, the used counters count the entries and `iterators' the safe
\* iterators in use, a second table exists
\* exactly while rehashing, and no bucket of the old table below rehashidx
\* holds a key (what dictRehash, dictGetRandomKey and dictGetSomeKeys rely
\* on, "We are sure there are no elements in indexes from 0 to rehashidx-1").
DictShape ==
  IsDict =>
    LET d == s.d IN
    /\ \A t \in {1, 2} :
         /\ d.ht[t].used = SumFunction([b \in DOMAIN d.ht[t].table |-> Len(d.ht[t].table[b])])
         /\ \A b \in DOMAIN d.ht[t].table : \A k \in KeysOf(d.ht[t].table[b]) :
              Bucket(d.ht[t], k) = b
    /\ Cardinality(DictKeys(d)) = dictSize(d)
    /\ d.iterators = IF s.walk = "iterate" /\ s.it # NoIterator THEN 1 ELSE 0
    /\ dictIsRehashing(d) <=> TableSize(d.ht[2]) > 0
    /\ dictIsRehashing(d) => /\ d.rehashidx < TableSize(d.ht[1])
                             /\ \A b \in 0..(d.rehashidx - 1) : d.ht[1].table[b] = <<>>

\* A scan that has returned to cursor 0 has returned every key that was
\* present from its first call to its last, whatever was added, deleted,
\* rehashed, grown or shrunk between its calls (dict.c: "The function
\* guarantees all elements present in the dictionary get returned").
ScanComplete == IsDict /\ conf.walk = "scan" => s.missed = {}

\* A safe iterator returns every key present during the whole iteration, and
\* none of them two times, while the caller adds keys, finds keys and
\* deletes the entries it is given (dict.c: otherwise "some element can be
\* missed or duplicated").
IterateOnce == IsDict /\ conf.walk = "iterate" => s.missed = {} /\ s.twice = {}
=============================================================================
