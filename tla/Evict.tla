------------------------------- MODULE Evict --------------------------------
(***************************************************************************)
(* Eviction (evict.c): before a command runs, keys are deleted until the   *)
(* memory used is within maxmemory again.  The candidates come from samples*)
(* of every database and are kept, best last, in a pool that outlives the  *)
(* call, so that what the pool says of a key may be out of date.           *)
(*                                                                         *)
(*   s.db, s.ex   of each <<database, name>> the value, with its size and  *)
(*                its 24 bits of lru, and its time to live; None: no such   *)
(*   s.pool       the entries; key is "none", "cached" (the name is in the  *)
(*                entry's reusable buffer) or "own"                        *)
(*   s.bufs       what the reusable buffers hold                           *)
(*   s.lazy       the sizes of the values the lazyfree thread has to free  *)
(*   s.over       the buffers of the slaves and of the append only file    *)
(*   s.ev         the call of freeMemoryIfNeeded in progress; the thread   *)
(*                runs beside it, so an iteration is a step                *)
(*   s.helped     the thread has freed something since the call began      *)
(* The counters are narrow: conf.lfumax stands for 255, conf.minutes for   *)
(* 2^16 minutes.                                                           *)
(***************************************************************************)
EXTENDS Structure, SequencesExt

IsEvict == kind = "evict"

NoVal == [size |-> -1]
Live(t) == {k \in DOMAIN t.db : t.db[k] # NoVal}
Vol(t) == {k \in Live(t) : t.ex[k] # -1}

SumOf(q) == FoldLeft(LAMBDA a, b : a + b, 0, q)
ENTRY == 1
Data(t) == FoldLeft(LAMBDA a, k : a + t.db[k].size + ENTRY, 0, SetToSeq(Live(t)))
zmalloc_used_memory(t) == Data(t) + SumOf(t.lazy) + t.over
freeMemoryGetNotCountedMemory(t) == t.over
Counted(t) == zmalloc_used_memory(t) - freeMemoryGetNotCountedMemory(t)

-----------------------------------------------------------------------------
(* The age of a value *)

LRU == {"allkeys-lru", "volatile-lru"}
LFU == {"allkeys-lfu", "volatile-lfu"}
ALLKEYS == {"allkeys-lru", "allkeys-lfu", "allkeys-random"}
COUNTERS == conf.lfumax + 1
LRU_CLOCK_MAX == conf.minutes * COUNTERS - 1

LRU_CLOCK(t) == t.now % (LRU_CLOCK_MAX + 1)
estimateObjectIdleTime(t, lru) ==
  IF LRU_CLOCK(t) >= lru THEN LRU_CLOCK(t) - lru ELSE LRU_CLOCK(t) + (LRU_CLOCK_MAX - lru)

LFUGetTimeInMinutes(t) == (t.now \div conf.minute) % conf.minutes
LFUTimeElapsed(t, ldt) ==
  IF LFUGetTimeInMinutes(t) >= ldt THEN LFUGetTimeInMinutes(t) - ldt
  ELSE (conf.minutes - 1) - ldt + LFUGetTimeInMinutes(t)
LFUDecrAndReturn(t, lru) ==
  LET periods == IF conf.decay = 0 THEN 0 ELSE LFUTimeElapsed(t, lru \div COUNTERS) \div conf.decay
      counter == lru % COUNTERS
  IN  IF periods > counter THEN 0 ELSE counter - periods
\* The increment is left to chance.
LFULogIncr(counter) == IF counter = conf.lfumax THEN {counter} ELSE {counter, counter + 1}
LFU_INIT_VAL == 1

\* The lru field of a value that is created, and of one that is looked up.
Born(t) == IF t.policy \in LFU THEN LFUGetTimeInMinutes(t) * COUNTERS + LFU_INIT_VAL ELSE LRU_CLOCK(t)
Touched(t, lru) ==
  IF t.policy \in LFU THEN {LFUGetTimeInMinutes(t) * COUNTERS + c : c \in LFULogIncr(LFUDecrAndReturn(t, lru))}
  ELSE {LRU_CLOCK(t)}

\* A score: the higher, the better to evict.
Score(t, k) ==
  CASE t.policy \in LRU -> estimateObjectIdleTime(t, t.db[k].lru)
    [] t.policy \in LFU -> conf.lfumax - LFUDecrAndReturn(t, t.db[k].lru)
    [] t.policy = "volatile-ttl" -> conf.ullmax - t.ex[k]

-----------------------------------------------------------------------------
(* The pool *)

EVPOOL_SIZE == conf.pool
NoEntry(i) == [key |-> "none", own |-> "", cached |-> i, idle |-> 0, dbid |-> 0, name |-> ""]
evictionPoolAlloc == [i \in 1..EVPOOL_SIZE |-> NoEntry(i)]

\* The entry's own name: ghost field `name' is the name it was given.
NameOf(t, e) == IF e.key = "cached" THEN t.bufs[e.cached] ELSE e.own
Full(p) == p[EVPOOL_SIZE].key # "none"

\* The first empty entry or the first one whose score is not smaller.
Position(p, idle) ==
  LET at == {k \in 1..EVPOOL_SIZE : p[k].key = "none" \/ p[k].idle >= idle}
  IN  IF at = {} THEN EVPOOL_SIZE + 1 ELSE Min(at)

\* Mutant: the shift leaves the buffer of the entry where it was
MutantShifted(p, k) ==
  IF p[EVPOOL_SIZE].key = "none" THEN SubSeq(p, 1, k) \o SubSeq(p, k, EVPOOL_SIZE - 1)
  ELSE Tail(SubSeq(p, 1, k)) \o SubSeq(p, k, EVPOOL_SIZE)

\* Room for an entry at k: those after it move to the right, or those before
\* it to the left, over the worst one; the buffer of the entry that goes
\* becomes that of the new one.
Shifted(p, k) ==
  IF p[EVPOOL_SIZE].key = "none"
  THEN SubSeq(p, 1, k - 1) \o <<[p[k] EXCEPT !.cached = p[EVPOOL_SIZE].cached]>> \o SubSeq(p, k, EVPOOL_SIZE - 1)
  ELSE SubSeq(p, 2, k) \o <<[p[k] EXCEPT !.cached = p[1].cached]>> \o SubSeq(p, k + 1, EVPOOL_SIZE)

\* Mutant: with a full pool the new entry goes after the first one that is greater
MutantSlot(p, at) == IF at <= EVPOOL_SIZE THEN at ELSE at - 1

\* Where the entry is written.
Slot(p, at) == IF at <= EVPOOL_SIZE /\ ~Full(p) THEN at ELSE at - 1

Insert(t, k) ==
  LET idle == Score(t, k)
      at == Position(t.pool, idle)
      slot == Slot(t.pool, at)
      p == IF at <= EVPOOL_SIZE /\ t.pool[at].key = "none" THEN t.pool ELSE Shifted(t.pool, slot)
      long == k[2] \in conf.long
      e == [p[slot] EXCEPT !.key = IF long THEN "own" ELSE "cached", !.own = IF long THEN k[2] ELSE "",
                           !.idle = idle, !.dbid = k[1], !.name = k[2]]
      best == SortSeq(Append(t.best, idle), LAMBDA a, b : a < b)
      t1 == [t EXCEPT !.best = IF Len(@) = EVPOOL_SIZE THEN Tail(best) ELSE best]
  IN  IF at = 1 /\ Full(t.pool) THEN t1
      ELSE [t1 EXCEPT !.pool = [p EXCEPT ![slot] = e], !.bufs[e.cached] = IF long THEN @ ELSE k[2]]

evictionPoolPopulate(t, samples) == FoldLeft(Insert, t, samples)

\* The keys of a database that the policy may choose from.
Candidates(t, d) == {k \in IF t.policy \in ALLKEYS THEN Live(t) ELSE Vol(t) : k[1] = d}
\* dictGetSomeKeys: some of them, maybe none, in some order, perhaps one more
\* than once: where the walk jumps is left to chance.
SomeKeys(S) == UNION {[1..n -> S] : n \in 0..Min({conf.samples, Cardinality(S)})}

-----------------------------------------------------------------------------
(* freeMemoryIfNeeded *)

\* Mutant: a key that has lost its time to live is still a candidate
MutantExists(t, e) == <<e.dbid, NameOf(t, e)>> \in Live(t)

\* The entry is of a key that can be evicted, and not a ghost.
Exists(t, e) == <<e.dbid, NameOf(t, e)>> \in Candidates(t, e.dbid)

\* Backward through the pool, removing the entries until one exists.
Scan(t) ==
  LET real == {i \in 1..EVPOOL_SIZE : t.pool[i].key # "none" /\ Exists(t, t.pool[i])}
      stop == IF real = {} THEN 1 ELSE Max(real)
  IN  [key |-> IF real = {} THEN <<>> ELSE <<t.pool[stop].dbid, NameOf(t, t.pool[stop])>>,
       t |-> [t EXCEPT !.pool = [i \in 1..EVPOOL_SIZE |-> IF i < stop THEN @[i] ELSE [@[i] EXCEPT !.key = "none", !.idle = 0, !.own = ""]],
                       !.best = SubSeq(@, 1, IF stop - 1 < Len(@) THEN stop - 1 ELSE Len(@))]]

\* dbSyncDelete, or dbAsyncDelete, which leaves a value that is expensive to
\* free to the thread.
RemoveKey(t, k, lazy) ==
  [t EXCEPT !.db[k] = NoVal, !.ex[k] = -1,
            !.lazy = IF lazy /\ t.db[k].size > conf.threshold THEN Append(@, t.db[k].size) ELSE @]

Over(t) == Counted(t) > conf.maxmemory

\* Mutant: what was pending for the slaves counts as data
MutantToFree(t) == zmalloc_used_memory(t) - conf.maxmemory

ToFree(t) == Counted(t) - conf.maxmemory

\* Mutant: the pause is not looked at
MutantBegin(t, c) ==
  IF ~Over(t) THEN [t EXCEPT !.ev = [st |-> "ok", cmd |-> c], !.helped = FALSE]
  ELSE [t EXCEPT !.helped = FALSE,
                 !.ev = [st |-> IF t.policy = "noeviction" THEN "wait" ELSE "run", cmd |-> c, tofree |-> ToFree(t),
                         freed |-> 0, misses |-> 0, reported |-> zmalloc_used_memory(t)]]

Begin(t, c) ==
  IF t.paused \/ ~Over(t) THEN [t EXCEPT !.ev = [st |-> "ok", cmd |-> c], !.helped = FALSE]
  ELSE [t EXCEPT !.helped = FALSE,
                 !.ev = [st |-> IF t.policy = "noeviction" THEN "wait" ELSE "run", cmd |-> c, tofree |-> ToFree(t),
                         freed |-> 0, misses |-> 0, reported |-> zmalloc_used_memory(t)]]

\* The loop goes on while enough has not been freed, and the keys it removes
\* are counted by the memory the removal itself has freed.  keys_freed starts
\* again with every key, so that keys_freed % 16 is never 0 and the memory is
\* not looked at again.
Evicted(t, k) ==
  LET t1 == RemoveKey([t EXCEPT !.over = IF @ < conf.maxover THEN @ + 1 ELSE @], k, conf.lazy)
      freed == t.ev.freed + (Data(t) + SumOf(t.lazy)) - (Data(t1) + SumOf(t1.lazy))
  IN  [t1 EXCEPT !.ev = [@ EXCEPT !.freed = freed, !.misses = 0,
                                  !.st = IF freed < t.ev.tofree THEN "run" ELSE "ok"]]

CantFree(t) == [t EXCEPT !.ev.st = "wait"]

\* An iteration with the pool, or a pass over the pool without success.
PoolStep(t, samples) ==
  LET t1 == FoldLeft(evictionPoolPopulate, t, samples)
      scan == Scan(t1)
  IN  IF \A d \in conf.dbs : Candidates(t, d) = {} THEN CantFree(t)
      ELSE IF scan.key # <<>> THEN Evicted(scan.t, scan.key)
      ELSE [scan.t EXCEPT !.ev.misses = IF \E i \in DOMAIN samples : samples[i] # <<>> THEN @ + 1 ELSE @]

EvictPool ==
  /\ s.ev.st = "run" /\ s.policy \notin {"allkeys-random", "volatile-random"}
  /\ \E f \in [conf.dbs -> UNION {SomeKeys(Candidates(s, d)) : d \in conf.dbs}] :
       /\ \A d \in conf.dbs : ToSet(f[d]) \subseteq Candidates(s, d)
       /\ Quiet(PoolStep(s, [i \in 1..Cardinality(conf.dbs) |-> f[i - 1]]))

\* The databases in turn, from the one after the last.
EvictRandom ==
  /\ s.ev.st = "run" /\ s.policy \in {"allkeys-random", "volatile-random"}
  /\ LET n == Cardinality(conf.dbs)
         hits == {i \in 1..n : Candidates(s, (s.next_db + i) % n) # {}}
     IN  IF hits = {} THEN Quiet(CantFree([s EXCEPT !.next_db = (@ + n) % n]))
         ELSE LET d == (s.next_db + Min(hits)) % n
              IN  \E k \in Candidates(s, d) : Quiet(Evicted([s EXCEPT !.next_db = d], k))

\* The wait for the thread ends when it has nothing left or has freed enough;
\* the difference is of unsigned numbers.
EvictWait ==
  /\ s.ev.st = "wait"
  /\ \/ s.lazy = <<>>
     \/ (s.ev.reported - zmalloc_used_memory(s) + s.ev.freed) % (conf.ullmax + 1) >= s.ev.tofree
  /\ Quiet([s EXCEPT !.ev = [st |-> "err", cmd |-> @.cmd]])

LazyThread == s.lazy # <<>> /\ Quiet([s EXCEPT !.lazy = Tail(@), !.helped = s.ev.st # "idle"])

-----------------------------------------------------------------------------
(* Commands *)

Nothing == [st |-> "idle"]
\* What a slave reports of its offset: the only command that runs during a pause.
Ack == [op |-> "replconf"]
CommandStart ==
  /\ s.ev.st = "idle" /\ s.ops < conf.maxops
  /\ \E c \in IF s.paused THEN {Ack} ELSE conf.cmds : Quiet(Begin([s EXCEPT !.ops = @ + 1], c))

\* The lru field after the command: an overwritten value hands its counter on.
NewLru(t, c) ==
  LET old == t.db[c.k]
  IN  IF old = NoVal \/ (c.op = "set" /\ t.policy \notin LFU) THEN {Born(t)}
      ELSE IF c.op = "set" THEN UNION {Touched(t, lru) : lru \in Touched(t, old.lru)}
      ELSE Touched(t, old.lru)

Run(t, c, lru) ==
  CASE c.op = "set" -> [t EXCEPT !.db[c.k] = [size |-> c.n, lru |-> lru], !.ex[c.k] = -1]
    [] t.db[c.k] = NoVal -> t
    [] c.op = "get" -> [t EXCEPT !.db[c.k].lru = lru]
    [] c.op = "expire" -> [t EXCEPT !.db[c.k].lru = lru, !.ex[c.k] = c.n]
    [] c.op = "persist" -> [t EXCEPT !.db[c.k].lru = lru, !.ex[c.k] = -1]
    [] c.op = "unlink" -> RemoveKey(t, c.k, TRUE)

\* processCommand: a command that needs memory is refused when none was found.
CommandRun ==
  /\ s.ev.st \in {"ok", "err"}
  /\ LET c == s.ev.cmd
         t == [s EXCEPT !.ev = Nothing, !.helped = FALSE]
     IN  IF c = Ack \/ (c.op = "set" /\ s.ev.st = "err") THEN Quiet(t)
         ELSE \E lru \in NewLru(s, c) : Quiet(Run(t, c, lru))

EvictTick == s.ev.st = "idle" /\ s.now < conf.maxnow /\ Quiet([s EXCEPT !.now = @ + 1])
\* The buffers of slaves and of the append only file grow and are written out.
Buffers == s.ev.st = "idle" /\ \E n \in {0, conf.maxover} : s.over # n /\ Quiet([s EXCEPT !.over = n])
SetPolicy == s.ev.st = "idle" /\ \E p \in conf.policies : s.policy # p /\ Quiet([s EXCEPT !.policy = p])
PauseEvict == s.ev.st = "idle" /\ conf.pauses /\ Quiet([s EXCEPT !.paused = ~@])

EvictInit ==
  [db |-> [k \in conf.keys |-> IF k \in DOMAIN conf.data THEN conf.data[k] ELSE NoVal],
   ex |-> [k \in conf.keys |-> IF k \in conf.volatile THEN 1 ELSE -1],
   pool |-> evictionPoolAlloc, bufs |-> [i \in 1..EVPOOL_SIZE |-> ""], best |-> <<>>, lazy |-> <<>>, over |-> 0,
   ev |-> Nothing, now |-> conf.start, policy |-> conf.policy, next_db |-> 0, ops |-> 0, paused |-> FALSE,
   helped |-> FALSE]

EvictNext ==
  IsEvict /\ (CommandStart \/ EvictPool \/ EvictRandom \/ EvictWait \/ LazyThread \/ CommandRun \/ EvictTick
              \/ Buffers \/ SetPolicy \/ PauseEvict)

-----------------------------------------------------------------------------
(* Properties *)

\* The pool holds the best scores it was offered, worst first, and its free
\* entries are at the end: the reference keeps the greatest EVPOOL_SIZE of all
\* that came in, and gives up those the search for a key has gone past.
PoolKeepsBest ==
  IsEvict => /\ \A i \in 1..Len(s.best) : s.pool[i].key # "none" /\ s.pool[i].idle = s.best[i]
             /\ \A i \in Len(s.best) + 1..EVPOOL_SIZE : s.pool[i].key = "none"

\* Every entry of the pool has a buffer of its own, and names the key that was
\* put there, however the entries have been moved about.
PoolBuffers ==
  IsEvict => /\ \A i, j \in 1..EVPOOL_SIZE : s.pool[i].cached = s.pool[j].cached => i = j
             /\ \A i \in 1..EVPOOL_SIZE : s.pool[i].key # "none" => NameOf(s, s.pool[i]) = s.pool[i].name

\* Keys without a time to live are not evicted by the volatile policies, also
\* when they had one as the pool was filled.
VolatileKeeps ==
  IsEvict /\ s.ev.st = "run" /\ s.policy \notin ALLKEYS => \A k \in Live(s) : s'.db[k] = NoVal => k \in Vol(s)

\* A pass over the pool finds only ghosts at most once in a row: the pool is
\* empty then, and the next sample puts a key in it that exists.
GhostsOnce == IsEvict /\ s.ev.st = "run" => s.ev.misses <= 1

\* A key is evicted only while the data is over the limit, whatever the slaves
\* and the append only file have in their buffers, unless the thread has freed
\* a value meanwhile, of a key that was evicted or unlinked: the memory is not
\* looked at again before the precomputed amount is reached.
NeededKeeps ==
  IsEvict /\ s.ev.st = "run" /\ Live(s') # Live(s) => Over(s) \/ s.helped

\* While the clients are paused the data set stands still: nothing is evicted
\* for the commands of the slaves.
PausedKeepsMemory == IsEvict /\ s.paused => s'.db = s.db

\* freeMemoryIfNeeded answers whether the data is within the limit.  It also
\* says that it is not when no key was left to evict and the thread has freed
\* enough in the meantime: the wait for it ends in an error in any case.
LimitAnswer ==
  IsEvict => /\ s.ev.st = "ok" => s.paused \/ ~Over(s)
             /\ s.ev.st = "err" => Over(s) \/ s.helped
=============================================================================
