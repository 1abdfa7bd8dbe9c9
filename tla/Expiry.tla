------------------------------ MODULE Expiry --------------------------------
(***************************************************************************)
(* Keys that expire (expire.c and the expires interface of db.c): on       *)
(* access, by the active cycle of a master, and by the sweep of the keys   *)
(* that clients of a writable slave gave a time to live.  A master writes  *)
(* an append only file and sends its commands to a slave, each with the    *)
(* DELs of the keys that expired; the slave keeps what its master has not  *)
(* deleted, even when it is past its time.                                 *)
(*                                                                         *)
(* A server is a record:                                                   *)
(*   db, ex   value and time of each <<database, name>>, None if there is  *)
(*            none (None is the -1 of getExpire)                           *)
(*   host     has a master (server.masterhost)                             *)
(*   loading  is reading its append only file                              *)
(*   remote   the running command comes from the master                    *)
(*   tracked  slaveKeysWithExpire: the databases of each name              *)
(*   out      what the running command propagates                          *)
(* s.m and s.r are the master and its slave, s.stream what the slave has   *)
(* not received, s.aof the file, s.now the clock.  A second has conf.sec   *)
(* milliseconds.  s.cycle is the active cycle in progress, of which an     *)
(* iteration is a step because the clock moves during it, and s.sweep the  *)
(* sweep of the slave; nothing else runs meanwhile.                        *)
(***************************************************************************)
EXTENDS Structure, SequencesExt

IsExpiry == kind = "expiry"

None == -1
Volatile(x, d) == {k \in DOMAIN x.ex : k[1] = d /\ x.ex[k] # None}

\* dbSyncDelete and dbAsyncDelete.
dbDelete(x, k) == [x EXCEPT !.db[k] = None, !.ex[k] = None]
propagate(x, c) == [x EXCEPT !.out = Append(@, c)]
Del(k) == [op |-> "del", k |-> k, n |-> 0]

\* propagateExpire and the deletion of the key
Expire(x, k) == dbDelete(propagate(x, Del(k)), k)

Past(x, k, now) == x.ex[k] # None /\ now > x.ex[k]

\* What it does to the server; that the key is expired is Past, except while
\* loading.
expireIfNeeded(x, k, now) == IF ~x.loading /\ ~x.host /\ Past(x, k, now) THEN Expire(x, k) ELSE x

rememberSlaveKeyWithExpire(x, k) == IF k[1] > 63 THEN x ELSE [x EXCEPT !.tracked[k[2]] = @ \cup {k[1]}]

setExpire(x, k, when) ==
  LET x1 == [x EXCEPT !.ex[k] = when]
  IN  IF x.host /\ ~x.remote THEN rememberSlaveKeyWithExpire(x1, k) ELSE x1

\* Mutant: the slave shows what it still holds
MutantRead(x, k, now, readonly) == expireIfNeeded(x, k, now).db[k]

\* lookupKeyReadWithFlags: a key that is past its time is hidden on a slave only
\* from the commands that are flagged as read only, when they do not come from
\* the master; EVAL is not.
lookupKeyRead(x, k, now, readonly) ==
  IF ~x.loading /\ x.host /\ Past(x, k, now) /\ ~x.remote /\ readonly THEN None
  ELSE expireIfNeeded(x, k, now).db[k]

-----------------------------------------------------------------------------
(* Commands *)

Msec(c) == IF c.op \in {"expire", "expireat", "setex"} THEN c.n * conf.sec ELSE c.n
When(c, now) == IF c.op \in {"expire", "pexpire", "setex"} THEN Msec(c) + now ELSE Msec(c)

\* feedAppendOnlyFile: relative times become absolute, with the clock as it is now.
Translated(c, now) ==
  CASE c.op \in {"expire", "pexpire", "expireat"} -> <<[c EXCEPT !.op = "pexpireat", !.n = When(c, now)]>>
    [] c.op = "setex" -> <<[c EXCEPT !.op = "set"], [c EXCEPT !.op = "pexpireat", !.n = When(c, now)]>>
    [] OTHER -> <<c>>

setKey(x, k, v, now) == [expireIfNeeded(x, k, now) EXCEPT !.db[k] = v, !.ex[k] = None]

\* Mutant: the key is deleted also while loading
MutantExpireGeneric(x, c, now) ==
  LET x1 == expireIfNeeded(x, c.k, now)
  IN  IF x1.db[c.k] = None THEN x1
      ELSE IF When(c, now) <= now /\ ~x.host THEN Expire(x1, c.k)
      ELSE propagate(setExpire(x1, c.k, When(c, now)), c)

\* A time in the past deletes the key, as a DEL for the others, unless it is
\* for somebody else to say so.
expireGenericCommand(x, c, now) ==
  LET x1 == expireIfNeeded(x, c.k, now)
  IN  IF x1.db[c.k] = None THEN x1
      ELSE IF When(c, now) <= now /\ ~x.loading /\ ~x.host THEN Expire(x1, c.k)
      ELSE propagate(setExpire(x1, c.k, When(c, now)), c)

persistCommand(x, c, now) ==
  LET x1 == expireIfNeeded(x, c.k, now)
  IN  IF x1.db[c.k] = None \/ x1.ex[c.k] = None THEN x1 ELSE propagate([x1 EXCEPT !.ex[c.k] = None], c)

setexCommand(x, c, now) == propagate(setExpire(setKey(x, c.k, c.v, now), c.k, When(c, now)), c)

incrCommand(x, k, now) ==
  LET x1 == expireIfNeeded(x, k, now) IN [x1 EXCEPT !.db[k] = IF @ = None THEN 1 ELSE @ + 1]

\* The value and the time to live of a key go to another.
Transfer(x, from, to) ==
  LET x1 == [x EXCEPT !.db[to] = x.db[from], !.ex[to] = None]
  IN  dbDelete(IF x.ex[from] = None THEN x1 ELSE setExpire(x1, to, x.ex[from]), from)

renameCommand(x, c, now) ==
  LET x1 == expireIfNeeded(x, c.k, now)
      x2 == expireIfNeeded(x1, c.to, now)
  IN  IF x1.db[c.k] = None THEN x1 ELSE propagate(Transfer(x2, c.k, c.to), c)

moveCommand(x, c, now) ==
  LET x1 == expireIfNeeded(x, c.k, now)
      x2 == expireIfNeeded(x1, c.to, now)
  IN  IF x1.db[c.k] = None THEN x1 ELSE IF x2.db[c.to] # None THEN x2 ELSE propagate(Transfer(x2, c.k, c.to), c)

flushallCommand(x, c) ==
  propagate([x EXCEPT !.db = [k \in DOMAIN @ |-> None], !.ex = [k \in DOMAIN @ |-> None],
                      !.tracked = [n \in DOMAIN @ |-> {}]], c)

\* Mutant: the clock runs during a script
MutantScriptTime(start, now) == now

\* expireIfNeeded inside a script takes the time at which the script began.
ScriptTime(start, now) == start

\* A command that runs from `start' until `now'; only a script lasts.
Exec(x, c, start, now) ==
  CASE c.op = "set" -> propagate(setKey(x, c.k, c.v, now), c)
    [] c.op = "setex" -> setexCommand(x, c, now)
    [] c.op = "incr" -> propagate(incrCommand(x, c.k, now), c)
    [] c.op = "script" -> propagate(incrCommand(incrCommand(x, c.k, start), c.k, ScriptTime(start, now)), c)
    [] c.op \in {"expire", "pexpire", "expireat", "pexpireat"} -> expireGenericCommand(x, c, now)
    [] c.op = "persist" -> persistCommand(x, c, now)
    [] c.op = "rename" -> renameCommand(x, c, now)
    [] c.op = "move" -> moveCommand(x, c, now)
    [] c.op = "flushall" -> flushallCommand(x, c)
    [] c.op = "del" -> LET x1 == expireIfNeeded(x, c.k, now)
                       IN  IF x1.db[c.k] = None THEN x1 ELSE propagate(dbDelete(x1, c.k), c)
    [] c.op = "touch" -> expireIfNeeded(x, c.k, now)

-----------------------------------------------------------------------------
(* The two servers *)

Empty(host) ==
  [db |-> [k \in conf.keys |-> None], ex |-> [k \in conf.keys |-> None], host |-> host, loading |-> FALSE,
   remote |-> FALSE, tracked |-> [n \in {k[2] : k \in conf.keys} |-> {}], out |-> <<>>]

ExpiryInit ==
  [m |-> Empty(FALSE), r |-> Empty(TRUE), stream |-> <<>>, aof |-> <<>>, now |-> conf.start, ops |-> 0, paused |-> FALSE,
   cycle |-> [on |-> FALSE], sweep |-> [on |-> FALSE], current_db |-> 0, timelimit_exit |-> FALSE, fast |-> 0,
   visits |-> <<>>]

Idle == ~s.cycle.on /\ ~s.sweep.on

\* What the master propagates goes to its file, at once, and to the slave.
Sent(t, x, now) ==
  [t EXCEPT !.m = [x EXCEPT !.out = <<>>],
            !.stream = IF conf.slave THEN @ \o x.out ELSE @,
            !.aof = IF conf.file THEN @ \o FlattenSeq([i \in DOMAIN x.out |-> Translated(x.out[i], now)]) ELSE @]

MasterCommand ==
  /\ Idle /\ ~s.paused /\ s.ops < conf.maxops
  /\ \E c \in conf.cmds, late \in conf.late :
       /\ c.k \in conf.keys
       /\ s.now + late <= conf.maxnow
       /\ LET done == s.now + IF c.op = "script" THEN late ELSE 0
              x == Exec(s.m, c, s.now, done)
          IN  Quiet(Sent([s EXCEPT !.now = @ + late, !.ops = @ + 1], x, s.now + late))

Replicate ==
  /\ Idle /\ s.stream # <<>>
  /\ LET x == Exec([s.r EXCEPT !.remote = TRUE], Head(s.stream), s.now, s.now)
     IN  Quiet([s EXCEPT !.r = [x EXCEPT !.out = <<>>, !.remote = FALSE], !.stream = Tail(@)])

\* A client writes to the slave, which is writable.
SlaveCommand ==
  /\ Idle /\ s.ops < conf.maxops
  /\ \E c \in conf.local :
       LET x == Exec(s.r, c, s.now, s.now) IN Quiet([s EXCEPT !.r = [x EXCEPT !.out = <<>>], !.ops = @ + 1])

Tick == s.now < conf.maxnow /\ Quiet([s EXCEPT !.now = @ + 1])
Pause == Idle /\ conf.pauses /\ Quiet([s EXCEPT !.paused = ~@])

-----------------------------------------------------------------------------
(* activeExpireCycle *)

\* Mutant: the cycle runs while the clients are paused
MutantMayCycle(t, type) == type = "slow" \/ (t.timelimit_exit /\ t.now >= t.fast + conf.fasttime * 2)

MayCycle(t, type) ==
  ~t.paused /\ (type = "slow" \/ (t.timelimit_exit /\ t.now >= t.fast + conf.fasttime * 2))

\* Mutant: the database is left behind only when it is done
MutantNextDb(t) ==
  [t EXCEPT !.cycle.d = t.current_db % conf.dbnum, !.cycle.j = @ + 1, !.visits = Append(@, t.current_db % conf.dbnum)]

\* The next database, which is counted before it is looked at.
NextDb(t) ==
  [t EXCEPT !.cycle.d = t.current_db % conf.dbnum, !.cycle.j = @ + 1, !.current_db = (@ + 1) % conf.wrap,
            !.visits = Append(IF Len(@) = conf.dbnum THEN Tail(@) ELSE @, t.current_db % conf.dbnum)]

EndCycle(t) == [t EXCEPT !.cycle = [on |-> FALSE]]
Advance(t) == IF t.cycle.j < t.cycle.dbs THEN NextDb(t) ELSE EndCycle(t)

CycleStart ==
  /\ Idle /\ conf.cycles
  /\ \E type \in {"slow", "fast"} :
       /\ MayCycle(s, type)
       /\ LET dbs == IF conf.percall > conf.dbnum \/ s.timelimit_exit THEN conf.dbnum ELSE conf.percall
          IN  Quiet(NextDb([s EXCEPT !.cycle = [on |-> TRUE, j |-> 0, d |-> 0, dbs |-> dbs, iter |-> 0],
                                     !.timelimit_exit = FALSE, !.fast = IF type = "fast" THEN s.now ELSE @]))

\* What num random choices among the volatile keys can hit: a key that is
\* expired is gone when it was chosen, the others can be chosen again.
Samples(x, d, now) ==
  LET vol == Volatile(x, d)
      num == IF Cardinality(vol) > conf.lookups THEN conf.lookups ELSE Cardinality(vol)
  IN  {S \in SUBSET vol : /\ S # {} /\ Cardinality(S) <= num
                          /\ (\A k \in S : Past(x, k, now)) => Cardinality(S) = num}

CycleLoop ==
  /\ s.cycle.on
  /\ LET x == s.m
         d == s.cycle.d
         iter == s.cycle.iter + 1
         t == [s EXCEPT !.cycle.iter = iter]
     IN  \/ Volatile(x, d) = {} /\ Quiet(Advance(t))
         \* The table is too sparse to sample.
         \/ Volatile(x, d) # {} /\ conf.sparse /\ Quiet(Advance(t))
         \/ \E S \in Samples(x, d, s.now), slow \in BOOLEAN :
              LET gone == {k \in S : Past(x, k, s.now)}
                  t1 == Sent(t, FoldLeft(Expire, x, SetToSeq(gone)), s.now)
              IN  /\ slow => iter % conf.check = 0
                  /\ Quiet(IF slow THEN EndCycle([t1 EXCEPT !.timelimit_exit = TRUE])
                           ELSE IF Cardinality(gone) > conf.lookups \div 4 THEN t1 ELSE Advance(t1))

-----------------------------------------------------------------------------
(* expireSlaveKeys *)

SweepStart ==
  /\ Idle /\ \E n \in DOMAIN s.r.tracked : s.r.tracked[n] # {}
  /\ Quiet([s EXCEPT !.sweep = [on |-> TRUE, start |-> s.now, noexpire |-> 0]])

\* Mutant: a name is dropped as soon as one of its keys is gone
MutantKept(x, n, now) == IF \E d \in x.tracked[n] : Past(x, <<d, n>>, now) THEN {} ELSE x.tracked[n]

\* The databases where the key of that name still has to expire.
Kept(x, n, now) == {d \in x.tracked[n] : x.ex[<<d, n>>] # None /\ ~Past(x, <<d, n>>, now)}

SweepStep ==
  /\ s.sweep.on
  /\ \E n \in DOMAIN s.r.tracked :
       /\ s.r.tracked[n] # {}
       /\ LET at == s.sweep.start
              gone == {<<d, n>> : d \in {d \in s.r.tracked[n] : Past(s.r, <<d, n>>, at)}}
              x == [FoldLeft(Expire, s.r, SetToSeq(gone)) EXCEPT !.tracked[n] = Kept(s.r, n, at), !.out = <<>>]
              stay == s.sweep.noexpire + Cardinality({d \in s.r.tracked[n] : x.ex[<<d, n>>] # None})
              over == stay > 3 \/ \A i \in DOMAIN x.tracked : x.tracked[i] = {}
          IN  Quiet([s EXCEPT !.r = x, !.sweep = IF over THEN [on |-> FALSE] ELSE [@ EXCEPT !.noexpire = stay]])

ExpiryNext ==
  IsExpiry /\ (MasterCommand \/ Replicate \/ SlaveCommand \/ Tick \/ Pause \/ CycleStart \/ CycleLoop
               \/ SweepStart \/ SweepStep)

-----------------------------------------------------------------------------
(* Properties *)

\* The same keys with the same values, and the times to live of y are not
\* shorter than those of x, nor longer by more than late.
Same(x, y, K, late) ==
  \A k \in K : /\ x.db[k] = y.db[k]
               /\ (x.ex[k] = None) = (y.ex[k] = None)
               /\ x.ex[k] <= y.ex[k] /\ y.ex[k] <= x.ex[k] + late

\* Reading the append only file, at any later time, gives the data set of the
\* master: the keys that are past their time but not removed yet are in both,
\* and the file has a DEL wherever the master saw a key expire.
FileRebuilds ==
  IsExpiry /\ conf.file =>
    \A later \in {0, 9} :
      LET y == FoldLeft(LAMBDA x, c : [Exec(x, c, s.now + later, s.now + later) EXCEPT !.out = <<>>],
                        [Empty(FALSE) EXCEPT !.loading = TRUE], s.aof)
      IN  Same(s.m, y, conf.keys, Max(conf.late))

\* A slave that has received all the stream has the keys of its master, no
\* more and no less, although it expires none of them itself: key expiry is
\* in one place.
SlaveFollows ==
  IsExpiry /\ conf.slave /\ s.stream = <<>> => Same(s.m, s.r, conf.shared, s.now)

\* Who reads from a slave that has received all the stream gets what its master
\* would answer now, although the slave has kept the expired keys: the same
\* value, or one whose time, counted from when the command came, is not over
\* at the slave yet.  A script, or any command that is not flagged as read
\* only, gets what is still there, expired or not.
ReadsAgree ==
  IsExpiry /\ conf.slave /\ s.stream = <<>> => \A k \in conf.shared :
    LET answer == lookupKeyRead(s.m, k, s.now, TRUE)
        copy == lookupKeyRead(s.r, k, s.now, TRUE)
    IN  /\ copy = answer \/ (answer = None /\ copy = s.m.db[k] /\ s.m.ex[k] < s.now /\ s.now <= s.r.ex[k])
        /\ lookupKeyRead(s.r, k, s.now, FALSE) = s.m.db[k]

\* A key to which a client of the slave gave a time to live is known to the
\* sweep for as long as it has one: no master will delete it.
SlaveKeysTracked ==
  IsExpiry => \A k \in conf.keys \ conf.shared : s.r.ex[k] # None => k[1] \in s.r.tracked[k[2]]

\* The cycle looks at all the databases in turn, also when it runs out of
\* time in every one of them.
DatabasesInTurn ==
  IsExpiry => Cardinality(ToSet(s.visits)) = Len(s.visits)

\* While the clients are paused the data set of the master stands still.
PausedKeeps == IsExpiry /\ s.paused => s'.m = s.m
=============================================================================
