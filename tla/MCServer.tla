------------------------------ MODULE MCServer ------------------------------
(***************************************************************************)
(* Instances for TLC of the parts of the server around the commands: the   *)
(* requests of a connection, the clients of the event loop, keys that      *)
(* expire, keys that are evicted, and the file they are saved in.          *)
(***************************************************************************)
EXTENDS Structure, SequencesExt

CONSTANT Configs

Rq == INSTANCE Requests
Cl == INSTANCE Clients
Ex == INSTANCE Expiry
Ev == INSTANCE Evict
Rd == INSTANCE Rdb

-----------------------------------------------------------------------------
(* Requests: reads of one to iobuf bytes *)

A == <<97>>
Digits(n) == IF n < 10 THEN <<48 + n>> ELSE <<48 + n \div 10, 48 + (n % 10)>>
Line(ch, n) == <<ch>> \o Digits(n) \o <<Rq!CR, Rq!LF>>
Bulk(argv) ==
  [bytes |-> FoldLeft(LAMBDA out, a : out \o Line(Rq!Dollar, Len(a)) \o a \o <<Rq!CR, Rq!LF>>,
                      Line(Rq!Star, Len(argv)), argv),
   argv |-> argv, err |-> "none"]
Raw(bytes, argv, err) == [bytes |-> bytes, argv |-> argv, err |-> err]
Connection ==
  [kind |-> "requests", calls |-> FALSE, reqs |-> <<>>, inlinemax |-> 16, iobuf |-> 4, big |-> 8, maxbulk |-> 12,
   maxmulti |-> 3, maxquery |-> 100, master |-> FALSE, pause |-> FALSE, hangup |-> FALSE]

\* Every form of request, an argument with a buffer of its own, an error
Forms ==
  [Connection EXCEPT
     !.reqs = <<Bulk(<<A, <<>>, <<97, 98, 99, 100, 101, 102, 103, 104>>>>),
                Raw(<<97, 32, Rq!Quote, 98, 32, Rq!Quote, Rq!CR, Rq!LF>>, <<A, <<98, 32>>>>, "none"),
                Raw(<<Rq!CR, Rq!LF>>, <<>>, "none"), Bulk(<<A>>),
                Raw(<<Rq!Star, Rq!Minus, 49, Rq!CR, Rq!LF>>, <<>>, "none"),
                Raw(<<97, Rq!Quote, Rq!LF>>, <<>>, "unbalanced quotes"), Bulk(<<A>>)>>,
     !.hangup = TRUE]

\* A command that blocks, and pauses
Holds ==
  [Connection EXCEPT !.reqs = <<Bulk(<<Rq!BLPOP, A>>), Bulk(<<A, A>>),
                                Raw(Line(Rq!Star, 2) \o <<43, Rq!CR, Rq!LF>>, <<>>, "expected $")>>,
                     !.pause = TRUE, !.inlinemax = 50]

\* The stream of a master, with a transaction
Stream ==
  [Connection EXCEPT !.reqs = <<Bulk(<<A>>), Bulk(<<Rq!MULTI>>), Bulk(<<A>>), Raw(<<97, Rq!CR, Rq!LF>>, <<A>>, "none"),
                                Bulk(<<Rq!EXEC>>), Bulk(<<A>>)>>,
                     !.master = TRUE]

\* Pauses with a long argument, and of the link with the master
HeldLong ==
  [Connection EXCEPT !.reqs = <<Bulk(<<A, <<97, 98, 99, 100, 101, 102, 103, 104>>>>), Bulk(<<A>>)>>, !.pause = TRUE,
                     !.hangup = TRUE]
HeldStream ==
  [Stream EXCEPT !.reqs = <<Bulk(<<A>>), Raw(<<97, Rq!CR, Rq!LF>>, <<A>>, "none"), Bulk(<<Rq!MULTI>>), Bulk(<<A>>),
                            Bulk(<<Rq!EXEC>>)>>,
                 !.pause = TRUE]

Quoted == [kind |-> "quoted", calls |-> FALSE, chars |-> {0, 7, 10, 32, 34, 39, 92, 97, 120, 255}, most |-> 3]

-----------------------------------------------------------------------------
(* Clients: each peer sends the commands of its script *)

Op(op, n) == [op |-> op, n |-> n, to |-> 0]
To(op, to, n) == [op |-> op, n |-> n, to |-> to]
Loop ==
  [kind |-> "clients", calls |-> FALSE, scripts |-> <<>>, connected |-> <<1, 2>>, slaves |-> {}, closing |-> {},
   fds |-> 2, maxclients |-> 2, takes |-> {9}, buf |-> 3, chunk |-> 4, item |-> 1, hard |-> 0, softlimit |-> 0,
   softtime |-> 1, maxnow |-> 1, idle |-> 0, always |-> FALSE, replies |-> FALSE]

\* Sockets that take nothing, a part or all of the output, or fail
Output ==
  [Loop EXCEPT !.scripts = <<<<Op("get", 2), Op("keys", 2)>>, <<To("publish", 1, 2)>>>>, !.takes = {-1, 0, 2, 9}]
Long ==
  [Loop EXCEPT !.scripts = <<<<Op("keys", 5), Op("get", 0), Op("keys", 1), Op("quit", 0), Op("get", 1)>>>>,
               !.connected = <<1>>, !.takes = {0, 1, 9}]
Limits ==
  [Loop EXCEPT !.scripts = <<<<Op("get", 5), Op("get", 1)>>, <<To("publish", 1, 4), Op("host", 0), Op("get", 1)>>>>,
               !.takes = {0, 9}, !.hard = 9, !.softlimit = 4, !.maxnow = 4]
Blocks ==
  [Loop EXCEPT !.scripts = <<<<Op("blpop", 1), Op("get", 1)>>, <<Op("pause", 1), Op("push", 0)>>>>,
               !.takes = {0, 9}, !.maxnow = 4]
\* appendfsync always
Always ==
  [Loop EXCEPT !.scripts = <<<<Op("get", 2), Op("get", 2), Op("get", 1)>>, <<To("publish", 1, 2)>>>>,
               !.takes = {0, 1, 9}, !.always = TRUE]
\* Three peers for two clients, who kill each other and hang up
Accepts ==
  [Loop EXCEPT !.scripts = <<<<To("kill", 2, 0), To("kill", 1, 0)>>, <<Op("blpop", 0)>>, <<To("kill", 1, 0)>>>>,
               !.closing = {2}, !.fds = 3]
Idle == [Accepts EXCEPT !.scripts[1] = <<>>, !.idle = 1, !.maxnow = 3]
Slaves ==
  [Loop EXCEPT !.scripts = <<<<Op("ack", 0)>>, <<Op("set", 0), Op("set", 0)>>>>, !.slaves = {1}, !.takes = {0, 2, 9}]
Pauses ==
  [Loop EXCEPT !.scripts = <<<<Op("pause", 1), Op("get", 1), Op("pause", 0), Op("get", 1)>>,
                             <<Op("get", 1), Op("get", 1)>>>>,
               !.maxnow = 4]
\* A pause ends together with the wait of a client, who is killed then
Twice ==
  [Loop EXCEPT !.scripts = <<<<Op("blpop", 1), Op("get", 1)>>, <<Op("pause", 1), To("kill", 1, 0), Op("get", 1)>>>>,
               !.connected = <<2, 1>>, !.maxnow = 4]
Replies ==
  [Loop EXCEPT !.scripts = <<<<Op("skip", 0), Op("get", 1), Op("get", 1), Op("off", 0), Op("get", 1), Op("skip", 0),
                               Op("on", 0), Op("skip", 0), Op("on", 0)>>>>,
               !.connected = <<1>>, !.replies = TRUE]

-----------------------------------------------------------------------------
(* Keys of databases 0 and 1 *)

a0 == <<0, "a">>
b0 == <<0, "b">>
c0 == <<0, "c">>
d0 == <<0, "d">>
a1 == <<1, "a">>
C(op, k, n) == [op |-> op, k |-> k, n |-> n, v |-> 5, to |-> k]
T(op, k, to) == [op |-> op, k |-> k, n |-> 0, v |-> 0, to |-> to]

Times ==
  [kind |-> "expiry", calls |-> FALSE, keys |-> {a0, b0, a1}, shared |-> {a0, b0, a1}, cmds |-> {}, local |-> {},
   late |-> {0}, start |-> 2, maxnow |-> 5, maxops |-> 3, slave |-> TRUE, file |-> TRUE, pauses |-> FALSE,
   cycles |-> FALSE, dbnum |-> 1, percall |-> 1, lookups |-> 4, check |-> 1, sparse |-> FALSE, sec |-> 2,
   fasttime |-> 0, wrap |-> 4]

\* One key, and a clock that moves while a command runs
Access ==
  [Times EXCEPT !.keys = {a0}, !.shared = {a0}, !.late = {0, 1},
                !.cmds = {C("setex", a0, 1), C("incr", a0, 0), C("script", a0, 0), C("expire", a0, 1),
                          C("pexpire", a0, -1), C("expireat", a0, 2), C("pexpireat", a0, 2), C("persist", a0, 0),
                          C("touch", a0, 0)}]
Moves ==
  [Times EXCEPT !.cmds = {C("set", b0, 0), C("setex", a0, 1), C("pexpire", b0, 1), T("rename", a0, b0),
                          T("rename", b0, a0), T("move", a0, a1), C("incr", a1, 0), C("del", b0, 0),
                          C("flushall", a0, 0)}]
\* The active cycle over two databases, with pauses; and with few lookups
Cycles ==
  [Times EXCEPT !.slave = FALSE, !.dbnum = 2, !.cycles = TRUE, !.pauses = TRUE, !.fasttime = 1,
                !.cmds = {C("setex", a0, 1), C("setex", b0, 1), C("setex", a1, 1)}]
Sparse == [Cycles EXCEPT !.check = 2, !.lookups = 1, !.percall = 2, !.sparse = TRUE, !.pauses = FALSE]
\* Clients that write to the slave
Sweeps ==
  [Times EXCEPT !.shared = {b0}, !.file = FALSE,
                !.cmds = {C("setex", b0, 1), C("incr", b0, 0), C("flushall", a0, 0)},
                !.local = {C("setex", a0, 1), C("pexpire", a0, 3), C("setex", a1, 2), C("persist", a0, 0),
                           T("move", a0, a1)}]

Val(n, lru) == [size |-> n, lru |-> lru]
Memory ==
  [kind |-> "evict", calls |-> FALSE, keys |-> {a0, b0, c0, d0},
   data |-> a0 :> Val(1, 0) @@ b0 :> Val(1, 1) @@ c0 :> Val(1, 2), volatile |-> {}, long |-> {"b"}, dbs |-> {0},
   cmds |-> {C("set", d0, 1), C("get", a0, 0), C("set", a0, 1)}, maxops |-> 3, maxnow |-> 3, start |-> 3,
   pool |-> 2, samples |-> 2, maxmemory |-> 5, policy |-> "allkeys-lru", policies |-> {}, pauses |-> FALSE,
   lazy |-> FALSE, threshold |-> 1, maxover |-> 0, lfumax |-> 3, minutes |-> 2, minute |-> 1,
   decay |-> 1, ullmax |-> 99]
Lru == [Memory EXCEPT !.samples = 3, !.pool = 3]
\* The clocks of 24 and 16 bits wrap
Wrap ==
  [Memory EXCEPT !.start = 6, !.maxnow = 9, !.samples = 1, !.policies = {"allkeys-lru", "allkeys-lfu"}, !.pauses = TRUE]
Ttl ==
  [Memory EXCEPT !.policy = "volatile-ttl", !.volatile = {a0, b0, c0}, !.maxops = 4, !.maxover = 2,
                 !.cmds = {C("persist", a0, 0), C("expire", a0, 3), C("set", d0, 2), C("expire", d0, 2)}]
Dbs ==
  [Memory EXCEPT !.keys = {a0, b0, a1}, !.data = a0 :> Val(1, 0) @@ b0 :> Val(1, 1) @@ a1 :> Val(1, 2), !.dbs = {0, 1},
                 !.samples = 1, !.volatile = {a0, a1}, !.policy = "volatile-lru",
                 !.cmds = {C("set", b0, 1), C("persist", a0, 0), C("persist", a1, 0), C("set", a1, 2)},
                 !.policies = {"volatile-lru", "volatile-random", "allkeys-random", "noeviction"}]
\* Values that the thread frees
Lazy ==
  [Memory EXCEPT !.data = a0 :> Val(2, 0) @@ b0 :> Val(2, 1) @@ c0 :> Val(2, 2), !.lazy = TRUE,
                 !.maxmemory = 6, !.cmds = {C("set", d0, 2), C("unlink", a0, 0), C("get", b0, 0)}]
Unlinks == [Lazy EXCEPT !.lazy = FALSE, !.policies = {"allkeys-lru", "noeviction"}]

Text(t) == [type |-> "string", enc |-> "raw", v |-> t, ex |-> Rd!None]
Num(t) == [Text(t) EXCEPT !.enc = "int"]
Until(item, ex) == [item EXCEPT !.ex = ex]
Box(type, enc, v) == [type |-> type, enc |-> enc, v |-> v, ex |-> Rd!None]
Put(k, item) == [k |-> k, item |-> item]
Wide == [intset |-> 3, entries |-> 3, value |-> 2]
Tight == [intset |-> 1, entries |-> 1, value |-> 1]
k0 == <<0, <<1>>>>
k1 == <<1, <<12>>>>
Files ==
  [kind |-> "rdb", calls |-> FALSE, keys |-> {k0, k1}, cmds |-> <<>>, scripts |-> {}, dbnum |-> 2, compression |-> TRUE,
   checksum |-> TRUE, depth |-> 1, repl |-> FALSE, slave |-> FALSE, limits |-> Wide, otherlimits |-> {Wide, Tight},
   changes |-> 1, seconds |-> 0, delay |-> 1, errors |-> FALSE, crash |-> FALSE, maxops |-> 2, maxnow |-> 0, lens |-> {},
   texts |-> {}, rooms |-> {}]
\* n bytes, after the first q a pattern of p
Pattern(n, p, q) == [i \in 1..n |-> IF i <= q THEN 20 + i ELSE i % p]
\* Every type in every encoding, saved under one configuration and loaded under another
Values ==
  [Files EXCEPT !.lens = 0..70 \cup {127, 128, 129, 255, 256, 257, 2047, 2048, 2049}, !.maxops = 1, !.keys = {k0},
     !.texts = {Pattern(n, p, q) : n \in 20..40 \cup {70, 300}, p \in {1, 2, 3, 5}, q \in {0, 3, 35}}, !.rooms = {9, 16, 66},
     !.cmds = LET v ==
       <<Num(<<7>>), Num(<<Rd!Minus, 1, 2>>), Num(<<3, 0, 0, 0>>), Text(<<>>), Text(<<0, 7>>), Text(<<1, 2>>), Text(<<11>>),
        Text([i \in 1..20 |-> 11]), Text([i \in 1..70 |-> 11]), Text([i \in 1..40 |-> 10 + i]),
        Box("list", "quicklist", <<<<<<11>>>>>>), 
        Box("list", "quicklist", <<<<<<1>>, <<2>>>>, [i \in 1..24 |-> <<11>>], <<<<11, 12>>, <<>>>>>>),
        Box("set", "intset", {<<1>>, <<2, 0>>}), Box("set", "ht", {<<1>>, <<2>>}), Box("set", "ht", {<<11>>, <<1, 2>>, <<>>}),
        Box("zset", "ziplist", <<<<<<11>>, <<1>>>>, <<<<1>>, <<2>>>>>>),
        Box("zset", "skiplist", <<<<<<11, 12, 13>>, <<1>>>>, <<<<1>>, <<2>>>>>>),
        Box("zset", "skiplist", <<<<<<12>>, <<1>>>>, <<<<11>>, <<3>>>>>>),
        Box("hash", "ziplist", <<<<<<11>>, <<12, 12>>>>, <<<<1>>, <<>>>>>>),
        Box("hash", "ht", <<<<<<11>>, <<12>>>>, <<<<1>>, <<2>>>>>>),
        Box("hash", "ht", <<<<<<12>>, <<11, 12, 13>>>>>>)>>
       IN [i \in DOMAIN v |-> Put(k0, v[i])]]
\* Saves of all kinds that fail and overlap with changes
Saves ==
  [Files EXCEPT !.otherlimits = {}, !.errors = TRUE, !.crash = TRUE, !.maxnow = 2,
     !.cmds = <<Put(k0, Text(<<11>>)), Put(k0, Rd!NoKey), Put(k1, Until(Num(<<5>>), 1))>>]
\* A slave, with scripts and the place in the history
Copies ==
  [Files EXCEPT !.otherlimits = {}, !.repl = TRUE, !.slave = TRUE, !.maxnow = 2, !.scripts = {<<11, 12>>}, !.changes = 0,
     !.checksum = FALSE, !.compression = FALSE, !.crash = TRUE,
     !.cmds = <<Put(k0, Until(Text(<<11>>), 1)), Put(k1, Num(<<5>>))>>]

-----------------------------------------------------------------------------
Scenarios == {Forms, Holds, Stream, HeldLong, HeldStream, Quoted, Output, Long, Limits, Blocks,
              Always, Accepts, Idle, Slaves, Pauses, Twice, Replies, Access, Moves, Cycles, Sparse, Sweeps, Lru, Wrap, Ttl, Dbs, Lazy, Unlinks,
              Values, Saves, Copies}

Init ==
  /\ conf \in Configs
  /\ kind = conf.kind
  /\ last = NoCall
  /\ s = CASE conf.kind = "requests" -> Rq!RequestsInit
           [] conf.kind = "quoted" -> <<>>
           [] conf.kind = "clients" -> Cl!ClientsInit
           [] conf.kind = "expiry" -> Ex!ExpiryInit
           [] conf.kind = "evict" -> Ev!EvictInit
           [] conf.kind = "rdb" -> Rd!RdbInit
Next == Rq!RequestsNext \/ Rq!QuotedNext \/ Cl!ClientsNext \/ Ex!ExpiryNext \/ Ev!EvictNext \/ Rd!RdbNext
Spec == Init /\ [][Next]_svars

\* A connection is served in order.  The requests of a client are parsed and
\* executed as they were sent, however they are cut into reads; its replies
\* reach it as they were promised, however much the socket takes; pauses,
\* blocked commands and the death of other clients lose and repeat nothing.
\* Two things a pause does break, and ClosedByPeer and StreamForwarded say how
\* far: a long argument that arrives meanwhile may cost the connection, and the
\* replicas behind a link that was paused stay behind.
ConnectionsServed ==
  /\ Rq!RequestsInOrder /\ Rq!ErrorsFound /\ Rq!ClosedByPeer /\ Rq!StreamForwarded /\ Rq!QuotedReadBack
  /\ Cl!OutputInOrder /\ Cl!RepliesWanted /\ Cl!InputServed /\ Cl!RepliesAfterSync

\* The bookkeeping of the event loop is right: the lists agree with the flags
\* of the clients, who has output is written to, the buffers are counted right
\* for the limits, and nothing runs for a client that was freed, unless the end
\* of a pause had put it in the queue of unblocked clients a second time.
ClientsKept == Cl!ClientLists /\ Cl!NoUseAfterFree /\ Cl!WritesScheduled /\ Cl!ReplyBytesCounted

\* The copies of the keyspace agree: the append only file and the slave follow
\* the keys that expire at the master, and read only commands get the same from
\* both; the pool of eviction says which keys are best to evict although it
\* outlives the keys, and the limit is answered for, but for an error too many
\* when the thread has freed values meanwhile; the RDB file loads, holds a dataset
\* the server had, and is only taken for up to date when it is.
CopiesAgree ==
  /\ Ex!FileRebuilds /\ Ex!SlaveFollows /\ Ex!ReadsAgree /\ Ex!SlaveKeysTracked /\ Ex!DatabasesInTurn
  /\ Ev!PoolKeepsBest /\ Ev!PoolBuffers /\ Ev!GhostsOnce /\ Ev!LimitAnswer
  /\ Rd!EncodingsReadBack /\ Rd!FileLoads /\ Rd!NothingUnsaved

\* No step of the server removes a key it must not: none while the clients
\* are paused, by expiry or by eviction, none without a time to live under a
\* volatile policy, none to make room where there is room, except for what the
\* thread has freed since the call began, which is not looked at.
KeysSpared == [][Ex!PausedKeeps /\ Ev!PausedKeepsMemory /\ Ev!VolatileKeeps /\ Ev!NeededKeeps]_svars
=============================================================================
