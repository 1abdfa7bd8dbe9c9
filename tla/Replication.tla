---------------------------- MODULE Replication ----------------------------
(***************************************************************************)
(* Asynchronous replication with PSYNC version 2 (replication.c): any      *)
(* instance may be master, slave or chained slave, be promoted, demoted,   *)
(* restarted, or lose its links at any time.                               *)
(*                                                                         *)
(* The event loop of an instance is single threaded, so a handler is one   *)
(* action.  A unit of replication offset is one command of the stream      *)
(* instead of one byte; a dataset is the sequence of writes that built it, *)
(* each with the database it was applied to.  The master reads the end of  *)
(* a slave's old connection before the PSYNC of its next one.              *)
(***************************************************************************)
EXTENDS Integers, Sequences, FiniteSets

CONSTANTS
  Node,         \* Redis instances
  NULL,         \* a NULL pointer
  DB,           \* database numbers
  BacklogSize,  \* server.repl_backlog_size, in stream units
  MaxId,        \* bound: replication ids generated
  Budget        \* bounds: how often each kind of outside event happens

ASSUME NodeAssumption == Cardinality(Node) \in Nat
ASSUME DBAssumption == DB \subseteq Nat /\ 0 \in DB
ASSUME BacklogSizeAssumption == BacklogSize \in Nat \ {0}

\* Outside events: writes and transactions of clients, PINGs, administrator
\* commands, and faults.
Event == {"write", "multi", "ping", "slaveof", "noone", "restart", "bgsave", "ttl",
          "resize", "aofrw", "loss", "uncached", "kick", "forkfail", "savefail",
          "loadfail"}
ASSUME BudgetAssumption == Budget \in [Event -> Nat]

VARIABLES
  masterhost,           \* [Node -> Node \cup {NULL}]
  repl_state,           \* server.repl_state, slave side
  replid, replid2,      \* the two replication ids
  second_replid_offset, \* up to where replid2 is valid
  master_repl_offset,   \* offset of the last unit of the stream
  repl_backlog,         \* NULL, or its first offset and its contents
  slaveseldb,           \* database last selected in the stream, -1 unknown
  data,                 \* the dataset
  master, cached_master,\* NULL, or the client object of the master
  initial,              \* master_replid and master_initial_offset
  slaves,               \* client objects of the slaves: replstate, offset, buffer
  link,                 \* the slave's connection to its master
  rdb_child, rdb_file,  \* dataset being saved in background, saved RDB file
  nextId, nextWrite,    \* fresh replication ids, fresh writes
  used                  \* events that happened so far

ids     == <<replid, replid2, second_replid_offset, nextId>>
stream  == <<master_repl_offset, repl_backlog, slaveseldb>>
saves   == <<rdb_child, rdb_file>>
client  == <<master, cached_master, initial>>
bounds  == <<nextWrite, used>>
vars    == <<masterhost, repl_state, ids, stream, data, client, slaves, link,
             saves, bounds>>

NoId  == 0                          \* clearReplicationId2: "000...0"
AnyId == -1                         \* PSYNC ? -1
NoLink   == [st |-> "none", req |-> NULL, chan |-> <<>>]
NoClient == [st |-> "none", off |-> 0, buf |-> <<>>]
NoTxn    == [queue |-> <<>>, data |-> <<>>, db |-> 0]
EmptyRdb == [ok |-> TRUE, data |-> <<>>, replid |-> NoId, off |-> 0, db |-> -1]

\* Units of the stream.
Select(d)  == [k |-> "select", v |-> d]
Write(w)   == [k |-> "write",  v |-> w]
Ping       == [k |-> "ping",   v |-> 0]
Multi      == [k |-> "multi",  v |-> 0]
Exec       == [k |-> "exec",   v |-> 0]
InStream(i) == i.k \in {"select", "write", "ping", "multi", "exec"}

\* Replies to PSYNC and the RDB payload.
FullResync(id, off) == [k |-> "fullresync", id |-> id, off |-> off]
Continue(id)        == [k |-> "continue", id |-> id]
NoMasterLink        == [k |-> "nomasterlink"]
ErrorReply          == [k |-> "error"]
Payload(rdb)        == [k |-> "rdb", rdb |-> rdb]

Init ==
  /\ masterhost = [n \in Node |-> NULL]
  /\ repl_state = [n \in Node |-> "NONE"]
  /\ replid \in {f \in [Node -> 1..Cardinality(Node)] :
                   \A a, b \in Node : a # b => f[a] # f[b]}
  /\ replid2 = [n \in Node |-> NoId]
  /\ second_replid_offset = [n \in Node |-> -1]
  /\ master_repl_offset = [n \in Node |-> 0]
  /\ repl_backlog = [n \in Node |-> NULL]
  /\ slaveseldb = [n \in Node |-> -1]
  /\ data = [n \in Node |-> <<>>]
  /\ master = [n \in Node |-> NULL]
  /\ cached_master = [n \in Node |-> NULL]
  /\ initial = [n \in Node |-> [id |-> NoId, off |-> -1]]
  /\ slaves = [n \in Node |-> [s \in Node |-> NoClient]]
  /\ link = [n \in Node |-> NoLink]
  /\ rdb_child = [n \in Node |-> NULL]
  /\ rdb_file = [n \in Node |-> EmptyRdb]
  /\ nextId = Cardinality(Node) + 1
  /\ nextWrite = 1
  /\ used = [k \in Event |-> 0]

\* An event after the events u of the same step, and alone.
Then(u, k) == u[k] < Budget[k] /\ used' = [u EXCEPT ![k] = @ + 1]
Happens(k) == Then(used, k)

-----------------------------------------------------------------------------
(* The stream: feeding the backlog and the slaves.                         *)

\* listLength(server.slaves) != 0
HasSlaves(n) == \E s \in Node : slaves[n][s].st # "none"

\* The connection l of s is the one its client object at n stands for.
Serves(n, s, l) == masterhost[s] = n /\ l.st = "open" /\ l.req = NULL
Attached(n, s)  == Serves(n, s, link[s])

createReplicationBacklog(off) == [off |-> off + 1, hist |-> <<>>]

\* Mutant: repl_backlog_off is not recomputed when old units are overwritten.
FeedKeepsOff(bl, items) ==
  LET all  == bl.hist \o items
      over == IF Len(all) > BacklogSize THEN Len(all) - BacklogSize ELSE 0
  IN [off |-> bl.off, hist |-> SubSeq(all, over + 1, Len(all))]

\* feedReplicationBacklog: keep the last BacklogSize units.
feedReplicationBacklog(bl, items) ==
  LET all  == bl.hist \o items
      over == IF Len(all) > BacklogSize THEN Len(all) - BacklogSize ELSE 0
  IN [off |-> bl.off + over, hist |-> SubSeq(all, over + 1, Len(all))]

\* Slaves past WAIT_BGSAVE_START get the units: into the output buffer while
\* the RDB file is not ready, onto the connection afterwards.
FedClients(n, items) ==
  [s \in Node |-> IF slaves[n][s].st = "wait_bgsave_end"
                  THEN [slaves[n][s] EXCEPT !.buf = @ \o items]
                  ELSE slaves[n][s]]
FedLink(n, s, items) ==
  IF Attached(n, s) /\ slaves[n][s].st = "online"
  THEN [link[s] EXCEPT !.chan = @ \o items] ELSE link[s]

\* disconnectSlaves and freeClient of a slave: the slave still reads what is
\* in flight, then the end of the connection.
Closed(l) == IF l.st = "open" THEN [l EXCEPT !.st = "closed"] ELSE l
ClosedLink(n, s) == IF Attached(n, s) /\ slaves[n][s].st # "none"
                    THEN Closed(link[s]) ELSE link[s]

\* replicationFeedSlaves on a top level master; nothing without a backlog.
replicationFeedSlaves(m, d, items) ==
  IF repl_backlog[m] = NULL /\ ~HasSlaves(m)
  THEN UNCHANGED <<stream, slaves, link>>
  ELSE LET all == IF slaveseldb[m] # d THEN <<Select(d)>> \o items ELSE items IN
       /\ slaveseldb' = [slaveseldb EXCEPT ![m] = d]
       /\ repl_backlog' = [repl_backlog EXCEPT ![m] = feedReplicationBacklog(@, all)]
       /\ master_repl_offset' = [master_repl_offset EXCEPT ![m] = @ + Len(all)]
       /\ slaves' = [slaves EXCEPT ![m] = FedClients(m, all)]
       /\ link' = [s \in Node |-> FedLink(m, s, all)]

-----------------------------------------------------------------------------
(* Saving the dataset in background.                                       *)

\* rdbPopulateSaveInfo: the database selected in the stream at this point,
\* or -1 when no replication information can be stored.
StreamDb(n, haslog) ==
  CASE masterhost[n] = NULL /\ haslog -> IF slaveseldb[n] = -1 THEN 0 ELSE slaveseldb[n]
    [] OTHER -> CASE master[n] # NULL -> master[n].db
                  [] cached_master[n] # NULL -> cached_master[n].db
                  [] OTHER -> -1

\* What the child of rdbSaveBackground writes, frozen by fork().
Snapshot(n, id, haslog) ==
  LET d == StreamDb(n, haslog) IN
  [ok |-> TRUE, data |-> data[n], db |-> d,
   replid |-> IF d = -1 THEN NoId ELSE id,
   off |-> IF d = -1 THEN 0 ELSE master_repl_offset[n]]

Waiting(cl) == {s \in Node : cl[s].st = "wait_bgsave_start"}

\* startBgsaveForReplication, the fork succeeding: every waiting slave is set
\* up by replicationSetupSlaveForFullResync.  cl and lk are the clients and
\* connections of n at this point of the calling handler.
startBgsaveForReplication(n, cl, lk, id) ==
  /\ StreamDb(n, TRUE) # -1
  /\ rdb_child' = [rdb_child EXCEPT ![n] = Snapshot(n, id, TRUE)]
  /\ slaveseldb' = [slaveseldb EXCEPT ![n] = -1]
  /\ slaves' = [slaves EXCEPT ![n] =
       [s \in Node |-> IF s \in Waiting(cl)
                       THEN [st |-> "wait_bgsave_end", off |-> master_repl_offset[n],
                             buf |-> <<>>]
                       ELSE cl[s]]]
  /\ link' = [s \in Node |-> IF s \in Waiting(cl) /\ Serves(n, s, lk[s])
                             THEN [lk[s] EXCEPT !.chan =
                                     Append(@, FullResync(id, master_repl_offset[n]))]
                             ELSE lk[s]]

\* startBgsaveForReplication failing: the waiting slaves get an error and are
\* closed after the reply.
failBgsaveForReplication(n, cl, lk) ==
  /\ rdb_child' = [rdb_child EXCEPT ![n] = NULL]
  /\ slaves' = [slaves EXCEPT ![n] =
       [s \in Node |-> IF s \in Waiting(cl) THEN NoClient ELSE cl[s]]]
  /\ link' = [s \in Node |-> IF s \in Waiting(cl) /\ Serves(n, s, lk[s])
                             THEN [lk[s] EXCEPT !.chan = Append(@, ErrorReply),
                                                !.st = "closed"]
                             ELSE lk[s]]
  /\ UNCHANGED slaveseldb
\* It fails when there is nothing to store for the slaves, or fork() fails; u
\* counts the events of this step so far.
SaveFails(n, u) ==
  IF StreamDb(n, TRUE) = -1 THEN used' = u ELSE Then(u, "forkfail")

\* BGSAVE from a client or a save point: no slave can attach to it.
Bgsave(n) ==
  /\ rdb_child[n] = NULL
  /\ Happens("bgsave")
  /\ rdb_child' = [rdb_child EXCEPT ![n] =
                     Snapshot(n, replid[n], repl_backlog[n] # NULL)]
  /\ UNCHANGED <<masterhost, repl_state, ids, stream, data, client, slaves, link,
                 rdb_file, nextWrite>>

\* updateSlavesWaitingBgsave: at the end of a good save the slaves that were
\* registering differences get the file and then the differences; a slave
\* that came too late for it starts another save.
SentClients(n) ==
  [s \in Node |-> IF slaves[n][s].st = "wait_bgsave_end"
                  THEN [NoClient EXCEPT !.st = "online"] ELSE slaves[n][s]]
SentLinks(n) ==
  [s \in Node |-> IF slaves[n][s].st = "wait_bgsave_end" /\ Attached(n, s)
                  THEN [link[s] EXCEPT !.chan =
                          @ \o <<Payload(rdb_child[n])>> \o slaves[n][s].buf]
                  ELSE link[s]]
\* After a failed save the slaves waiting for it are freed.
DroppedClients(n) ==
  [s \in Node |-> IF slaves[n][s].st = "wait_bgsave_end" THEN NoClient ELSE slaves[n][s]]
DroppedLinks(n) ==
  [s \in Node |-> IF slaves[n][s].st = "wait_bgsave_end" /\ Attached(n, s)
                  THEN Closed(link[s]) ELSE link[s]]

updateSlavesWaitingBgsave(n, cl, lk, u) ==
  IF Waiting(cl) = {}
  THEN /\ rdb_child' = [rdb_child EXCEPT ![n] = NULL]
       /\ slaves' = [slaves EXCEPT ![n] = cl]
       /\ link' = lk
       /\ used' = u
       /\ UNCHANGED slaveseldb
  ELSE \/ startBgsaveForReplication(n, cl, lk, replid[n]) /\ used' = u
       \/ failBgsaveForReplication(n, cl, lk) /\ SaveFails(n, u)

\* Mutant: the offset is stored when the save ends, not when it starts.
BgsaveDoneLateOffset(n) ==
  /\ rdb_child[n] # NULL
  /\ rdb_file' = [rdb_file EXCEPT ![n] = [rdb_child[n] EXCEPT !.off = master_repl_offset[n]]]
  /\ updateSlavesWaitingBgsave(n, SentClients(n), SentLinks(n), used)
  /\ UNCHANGED <<masterhost, repl_state, ids, master_repl_offset, repl_backlog, data,
                 client, nextWrite>>

BgsaveDone(n) ==
  /\ rdb_child[n] # NULL
  /\ rdb_file' = [rdb_file EXCEPT ![n] = rdb_child[n]]
  /\ updateSlavesWaitingBgsave(n, SentClients(n), SentLinks(n), used)
  /\ UNCHANGED <<masterhost, repl_state, ids, master_repl_offset, repl_backlog, data,
                 client, nextWrite>>

BgsaveFailed(n) ==
  /\ rdb_child[n] # NULL
  /\ used["savefail"] < Budget["savefail"]
  /\ updateSlavesWaitingBgsave(n, DroppedClients(n), DroppedLinks(n),
                               [used EXCEPT !["savefail"] = @ + 1])
  /\ UNCHANGED <<masterhost, repl_state, ids, master_repl_offset, repl_backlog, data,
                 client, rdb_file, nextWrite>>

\* Mutant: the cron looks for slaves in the wrong state.
CronBgsaveWrongState(n) ==
  /\ rdb_child[n] = NULL
  /\ \E s \in Node : slaves[n][s].st = "wait_bgsave_end"
  /\ startBgsaveForReplication(n, slaves[n], link, replid[n])
  /\ UNCHANGED <<masterhost, repl_state, ids, master_repl_offset, repl_backlog, data,
                 client, rdb_file, bounds>>

\* replicationCron starting the save of slaves that wait for one, and the
\* same save failing to start.
CronBgsave(n) ==
  /\ rdb_child[n] = NULL
  /\ Waiting(slaves[n]) # {}
  /\ \/ startBgsaveForReplication(n, slaves[n], link, replid[n]) /\ UNCHANGED used
     \/ failBgsaveForReplication(n, slaves[n], link) /\ SaveFails(n, used)
  /\ UNCHANGED <<masterhost, repl_state, ids, master_repl_offset, repl_backlog, data,
                 client, rdb_file, nextWrite>>

-----------------------------------------------------------------------------
(* The master side of a synchronisation: syncCommand.                      *)

\* A PSYNC request of s is waiting to be read by m.
Asks(m, s) ==
  /\ masterhost[s] = m
  /\ link[s].st = "open" /\ link[s].req # NULL
  /\ slaves[m][s].st = "none"

\* The link of a slave once its request was answered with the messages msgs.
Answered(msgs) == [st |-> "open", req |-> NULL, chan |-> msgs]

CanSync(m) == masterhost[m] = NULL \/ repl_state[m] = "CONNECTED"

\* -NOMASTERLINK: a slave that lost its master serves nobody new.
SyncRefused(m, s) ==
  /\ Asks(m, s)
  /\ ~CanSync(m)
  /\ link' = [link EXCEPT ![s] = Answered(<<NoMasterLink>>)]
  /\ UNCHANGED <<masterhost, repl_state, ids, stream, data, client, slaves, saves, bounds>>

\* masterTryPartialResynchronization: the id is known up to the offset asked
\* for, and the backlog still has everything from there.
PartialOK(m, req) ==
  /\ \/ req.id = replid[m]
     \/ req.id = replid2[m] /\ req.off <= second_replid_offset[m]
  /\ repl_backlog[m] # NULL
  /\ req.off >= repl_backlog[m].off
  /\ req.off <= repl_backlog[m].off + Len(repl_backlog[m].hist)

\* addReplyReplicationBacklog: the backlog from the given offset on.
BacklogFrom(m, off) ==
  LET bl == repl_backlog[m] IN SubSeq(bl.hist, off - bl.off + 1, Len(bl.hist))

SyncPartial(m, s) ==
  /\ Asks(m, s)
  /\ CanSync(m)
  /\ PartialOK(m, link[s].req)
  /\ slaves' = [slaves EXCEPT ![m][s] = [NoClient EXCEPT !.st = "online"]]
  /\ link' = [link EXCEPT ![s] = Answered(<<Continue(replid[m])>>
                                          \o BacklogFrom(m, link[s].req.off))]
  /\ UNCHANGED <<masterhost, repl_state, ids, stream, data, client, saves, bounds>>

\* Full resynchronisation.  The first slave of an instance without backlog
\* makes it start a new history.
StartsHistory(m) == ~HasSlaves(m) /\ repl_backlog[m] = NULL
SyncId(m) == IF StartsHistory(m) THEN nextId ELSE replid[m]
NewHistory(m) ==
  IF StartsHistory(m)
  THEN /\ nextId <= MaxId
       /\ nextId' = nextId + 1
       /\ replid' = [replid EXCEPT ![m] = nextId]
       /\ replid2' = [replid2 EXCEPT ![m] = NoId]
       /\ second_replid_offset' = [second_replid_offset EXCEPT ![m] = -1]
       /\ repl_backlog' = [repl_backlog EXCEPT ![m] =
                             createReplicationBacklog(master_repl_offset[m])]
  ELSE UNCHANGED <<ids, repl_backlog>>

WithWaiter(m, s) == [slaves[m] EXCEPT ![s] = [NoClient EXCEPT !.st = "wait_bgsave_start"]]
WithAnswered(s)  == [link EXCEPT ![s] = Answered(<<>>)]
Registering(m)   == {t \in Node : slaves[m][t].st = "wait_bgsave_end"}

SyncFull(m, s) ==
  /\ Asks(m, s)
  /\ CanSync(m)
  /\ ~PartialOK(m, link[s].req)
  /\ NewHistory(m)

\* Mutant: the output buffer of the other slave is not copied.
SyncFullAttachNoCopy(m, s) ==
  /\ SyncFull(m, s)
  /\ rdb_child[m] # NULL
  /\ \E t \in Registering(m) :
       /\ slaves' = [slaves EXCEPT ![m][s] = [slaves[m][t] EXCEPT !.buf = <<>>]]
       /\ link' = [link EXCEPT ![s] = Answered(<<FullResync(replid[m], slaves[m][t].off)>>)]
  /\ slaveseldb' = [slaveseldb EXCEPT ![m] = -1]
  /\ UNCHANGED <<masterhost, repl_state, master_repl_offset, data, client, saves, bounds>>

\* Case 1: a save is in progress and another slave registers differences.
SyncFullAttach(m, s) ==
  /\ SyncFull(m, s)
  /\ rdb_child[m] # NULL
  /\ \E t \in Registering(m) :
       /\ slaves' = [slaves EXCEPT ![m][s] = slaves[m][t]]
       /\ link' = [link EXCEPT ![s] = Answered(<<FullResync(replid[m], slaves[m][t].off)>>)]
  /\ slaveseldb' = [slaveseldb EXCEPT ![m] = -1]
  /\ UNCHANGED <<masterhost, repl_state, master_repl_offset, data, client, saves, bounds>>

\* The save in progress is no good for replication, or an AOF rewrite is
\* active: wait for the next one.
SyncFullWait(m, s) ==
  /\ SyncFull(m, s)
  /\ IF rdb_child[m] # NULL THEN Registering(m) = {} /\ UNCHANGED used ELSE Happens("aofrw")
  /\ slaves' = [slaves EXCEPT ![m] = WithWaiter(m, s)]
  /\ link' = WithAnswered(s)
  /\ UNCHANGED <<masterhost, repl_state, master_repl_offset, slaveseldb, data, client,
                 saves, nextWrite>>

\* Case 3: no save in progress, one is started now (or fails to).
SyncFullStart(m, s) ==
  /\ SyncFull(m, s)
  /\ rdb_child[m] = NULL
  /\ \/ startBgsaveForReplication(m, WithWaiter(m, s), WithAnswered(s), SyncId(m))
        /\ UNCHANGED used
     \/ failBgsaveForReplication(m, WithWaiter(m, s), WithAnswered(s)) /\ SaveFails(m, used)
  /\ UNCHANGED <<masterhost, repl_state, master_repl_offset, data, client, rdb_file,
                 nextWrite>>

-----------------------------------------------------------------------------
(* The slave side.                                                         *)

\* replicationCron, connectWithMaster and the handshake of syncWithMaster up
\* to sending PSYNC, which touch nothing but the socket: the request uses the
\* cached master, or asks for a full resynchronisation ("? -1").
Connect(s) ==
  /\ repl_state[s] = "CONNECT"
  /\ repl_state' = [repl_state EXCEPT ![s] = "RECEIVE_PSYNC"]
  /\ link' = [link EXCEPT ![s] =
       [st |-> "open", chan |-> <<>>,
        req |-> IF cached_master[s] # NULL
                THEN [id |-> cached_master[s].id, off |-> cached_master[s].off + 1]
                ELSE [id |-> AnyId, off |-> -1]]]
  /\ initial' = [initial EXCEPT ![s].off = -1]
  /\ UNCHANGED <<masterhost, ids, stream, data, master, cached_master, slaves, saves, bounds>>

\* The next message on the connection of s has kind k.
Receives(s, k) == link[s].st # "none" /\ link[s].chan # <<>> /\ Head(link[s].chan).k = k
Msg(s) == Head(link[s].chan)
ReadLink(s) == [link[s] EXCEPT !.chan = Tail(@)]

\* disconnectSlaves at n, together with the new value l of n's own link.
disconnectSlaves(n, l) ==
  /\ slaves' = [slaves EXCEPT ![n] = [s \in Node |-> NoClient]]
  /\ link' = [s \in Node |-> IF s = n THEN l ELSE ClosedLink(n, s)]

\* +FULLRESYNC: the sub-slaves must resync as well.
RecvFullResync(s) ==
  /\ repl_state[s] = "RECEIVE_PSYNC" /\ Receives(s, "fullresync")
  /\ initial' = [initial EXCEPT ![s] = [id |-> Msg(s).id, off |-> Msg(s).off]]
  /\ cached_master' = [cached_master EXCEPT ![s] = NULL]
  /\ disconnectSlaves(s, ReadLink(s))
  /\ repl_backlog' = [repl_backlog EXCEPT ![s] = NULL]
  /\ repl_state' = [repl_state EXCEPT ![s] = "TRANSFER"]
  /\ UNCHANGED <<masterhost, ids, master_repl_offset, slaveseldb, data, master, saves, bounds>>

\* An error reply: the master is taken for one without PSYNC, and the SYNC
\* sent next meets a connection that is being closed.
RecvError(s) ==
  /\ repl_state[s] = "RECEIVE_PSYNC" /\ Receives(s, "error")
  /\ cached_master' = [cached_master EXCEPT ![s] = NULL]
  /\ disconnectSlaves(s, ReadLink(s))
  /\ repl_backlog' = [repl_backlog EXCEPT ![s] = NULL]
  /\ repl_state' = [repl_state EXCEPT ![s] = "TRANSFER"]
  /\ UNCHANGED <<masterhost, ids, master_repl_offset, slaveseldb, data, master, initial,
                 saves, bounds>>

RecvTryLater(s) ==
  /\ repl_state[s] = "RECEIVE_PSYNC" /\ Receives(s, "nomasterlink")
  /\ repl_state' = [repl_state EXCEPT ![s] = "CONNECT"]
  /\ link' = [link EXCEPT ![s] = NoLink]
  /\ UNCHANGED <<masterhost, ids, stream, data, client, slaves, saves, bounds>>

\* +CONTINUE: a changed id becomes ours, the old one our second id, and the
\* sub-slaves are disconnected to learn about it; the cached master lives on.
RecvContinue(s) ==
  LET c == cached_master[s]  new == Msg(s).id IN
  /\ repl_state[s] = "RECEIVE_PSYNC" /\ Receives(s, "continue")
  /\ IF new # c.id
     THEN /\ replid2' = [replid2 EXCEPT ![s] = c.id]
          /\ second_replid_offset' = [second_replid_offset EXCEPT ![s] =
                                        master_repl_offset[s] + 1]
          /\ replid' = [replid EXCEPT ![s] = new]
          /\ disconnectSlaves(s, ReadLink(s))
     ELSE /\ link' = [link EXCEPT ![s] = ReadLink(s)]
          /\ UNCHANGED <<replid, replid2, second_replid_offset, slaves>>
  /\ master' = [master EXCEPT ![s] = [c EXCEPT !.id = new]]
  /\ cached_master' = [cached_master EXCEPT ![s] = NULL]
  /\ repl_state' = [repl_state EXCEPT ![s] = "CONNECTED"]
  /\ repl_backlog' = [repl_backlog EXCEPT ![s] =
       IF @ = NULL THEN createReplicationBacklog(master_repl_offset[s]) ELSE @]
  /\ UNCHANGED <<masterhost, nextId, master_repl_offset, slaveseldb, data, initial,
                 saves, bounds>>

\* readSyncBulkPayload, the whole file received: it becomes our RDB file and
\* replaces the dataset; ids and offset are the master's.
RecvPayload(s) ==
  LET rdb == Msg(s).rdb IN
  /\ repl_state[s] = "TRANSFER" /\ Receives(s, "rdb")
  /\ rdb_file' = [rdb_file EXCEPT ![s] = rdb]
  /\ data' = [data EXCEPT ![s] = rdb.data]
  /\ master' = [master EXCEPT ![s] = [id |-> initial[s].id, off |-> initial[s].off,
                                      db |-> rdb.db, mstate |-> NoTxn]]
  /\ repl_state' = [repl_state EXCEPT ![s] = "CONNECTED"]
  /\ replid' = [replid EXCEPT ![s] = initial[s].id]
  /\ master_repl_offset' = [master_repl_offset EXCEPT ![s] = initial[s].off]
  /\ replid2' = [replid2 EXCEPT ![s] = NoId]
  /\ second_replid_offset' = [second_replid_offset EXCEPT ![s] = -1]
  /\ repl_backlog' = [repl_backlog EXCEPT ![s] =
       IF @ = NULL THEN createReplicationBacklog(initial[s].off) ELSE @]
  /\ link' = [link EXCEPT ![s] = ReadLink(s)]
  /\ UNCHANGED <<masterhost, nextId, slaveseldb, cached_master, initial, slaves, rdb_child,
                 bounds>>

\* The same when rdbLoad fails: the old dataset is gone, the file is bad.
RecvPayloadBad(s) ==
  /\ repl_state[s] = "TRANSFER" /\ Receives(s, "rdb")
  /\ Happens("loadfail")
  /\ rdb_file' = [rdb_file EXCEPT ![s] = [EmptyRdb EXCEPT !.ok = FALSE]]
  /\ data' = [data EXCEPT ![s] = <<>>]
  /\ repl_state' = [repl_state EXCEPT ![s] = "CONNECT"]
  /\ link' = [link EXCEPT ![s] = NoLink]
  /\ UNCHANGED <<masterhost, ids, stream, client, slaves, rdb_child, nextWrite>>

\* Executing one unit at the slave, on its dataset and selected database.
Execute(st, i) ==
  CASE i.k = "select" -> [st EXCEPT !.db = i.v]
    [] i.k = "write"  -> [st EXCEPT !.data = Append(@, <<i.v, st.db>>)]
    [] OTHER -> st

\* The transaction of the master's connection: the units read since MULTI,
\* and what executing them will make of the dataset, which nothing else
\* changes meanwhile.
InMulti(s) == master[s].mstate.queue # <<>>
Reached(s) == IF InMulti(s)
              THEN [data |-> master[s].mstate.data, db |-> master[s].mstate.db]
              ELSE [data |-> data[s], db |-> master[s].db]

\* readQueryFromClient on the master's connection: the unit is processed at
\* once, or queued between MULTI and EXEC.  Only what has been applied moves
\* the offset, and only that goes to the backlog and the sub-slaves.
RecvStream(s) ==
  LET i == Msg(s)
      queued == i.k = "multi" \/ (InMulti(s) /\ i.k # "exec")
      items == Append(master[s].mstate.queue, i)
      res == Execute(Reached(s), i)
  IN
  /\ repl_state[s] = "CONNECTED" /\ link[s].st # "none" /\ link[s].chan # <<>> /\ InStream(i)
  /\ IF queued
     THEN /\ master' = [master EXCEPT ![s].mstate = [queue |-> items, data |-> res.data,
                                                      db |-> res.db]]
          /\ link' = [link EXCEPT ![s] = ReadLink(s)]
          /\ UNCHANGED <<data, master_repl_offset, repl_backlog, slaves>>
     ELSE /\ data' = [data EXCEPT ![s] = res.data]
          /\ master' = [master EXCEPT ![s] = [@ EXCEPT !.mstate = NoTxn, !.db = res.db,
                                                       !.off = master[s].off + Len(items)]]
          /\ IF repl_backlog[s] = NULL THEN UNCHANGED <<master_repl_offset, repl_backlog>>
             ELSE /\ master_repl_offset' = [master_repl_offset EXCEPT ![s] = @ + Len(items)]
                  /\ repl_backlog' = [repl_backlog EXCEPT ![s] = feedReplicationBacklog(@, items)]
          /\ slaves' = [slaves EXCEPT ![s] = FedClients(s, items)]
          /\ link' = [t \in Node |-> IF t = s THEN ReadLink(s) ELSE FedLink(s, t, items)]
  /\ UNCHANGED <<masterhost, repl_state, ids, slaveseldb, cached_master, initial, saves, bounds>>

\* Mutant: what was read but not applied counts.
CachedReadOffset(s) == [master[s] EXCEPT !.mstate = NoTxn,
                                         !.off = @ + Len(master[s].mstate.queue)]
\* replicationCacheMaster: what was read but not applied is dropped, a
\* transaction in progress included.
Cached(s) == [master[s] EXCEPT !.mstate = NoTxn]
\* freeClient of the client of the master: it is cached, unless it is being
\* closed, blocked, or just unblocked (a protocol error in the stream, the end
\* of a CLIENT PAUSE).
FreeMaster(s, u) ==
  /\ master' = [master EXCEPT ![s] = NULL]
  /\ \/ cached_master' = [cached_master EXCEPT ![s] = Cached(s)] /\ used' = u
     \/ cached_master' = [cached_master EXCEPT ![s] = NULL] /\ Then(u, "uncached")
\* The slave sees the end of its connection, or a timeout; its own slaves stay.
ConnLost(s) ==
  /\ link[s].st # "none"
  /\ link[s].st = "closed" \/ used["loss"] < Budget["loss"]
  /\ link' = [link EXCEPT ![s] = NoLink]
  /\ repl_state' = [repl_state EXCEPT ![s] = "CONNECT"]
  /\ LET u == IF link[s].st = "closed" THEN used ELSE [used EXCEPT !["loss"] = @ + 1]
     IN IF repl_state[s] = "CONNECTED" THEN FreeMaster(s, u)
        ELSE used' = u /\ UNCHANGED <<master, cached_master>>
  /\ UNCHANGED <<masterhost, ids, stream, data, initial, slaves, saves, nextWrite>>

\* The master frees a slave: its connection is gone, or it timed out, or its
\* output buffer grew over the limit.
SlaveGone(m, s) ==
  /\ slaves[m][s].st # "none"
  /\ IF Attached(m, s) THEN Happens("kick") ELSE UNCHANGED used
  /\ slaves' = [slaves EXCEPT ![m][s] = NoClient]
  /\ link' = [link EXCEPT ![s] = ClosedLink(m, s)]
  /\ UNCHANGED <<masterhost, repl_state, ids, stream, data, client, saves, nextWrite>>

-----------------------------------------------------------------------------
(* Clients of a master, and its timers.                                    *)

\* A write command on database d, alone or in a MULTI/EXEC block.
ClientWrite(m, d) ==
  /\ masterhost[m] = NULL
  /\ data' = [data EXCEPT ![m] = Append(@, <<nextWrite, d>>)]
  /\ nextWrite' = nextWrite + 1
  /\ \/ Happens("write") /\ replicationFeedSlaves(m, d, <<Write(nextWrite)>>)
     \/ Happens("multi") /\ replicationFeedSlaves(m, d, <<Multi, Write(nextWrite), Exec>>)
  /\ UNCHANGED <<masterhost, repl_state, ids, client, saves>>

\* replicationCron: PING the slaves.
PingSlaves(m) ==
  /\ masterhost[m] = NULL
  /\ HasSlaves(m)
  /\ Happens("ping")
  /\ replicationFeedSlaves(m, slaveseldb[m], <<Ping>>)
  /\ UNCHANGED <<masterhost, repl_state, ids, data, client, saves, nextWrite>>

\* replicationCron: no slave for repl-backlog-ttl seconds.
FreeBacklog(m) ==
  /\ masterhost[m] = NULL
  /\ ~HasSlaves(m)
  /\ repl_backlog[m] # NULL
  /\ Happens("ttl") /\ nextId <= MaxId
  /\ replid' = [replid EXCEPT ![m] = nextId]
  /\ nextId' = nextId + 1
  /\ replid2' = [replid2 EXCEPT ![m] = NoId]
  /\ second_replid_offset' = [second_replid_offset EXCEPT ![m] = -1]
  /\ repl_backlog' = [repl_backlog EXCEPT ![m] = NULL]
  /\ UNCHANGED <<masterhost, repl_state, master_repl_offset, slaveseldb, data, client,
                 slaves, link, saves, nextWrite>>

\* CONFIG SET repl-backlog-size: the backlog starts again, empty.
resizeReplicationBacklog(n) ==
  /\ repl_backlog[n] # NULL
  /\ Happens("resize")
  /\ repl_backlog' = [repl_backlog EXCEPT ![n] =
                        createReplicationBacklog(master_repl_offset[n])]
  /\ UNCHANGED <<masterhost, repl_state, ids, master_repl_offset, slaveseldb, data, client,
                 slaves, link, saves, nextWrite>>

-----------------------------------------------------------------------------
(* Changes of role, and restarts.                                          *)

\* replicationCacheMasterUsingMyself
Myself(n) == [id |-> replid[n], off |-> master_repl_offset[n], db |-> 0, mstate |-> NoTxn]

\* SLAVEOF m: replicationSetMaster.
SlaveOf(s, m) ==
  /\ m # s /\ masterhost[s] # m
  /\ used["slaveof"] < Budget["slaveof"]
  /\ masterhost' = [masterhost EXCEPT ![s] = m]
  /\ disconnectSlaves(s, NoLink)
  /\ LET u == [used EXCEPT !["slaveof"] = @ + 1]
     IN IF master[s] # NULL THEN FreeMaster(s, u)
        ELSE /\ cached_master' = [cached_master EXCEPT ![s] =
                                    IF masterhost[s] = NULL THEN Myself(s) ELSE @]
             /\ used' = u /\ UNCHANGED master
  /\ repl_state' = [repl_state EXCEPT ![s] = "CONNECT"]
  /\ UNCHANGED <<ids, stream, data, initial, saves, nextWrite>>

\* Mutant: the second id is valid for one unit too much.
ShiftOffByOne(n) ==
  /\ nextId <= MaxId
  /\ nextId' = nextId + 1
  /\ replid' = [replid EXCEPT ![n] = nextId]
  /\ replid2' = [replid2 EXCEPT ![n] = replid[n]]
  /\ second_replid_offset' = [second_replid_offset EXCEPT ![n] = master_repl_offset[n] + 2]

\* The id of the master becomes the second id, for slaves that ask for the
\* first unit after what we have at the latest; our id is a new one.
shiftReplicationId(n) ==
  /\ nextId <= MaxId
  /\ nextId' = nextId + 1
  /\ replid' = [replid EXCEPT ![n] = nextId]
  /\ replid2' = [replid2 EXCEPT ![n] = replid[n]]
  /\ second_replid_offset' = [second_replid_offset EXCEPT ![n] = master_repl_offset[n] + 1]

\* SLAVEOF NO ONE: replicationUnsetMaster.
SlaveOfNoOne(s) ==
  /\ masterhost[s] # NULL
  /\ Happens("noone")
  /\ masterhost' = [masterhost EXCEPT ![s] = NULL]
  /\ shiftReplicationId(s)
  /\ master' = [master EXCEPT ![s] = NULL]
  /\ cached_master' = [cached_master EXCEPT ![s] = NULL]
  /\ disconnectSlaves(s, NoLink)
  /\ repl_state' = [repl_state EXCEPT ![s] = "NONE"]
  /\ slaveseldb' = [slaveseldb EXCEPT ![s] = -1]
  /\ UNCHANGED <<master_repl_offset, repl_backlog, data, initial, saves, nextWrite>>

\* The process dies and starts again with the RDB file and the role its
\* configuration file gives it (loadDataFromDisk).
Restart(n, m) ==
  LET rdb == rdb_file[n]  resume == m # NULL /\ rdb.db # -1 IN
  /\ m # n /\ rdb.ok
  /\ Happens("restart")
  /\ masterhost' = [masterhost EXCEPT ![n] = m]
  /\ repl_state' = [repl_state EXCEPT ![n] = IF m = NULL THEN "NONE" ELSE "CONNECT"]
  /\ data' = [data EXCEPT ![n] = rdb.data]
  /\ IF resume
     THEN replid' = [replid EXCEPT ![n] = rdb.replid] /\ UNCHANGED nextId
     ELSE /\ nextId <= MaxId
          /\ replid' = [replid EXCEPT ![n] = nextId]
          /\ nextId' = nextId + 1
  /\ master_repl_offset' = [master_repl_offset EXCEPT ![n] = IF resume THEN rdb.off ELSE 0]
  /\ cached_master' = [cached_master EXCEPT ![n] =
       IF resume THEN [id |-> rdb.replid, off |-> rdb.off, db |-> rdb.db, mstate |-> NoTxn]
       ELSE NULL]
  /\ replid2' = [replid2 EXCEPT ![n] = NoId]
  /\ second_replid_offset' = [second_replid_offset EXCEPT ![n] = -1]
  /\ repl_backlog' = [repl_backlog EXCEPT ![n] = NULL]
  /\ slaveseldb' = [slaveseldb EXCEPT ![n] = -1]
  /\ master' = [master EXCEPT ![n] = NULL]
  /\ initial' = [initial EXCEPT ![n] = [id |-> NoId, off |-> -1]]
  /\ slaves' = [slaves EXCEPT ![n] = [s \in Node |-> NoClient]]
  /\ link' = [s \in Node |-> IF s = n THEN NoLink
                             ELSE IF masterhost[s] = n THEN Closed(link[s]) ELSE link[s]]
  /\ rdb_child' = [rdb_child EXCEPT ![n] = NULL]
  /\ UNCHANGED <<rdb_file, nextWrite>>

-----------------------------------------------------------------------------
Sync(m, s) == SyncRefused(m, s) \/ SyncPartial(m, s) \/ SyncFullAttach(m, s)
              \/ SyncFullWait(m, s) \/ SyncFullStart(m, s)
Receive(s) == RecvFullResync(s) \/ RecvError(s) \/ RecvTryLater(s) \/ RecvContinue(s)
              \/ RecvPayload(s) \/ RecvStream(s)

Next ==
  \/ \E n \in Node : \/ Connect(n) \/ Receive(n) \/ RecvPayloadBad(n) \/ ConnLost(n)
                     \/ Bgsave(n) \/ BgsaveDone(n) \/ BgsaveFailed(n) \/ CronBgsave(n)
                     \/ PingSlaves(n) \/ FreeBacklog(n) \/ resizeReplicationBacklog(n)
                     \/ SlaveOfNoOne(n)
  \/ \E m, s \in Node : Sync(m, s) \/ SlaveGone(m, s) \/ SlaveOf(s, m)
  \/ \E n \in Node, d \in DB : ClientWrite(n, d)
  \/ \E n \in Node, m \in Node \cup {NULL} : Restart(n, m)

Spec == Init /\ [][Next]_vars

\* The event loop serves every readable connection and runs replicationCron
\* every second; a child ends, and a dead connection is noticed at the latest
\* by repl_timeout.  Nothing is assumed of clients, administrators and faults.
Fairness ==
  \A n \in Node :
    /\ WF_vars(Connect(n)) /\ WF_vars(Receive(n))
    /\ WF_vars(link[n].st = "closed" /\ ConnLost(n))
    /\ WF_vars(BgsaveDone(n)) /\ WF_vars(CronBgsave(n))
    /\ \A m \in Node : WF_vars(Sync(m, n)) /\ WF_vars(~Attached(m, n) /\ SlaveGone(m, n))

-----------------------------------------------------------------------------
(* Properties.                                                             *)

Unit    == [k : {"select"}, v : DB] \cup [k : {"write", "ping", "multi", "exec"}, v : Nat]
Dataset == Seq(Nat \X DB)
Rdb     == [ok : BOOLEAN, data : Dataset, replid : Nat, off : Nat, db : DB \cup {-1}]
SentRdb == [ok : BOOLEAN, data : Dataset, replid : Nat, off : Nat, db : DB]
Message == Unit \cup [k : {"fullresync"}, id : Nat, off : Nat]
                \cup [k : {"continue"}, id : Nat] \cup [k : {"nomasterlink", "error"}]
                \cup [k : {"rdb"}, rdb : SentRdb]
Backlog      == [off : Nat, hist : Seq(Unit)]
MasterClient == [id : Nat, off : Nat, db : DB,
                 mstate : [queue : Seq(Unit), data : Dataset, db : DB]]
SlaveClient  == [st : {"none", "wait_bgsave_start", "wait_bgsave_end", "online"},
                 off : Nat, buf : Seq(Unit)]
Request      == [id : Nat \cup {AnyId}, off : Nat \cup {-1}]
Connection   == [st : {"none", "open", "closed"}, chan : Seq(Message), req : Request \cup {NULL}]

\* NULL is none of the objects a pointer can point to.
ASSUME NullAssumption ==
  /\ NULL \notin Node /\ NULL \notin Backlog /\ NULL \notin MasterClient
  /\ NULL \notin Rdb /\ NULL \notin Request

TypeOK ==
  /\ masterhost \in [Node -> Node \cup {NULL}]
  /\ repl_state \in [Node -> {"NONE", "CONNECT", "RECEIVE_PSYNC", "TRANSFER", "CONNECTED"}]
  /\ replid \in [Node -> Nat] /\ replid2 \in [Node -> Nat]
  /\ second_replid_offset \in [Node -> Nat \cup {-1}]
  /\ master_repl_offset \in [Node -> Nat]
  /\ repl_backlog \in [Node -> Backlog \cup {NULL}]
  /\ slaveseldb \in [Node -> DB \cup {-1}]
  /\ data \in [Node -> Dataset]
  /\ master \in [Node -> MasterClient \cup {NULL}]
  /\ cached_master \in [Node -> MasterClient \cup {NULL}]
  /\ initial \in [Node -> [id : Nat, off : Nat \cup {-1}]]
  /\ slaves \in [Node -> [Node -> SlaveClient]]
  /\ link \in [Node -> Connection]
  /\ rdb_child \in [Node -> Rdb \cup {NULL}]
  /\ rdb_file \in [Node -> Rdb]
  /\ nextId \in Nat /\ nextWrite \in Nat
  /\ used \in [Event -> Nat]

\* The assertions of the code.  replicationFeedSlaves: "We can't have slaves
\* attached and no backlog"; replicationCacheMaster: no master is cached
\* while there is one; and connected slaves have a backlog to be promoted
\* with.
NoSlavesWithoutBacklog ==
  \A n \in Node : /\ HasSlaves(n) => repl_backlog[n] # NULL
                  /\ repl_state[n] = "CONNECTED" => repl_backlog[n] # NULL

\* The client object of the master, connected or cached, stands for the id
\* and offset the instance itself advertises, and there is at most one.
MasterObjectAgrees ==
  \A n \in Node :
    /\ master[n] = NULL \/ cached_master[n] = NULL
    /\ repl_state[n] = "CONNECTED" <=> master[n] # NULL
    /\ \A c \in {master[n], cached_master[n]} \ {NULL} :
         /\ masterhost[n] # NULL
         /\ c.id = replid[n] /\ c.off = master_repl_offset[n]

\* The backlog ends at the current offset and never exceeds its size.
BacklogWindow ==
  \A n \in Node : repl_backlog[n] # NULL =>
    /\ repl_backlog[n].off + Len(repl_backlog[n].hist) = master_repl_offset[n] + 1
    /\ Len(repl_backlog[n].hist) <= BacklogSize

\* Every file on its way to a slave carries replication information: a save
\* for slaves without it is refused.  The information is missing only for a
\* slave that lost its master without caching it, until the answer to its
\* next PSYNC: it has slaves of its own still, and a backlog.
SaveInfoForSlaves ==
  /\ \A s \in Node : \A i \in 1..Len(link[s].chan) :
       link[s].chan[i].k = "rdb" => link[s].chan[i].rdb.db # -1
  /\ \A n \in Node : HasSlaves(n) /\ StreamDb(n, TRUE) = -1 =>
       /\ masterhost[n] # NULL /\ master[n] = NULL /\ cached_master[n] = NULL
       /\ repl_state[n] \in {"CONNECT", "RECEIVE_PSYNC"} /\ repl_backlog[n] # NULL

\* Once clients, administrators and faults are quiet, every slave gets
\* connected and has the dataset of its master, whatever happened before.
Synced ==
  \A s \in Node : masterhost[s] # NULL =>
     repl_state[s] = "CONNECTED" /\ data[s] = data[masterhost[s]]
EventuallySynced == <>[]Synced

=============================================================================
