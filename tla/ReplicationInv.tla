--------------------------- MODULE ReplicationInv ---------------------------
(***************************************************************************)
(* The inductive invariant of Replication, and what the operators the actions *)
(* are built from do to its parts.  The types of the messages are only kept *)
(* because each message can only be under way in some states of the slave; the *)
(* parts of the invariant say which.                                       *)
(***************************************************************************)
EXTENDS Replication, TLAPS

\* The parts of the type invariant, but for the connections.
TypeIds ==
  /\ masterhost \in [Node -> Node \cup {NULL}]
  /\ repl_state \in [Node -> {"NONE", "CONNECT", "RECEIVE_PSYNC", "TRANSFER", "CONNECTED"}]
  /\ replid \in [Node -> Nat] /\ replid2 \in [Node -> Nat]
  /\ second_replid_offset \in [Node -> Nat \cup {-1}]
  /\ initial \in [Node -> [id : Nat, off : Nat \cup {-1}]]
  /\ nextId \in Nat /\ nextWrite \in Nat
TypeUsed == used \in [Event -> Nat]
TypeStream ==
  /\ master_repl_offset \in [Node -> Nat]
  /\ repl_backlog \in [Node -> Backlog \cup {NULL}]
  /\ slaveseldb \in [Node -> DB \cup {-1}]
TypeData == data \in [Node -> Dataset]
TypeMaster == master \in [Node -> MasterClient \cup {NULL}]
TypeCached == cached_master \in [Node -> MasterClient \cup {NULL}]
TypeSlaves == slaves \in [Node -> [Node -> SlaveClient]]
TypeSaves ==
  /\ rdb_child \in [Node -> Rdb \cup {NULL}]
  /\ rdb_file \in [Node -> Rdb]

\* The role, the state of the slave side and the objects it keeps.
Roles ==
  \A n \in Node :
    /\ repl_state[n] = "NONE" <=> masterhost[n] = NULL
    /\ repl_state[n] = "CONNECTED" <=> master[n] # NULL
    /\ cached_master[n] # NULL => masterhost[n] # NULL
    /\ repl_state[n] \in {"TRANSFER", "CONNECTED"} => cached_master[n] = NULL
    /\ repl_state[n] = "TRANSFER" => repl_backlog[n] = NULL
    /\ repl_state[n] = "CONNECTED" => repl_backlog[n] # NULL

\* A connection l of a slave with the given master host, state, cached master
\* and initial offset.  A PSYNC request is alone on it, and names an id only
\* when there is a cached master; +CONTINUE is the first message and meets a
\* cached master; an error is the only message, on a closed connection, and a
\* slave that read it will get no file.
ConnOK(l, host, st, cached, off) ==
  /\ l \in Connection
  /\ l.st # "none" => host # NULL
  /\ l.req # NULL =>
       /\ l.chan = <<>> /\ st = "RECEIVE_PSYNC"
       /\ l.req.id # AnyId => cached # NULL
  /\ \A i \in 1..Len(l.chan) :
       /\ l.chan[i].k = "continue" => i = 1 /\ st = "RECEIVE_PSYNC" /\ cached # NULL
       /\ l.chan[i].k = "error" => l.st = "closed" /\ Len(l.chan) = 1
  /\ (st = "TRANSFER" /\ off = -1) => l.st = "closed" /\ l.chan = <<>>
LinkOK(s) == ConnOK(link[s], masterhost[s], repl_state[s], cached_master[s], initial[s].off)
Links == link = [s \in Node |-> link[s]] /\ \A s \in Node : LinkOK(s)

\* A slave waiting for a save to start has been sent nothing.
Waiters ==
  \A n, s \in Node :
    (slaves[n][s].st = "wait_bgsave_start" /\ Attached(n, s)) => link[s].chan = <<>>

\* Slaves registering differences have a save that stores the database of
\* the stream.
Files ==
  \A n, s \in Node : slaves[n][s].st = "wait_bgsave_end" =>
    rdb_child[n] # NULL /\ rdb_child[n].db # -1

\* An instance with slaves has a backlog.
Sources == \A n \in Node : HasSlaves(n) => repl_backlog[n] # NULL

Types == TypeIds /\ TypeUsed /\ TypeStream /\ TypeData /\ TypeMaster /\ TypeCached
         /\ TypeSlaves /\ TypeSaves
IInv == Types /\ Roles /\ Links /\ Waiters /\ Files /\ Sources

-----------------------------------------------------------------------------
(* Operators.                                                              *)

\* Sequences, restated for the units and messages that are sent.
LEMMA UnitsAreMessages == ASSUME NEW q \in Seq(Unit) PROVE q \in Seq(Message)
  BY DEF Message

\* A unit of the stream is no reply.
LEMMA UnitKind ==
  ASSUME NEW u \in Unit PROVE u.k # "continue" /\ u.k # "error" /\ InStream(u)
  BY DEF Unit, InStream

\* A message that can be part of the stream is a unit of it.
LEMMA MessageKind == ASSUME NEW u \in Message PROVE InStream(u) => u \in Unit
  BY DEF Message, Unit, InStream

\* feedReplicationBacklog keeps a window of at most BacklogSize units that
\* ends where the old one ended plus what was fed.
LEMMA FeedWindow ==
  ASSUME NEW bl \in Backlog, NEW items \in Seq(Unit)
  PROVE  /\ feedReplicationBacklog(bl, items) \in Backlog
         /\ feedReplicationBacklog(bl, items).off + Len(feedReplicationBacklog(bl, items).hist)
              = bl.off + Len(bl.hist) + Len(items)
         /\ Len(feedReplicationBacklog(bl, items).hist) <= BacklogSize
<1> DEFINE all == bl.hist \o items
           over == IF Len(all) > BacklogSize THEN Len(all) - BacklogSize ELSE 0
           kept == SubSeq(all, over + 1, Len(all))
<1>1. bl.hist \in Seq(Unit) /\ bl.off \in Nat
  BY DEF Backlog
<1>2. all \in Seq(Unit) /\ Len(all) = Len(bl.hist) + Len(items)
  BY <1>1
<1>3. over \in Nat /\ over <= Len(all) /\ Len(all) - over <= BacklogSize
  BY <1>2, BacklogSizeAssumption
<1>4. feedReplicationBacklog(bl, items) = [off |-> bl.off + over, hist |-> kept]
  BY DEF feedReplicationBacklog
<1> HIDE DEF all, over
<1>5. kept \in Seq(Unit) /\ Len(kept) = Len(all) - over
  BY <1>2, <1>3
<1> HIDE DEF kept
<1>6. feedReplicationBacklog(bl, items).off = bl.off + over /\ feedReplicationBacklog(bl, items).hist = kept
  BY <1>4
<1>7. bl.off + over + Len(kept) = bl.off + Len(bl.hist) + Len(items) /\ Len(kept) <= BacklogSize
  BY <1>1, <1>2, <1>3, <1>5
<1>8. feedReplicationBacklog(bl, items) \in Backlog
  BY <1>1, <1>3, <1>4, <1>5 DEF Backlog
<1> QED
  BY <1>6, <1>7, <1>8

(* Connections: what closing, sending and reading keep.                    *)

Sent(l, q) == [l EXCEPT !.chan = @ \o q]
\* Messages that are neither +CONTINUE nor an error.
Plain(q) == q \in Seq(Message) /\ \A i \in 1..Len(q) : q[i].k # "continue" /\ q[i].k # "error"

\* Units of the stream are neither +CONTINUE nor an error.
LEMMA UnitsArePlain == ASSUME NEW q \in Seq(Unit) PROVE Plain(q)
<1>1. \A i \in 1..Len(q) : q[i] \in Unit
  OBVIOUS
<1> QED
  BY <1>1, UnitsAreMessages, UnitKind DEF Plain

\* Closing an end of a connection leaves what is in flight on it.
LEMMA ClosedFields ==
  ASSUME NEW l \in Connection
  PROVE  /\ Closed(l) \in Connection
         /\ Closed(l).chan = l.chan /\ Closed(l).req = l.req
         /\ Closed(l).st # "open"
         /\ l.st # "open" => Closed(l) = l
         /\ l.st = "open" => Closed(l).st = "closed"
  BY DEF Closed, Connection

\* Sending appends to what is in flight and changes nothing else.
LEMMA SentFields ==
  ASSUME NEW l \in Connection, NEW q \in Seq(Message)
  PROVE  /\ Sent(l, q) \in Connection
         /\ Sent(l, q).chan = l.chan \o q /\ Sent(l, q).req = l.req /\ Sent(l, q).st = l.st
<1>1. l.chan \o q \in Seq(Message)
  BY DEF Connection
<1> QED
  BY Zenon, <1>1 DEF Sent, Connection

\* Closing a connection keeps its invariant.
LEMMA ConnClosed ==
  ASSUME NEW l, NEW h, NEW r, NEW c, NEW o, ConnOK(l, h, r, c, o)
  PROVE  ConnOK(Closed(l), h, r, c, o)
<1>1. l \in Connection
  BY DEF ConnOK
<1> QED
  BY <1>1, ClosedFields DEF ConnOK, Connection

\* Sending plain messages on an open connection whose request was answered
\* keeps its invariant.
LEMMA ConnSent ==
  ASSUME NEW l, NEW h, NEW r, NEW c, NEW o, ConnOK(l, h, r, c, o),
         l.st = "open", l.req = NULL, NEW q, Plain(q)
  PROVE  ConnOK(Sent(l, q), h, r, c, o)
<1> DEFINE new == Sent(l, q)
<1>1. l \in Connection /\ l.chan \in Seq(Message) /\ q \in Seq(Message)
  BY DEF ConnOK, Connection, Plain
<1>2. new \in Connection /\ new.chan = l.chan \o q /\ new.req = NULL /\ new.st = "open"
  BY SMTT(60), <1>1, SentFields
<1> HIDE DEF new
<1>3. ASSUME NEW i \in 1..Len(new.chan)
      PROVE  /\ new.chan[i].k = "continue" => i = 1 /\ r = "RECEIVE_PSYNC" /\ c # NULL
             /\ new.chan[i].k # "error"
  <2>1. CASE i \in 1..Len(l.chan)
    <3>1. new.chan[i] = l.chan[i]
      BY <1>1, <1>2, <2>1
    <3> QED
      BY <2>1, <3>1 DEF ConnOK
  <2>2. CASE i \notin 1..Len(l.chan)
    <3>1. i - Len(l.chan) \in 1..Len(q) /\ new.chan[i] = q[i - Len(l.chan)]
      BY <1>1, <1>2, <2>2
    <3> QED
      BY <3>1 DEF Plain
  <2> QED
    BY <2>1, <2>2
<1>4. h # NULL /\ ~(r = "TRANSFER" /\ o = -1)
  BY DEF ConnOK
<1>5. ConnOK(new, h, r, c, o)
  BY <1>2, <1>3, <1>4 DEF ConnOK
<1> QED
  BY <1>5 DEF new

\* What remains of a channel after a read is the same messages, shifted.
LEMMA TailIndex ==
  ASSUME NEW q \in Seq(Message), q # <<>>, NEW i \in 1..Len(Tail(q))
  PROVE  /\ Tail(q)[i] = q[i + 1] /\ i + 1 \in 1..Len(q) /\ i + 1 # 1
         /\ Len(q) # 1
<1>1. Len(Tail(q)) = Len(q) - 1 /\ Tail(q)[i] = q[i + 1]
  OBVIOUS
<1> QED
  BY <1>1

\* Reading a message leaves units, files and +FULLRESYNC only, so that the
\* state of the slave may change.
LEMMA ConnRead ==
  ASSUME NEW l, NEW h, NEW r, NEW c, NEW o, ConnOK(l, h, r, c, o), l.chan # <<>>,
         NEW r2, NEW c2, NEW o2,
         (r2 = "TRANSFER" /\ o2 = -1) => l.st = "closed" /\ Tail(l.chan) = <<>>
  PROVE  ConnOK([l EXCEPT !.chan = Tail(@)], h, r2, c2, o2)
<1> DEFINE new == [l EXCEPT !.chan = Tail(@)]
<1>1. l \in Connection /\ l.chan \in Seq(Message) /\ Tail(l.chan) \in Seq(Message)
  BY DEF ConnOK, Connection
<1>2. new \in Connection /\ new.chan = Tail(l.chan) /\ new.req = l.req /\ new.st = l.st
  BY Zenon, <1>1 DEF Connection
<1> HIDE DEF new
<1>3. ASSUME NEW i \in 1..Len(new.chan)
      PROVE  new.chan[i].k # "continue" /\ new.chan[i].k # "error"
  <2>1. new.chan[i] = l.chan[i + 1] /\ i + 1 \in 1..Len(l.chan) /\ i + 1 # 1 /\ Len(l.chan) # 1
    BY Zenon, <1>1, <1>2, TailIndex
  <2> QED
    BY <2>1 DEF ConnOK
<1>4. l.req = NULL /\ (l.st # "none" => h # NULL)
  BY DEF ConnOK
<1>5. ConnOK(new, h, r2, c2, o2)
  BY <1>2, <1>3, <1>4 DEF ConnOK
<1> QED
  BY <1>5 DEF new

\* No connection.
LEMMA ConnNone ==
  ASSUME NEW h, NEW r, NEW c, NEW o, ~(r = "TRANSFER" /\ o = -1)
  PROVE  ConnOK(NoLink, h, r, c, o)
<1>1. NoLink \in Connection /\ NoLink.chan = <<>> /\ NoLink.req = NULL /\ NoLink.st = "none"
  BY DEF NoLink, Connection
<1> QED
  BY <1>1 DEF ConnOK

(* Feeding units to the slaves of n.                                       *)

\* Feeding units to the clients of an instance keeps their types and states.
LEMMA FedTyped ==
  ASSUME TypeSlaves, NEW n \in Node, NEW items \in Seq(Unit)
  PROVE  /\ FedClients(n, items) \in [Node -> SlaveClient]
         /\ \A s \in Node : FedClients(n, items)[s].st = slaves[n][s].st
<1>1. \A s \in Node : slaves[n][s] \in SlaveClient
  BY DEF TypeSlaves
<1>2. \A s \in Node : slaves[n][s].buf \o items \in Seq(Unit)
  BY <1>1 DEF SlaveClient
<1>3. \A s \in Node : /\ [slaves[n][s] EXCEPT !.buf = @ \o items] \in SlaveClient
                      /\ [slaves[n][s] EXCEPT !.buf = @ \o items].st = slaves[n][s].st
  BY Zenon, <1>1, <1>2 DEF SlaveClient
<1> QED
  BY <1>1, <1>3 DEF FedClients

\* Feeding units to the connections of online slaves keeps their invariant.
LEMMA FedConn ==
  ASSUME NEW n \in Node, NEW s \in Node, NEW items \in Seq(Unit), LinkOK(s)
  PROVE  ConnOK(FedLink(n, s, items), masterhost[s], repl_state[s], cached_master[s],
                initial[s].off)
<1>1. CASE Attached(n, s) /\ slaves[n][s].st = "online"
  <2>1. FedLink(n, s, items) = Sent(link[s], items)
    BY <1>1 DEF FedLink, Sent
  <2> QED
    BY <1>1, <2>1, ConnSent, UnitsArePlain DEF LinkOK, Attached, Serves
<1>2. CASE ~(Attached(n, s) /\ slaves[n][s].st = "online")
  BY <1>2 DEF FedLink, LinkOK
<1> QED
  BY <1>1, <1>2

\* Freeing the client object of a slave keeps the invariant of its connection.
LEMMA ClosedLinkConn ==
  ASSUME NEW n \in Node, NEW s \in Node, LinkOK(s)
  PROVE  ConnOK(ClosedLink(n, s), masterhost[s], repl_state[s], cached_master[s],
                initial[s].off)
  BY ConnClosed DEF ClosedLink, LinkOK

(* disconnectSlaves                                                        *)

\* disconnectSlaves leaves the instance without slaves, closes their
\* connections and touches no other client.
LEMMA DisconnectFacts ==
  ASSUME IInv, NEW s \in Node, NEW l, disconnectSlaves(s, l)
  PROVE  /\ TypeSlaves'
         /\ link' = [t \in Node |-> link'[t]]
         /\ link'[s] = l
         /\ \A t \in Node : t # s => link'[t] = ClosedLink(s, t)
         /\ \A t \in Node : slaves'[s][t].st = "none"
         /\ \A n \in Node : n # s => slaves'[n] = slaves[n]
<1>1. NoClient \in SlaveClient /\ NoClient.st = "none"
  BY DEF NoClient, SlaveClient
<1> QED
  BY <1>1 DEF disconnectSlaves, IInv, Types, TypeSlaves

\* After disconnectSlaves only other instances have slaves.
LEMMA DisconnectHasSlaves ==
  ASSUME IInv, NEW s \in Node, NEW l, disconnectSlaves(s, l), NEW n \in Node, HasSlaves(n)'
  PROVE  n # s /\ HasSlaves(n)
  BY DisconnectFacts DEF HasSlaves

\* disconnectSlaves keeps waiting slaves without messages.
LEMMA DisconnectWaiters ==
  ASSUME IInv, NEW s \in Node, NEW l, disconnectSlaves(s, l),
         \A t \in Node : t # s => masterhost'[t] = masterhost[t],
         l.st = "open" => /\ link[s].chan # <<>> /\ link[s].st = "open"
                          /\ link[s].req = l.req /\ masterhost'[s] = masterhost[s]
  PROVE  Waiters'
<1> SUFFICES ASSUME NEW n \in Node, NEW t \in Node,
                    slaves'[n][t].st = "wait_bgsave_start", Attached(n, t)'
             PROVE  link'[t].chan = <<>>
  BY DEF Waiters
<1>1. n # s /\ slaves[n][t].st = "wait_bgsave_start"
  BY DisconnectFacts
<1>2. CASE t = s
  BY <1>1, <1>2, DisconnectFacts DEF Attached, Serves, IInv, Waiters
<1>3. CASE t # s
  <2>1. link[t] \in Connection
    BY DEF IInv, Links, LinkOK, ConnOK
  <2>2. link'[t] = link[t]
    BY <1>3, <2>1, DisconnectFacts, ClosedFields DEF Attached, Serves, ClosedLink
  <2> QED
    BY <1>1, <1>3, <2>2 DEF Attached, Serves, IInv, Waiters
<1> QED
  BY <1>2, <1>3

\* disconnectSlaves keeps the invariant of the connections of other slaves.
LEMMA DisconnectOthers ==
  ASSUME IInv, NEW s \in Node, NEW l, disconnectSlaves(s, l), NEW t \in Node, t # s,
         masterhost'[t] = masterhost[t], repl_state'[t] = repl_state[t],
         cached_master'[t] = cached_master[t], initial'[t] = initial[t]
  PROVE  LinkOK(t)'
<1>1. LinkOK(t)
  BY DEF IInv, Links
<1> QED
  BY <1>1, DisconnectFacts, ClosedLinkConn DEF LinkOK

\* The next message of s.
LEMMA MsgTyped ==
  ASSUME IInv, NEW s \in Node, link[s].chan # <<>>
  PROVE  /\ Msg(s) \in Message /\ Msg(s) = link[s].chan[1] /\ 1 \in 1..Len(link[s].chan)
         /\ ReadLink(s) = [link[s] EXCEPT !.chan = Tail(@)]
         /\ ReadLink(s).st = link[s].st /\ ReadLink(s).req = link[s].req
         /\ ReadLink(s) \in Connection
<1>1. link[s] \in Connection /\ link[s].chan \in Seq(Message)
  BY DEF IInv, Links, LinkOK, ConnOK, Connection
<1>2. Tail(link[s].chan) \in Seq(Message) /\ Head(link[s].chan) \in Message
      /\ Head(link[s].chan) = link[s].chan[1] /\ 1 \in 1..Len(link[s].chan)
  BY <1>1
<1> QED
  BY SMTT(60), <1>1, <1>2 DEF Msg, ReadLink, Connection

\* Reading the only message leaves nothing.
LEMMA LastRead == ASSUME NEW q \in Seq(Message), Len(q) = 1 PROVE Tail(q) = <<>>
<1>1. Tail(q) \in Seq(Message) /\ Len(Tail(q)) = 0
  OBVIOUS
<1>2. \A r \in Seq(Message) : Len(r) = 0 => r = <<>>
  OBVIOUS
<1> QED
  BY Zenon, <1>1, <1>2

\* A new backlog is a backlog, not NULL.
LEMMA CreateTyped ==
  ASSUME NEW off \in Nat
  PROVE  createReplicationBacklog(off) \in Backlog /\ createReplicationBacklog(off) # NULL
<1>1. createReplicationBacklog(off) \in Backlog
  BY DEF createReplicationBacklog, Backlog
<1> QED
  BY <1>1, NullAssumption

\* A slave that waits for a save to start is fed nothing.
LEMMA WaiterFed ==
  ASSUME IInv, NEW n \in Node, NEW m \in Node, NEW t \in Node, NEW items \in Seq(Unit),
         slaves'[m][t].st = slaves[m][t].st, masterhost'[t] = masterhost[t],
         link'[t] = link[t] \/ link'[t] = FedLink(n, t, items),
         slaves'[m][t].st = "wait_bgsave_start", Attached(m, t)'
  PROVE  link'[t].chan = <<>>
<1>1. link'[t] = link[t]
  <2>1. CASE link'[t] = FedLink(n, t, items) /\ Attached(n, t) /\ slaves[n][t].st = "online"
    BY Zenon, <2>1 DEF Attached, Serves
  <2> QED
    BY <2>1 DEF FedLink
<1> QED
  BY Zenon, <1>1 DEF IInv, Waiters, Attached, Serves

\* Executing a unit keeps the type of the dataset.
LEMMA ExecuteTyped ==
  ASSUME NEW st \in [data : Dataset, db : DB], NEW u \in Unit
  PROVE  Execute(st, u) \in [data : Dataset, db : DB]
<1>1. CASE u.k = "select"
  BY <1>1 DEF Execute, Unit
<1>2. CASE u.k = "write"
  <2>1. <<u.v, st.db>> \in Nat \X DB
    BY <1>2 DEF Unit
  <2>2. Append(st.data, <<u.v, st.db>>) \in Dataset
    BY <2>1 DEF Dataset
  <2> QED
    BY Zenon, <1>2, <2>2 DEF Execute
<1>3. CASE u.k # "select" /\ u.k # "write"
  BY <1>3 DEF Execute
<1> QED
  BY <1>1, <1>2, <1>3

\* An empty transaction has the type of one.
LEMMA NoTxnTyped == NoTxn \in [queue : Seq(Unit), data : Dataset, db : DB]
  BY DBAssumption DEF NoTxn, Dataset

\* The master that replicationCacheMaster keeps has the type of a master.
LEMMA CachedTyped ==
  ASSUME NEW s \in Node, master[s] \in MasterClient
  PROVE  /\ Cached(s) \in MasterClient
         /\ Cached(s).id = master[s].id /\ Cached(s).off = master[s].off
  BY SMTT(60), NoTxnTyped DEF Cached, MasterClient

\* The file of an instance that never saved has the type of a file.
LEMMA EmptyRdbTyped == EmptyRdb \in Rdb
<1>1. <<>> \in Dataset /\ TRUE \in BOOLEAN /\ 0 \in Nat
  BY DEF Dataset
<1> QED
  BY <1>1 DEF EmptyRdb, Rdb, NoId

\* The client objects the handlers create have the type of one.
LEMMA ClientTyped ==
  /\ NoClient \in SlaveClient /\ NoClient.st = "none"
  /\ \A st \in {"online", "wait_bgsave_start"} :
       [NoClient EXCEPT !.st = st] \in SlaveClient /\ [NoClient EXCEPT !.st = st].st = st
<1>1. NoClient \in SlaveClient /\ NoClient.st = "none"
  BY DEF NoClient, SlaveClient
<1> QED
  BY <1>1 DEF SlaveClient

\* Counting an event keeps the type of the counters.
LEMMA ThenTyped ==
  ASSUME NEW u \in [Event -> Nat], NEW k \in Event, Then(u, k) \/ used' = u
  PROVE  TypeUsed'
  BY DEF TypeUsed, Then
\* Happens is such an event.
LEMMA HappensTyped ==
  ASSUME TypeUsed, (\E k \in Event : Happens(k)) \/ used' = used
  PROVE  TypeUsed'
  BY DEF TypeUsed, Happens, Then
\* So does the failure of a save.
LEMMA SaveFailsTyped ==
  ASSUME NEW n \in Node, NEW u \in [Event -> Nat], SaveFails(n, u) \/ used' = u
  PROVE  TypeUsed'
<1>1. "forkfail" \in Event
  BY DEF Event
<1> QED
  BY Zenon, <1>1, ThenTyped DEF SaveFails

-----------------------------------------------------------------------------
(* Saves.                                                                  *)

\* rdbPopulateSaveInfo finds a database or nothing.
LEMMA StreamDbTyped ==
  ASSUME IInv, NEW n \in Node, NEW haslog
  PROVE  StreamDb(n, haslog) \in DB \cup {-1}
<1>1. slaveseldb[n] \in DB \cup {-1} /\ 0 \in DB
  BY DBAssumption DEF IInv, Types, TypeStream
<1>2. /\ master[n] # NULL => master[n].db \in DB
      /\ cached_master[n] # NULL => cached_master[n].db \in DB
  BY DEF IInv, Types, TypeMaster, TypeCached, MasterClient
<1> QED
  BY <1>1, <1>2 DEF StreamDb

\* What the child saves is an RDB file that stores the database found by
\* rdbPopulateSaveInfo.
LEMMA SnapshotTyped ==
  ASSUME IInv, NEW n \in Node, NEW id \in Nat, NEW haslog
  PROVE  /\ Snapshot(n, id, haslog) \in Rdb /\ Snapshot(n, id, haslog) # NULL
         /\ Snapshot(n, id, haslog).db = StreamDb(n, haslog)
<1> DEFINE d == StreamDb(n, haslog)
<1>1. d \in DB \cup {-1} /\ TRUE \in BOOLEAN /\ data[n] \in Dataset /\ master_repl_offset[n] \in Nat
  BY StreamDbTyped DEF IInv, Types, TypeData, TypeStream
<1> HIDE DEF d
<1>2. Snapshot(n, id, haslog)
        = [ok |-> TRUE, data |-> data[n], db |-> d, replid |-> IF d = -1 THEN NoId ELSE id,
           off |-> IF d = -1 THEN 0 ELSE master_repl_offset[n]]
  BY DEF Snapshot, d
<1>3. Snapshot(n, id, haslog) \in Rdb
  BY <1>1, <1>2 DEF Rdb, NoId
<1>4. Snapshot(n, id, haslog).db = d
  BY <1>2
<1> QED
  BY <1>3, <1>4, NullAssumption DEF d

\* The slaves cl and connections lk of n before a save starts, or fails to.
Prepared(n, cl, lk) ==
  /\ cl \in [Node -> SlaveClient]
  /\ lk = [t \in Node |-> lk[t]]
  /\ \A t \in Node : ConnOK(lk[t], masterhost[t], repl_state[t], cached_master[t], initial[t].off)
  /\ \A t \in Node : masterhost[t] # n => lk[t] = link[t]
  /\ \A t \in Node : (cl[t].st = "wait_bgsave_start" /\ Serves(n, t, lk[t])) => lk[t].chan = <<>>
  /\ \A t \in Node : cl[t].st # "wait_bgsave_end"
Same == UNCHANGED <<masterhost, repl_state, cached_master, initial>>
\* What holds afterwards.
Saved(n, cl) ==
  /\ TypeSlaves' /\ Links' /\ Waiters' /\ Files'
  /\ rdb_child' \in [Node -> Rdb \cup {NULL}] /\ slaveseldb' \in [Node -> DB \cup {-1}]
  /\ \A m \in Node : m # n => slaves'[m] = slaves[m]
  /\ HasSlaves(n)' => \E t \in Node : cl[t].st # "none"

\* A message that is neither +CONTINUE nor an error may be sent alone.
LEMMA PlainOne ==
  ASSUME NEW x \in Message, x.k # "continue", x.k # "error" PROVE Plain(<<x>>)
<1>1. <<x>> \in Seq(Message) /\ Len(<<x>>) = 1 /\ <<x>>[1] = x
  OBVIOUS
<1> QED
  BY <1>1 DEF Plain

\* startBgsaveForReplication sets up every waiting slave and keeps the
\* invariants of clients, connections and files.
LEMMA StartSaved ==
  ASSUME IInv, NEW n \in Node, NEW id \in Nat, NEW cl, NEW lk, Prepared(n, cl, lk), Same,
         startBgsaveForReplication(n, cl, lk, id)
  PROVE  Saved(n, cl)
<1> USE DEF IInv, Types
<1> DEFINE msg == FullResync(id, master_repl_offset[n])
           wc == [st |-> "wait_bgsave_end", off |-> master_repl_offset[n], buf |-> <<>>]
<1>1. msg \in Message /\ Plain(<<msg>>)
  <2>1. msg \in Message
    BY DEF FullResync, Message, TypeStream
  <2> QED
    BY <2>1, PlainOne DEF FullResync
<1>2. wc \in SlaveClient /\ wc.st = "wait_bgsave_end"
  BY DEF SlaveClient, TypeStream
<1> HIDE DEF msg, wc
<1>3. slaves' = [slaves EXCEPT ![n] = [s \in Node |-> IF s \in Waiting(cl) THEN wc ELSE cl[s]]]
  BY DEF startBgsaveForReplication, wc
<1>4. rdb_child'[n] # NULL /\ rdb_child'[n].db # -1
      /\ rdb_child' = [rdb_child EXCEPT ![n] = rdb_child'[n]] /\ rdb_child'[n] \in Rdb
  BY Zenon, SnapshotTyped DEF startBgsaveForReplication, TypeSaves
<1>5. TypeSlaves'
  BY <1>2, <1>3 DEF TypeSlaves, Prepared
<1>6. /\ \A m \in Node : m # n => slaves'[m] = slaves[m]
      /\ \A t \in Node : slaves'[n][t].st # "wait_bgsave_start"
      /\ HasSlaves(n)' => \E t \in Node : cl[t].st # "none"
  BY <1>2, <1>3 DEF TypeSlaves, Waiting, HasSlaves
<1>7. link' = [t \in Node |-> link'[t]]
      /\ \A t \in Node : \/ link'[t] = lk[t]
                         \/ Serves(n, t, lk[t]) /\ link'[t] = Sent(lk[t], <<msg>>)
  <2>1. ASSUME NEW t \in Node, t \in Waiting(cl), Serves(n, t, lk[t])
        PROVE  link'[t] = Sent(lk[t], <<msg>>)
    <3>1. lk[t] \in Connection
      BY DEF Prepared, ConnOK
    <3>2. Append(lk[t].chan, msg) = lk[t].chan \o <<msg>>
      BY <1>1, <3>1 DEF Connection
    <3>3. link'[t] = [lk[t] EXCEPT !.chan = Append(@, msg)]
      BY <2>1 DEF startBgsaveForReplication, msg
    <3> QED
      BY <3>1, <3>2, <3>3 DEF Sent, Connection
  <2> QED
    BY Zenon, <2>1 DEF startBgsaveForReplication
<1>8. Links'
  <2>1. ASSUME NEW t \in Node PROVE LinkOK(t)'
    <3>1. ConnOK(lk[t], masterhost[t], repl_state[t], cached_master[t], initial[t].off)
      BY DEF Prepared
    <3>2. CASE Serves(n, t, lk[t]) /\ link'[t] = Sent(lk[t], <<msg>>)
      BY <1>1, <3>1, <3>2, ConnSent DEF LinkOK, Same, Serves
    <3> QED
      BY <1>7, <3>1, <3>2 DEF LinkOK, Same
  <2> QED
    BY <1>7, <2>1 DEF Links
<1>9. Waiters'
  <2> SUFFICES ASSUME NEW m \in Node, NEW t \in Node,
                      slaves'[m][t].st = "wait_bgsave_start", Attached(m, t)'
               PROVE  link'[t].chan = <<>>
    BY DEF Waiters
  <2>1. m # n /\ masterhost[t] = m
    BY <1>6 DEF Attached, Serves, Same
  <2>2. link'[t] = link[t]
    BY <1>7, <2>1 DEF Prepared, Serves
  <2> QED
    BY <1>6, <2>1, <2>2 DEF Waiters, Attached, Serves
<1>10. Files'
  BY <1>4, <1>6 DEF Files, TypeSaves
<1>11. slaveseldb' \in [Node -> DB \cup {-1}] /\ rdb_child' \in [Node -> Rdb \cup {NULL}]
  BY Zenon, <1>4 DEF startBgsaveForReplication, TypeStream, TypeSaves
<1> QED
  BY <1>5, <1>6, <1>8, <1>9, <1>10, <1>11 DEF Saved

\* The failure of startBgsaveForReplication frees every waiting slave and
\* keeps those invariants.
LEMMA FailSaved ==
  ASSUME IInv, NEW n \in Node, NEW cl, NEW lk, Prepared(n, cl, lk), Same,
         failBgsaveForReplication(n, cl, lk)
  PROVE  Saved(n, cl)
<1> USE DEF IInv, Types
<1>1. NoClient \in SlaveClient /\ NoClient.st = "none"
  BY DEF NoClient, SlaveClient
<1>2. TypeSlaves'
  BY ZenonT(60), <1>1 DEF TypeSlaves, Prepared, failBgsaveForReplication
<1>3. /\ \A m \in Node : m # n => slaves'[m] = slaves[m]
      /\ \A t \in Node : slaves'[n][t].st \notin {"wait_bgsave_start", "wait_bgsave_end"}
      /\ HasSlaves(n)' => \E t \in Node : cl[t].st # "none"
  BY ZenonT(60), <1>1 DEF TypeSlaves, Waiting, HasSlaves, Prepared, failBgsaveForReplication
<1>4. link' = [t \in Node |-> link'[t]]
      /\ \A t \in Node :
           \/ link'[t] = lk[t]
           \/ /\ Serves(n, t, lk[t]) /\ lk[t].chan = <<>>
              /\ link'[t] = [lk[t] EXCEPT !.chan = Append(@, ErrorReply), !.st = "closed"]
  BY ZenonT(60) DEF failBgsaveForReplication, Prepared, Waiting
<1>5. ASSUME NEW t \in Node PROVE LinkOK(t)'
  <2>1. ConnOK(lk[t], masterhost[t], repl_state[t], cached_master[t], initial[t].off)
    BY DEF Prepared
  <2>2. CASE /\ Serves(n, t, lk[t]) /\ lk[t].chan = <<>>
             /\ link'[t] = [lk[t] EXCEPT !.chan = Append(@, ErrorReply), !.st = "closed"]
    <3>1. lk[t] \in Connection /\ lk[t].req = NULL
      BY <2>1, <2>2 DEF ConnOK, Serves
    <3>2. <<ErrorReply>> \in Seq(Message) /\ ErrorReply.k = "error"
          /\ Append(<<>>, ErrorReply) = <<ErrorReply>> /\ Len(<<ErrorReply>>) = 1
      BY DEF ErrorReply, Message
    <3>3. /\ link'[t] \in Connection /\ link'[t].chan = <<ErrorReply>>
          /\ link'[t].st = "closed" /\ link'[t].req = NULL
      BY ZenonT(60), <2>2, <3>1, <3>2 DEF Connection
    <3>4. masterhost[t] # NULL /\ ~(repl_state[t] = "TRANSFER" /\ initial[t].off = -1)
      BY <2>1, <2>2 DEF ConnOK, Serves
    <3> QED
      BY <3>2, <3>3, <3>4 DEF LinkOK, ConnOK, Same
  <2> QED
    BY Zenon, <1>4, <2>1, <2>2 DEF LinkOK, Same
<1>6. Links'
  BY Zenon, <1>4, <1>5 DEF Links
<1>7. Waiters'
  <2> SUFFICES ASSUME NEW m \in Node, NEW t \in Node,
                      slaves'[m][t].st = "wait_bgsave_start", Attached(m, t)'
               PROVE  link'[t].chan = <<>>
    BY DEF Waiters
  <2>1. m # n /\ masterhost[t] = m
    BY <1>3 DEF Attached, Serves, Same
  <2>2. link'[t] = link[t]
    BY ZenonT(60), <1>4, <2>1 DEF Prepared, Serves
  <2> QED
    BY <1>3, <2>1, <2>2 DEF Waiters, Attached, Serves
<1>8. Files'
  BY ZenonT(60), <1>3 DEF Files, TypeSaves, failBgsaveForReplication
<1>9. slaveseldb' \in [Node -> DB \cup {-1}] /\ rdb_child' \in [Node -> Rdb \cup {NULL}]
  BY Zenon DEF failBgsaveForReplication, TypeStream, TypeSaves
<1> QED
  BY <1>2, <1>3, <1>6, <1>7, <1>8, <1>9 DEF Saved

\* updateSlavesWaitingBgsave keeps them, whether it starts another save, fails
\* to, or need not.
LEMMA UpdateSaved ==
  ASSUME IInv, NEW n \in Node, NEW cl, NEW lk, NEW u \in [Event -> Nat],
         Prepared(n, cl, lk), Same, updateSlavesWaitingBgsave(n, cl, lk, u)
  PROVE  Saved(n, cl) /\ TypeUsed'
<1> USE DEF IInv, Types
<1>3. TypeUsed'
  <2>1. SaveFails(n, u) \/ used' = u
    BY Zenon DEF updateSlavesWaitingBgsave
  <2> QED
    BY Zenon, <2>1, SaveFailsTyped
<1>1. CASE Waiting(cl) # {}
  <2>1. replid[n] \in Nat
    BY DEF TypeIds
  <2>2. startBgsaveForReplication(n, cl, lk, replid[n]) \/ failBgsaveForReplication(n, cl, lk)
    BY Zenon, <1>1 DEF updateSlavesWaitingBgsave
  <2> QED
    BY Zenon, <1>3, <2>1, <2>2, StartSaved, FailSaved
<1>2. CASE Waiting(cl) = {}
  <2>1. /\ rdb_child' = [rdb_child EXCEPT ![n] = NULL]
        /\ slaves' = [slaves EXCEPT ![n] = cl]
        /\ link' = lk
        /\ slaveseldb' = slaveseldb
    BY <1>2 DEF updateSlavesWaitingBgsave
  <2>2. TypeSlaves' /\ HasSlaves(n)' => \E t \in Node : cl[t].st # "none"
    BY <2>1 DEF TypeSlaves, HasSlaves, Prepared
  <2>3. TypeSlaves'
    BY <2>1 DEF TypeSlaves, Prepared
  <2>4. Links'
    BY <2>1 DEF Links, LinkOK, Prepared, Same
  <2>5. \A t \in Node : cl[t].st # "wait_bgsave_start"
    BY <1>2 DEF Waiting
  <2>6. Waiters'
    BY SMTT(60), <2>1, <2>5 DEF Waiters, Attached, Serves, Prepared, Same, TypeSlaves
  <2>7. Files'
    BY <2>1 DEF Files, Prepared, TypeSlaves, TypeSaves
  <2> QED
    BY <1>3, <2>1, <2>2, <2>3, <2>4, <2>6, <2>7 DEF Saved, TypeSlaves, TypeStream, TypeSaves
<1> QED
  BY <1>1, <1>2

(* Synchronisation requests.                                               *)

\* A slave that asks to be synchronised is in the state RECEIVE_PSYNC and
\* names an id only when it has a cached master.
LEMMA AskFacts ==
  ASSUME IInv, NEW m \in Node, NEW s \in Node, Asks(m, s)
  PROVE  /\ link[s] \in Connection /\ masterhost[s] = m /\ masterhost[s] # NULL
         /\ repl_state[s] = "RECEIVE_PSYNC" /\ link[s].req # NULL /\ link[s].req \in Request
         /\ link[s].st = "open" /\ slaves[m][s].st = "none"
         /\ link[s].req.id # AnyId => cached_master[s] # NULL
<1>1. LinkOK(s) /\ link[s] \in Connection
  BY DEF IInv, Links, LinkOK, ConnOK
<1> QED
  BY <1>1, NullAssumption DEF Asks, LinkOK, ConnOK, Connection

\* Answering a request with plain messages keeps the invariant of the
\* connection.
LEMMA AnsweredConn ==
  ASSUME IInv, NEW m \in Node, NEW s \in Node, Asks(m, s), NEW q, Plain(q)
  PROVE  /\ ConnOK(Answered(q), masterhost[s], repl_state[s], cached_master[s],
                   initial[s].off)
         /\ Answered(q).chan = q
<1> DEFINE l == Answered(q)
<1>1. q \in Seq(Message)
  BY DEF Plain
<1>2. l \in Connection /\ l.req = NULL /\ l.chan = q /\ l.st = "open"
  BY <1>1, AskFacts DEF Answered, Connection
<1> HIDE DEF l
<1>3. ConnOK(l, masterhost[s], repl_state[s], cached_master[s], initial[s].off)
  BY <1>2, AskFacts DEF ConnOK, Plain
<1> QED
  BY <1>2, <1>3 DEF l

\* A request for a full resynchronisation leaves the instance with a backlog
\* and well typed ids, whether it starts a new history or not.
LEMMA SyncFullFacts ==
  ASSUME IInv, NEW m \in Node, NEW s \in Node, SyncFull(m, s)
  PROVE  /\ Asks(m, s)
         /\ replid' \in [Node -> Nat] /\ replid2' \in [Node -> Nat] /\ nextId' \in Nat
         /\ second_replid_offset' \in [Node -> Nat \cup {-1}]
         /\ repl_backlog' \in [Node -> Backlog \cup {NULL}]
         /\ repl_backlog'[m] # NULL
         /\ \A n \in Node : n # m => repl_backlog'[n] = repl_backlog[n]
         /\ SyncId(m) \in Nat
         /\ repl_state[m] # "TRANSFER"
         /\ masterhost[m] = NULL \/ master[m] # NULL
<1> USE DEF IInv, Types
<1>1. Asks(m, s) /\ NewHistory(m) /\ (masterhost[m] = NULL \/ master[m] # NULL)
      /\ repl_state[m] # "TRANSFER" /\ SyncId(m) \in Nat
  BY DEF SyncFull, CanSync, Roles, SyncId, TypeIds
<1>2. CASE StartsHistory(m)
  <2> DEFINE bl == createReplicationBacklog(master_repl_offset[m])
  <2>1. bl \in Backlog /\ bl # NULL
    BY CreateTyped DEF TypeStream
  <2>2. repl_backlog' = [repl_backlog EXCEPT ![m] = bl]
    BY <1>1, <1>2 DEF NewHistory
  <2> HIDE DEF bl
  <2>3. /\ repl_backlog' \in [Node -> Backlog \cup {NULL}] /\ repl_backlog'[m] # NULL
        /\ \A n \in Node : n # m => repl_backlog'[n] = repl_backlog[n]
    BY <2>1, <2>2 DEF TypeStream
  <2>4. /\ replid' \in [Node -> Nat] /\ replid2' \in [Node -> Nat] /\ nextId' \in Nat
        /\ second_replid_offset' \in [Node -> Nat \cup {-1}]
    BY <1>1, <1>2 DEF NewHistory, TypeIds, NoId
  <2> QED
    BY <1>1, <2>3, <2>4
<1>3. CASE ~StartsHistory(m)
  <2>1. repl_backlog[m] # NULL
    BY <1>3 DEF StartsHistory, Sources
  <2> QED
    BY <1>1, <1>3, <2>1 DEF NewHistory, TypeIds, TypeStream, ids
<1> QED
  BY <1>2, <1>3

\* No message at all is plain.
LEMMA EmptyPlain == Plain(<<>>)
  BY DEF Plain

(* Feeding the stream of a master.                                         *)

\* What feeding leaves as it was.
Fed ==
  /\ TypeStream' /\ TypeSlaves' /\ Links' /\ Waiters'
  /\ \A n, s \in Node : slaves'[n][s].st = slaves[n][s].st
  /\ \A n \in Node : repl_backlog'[n] = NULL <=> repl_backlog[n] = NULL

\* replicationFeedSlaves keeps the types of the stream, the states of the
\* clients and the invariants of the connections.
LEMMA FeedFacts ==
  ASSUME IInv, NEW m \in Node, NEW d, NEW items \in Seq(Unit),
         d \in DB \/ d = slaveseldb[m], replicationFeedSlaves(m, d, items), Same
  PROVE  Fed
<1> USE DEF IInv, Types
<1> DEFINE all == IF slaveseldb[m] # d THEN <<Select(d)>> \o items ELSE items
<1>1. CASE repl_backlog[m] = NULL /\ ~HasSlaves(m)
  <2>1. UNCHANGED <<stream, slaves, link>>
    BY <1>1 DEF replicationFeedSlaves
  <2> QED
    BY <2>1 DEF Fed, Same, TypeStream, TypeSlaves, Links, LinkOK, Waiters, Attached, Serves, stream
<1>2. CASE ~(repl_backlog[m] = NULL /\ ~HasSlaves(m))
  <2>1. repl_backlog[m] \in Backlog /\ repl_backlog[m] # NULL
    BY <1>2 DEF Sources, TypeStream
  <2>2. all \in Seq(Unit)
    <3>1. slaveseldb[m] # d => <<Select(d)>> \in Seq(Unit)
      BY DEF Select, Unit
    <3> QED
      BY <3>1
  <2>3. /\ slaveseldb' = [slaveseldb EXCEPT ![m] = d]
        /\ repl_backlog' = [repl_backlog EXCEPT ![m] = feedReplicationBacklog(@, all)]
        /\ master_repl_offset' = [master_repl_offset EXCEPT ![m] = @ + Len(all)]
        /\ slaves' = [slaves EXCEPT ![m] = FedClients(m, all)]
        /\ link' = [s \in Node |-> FedLink(m, s, all)]
    BY <1>2 DEF replicationFeedSlaves
  <2> HIDE DEF all
  <2>4. repl_backlog'[m] \in Backlog /\ repl_backlog'[m] # NULL
    BY <2>1, <2>2, <2>3, FeedWindow, NullAssumption DEF TypeStream
  <2>5. TypeStream' /\ \A n \in Node : repl_backlog'[n] = NULL <=> repl_backlog[n] = NULL
    BY <2>1, <2>2, <2>3, <2>4 DEF TypeStream
  <2>6. TypeSlaves' /\ \A n, s \in Node : slaves'[n][s].st = slaves[n][s].st
    BY <2>2, <2>3, FedTyped DEF TypeSlaves
  <2>7. \A s \in Node : link'[s] = FedLink(m, s, all)
    BY <2>3
  <2>8. Links'
    <3>1. ASSUME NEW s \in Node PROVE LinkOK(s)'
      BY <2>2, <2>7, FedConn DEF Links, LinkOK, Same
    <3> QED
      BY <2>3, <2>7, <3>1 DEF Links
  <2>9. Waiters'
    BY <2>2, <2>6, <2>7, WaiterFed DEF Waiters, Same
  <2> QED
    BY <2>5, <2>6, <2>8, <2>9 DEF Fed
<1> QED
  BY <1>1, <1>2

-----------------------------------------------------------------------------
(* The steps of the saves.                                                 *)

USE DEF ids, stream, saves, client, bounds

\* Bgsave keeps the invariant.
LEMMA BgsaveStep ==
  ASSUME IInv, NEW n \in Node, Bgsave(n)
  PROVE  IInv'
<1> USE DEF IInv, Types
<1>t1. TypeIds'
  BY DEF TypeIds, Bgsave, Happens
<1>t2. TypeUsed'
  <2>1. (\E k \in Event : Happens(k)) \/ used' = used
    BY DEF Event, Bgsave
  <2> QED
    BY <2>1, HappensTyped
<1>t3. TypeSaves'
  BY SnapshotTyped DEF TypeSaves, TypeIds, Bgsave
<1>t4. Files'
  BY SnapshotTyped DEF Files, TypeSaves, Bgsave
<1>t5. TypeStream' /\ TypeData' /\ TypeMaster' /\ TypeCached' /\ TypeSlaves' /\ Roles' /\ Links' /\ Waiters' /\ Sources'
  BY DEF TypeStream, TypeData, TypeMaster, TypeCached, TypeSlaves, Roles, Links, LinkOK, Waiters, Attached, Serves, Sources, HasSlaves, Bgsave
<1> QED
  BY <1>t1, <1>t2, <1>t3, <1>t4, <1>t5

\* BgsaveDone keeps the invariant.
LEMMA BgsaveDoneStep ==
  ASSUME IInv, NEW n \in Node, BgsaveDone(n)
  PROVE  IInv'
<1> USE DEF IInv, Types
<1>1. NoClient \in SlaveClient /\ NoClient.st = "none"
      /\ [NoClient EXCEPT !.st = "online"] \in SlaveClient
      /\ [NoClient EXCEPT !.st = "online"].st = "online"
  BY ClientTyped
<1>2. /\ SentClients(n) \in [Node -> SlaveClient]
      /\ \A t \in Node : SentClients(n)[t].st # "wait_bgsave_end"
      /\ \A t \in Node : SentClients(n)[t].st = "wait_bgsave_start" => slaves[n][t].st = "wait_bgsave_start"
      /\ \A t \in Node : SentClients(n)[t].st # "none" => slaves[n][t].st # "none"
  BY <1>1 DEF SentClients, TypeSlaves
<1>3. /\ SentLinks(n) = [t \in Node |-> SentLinks(n)[t]]
      /\ \A t \in Node : (masterhost[t] # n \/ slaves[n][t].st # "wait_bgsave_end") =>
           SentLinks(n)[t] = link[t]
  BY Zenon DEF SentLinks, Attached, Serves
<1>4. ASSUME NEW t \in Node
      PROVE  ConnOK(SentLinks(n)[t], masterhost[t], repl_state[t], cached_master[t], initial[t].off)
  <2>1. ConnOK(link[t], masterhost[t], repl_state[t], cached_master[t], initial[t].off)
    BY DEF Links, LinkOK
  <2> QED
    <3>1. CASE slaves[n][t].st = "wait_bgsave_end" /\ Attached(n, t)
      <4>1. rdb_child[n] \in SentRdb
        BY <3>1 DEF Files, TypeSaves, Rdb, SentRdb
      <4>2. Plain(<<Payload(rdb_child[n])>>) /\ <<Payload(rdb_child[n])>> \in Seq(Message)
        <5>1. Payload(rdb_child[n]) \in Message /\ Payload(rdb_child[n]).k = "rdb"
          BY <4>1 DEF Payload, Message
        <5> QED
          BY <5>1, PlainOne
      <4>3. slaves[n][t].buf \in Seq(Unit)
        BY DEF TypeSlaves, SlaveClient
      <4>4. link[t] \in Connection /\ link[t].st = "open" /\ link[t].req = NULL
        BY SMTT(60), <2>1, <3>1 DEF ConnOK, Attached, Serves
      <4> DEFINE l1 == Sent(link[t], <<Payload(rdb_child[n])>>)
      <4>5. ConnOK(l1, masterhost[t], repl_state[t], cached_master[t], initial[t].off)
        BY SMTT(60), <2>1, <4>2, <4>4, ConnSent
      <4>6. l1 \in Connection /\ l1.st = "open" /\ l1.req = NULL
            /\ l1.chan = link[t].chan \o <<Payload(rdb_child[n])>>
        BY Zenon, <4>2, <4>4, SentFields
      <4> HIDE DEF l1
      <4>7. ConnOK(Sent(l1, slaves[n][t].buf), masterhost[t], repl_state[t], cached_master[t],
                   initial[t].off)
        BY <4>3, <4>5, <4>6, ConnSent, UnitsArePlain
      <4>8. SentLinks(n)[t] = Sent(l1, slaves[n][t].buf)
        <5>1. Sent(l1, slaves[n][t].buf)
                = [link[t] EXCEPT !.chan = @ \o <<Payload(rdb_child[n])>> \o slaves[n][t].buf]
          BY Zenon, <4>4, <4>6 DEF Sent, l1, Connection
        <5> QED
          BY <3>1, <5>1 DEF SentLinks
      <4> QED
        BY <4>7, <4>8
    <3>2. CASE ~(slaves[n][t].st = "wait_bgsave_end" /\ Attached(n, t))
      BY <2>1, <3>2 DEF SentLinks
    <3> QED
      BY <3>1, <3>2
<1>5. Prepared(n, SentClients(n), SentLinks(n))
  BY <1>2, <1>3, <1>4 DEF Prepared, Serves, Waiters, Attached
<1>6. Same /\ updateSlavesWaitingBgsave(n, SentClients(n), SentLinks(n), used)
      /\ used \in [Event -> Nat]
  BY DEF Same, BgsaveDone, TypeUsed
<1>9. Saved(n, SentClients(n)) /\ TypeUsed'
  BY Zenon, <1>5, <1>6, UpdateSaved
<1>t1. TypeStream'
  BY <1>9 DEF Saved, TypeStream, BgsaveDone
<1>t2. TypeSlaves'
  BY ZenonT(60), <1>9 DEF Saved
<1>t3. TypeSaves'
  BY Zenon, <1>9 DEF Saved, TypeSaves, BgsaveDone
<1>t4. Links'
  BY ZenonT(60), <1>9 DEF Saved
<1>t5. Waiters'
  BY ZenonT(60), <1>9 DEF Saved
<1>t6. Files'
  BY ZenonT(60), <1>9 DEF Saved
<1>t7. Sources'
  <2>1. repl_backlog' = repl_backlog
    BY Zenon DEF BgsaveDone
  <2>2. /\ \A m \in Node : m # n => slaves'[m] = slaves[m]
        /\ HasSlaves(n)' => \E t \in Node : SentClients(n)[t].st # "none"
    BY Zenon, <1>9 DEF Saved
  <2>3. \A m \in Node : HasSlaves(m)' => HasSlaves(m)
    BY ZenonT(60), <1>2, <2>2 DEF HasSlaves
  <2> QED
    BY Zenon, <2>1, <2>3 DEF Sources
<1>t8. TypeIds' /\ TypeData' /\ TypeMaster' /\ TypeCached' /\ Roles'
  BY DEF TypeIds, TypeData, TypeMaster, TypeCached, Roles, BgsaveDone
<1> QED
  BY <1>9, <1>t1, <1>t2, <1>t3, <1>t4, <1>t5, <1>t6, <1>t7, <1>t8

\* BgsaveFailed keeps the invariant.
LEMMA BgsaveFailedStep ==
  ASSUME IInv, NEW n \in Node, BgsaveFailed(n)
  PROVE  IInv'
<1> USE DEF IInv, Types
<1>1. NoClient \in SlaveClient /\ NoClient.st = "none"
      /\ [NoClient EXCEPT !.st = "online"] \in SlaveClient
      /\ [NoClient EXCEPT !.st = "online"].st = "online"
  BY ClientTyped
<1>2. /\ DroppedClients(n) \in [Node -> SlaveClient]
      /\ \A t \in Node : DroppedClients(n)[t].st # "wait_bgsave_end"
      /\ \A t \in Node : DroppedClients(n)[t].st = "wait_bgsave_start" => slaves[n][t].st = "wait_bgsave_start"
      /\ \A t \in Node : DroppedClients(n)[t].st # "none" => slaves[n][t].st # "none"
  BY <1>1 DEF DroppedClients, TypeSlaves
<1>3. /\ DroppedLinks(n) = [t \in Node |-> DroppedLinks(n)[t]]
      /\ \A t \in Node : (masterhost[t] # n \/ slaves[n][t].st # "wait_bgsave_end") =>
           DroppedLinks(n)[t] = link[t]
  BY SMTT(60) DEF DroppedLinks, Attached, Serves
<1>4. ASSUME NEW t \in Node
      PROVE  ConnOK(DroppedLinks(n)[t], masterhost[t], repl_state[t], cached_master[t], initial[t].off)
  <2>1. ConnOK(link[t], masterhost[t], repl_state[t], cached_master[t], initial[t].off)
    BY DEF Links, LinkOK
  <2> QED
    <3>1. CASE slaves[n][t].st = "wait_bgsave_end" /\ Attached(n, t)
      BY SMTT(60), <2>1, <3>1, ConnClosed DEF DroppedLinks
    <3>2. CASE ~(slaves[n][t].st = "wait_bgsave_end" /\ Attached(n, t))
      BY <2>1, <3>2 DEF DroppedLinks
    <3> QED
      BY <3>1, <3>2
<1>5. Prepared(n, DroppedClients(n), DroppedLinks(n))
  BY <1>2, <1>3, <1>4 DEF Prepared, Serves, Waiters, Attached
<1> DEFINE u == [used EXCEPT !["savefail"] = @ + 1]
<1>6. Same /\ updateSlavesWaitingBgsave(n, DroppedClients(n), DroppedLinks(n), u)
  BY Zenon DEF Same, BgsaveFailed
<1>7. u \in [Event -> Nat]
  BY DEF TypeUsed, Event
<1> HIDE DEF u
<1>9. Saved(n, DroppedClients(n)) /\ TypeUsed'
  BY Zenon, <1>5, <1>6, <1>7, UpdateSaved
<1>t1. TypeIds'
  BY DEF TypeIds, BgsaveFailed
<1>t2. TypeUsed'
  BY <1>9
<1>t3. TypeStream'
  BY ZenonT(60), <1>9 DEF Saved, TypeStream, BgsaveFailed
<1>t4. TypeSlaves'
  BY ZenonT(60), <1>9 DEF Saved
<1>t5. TypeSaves'
  BY ZenonT(60), <1>9 DEF Saved, TypeSaves, BgsaveFailed
<1>t6. Links'
  BY ZenonT(60), <1>9 DEF Saved
<1>t7. Waiters'
  BY ZenonT(60), <1>9 DEF Saved
<1>t8. Files'
  BY ZenonT(60), <1>9 DEF Saved
<1>t9. Sources'
  <2>1. repl_backlog' = repl_backlog
    BY Zenon DEF BgsaveFailed
  <2>2. /\ \A m \in Node : m # n => slaves'[m] = slaves[m]
        /\ HasSlaves(n)' => \E t \in Node : DroppedClients(n)[t].st # "none"
    BY Zenon, <1>9 DEF Saved
  <2>3. \A m \in Node : HasSlaves(m)' => HasSlaves(m)
    BY ZenonT(60), <1>2, <2>2 DEF HasSlaves
  <2> QED
    BY Zenon, <2>1, <2>3 DEF Sources
<1>t10. TypeData' /\ TypeMaster' /\ TypeCached' /\ Roles'
  BY SMTT(60) DEF TypeData, TypeMaster, TypeCached, Roles, BgsaveFailed
<1> QED
  BY SMTT(60), <1>t1, <1>t2, <1>t3, <1>t4, <1>t5, <1>t6, <1>t7, <1>t8, <1>t9, <1>t10

=============================================================================
