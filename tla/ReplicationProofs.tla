-------------------------- MODULE ReplicationProofs -------------------------
(***************************************************************************)
(* Invariants of Replication, proved for any number of instances and any   *)
(* bounds.                                                                 *)
(***************************************************************************)
EXTENDS ReplicationSlave, ReplicationMaster

USE DEF ids, stream, saves, client, bounds

\* The invariant holds initially.
LEMMA InitIInv == Init => IInv
<1> SUFFICES ASSUME Init PROVE IInv
  OBVIOUS
<1>1. Cardinality(Node) \in Nat
  BY NodeAssumption
<1>2. TypeIds /\ TypeUsed /\ TypeStream /\ TypeData /\ TypeMaster /\ TypeCached
  BY <1>1 DEF Init, TypeIds, TypeUsed, TypeStream, TypeData, TypeMaster, TypeCached, NoId, Dataset
<1>3. TypeSlaves /\ TypeSaves
  BY ClientTyped, EmptyRdbTyped DEF Init, TypeSlaves, TypeSaves
<1>4. Roles /\ Waiters /\ Files /\ Sources
  BY ClientTyped DEF Init, Roles, Waiters, Files, Sources, HasSlaves
<1>5. Links
  BY ConnNone DEF Init, Links, LinkOK
<1> QED
  BY <1>2, <1>3, <1>4, <1>5 DEF IInv, Types

\* It depends on nothing but the variables.
LEMMA StutterIInv == IInv /\ UNCHANGED vars => IInv'
<1> SUFFICES ASSUME IInv, UNCHANGED vars PROVE IInv'
  OBVIOUS
<1> USE DEF vars
<1>1. TypeIds' /\ TypeUsed' /\ TypeStream' /\ TypeData' /\ TypeMaster' /\ TypeCached'
  BY DEF IInv, Types, TypeIds, TypeUsed, TypeStream, TypeData, TypeMaster, TypeCached
<1>2. TypeSlaves' /\ TypeSaves' /\ Roles'
  BY DEF IInv, Types, TypeSlaves, TypeSaves, Roles
<1>3. Links' /\ Waiters' /\ Files' /\ Sources'
  BY DEF IInv, Links, LinkOK, Waiters, Files, Sources, HasSlaves, Attached, Serves
<1> QED
  BY <1>1, <1>2, <1>3 DEF IInv, Types

\* Every step keeps it.
LEMMA NextIInv == IInv /\ [Next]_vars => IInv'
<1> SUFFICES ASSUME IInv, Next PROVE IInv'
  BY StutterIInv
<1>1. ASSUME NEW n \in Node, Connect(n) \/ Receive(n) \/ RecvPayloadBad(n) \/ ConnLost(n)
      PROVE  IInv'
  BY <1>1, ConnectStep, RecvFullResyncStep, RecvErrorStep, RecvTryLaterStep, RecvContinueStep,
     RecvPayloadStep, RecvStreamStep, RecvPayloadBadStep, ConnLostStep DEF Receive
<1>2. ASSUME NEW n \in Node, \/ Bgsave(n) \/ BgsaveDone(n) \/ BgsaveFailed(n) \/ CronBgsave(n)
                             \/ PingSlaves(n) \/ FreeBacklog(n) \/ resizeReplicationBacklog(n)
                             \/ SlaveOfNoOne(n)
      PROVE  IInv'
  BY <1>2, BgsaveStep, BgsaveDoneStep, BgsaveFailedStep, CronBgsaveStep, PingSlavesStep,
     FreeBacklogStep, resizeReplicationBacklogStep, SlaveOfNoOneStep
<1>3. ASSUME NEW m \in Node, NEW s \in Node, Sync(m, s) \/ SlaveGone(m, s) \/ SlaveOf(s, m)
      PROVE  IInv'
  BY <1>3, SyncRefusedStep, SyncPartialStep, SyncFullAttachStep, SyncFullWaitStep,
     SyncFullStartStep, SlaveGoneStep, SlaveOfStep DEF Sync
<1>4. ASSUME NEW n \in Node, NEW d \in DB, ClientWrite(n, d) PROVE IInv'
  BY <1>4, ClientWriteStep
<1>5. ASSUME NEW n \in Node, NEW m \in Node \cup {NULL}, Restart(n, m) PROVE IInv'
  BY <1>5, RestartStep
<1> QED
  BY <1>1, <1>2, <1>3, <1>4, <1>5 DEF Next

\* It always holds.
LEMMA Invariance == Spec => []IInv
  BY InitIInv, NextIInv, PTL DEF Spec

\* Every variable keeps its type: in particular every message on a connection
\* is one the slave can read in its state.
THEOREM TypeCorrect == Spec => []TypeOK
<1>1. IInv => TypeOK
  <2> SUFFICES ASSUME IInv PROVE TypeOK
    OBVIOUS
  <2>1. link \in [Node -> Connection]
    BY DEF IInv, Links, LinkOK, ConnOK
  <2> QED
    BY <2>1 DEF IInv, Types, TypeOK, TypeIds, TypeUsed, TypeStream, TypeData, TypeMaster,
                TypeCached, TypeSlaves, TypeSaves
<1> QED
  BY <1>1, Invariance, PTL

\* The assertion of replicationFeedSlaves never fails, at a master or at a
\* chained slave, for any number of instances: an instance with slaves, or
\* connected to a master, has a backlog.
THEOREM BacklogPresent == Spec => []NoSlavesWithoutBacklog
<1>1. IInv => NoSlavesWithoutBacklog
  BY DEF IInv, Sources, Roles, NoSlavesWithoutBacklog
<1> QED
  BY <1>1, Invariance, PTL

\* A file sent to a slave always carries the replication information, and
\* startBgsaveForReplication fails to find it only at an instance whose own
\* master was lost and not cached, before that instance resynchronises.
THEOREM InfoForSlaves == Spec => []SaveInfoForSlaves
<1>1. ASSUME IInv, NEW s \in Node, NEW i \in 1..Len(link[s].chan), link[s].chan[i].k = "rdb"
      PROVE  link[s].chan[i].rdb.db # -1
  <2>1. link[s].chan[i] \in Message
    <3>1. link[s] \in Connection
      BY Zenon, <1>1 DEF IInv, Links, LinkOK, ConnOK
    <3> QED
      BY <3>1 DEF Connection
  <2>2. link[s].chan[i].rdb \in SentRdb
    BY <1>1, <2>1 DEF Message, Unit
  <2> QED
    BY <2>2, DBAssumption DEF SentRdb
<1>2. ASSUME IInv, NEW n \in Node, HasSlaves(n), StreamDb(n, TRUE) = -1
      PROVE  /\ masterhost[n] # NULL /\ master[n] = NULL /\ cached_master[n] = NULL
             /\ repl_state[n] \in {"CONNECT", "RECEIVE_PSYNC"} /\ repl_backlog[n] # NULL
  <2>1. /\ master[n] # NULL => master[n].db \in Nat
        /\ cached_master[n] # NULL => cached_master[n].db \in Nat
    BY Zenon, <1>2, DBAssumption DEF IInv, Types, TypeMaster, TypeCached, MasterClient
  <2>2. masterhost[n] # NULL /\ master[n] = NULL /\ cached_master[n] = NULL
    BY <1>2, <2>1 DEF StreamDb
  <2>3. repl_backlog[n] # NULL
    BY <1>2 DEF IInv, Sources
  <2>4. repl_state[n] \notin {"NONE", "TRANSFER", "CONNECTED"}
    BY <1>2, <2>2, <2>3 DEF IInv, Roles
  <2> QED
    BY <1>2, <2>2, <2>3, <2>4 DEF IInv, Types, TypeIds
<1>3. IInv => SaveInfoForSlaves
  BY Zenon, <1>1, <1>2 DEF SaveInfoForSlaves
<1> QED
  BY <1>3, Invariance, PTL

-----------------------------------------------------------------------------
(* The ids, offsets and backlog of an instance fit together.               *)

\* The object of the master, connected or cached, has our id and offset.
Agrees ==
  \A n \in Node : \A c \in {master[n], cached_master[n]} :
    c # NULL => c.id = replid[n] /\ c.off = master_repl_offset[n]
Fits == Agrees /\ BacklogWindow
\* What Fits is about.
fit == <<master, cached_master, replid, master_repl_offset, repl_backlog>>
\* The same for one instance.
FitsAt(n) ==
  /\ \A c \in {master[n], cached_master[n]} :
       c # NULL => c.id = replid[n] /\ c.off = master_repl_offset[n]
  /\ repl_backlog[n] # NULL =>
       /\ repl_backlog[n].off + Len(repl_backlog[n].hist) = master_repl_offset[n] + 1
       /\ Len(repl_backlog[n].hist) <= BacklogSize
SameAt(n) == UNCHANGED <<master[n], cached_master[n], replid[n], master_repl_offset[n], repl_backlog[n]>>

\* A step of n that touches no other instance has only n to show.
LEMMA FitsStep ==
  ASSUME Fits, NEW n \in Node, FitsAt(n)', \A m \in Node : m # n => SameAt(m)
  PROVE  Fits'
<1>1. \A m \in Node : FitsAt(m)
  BY DEF Fits, FitsAt, Agrees, BacklogWindow
<1>2. \A m \in Node : FitsAt(m)'
  BY <1>1 DEF FitsAt, SameAt
<1> QED
  BY <1>2 DEF Fits, FitsAt, Agrees, BacklogWindow

\* What fits, fits at each instance.
LEMMA FitsHere == ASSUME Fits, NEW n \in Node PROVE FitsAt(n)
  BY DEF Fits, FitsAt, Agrees, BacklogWindow

\* A new backlog is empty and starts after the current offset.
LEMMA CreateFits ==
  ASSUME NEW off \in Nat
  PROVE  /\ createReplicationBacklog(off).off + Len(createReplicationBacklog(off).hist) = off + 1
         /\ Len(createReplicationBacklog(off).hist) <= BacklogSize
  BY BacklogSizeAssumption DEF createReplicationBacklog

\* Starting a new history, where it happens, meets neither a master nor a
\* cached master.
LEMMA FitsNewHistory ==
  ASSUME IInv, Fits, NEW m \in Node, NEW s \in Node, SyncFull(m, s),
         UNCHANGED <<master, cached_master, master_repl_offset>>
  PROVE  Fits'
<1> USE DEF IInv, Types
<1>1. CASE StartsHistory(m)
  <2> DEFINE bl == createReplicationBacklog(master_repl_offset[m])
  <2>1. bl.off + Len(bl.hist) = master_repl_offset[m] + 1 /\ Len(bl.hist) <= BacklogSize
    BY Zenon, CreateFits DEF TypeStream
  <2>2. repl_backlog' = [repl_backlog EXCEPT ![m] = bl] /\ replid' = [replid EXCEPT ![m] = nextId]
    BY <1>1 DEF SyncFull, NewHistory
  <2> HIDE DEF bl
  <2>3. master[m] = NULL /\ cached_master[m] = NULL
    BY <1>1, SyncFullFacts DEF StartsHistory, Roles
  <2>4. FitsAt(m)'
    BY <2>1, <2>2, <2>3 DEF FitsAt, TypeStream
  <2>5. \A n \in Node : n # m => SameAt(n)
    BY <2>2 DEF SameAt, TypeStream, TypeIds
  <2> QED
    BY <2>4, <2>5, FitsStep
<1>2. CASE ~StartsHistory(m)
  BY <1>2, FitsStep, FitsHere DEF SyncFull, NewHistory, SameAt, FitsAt, ids
<1> QED
  BY <1>1, <1>2

\* Feeding a master's own stream.
LEMMA FitsFeed ==
  ASSUME IInv, Fits, NEW m \in Node, NEW d, NEW items \in Seq(Unit), masterhost[m] = NULL,
         d \in DB \/ d = slaveseldb[m], replicationFeedSlaves(m, d, items),
         UNCHANGED <<master, cached_master, replid>>
  PROVE  Fits'
<1> USE DEF IInv, Types
<1> DEFINE all == IF slaveseldb[m] # d THEN <<Select(d)>> \o items ELSE items
<1>1. CASE repl_backlog[m] = NULL /\ ~HasSlaves(m)
  BY <1>1, FitsStep, FitsHere DEF replicationFeedSlaves, SameAt, FitsAt, stream
<1>2. CASE ~(repl_backlog[m] = NULL /\ ~HasSlaves(m))
  <2>1. repl_backlog[m] \in Backlog /\ repl_backlog[m] # NULL
    BY <1>2 DEF Sources, TypeStream
  <2>2. all \in Seq(Unit)
    <3>1. slaveseldb[m] # d => <<Select(d)>> \in Seq(Unit)
      BY DEF Select, Unit
    <3> QED
      BY <3>1
  <2>3. /\ repl_backlog' = [repl_backlog EXCEPT ![m] = feedReplicationBacklog(@, all)]
        /\ master_repl_offset' = [master_repl_offset EXCEPT ![m] = @ + Len(all)]
    BY <1>2 DEF replicationFeedSlaves
  <2> HIDE DEF all
  <2>4. master[m] = NULL /\ cached_master[m] = NULL
    BY DEF Roles
  <2>5. FitsAt(m)'
    <3>1. /\ repl_backlog'[m].off + Len(repl_backlog'[m].hist)
               = repl_backlog[m].off + Len(repl_backlog[m].hist) + Len(all)
          /\ Len(repl_backlog'[m].hist) <= BacklogSize
      BY <2>1, <2>2, <2>3, FeedWindow DEF TypeStream
    <3>2. repl_backlog[m].off + Len(repl_backlog[m].hist) = master_repl_offset[m] + 1
      BY <2>1, FitsHere DEF FitsAt
    <3>3. master_repl_offset'[m] = master_repl_offset[m] + Len(all)
      BY <2>3 DEF TypeStream
    <3>4. master_repl_offset[m] \in Nat /\ Len(all) \in Nat
      BY <2>2 DEF TypeStream
    <3> QED
      BY <2>4, <3>1, <3>2, <3>3, <3>4 DEF FitsAt
  <2>6. \A n \in Node : n # m => SameAt(n)
    BY <2>3 DEF SameAt, TypeStream
  <2> QED
    BY <2>5, <2>6, FitsStep
<1> QED
  BY <1>1, <1>2

\* +CONTINUE: the cached master, with the new id, becomes the master.
LEMMA FitsContinue ==
  ASSUME IInv, Fits, NEW s \in Node, RecvContinue(s) PROVE Fits'
<1> USE DEF IInv, Types
<1> DEFINE c == cached_master[s]
           new == Msg(s).id
           bl == createReplicationBacklog(master_repl_offset[s])
<1>1. c \in MasterClient /\ c # NULL /\ new \in Nat
  <2>1. link[s].chan # <<>> /\ Msg(s).k = "continue"
    BY DEF RecvContinue, Receives, Msg
  <2>2. Msg(s) \in Message /\ c # NULL
    BY <2>1, MsgTyped DEF Links, LinkOK, ConnOK
  <2> QED
    BY <2>1, <2>2 DEF Message, Unit, TypeCached
<1>2. /\ replid' = IF new # c.id THEN [replid EXCEPT ![s] = new] ELSE replid
      /\ master' = [master EXCEPT ![s] = [c EXCEPT !.id = new]]
      /\ cached_master' = [cached_master EXCEPT ![s] = NULL]
      /\ repl_backlog' = [repl_backlog EXCEPT ![s] = IF @ = NULL THEN bl ELSE @]
      /\ master_repl_offset' = master_repl_offset
  BY DEF RecvContinue
<1>3. bl.off + Len(bl.hist) = master_repl_offset[s] + 1 /\ Len(bl.hist) <= BacklogSize
  BY Zenon, CreateFits DEF TypeStream
<1>4. c.id = replid[s] /\ c.off = master_repl_offset[s]
  BY <1>1, FitsHere DEF FitsAt
<1>5. master'[s].id = new /\ master'[s].off = c.off
  BY <1>1, <1>2 DEF TypeMaster, MasterClient
<1> HIDE DEF c, new, bl
<1>6. replid'[s] = new /\ cached_master'[s] = NULL
  BY <1>2, <1>4 DEF TypeIds, TypeCached
<1>7. repl_backlog'[s] = repl_backlog[s] \/ repl_backlog'[s] = bl
  BY <1>2 DEF TypeStream
<1>8. FitsAt(s)'
  BY <1>2, <1>3, <1>4, <1>5, <1>6, <1>7, FitsHere DEF FitsAt
<1>9. \A n \in Node : n # s => SameAt(n)
  BY <1>2 DEF SameAt, TypeStream, TypeIds, TypeMaster, TypeCached
<1> QED
  BY <1>8, <1>9, FitsStep

\* The payload of a full resynchronisation brings id and offset of the master.
LEMMA FitsPayload ==
  ASSUME IInv, Fits, NEW s \in Node, RecvPayload(s) PROVE Fits'
<1> USE DEF IInv, Types
<1> DEFINE off == initial[s].off
           bl == createReplicationBacklog(off)
<1>1. off \in Nat
  <2>1. off # -1
    BY DEF RecvPayload, Receives, Links, LinkOK, ConnOK
  <2> QED
    BY SMTT(60), <2>1 DEF TypeIds
<1>2. repl_backlog[s] = NULL /\ cached_master[s] = NULL
  BY DEF RecvPayload, Roles
<1>3. /\ replid' = [replid EXCEPT ![s] = initial[s].id]
      /\ master_repl_offset' = [master_repl_offset EXCEPT ![s] = off]
      /\ master'[s].id = initial[s].id /\ master'[s].off = off
      /\ \A n \in Node : n # s => master'[n] = master[n]
      /\ cached_master' = cached_master
      /\ repl_backlog' = [repl_backlog EXCEPT ![s] = bl]
  BY <1>2 DEF RecvPayload, TypeMaster
<1>4. bl.off + Len(bl.hist) = off + 1 /\ Len(bl.hist) <= BacklogSize
  BY Zenon, <1>1, CreateFits
<1> HIDE DEF off, bl
<1>5. FitsAt(s)'
  BY <1>2, <1>3, <1>4 DEF FitsAt, TypeStream, TypeIds
<1>6. \A n \in Node : n # s => SameAt(n)
  BY <1>3 DEF SameAt, TypeStream, TypeIds
<1> QED
  BY <1>5, <1>6, FitsStep

\* A unit of the stream moves the offset of the master object and the
\* instance's own together, or neither.
LEMMA FitsStream ==
  ASSUME IInv, Fits, NEW s \in Node, RecvStream(s) PROVE Fits'
<1> USE DEF IInv, Types
<1> DEFINE u == Msg(s)
           items == Append(master[s].mstate.queue, u)
           res == Execute(Reached(s), u)
           queued == u.k = "multi" \/ (InMulti(s) /\ u.k # "exec")
<1>1. link[s].chan # <<>> /\ repl_state[s] = "CONNECTED" /\ InStream(u)
  BY DEF RecvStream
<1>2. u \in Unit /\ master[s] \in MasterClient /\ master[s] # NULL
      /\ repl_backlog[s] \in Backlog /\ repl_backlog[s] # NULL /\ cached_master[s] = NULL
  BY SMTT(60), <1>1, MsgTyped, MessageKind DEF Roles, TypeMaster, TypeStream
<1>3. items \in Seq(Unit) /\ Len(items) \in Nat
  BY <1>2 DEF MasterClient
<1>4. cached_master' = cached_master /\ replid' = replid
  BY DEF RecvStream
<1> HIDE DEF items, res
<1>5. CASE queued
  <2>1. /\ master' = [master EXCEPT ![s].mstate = [queue |-> items, data |-> res.data, db |-> res.db]]
        /\ UNCHANGED <<master_repl_offset, repl_backlog>>
    BY <1>5 DEF RecvStream, items, res
  <2>2. master'[s].id = master[s].id /\ master'[s].off = master[s].off
    BY <1>2, <2>1 DEF TypeMaster, MasterClient
  <2>3. FitsAt(s)'
    BY <1>2, <1>4, <2>1, <2>2, FitsHere DEF FitsAt
  <2>4. \A n \in Node : n # s => SameAt(n)
    BY <1>4, <2>1 DEF SameAt, TypeMaster
  <2> QED
    BY <2>3, <2>4, FitsStep
<1>6. CASE ~queued
  <2>1. /\ master' = [master EXCEPT ![s] = [@ EXCEPT !.mstate = NoTxn, !.db = res.db,
                                                     !.off = master[s].off + Len(items)]]
        /\ master_repl_offset' = [master_repl_offset EXCEPT ![s] = @ + Len(items)]
        /\ repl_backlog' = [repl_backlog EXCEPT ![s] = feedReplicationBacklog(@, items)]
    BY <1>2, <1>6 DEF RecvStream, items, res
  <2>2. master'[s].id = master[s].id /\ master'[s].off = master[s].off + Len(items)
    <3>1. master'[s] = [master[s] EXCEPT !.mstate = NoTxn, !.db = res.db,
                                         !.off = master[s].off + Len(items)]
      BY <1>2, <2>1 DEF TypeMaster, MasterClient
    <3> QED
      BY <1>2, <3>1 DEF MasterClient
  <2>3. /\ repl_backlog'[s].off + Len(repl_backlog'[s].hist)
             = repl_backlog[s].off + Len(repl_backlog[s].hist) + Len(items)
        /\ Len(repl_backlog'[s].hist) <= BacklogSize
    BY <1>2, <1>3, <2>1, FeedWindow DEF TypeStream
  <2>4. /\ repl_backlog[s].off + Len(repl_backlog[s].hist) = master_repl_offset[s] + 1
        /\ master[s].id = replid[s] /\ master[s].off = master_repl_offset[s]
    BY <1>2, FitsHere DEF FitsAt
  <2>5. master_repl_offset'[s] = master_repl_offset[s] + Len(items) /\ master_repl_offset[s] \in Nat
    BY <2>1 DEF TypeStream
  <2>6. FitsAt(s)'
    <3>1. repl_backlog'[s].off + Len(repl_backlog'[s].hist) = master_repl_offset'[s] + 1
      BY <1>3, <2>3, <2>4, <2>5
    <3>2. master'[s].id = replid'[s] /\ master'[s].off = master_repl_offset'[s]
      BY <1>4, <2>2, <2>4, <2>5
    <3>3. cached_master'[s] = NULL
      BY <1>2, <1>4
    <3> QED
      BY <2>3, <3>1, <3>2, <3>3 DEF FitsAt
  <2>7. \A n \in Node : n # s => SameAt(n)
    BY <1>4, <2>1 DEF SameAt, TypeMaster, TypeStream
  <2> QED
    BY <2>6, <2>7, FitsStep
<1> QED
  BY <1>5, <1>6

\* A lost connection turns the master into the cached master with the same id
\* and offset.
LEMMA FitsLost ==
  ASSUME IInv, Fits, NEW s \in Node, ConnLost(s) PROVE Fits'
<1> USE DEF IInv, Types
<1>1. UNCHANGED <<replid, master_repl_offset, repl_backlog>>
  BY DEF ConnLost
<1>2. CASE repl_state[s] = "CONNECTED"
  <2>1. /\ master[s] \in MasterClient /\ master[s] # NULL
        /\ \/ cached_master' = [cached_master EXCEPT ![s] = Cached(s)]
           \/ cached_master' = [cached_master EXCEPT ![s] = NULL]
        /\ master' = [master EXCEPT ![s] = NULL]
    BY <1>2 DEF ConnLost, FreeMaster, Roles, TypeMaster
  <2>2. Cached(s).id = master[s].id /\ Cached(s).off = master[s].off
    BY <2>1 DEF Cached, MasterClient
  <2>3. FitsAt(s)'
    BY SMTT(60), <1>1, <2>1, <2>2, FitsHere DEF FitsAt, TypeMaster, TypeCached
  <2>4. \A n \in Node : n # s => SameAt(n)
    BY <1>1, <2>1 DEF SameAt, TypeMaster, TypeCached
  <2> QED
    BY <2>3, <2>4, FitsStep
<1>3. CASE repl_state[s] # "CONNECTED"
  BY <1>1, <1>3, FitsStep, FitsHere DEF ConnLost, SameAt, FitsAt
<1> QED
  BY <1>2, <1>3

\* SLAVEOF caches the master, or the instance itself, with its own id and
\* offset.
LEMMA FitsSlaveOf ==
  ASSUME IInv, Fits, NEW s \in Node, NEW m \in Node, SlaveOf(s, m) PROVE Fits'
<1> USE DEF IInv, Types
<1>1. /\ UNCHANGED <<replid, master_repl_offset, repl_backlog>>
      /\ master' = [master EXCEPT ![s] = NULL]
      /\ \E c \in {Myself(s), cached_master[s], NULL} \cup
                   (IF master[s] # NULL THEN {Cached(s)} ELSE {}) :
           cached_master' = [cached_master EXCEPT ![s] = c]
  BY DEF SlaveOf, FreeMaster, TypeMaster, TypeCached
<1>2. /\ Myself(s).id = replid[s] /\ Myself(s).off = master_repl_offset[s]
      /\ master[s] # NULL => Cached(s).id = master[s].id /\ Cached(s).off = master[s].off
  BY DEF Myself, Cached, MasterClient, TypeMaster
<1>3. FitsAt(s)'
  BY <1>1, <1>2, FitsHere DEF FitsAt, TypeMaster, TypeCached
<1>4. \A n \in Node : n # s => SameAt(n)
  BY <1>1 DEF SameAt, TypeMaster, TypeCached
<1> QED
  BY <1>3, <1>4, FitsStep

\* A restart has no backlog, and a cached master only with the id and offset
\* it loaded.
LEMMA FitsRestart ==
  ASSUME IInv, Fits, NEW n \in Node, NEW m \in Node \cup {NULL}, Restart(n, m) PROVE Fits'
<1> USE DEF IInv, Types
<1>1. FitsAt(n)'
  BY SMTT(60) DEF Restart, FitsAt, TypeMaster, TypeCached, TypeStream, TypeIds
<1>2. \A r \in Node : r # n => SameAt(r)
  BY DEF Restart, SameAt, TypeMaster, TypeCached, TypeStream, TypeIds
<1> QED
  BY SMTT(60), <1>1, <1>2, FitsStep

\* Steps that forget the backlog, renew it, or forget the master.
LEMMA FitsSimple ==
  ASSUME IInv, Fits, NEW n \in Node,
         \/ RecvFullResync(n) \/ RecvError(n) \/ FreeBacklog(n) \/ resizeReplicationBacklog(n)
         \/ SlaveOfNoOne(n)
  PROVE  Fits'
<1> USE DEF IInv, Types
<1>1. \A m \in Node : m # n => SameAt(m)
  BY DEF RecvFullResync, RecvError, FreeBacklog, resizeReplicationBacklog, SlaveOfNoOne,
         shiftReplicationId, SameAt, TypeMaster, TypeCached, TypeStream, TypeIds
<1>2. CASE RecvFullResync(n) \/ RecvError(n)
  <2>1. master[n] = NULL
    BY SMTT(60), <1>2 DEF Roles, RecvFullResync, RecvError
  <2>2. FitsAt(n)'
    BY SMTT(60), <1>2, <2>1 DEF RecvFullResync, RecvError, FitsAt, TypeCached, TypeStream
  <2> QED
    BY SMTT(60), <1>1, <2>2, FitsStep
<1>3. CASE FreeBacklog(n) \/ SlaveOfNoOne(n)
  <2>1. FreeBacklog(n) => master[n] = NULL /\ cached_master[n] = NULL
    BY SMTT(60) DEF Roles, FreeBacklog
  <2>2. /\ master'[n] = NULL /\ cached_master'[n] = NULL
        /\ repl_backlog'[n] = NULL \/ repl_backlog'[n] = repl_backlog[n]
        /\ master_repl_offset' = master_repl_offset
    BY SMTT(60), <1>3, <2>1 DEF FreeBacklog, SlaveOfNoOne, TypeCached, TypeMaster, TypeStream
  <2>3. FitsAt(n)'
    BY ZenonT(60), <2>2, FitsHere DEF FitsAt
  <2> QED
    BY <1>1, <2>3, FitsStep
<1>4. CASE resizeReplicationBacklog(n)
  <2> DEFINE bl == createReplicationBacklog(master_repl_offset[n])
  <2>1. bl.off + Len(bl.hist) = master_repl_offset[n] + 1 /\ Len(bl.hist) <= BacklogSize
    BY ZenonT(60), CreateFits DEF TypeStream
  <2>2. repl_backlog' = [repl_backlog EXCEPT ![n] = bl]
    BY <1>4 DEF resizeReplicationBacklog
  <2> HIDE DEF bl
  <2>3. FitsAt(n)'
    BY <1>4, <2>1, <2>2, FitsHere DEF resizeReplicationBacklog, FitsAt, TypeStream
  <2> QED
    BY <1>1, <2>3, FitsStep
<1> QED
  BY SMTT(60), <1>2, <1>3, <1>4

\* Steps that touch nothing of it.
LEMMA FitsUnchanged == ASSUME Fits, UNCHANGED fit PROVE Fits'
  BY DEF Fits, fit, Agrees, BacklogWindow

\* Every step keeps ids, offsets and backlog together.
LEMMA NextFits == IInv /\ Fits /\ [Next]_vars => Fits'
<1> SUFFICES ASSUME IInv, Fits, [Next]_vars PROVE Fits'
  OBVIOUS
<1>1. CASE UNCHANGED vars
  BY <1>1, FitsUnchanged DEF vars, fit
<1>2. ASSUME NEW n \in Node, Connect(n) \/ Receive(n) \/ RecvPayloadBad(n) \/ ConnLost(n)
      PROVE  Fits'
  <2>1. CASE Connect(n) \/ RecvTryLater(n) \/ RecvPayloadBad(n)
    BY SMTT(60), <2>1, FitsUnchanged DEF Connect, RecvTryLater, RecvPayloadBad, fit
  <2> QED
    BY SMTT(60), <1>2, <2>1, FitsSimple, FitsContinue, FitsPayload, FitsStream, FitsLost DEF Receive
<1>3. ASSUME NEW n \in Node, \/ Bgsave(n) \/ BgsaveDone(n) \/ BgsaveFailed(n) \/ CronBgsave(n)
      PROVE  Fits'
  BY <1>3, FitsUnchanged DEF Bgsave, BgsaveDone, BgsaveFailed, CronBgsave, fit
<1>4. ASSUME NEW n \in Node, \/ PingSlaves(n) \/ FreeBacklog(n) \/ resizeReplicationBacklog(n)
                             \/ SlaveOfNoOne(n)
      PROVE  Fits'
  <2>1. CASE PingSlaves(n)
    <3>1. <<Ping>> \in Seq(Unit)
      BY DEF Unit, Ping
    <3> QED
      BY ZenonT(60), <2>1, <3>1, FitsFeed DEF PingSlaves
  <2> QED
    BY SMTT(60), <1>4, <2>1, FitsSimple
<1>5. ASSUME NEW m \in Node, NEW s \in Node, Sync(m, s) \/ SlaveGone(m, s) \/ SlaveOf(s, m)
      PROVE  Fits'
  <2>1. CASE SyncRefused(m, s) \/ SyncPartial(m, s) \/ SlaveGone(m, s)
    BY <2>1, FitsUnchanged DEF SyncRefused, SyncPartial, SlaveGone, fit
  <2>2. CASE SyncFullAttach(m, s) \/ SyncFullWait(m, s) \/ SyncFullStart(m, s)
    BY <2>2, FitsNewHistory DEF SyncFullAttach, SyncFullWait, SyncFullStart
  <2> QED
    BY <1>5, <2>1, <2>2, FitsSlaveOf DEF Sync
<1>6. ASSUME NEW n \in Node, NEW d \in DB, ClientWrite(n, d) PROVE Fits'
  <2>1. Write(nextWrite) \in Unit /\ Multi \in Unit /\ Exec \in Unit
    BY DEF Unit, Write, Multi, Exec, IInv, Types, TypeIds
  <2>2. <<Write(nextWrite)>> \in Seq(Unit) /\ <<Multi, Write(nextWrite), Exec>> \in Seq(Unit)
    BY <2>1
  <2>3. \E items \in Seq(Unit) : replicationFeedSlaves(n, d, items)
    BY Zenon, <1>6, <2>2 DEF ClientWrite
  <2> QED
    BY <1>6, <2>3, FitsFeed DEF ClientWrite
<1>7. ASSUME NEW n \in Node, NEW m \in Node \cup {NULL}, Restart(n, m) PROVE Fits'
  BY <1>7, FitsRestart
<1> QED
  BY <1>1, <1>2, <1>3, <1>4, <1>5, <1>6, <1>7 DEF Next

\* They always fit together.
LEMMA FitsInvariance == Spec => [](IInv /\ Fits)
<1>1. Init => Fits
  BY DEF Init, Fits, Agrees, BacklogWindow
<1> QED
  BY <1>1, InitIInv, NextIInv, NextFits, PTL DEF Spec

\* The backlog always ends at the instance's own offset and stays within
\* repl_backlog_size: what masterTryPartialResynchronization compares a
\* request with is exactly what can be sent.
THEOREM BacklogEndsHere == Spec => []BacklogWindow
<1>1. IInv /\ Fits => BacklogWindow
  BY DEF Fits
<1> QED
  BY <1>1, FitsInvariance, PTL

\* The master object of a slave, connected or cached, has the id and offset
\* the slave itself advertises, so that PSYNC asks for exactly the history it
\* holds; there is at most one such object, and none at a master.
THEOREM MasterAgrees == Spec => []MasterObjectAgrees
<1>1. IInv /\ Fits => MasterObjectAgrees
  BY DEF IInv, Roles, Fits, Agrees, MasterObjectAgrees
<1> QED
  BY <1>1, FitsInvariance, PTL

=============================================================================
