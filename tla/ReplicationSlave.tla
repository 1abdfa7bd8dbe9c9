-------------------------- MODULE ReplicationSlave --------------------------
(***************************************************************************)
(* Every step of the slave side of replication, and every change of role,  *)
(* keeps the invariant.                                                    *)
(***************************************************************************)
EXTENDS ReplicationInv

USE DEF ids, stream, saves, client, bounds

\* Connect keeps the invariant.
LEMMA ConnectStep ==
  ASSUME IInv, NEW s \in Node, Connect(s)
  PROVE  IInv'
<1> USE DEF IInv, Types
<1>t1. TypeIds'
  BY Zenon DEF TypeIds, Connect
<1>t2. Roles'
  BY DEF Roles, Connect
<1>t3. Links'
  <2>1. ASSUME NEW t \in Node, t # s PROVE LinkOK(t)'
    BY <2>1 DEF Links, LinkOK, Connect
  <2>2. LinkOK(s)'
    <3> DEFINE l == link'[s]
    <3>1. /\ l.st = "open" /\ l.chan = <<>> /\ l.req \in Request
          /\ l.req.id # AnyId => cached_master[s] # NULL
          /\ l \in Connection
      BY DEF Links, Connect, Connection, Request, TypeCached, MasterClient, AnyId
    <3>2. masterhost[s] # NULL /\ repl_state'[s] = "RECEIVE_PSYNC" /\ cached_master' = cached_master
      BY DEF Roles, Connect, TypeIds
    <3> HIDE DEF l
    <3>3. ConnOK(l, masterhost[s], "RECEIVE_PSYNC", cached_master[s], initial'[s].off)
      BY <3>1, <3>2 DEF ConnOK
    <3> QED
      BY <3>2, <3>3 DEF LinkOK, l, Connect
  <2> QED
    BY Zenon, <2>1, <2>2 DEF Links, Connect
<1>t4. Waiters'
  BY DEF Waiters, Attached, Serves, Connect, TypeCached, MasterClient, Request, TypeSlaves, Links, AnyId, NoClient
<1>t5. TypeUsed' /\ TypeStream' /\ TypeData' /\ TypeMaster' /\ TypeCached' /\ TypeSlaves' /\ TypeSaves' /\ Files' /\ Sources'
  BY DEF TypeUsed, TypeStream, TypeData, TypeMaster, TypeCached, TypeSlaves, TypeSaves, Files, Sources, HasSlaves, Connect
<1> QED
  BY <1>t1, <1>t2, <1>t3, <1>t4, <1>t5

\* RecvTryLater keeps the invariant.
LEMMA RecvTryLaterStep ==
  ASSUME IInv, NEW s \in Node, RecvTryLater(s)
  PROVE  IInv'
<1> USE DEF IInv, Types
<1>t1. TypeIds'
  BY DEF TypeIds, RecvTryLater
<1>t2. Roles'
  BY DEF Roles, RecvTryLater
<1>t3. Links'
  <2>1. ASSUME NEW t \in Node, t # s PROVE LinkOK(t)'
    BY <2>1 DEF Links, LinkOK, RecvTryLater
  <2>2. LinkOK(s)'
    BY ConnNone DEF Links, LinkOK, RecvTryLater, TypeIds
  <2> QED
    BY <2>1, <2>2 DEF Links, RecvTryLater
<1>t4. Waiters'
  BY DEF Waiters, Attached, Serves, RecvTryLater, NoLink, Links
<1>t5. TypeUsed' /\ TypeStream' /\ TypeData' /\ TypeMaster' /\ TypeCached' /\ TypeSlaves' /\ TypeSaves' /\ Files' /\ Sources'
  BY DEF TypeUsed, TypeStream, TypeData, TypeMaster, TypeCached, TypeSlaves, TypeSaves, Files, Sources, HasSlaves, RecvTryLater
<1> QED
  BY <1>t1, <1>t2, <1>t3, <1>t4, <1>t5

\* RecvFullResync keeps the invariant.
LEMMA RecvFullResyncStep ==
  ASSUME IInv, NEW s \in Node, RecvFullResync(s)
  PROVE  IInv'
<1> USE DEF IInv, Types
<1>1. link[s].chan # <<>> /\ Msg(s).k = "fullresync" /\ disconnectSlaves(s, ReadLink(s))
  BY DEF RecvFullResync, Receives, Msg
<1>2. Msg(s) \in Message /\ Msg(s).id \in Nat /\ Msg(s).off \in Nat
  BY <1>1, MsgTyped DEF Message, Unit
<1>t1. TypeIds'
  BY <1>2 DEF TypeIds, RecvFullResync
<1>t2. TypeStream'
  BY DEF TypeStream, RecvFullResync
<1>t3. TypeCached'
  BY DEF TypeCached, RecvFullResync
<1>t4. TypeSlaves'
  BY <1>1, DisconnectFacts
<1>t5. Roles'
  BY DEF Roles, RecvFullResync, TypeIds, TypeStream, TypeCached
<1>t6. Links'
  <2>1. ASSUME NEW t \in Node, t # s PROVE LinkOK(t)'
    BY <1>1, <2>1, DisconnectOthers DEF RecvFullResync, TypeIds, TypeCached
  <2>2. initial'[s].off # -1
    BY <1>2 DEF RecvFullResync, TypeIds, Links, LinkOK, ConnOK, Connection
  <2>3. ConnOK(ReadLink(s), masterhost[s], repl_state'[s], cached_master'[s], initial'[s].off)
    <3>1. ConnOK(link[s], masterhost[s], repl_state[s], cached_master[s], initial[s].off)
          /\ ReadLink(s) = [link[s] EXCEPT !.chan = Tail(@)]
      BY <1>1, MsgTyped DEF Links, LinkOK
    <3>2. ConnOK([link[s] EXCEPT !.chan = Tail(@)], masterhost[s], repl_state'[s],
                 cached_master'[s], initial'[s].off)
      BY SMTT(60), <1>1, <2>2, <3>1, ConnRead
    <3> QED
      BY <3>1, <3>2
  <2>4. LinkOK(s)'
    BY <1>1, <2>3, DisconnectFacts DEF LinkOK, RecvFullResync
  <2> QED
    BY <1>1, <2>1, <2>4, DisconnectFacts DEF Links
<1>t7. Waiters'
  BY <1>1, MsgTyped, DisconnectWaiters DEF RecvFullResync
<1>t8. Files'
  BY <1>1, DisconnectFacts DEF Files, RecvFullResync
<1>t9. Sources'
  BY Zenon, <1>1, DisconnectHasSlaves DEF Sources, RecvFullResync, TypeStream, TypeCached, TypeIds
<1>t10. TypeUsed' /\ TypeData' /\ TypeMaster' /\ TypeSaves'
  BY DEF TypeUsed, TypeData, TypeMaster, TypeSaves, RecvFullResync
<1> QED
  BY SMTT(60), <1>t1, <1>t2, <1>t3, <1>t4, <1>t5, <1>t6, <1>t7, <1>t8, <1>t9, <1>t10

\* RecvError keeps the invariant.
LEMMA RecvErrorStep ==
  ASSUME IInv, NEW s \in Node, RecvError(s)
  PROVE  IInv'
<1> USE DEF IInv, Types
<1>1. link[s].chan # <<>> /\ Msg(s).k = "error" /\ disconnectSlaves(s, ReadLink(s))
  BY DEF RecvError, Receives, Msg
<1>2. Msg(s) \in Message /\ link[s].st = "closed" /\ Len(link[s].chan) = 1
  BY <1>1, MsgTyped DEF Links, LinkOK, ConnOK
<1>t1. TypeIds'
  BY <1>2 DEF TypeIds, RecvError
<1>t2. TypeStream'
  BY DEF TypeStream, RecvError
<1>t3. TypeCached'
  BY DEF TypeCached, RecvError
<1>t4. TypeSlaves'
  BY <1>1, DisconnectFacts
<1>t5. Roles'
  BY DEF Roles, RecvError, TypeIds, TypeStream, TypeCached
<1>t6. Links'
  <2>1. ASSUME NEW t \in Node, t # s PROVE LinkOK(t)'
    BY <1>1, <2>1, DisconnectOthers DEF RecvError, TypeIds, TypeCached
  <2>2. link[s].st = "closed" /\ Tail(link[s].chan) = <<>>
    BY <1>2, LastRead DEF RecvError, TypeIds, Links, LinkOK, ConnOK, Connection
  <2>3. ConnOK(ReadLink(s), masterhost[s], repl_state'[s], cached_master'[s], initial'[s].off)
    <3>1. ConnOK(link[s], masterhost[s], repl_state[s], cached_master[s], initial[s].off)
          /\ ReadLink(s) = [link[s] EXCEPT !.chan = Tail(@)]
      BY <1>1, MsgTyped DEF Links, LinkOK
    <3>2. ConnOK([link[s] EXCEPT !.chan = Tail(@)], masterhost[s], repl_state'[s],
                 cached_master'[s], initial'[s].off)
      BY Zenon, <1>1, <2>2, <3>1, ConnRead
    <3> QED
      BY <3>1, <3>2
  <2>4. LinkOK(s)'
    BY <1>1, <2>3, DisconnectFacts DEF LinkOK, RecvError
  <2> QED
    BY <1>1, <2>1, <2>4, DisconnectFacts DEF Links
<1>t7. Waiters'
  BY <1>1, MsgTyped, DisconnectWaiters DEF RecvError
<1>t8. Files'
  BY <1>1, DisconnectFacts DEF Files, RecvError
<1>t9. Sources'
  BY SMTT(60), <1>1, DisconnectHasSlaves DEF Sources, RecvError, TypeStream, TypeCached, TypeIds
<1>t10. TypeUsed' /\ TypeData' /\ TypeMaster' /\ TypeSaves'
  BY DEF TypeUsed, TypeData, TypeMaster, TypeSaves, RecvError
<1> QED
  BY <1>t1, <1>t2, <1>t3, <1>t4, <1>t5, <1>t6, <1>t7, <1>t8, <1>t9, <1>t10

\* RecvContinue keeps the invariant.
LEMMA RecvContinueStep ==
  ASSUME IInv, NEW s \in Node, RecvContinue(s)
  PROVE  IInv'
<1> USE DEF IInv, Types
<1>1. link[s].chan # <<>> /\ Msg(s).k = "continue"
  BY DEF RecvContinue, Receives, Msg
<1>2. Msg(s).id \in Nat /\ cached_master[s] \in MasterClient /\ cached_master[s] # NULL
  <2>1. Msg(s) \in Message /\ cached_master[s] # NULL
    BY <1>1, MsgTyped DEF Links, LinkOK, ConnOK
  <2> QED
    BY <1>1, <2>1 DEF Message, Unit, TypeCached
<1>3. /\ link' = [t \in Node |-> link'[t]] /\ link'[s] = ReadLink(s)
      /\ \/ disconnectSlaves(s, ReadLink(s))
         \/ slaves' = slaves /\ \A t \in Node : t # s => link'[t] = link[t]
  <2>1. CASE disconnectSlaves(s, ReadLink(s))
    BY <2>1, DisconnectFacts
  <2>2. CASE link' = [link EXCEPT ![s] = ReadLink(s)] /\ slaves' = slaves
    BY <2>2 DEF Links
  <2> QED
    BY <2>1, <2>2 DEF RecvContinue
<1>t1. TypeIds'
  <2>1. cached_master[s].id \in Nat /\ master_repl_offset[s] + 1 \in Nat
    BY <1>2 DEF MasterClient, TypeStream
  <2>2. CASE Msg(s).id # cached_master[s].id
    BY <1>2, <2>1, <2>2 DEF TypeIds, RecvContinue
  <2>3. CASE Msg(s).id = cached_master[s].id
    BY <1>2, <2>1, <2>3 DEF TypeIds, RecvContinue
  <2> QED
    BY <2>2, <2>3
<1>t2. TypeStream'
  BY CreateTyped DEF TypeStream, RecvContinue
<1>t3. TypeMaster'
  BY SMTT(60), <1>2 DEF TypeMaster, RecvContinue, MasterClient
<1>t4. TypeCached'
  BY DEF TypeCached, RecvContinue
<1>t5. TypeSlaves'
  BY <1>3, DisconnectFacts DEF TypeSlaves
<1>t6. Roles'
  <2>1. [cached_master[s] EXCEPT !.id = Msg(s).id] # NULL
    BY <1>2, NullAssumption DEF MasterClient
  <2>2. createReplicationBacklog(master_repl_offset[s]) # NULL
    BY CreateTyped DEF TypeStream
  <2> QED
    BY <2>1, <2>2 DEF Roles, RecvContinue, TypeIds, TypeStream, TypeMaster, TypeCached
<1>t7. Links'
  <2>1. ASSUME NEW t \in Node, t # s PROVE LinkOK(t)'
    BY <1>3, <2>1, DisconnectOthers DEF Links, LinkOK, RecvContinue, TypeIds, TypeCached
  <2>2. ConnOK(link[s], masterhost[s], repl_state[s], cached_master[s], initial[s].off)
    BY DEF Links, LinkOK
  <2>3. ConnOK([link[s] EXCEPT !.chan = Tail(@)], masterhost[s], "CONNECTED",
               cached_master'[s], initial'[s].off)
    BY <1>1, <2>2, ConnRead
  <2>4. LinkOK(s)'
    BY Zenon, <1>1, <1>3, <2>3, MsgTyped DEF LinkOK, RecvContinue, TypeIds
  <2> QED
    BY <1>3, <2>1, <2>4 DEF Links
<1>t8. Waiters'
  <2>1. CASE disconnectSlaves(s, ReadLink(s))
    BY <1>1, <2>1, MsgTyped, DisconnectWaiters DEF RecvContinue
  <2>2. CASE slaves' = slaves /\ \A t \in Node : t # s => link'[t] = link[t]
    BY <1>1, <1>3, <2>2, MsgTyped DEF Waiters, Attached, Serves, RecvContinue
  <2> QED
    BY <1>3, <2>1, <2>2
<1>t9. Files'
  BY <1>3, DisconnectFacts DEF Files, RecvContinue
<1>t10. Sources'
  <2>1. \A n \in Node : HasSlaves(n)' => HasSlaves(n)
    BY <1>3, DisconnectHasSlaves DEF HasSlaves
  <2> QED
    BY <2>1, <1>t6 DEF Sources, Roles, RecvContinue, TypeStream, TypeMaster, TypeCached, TypeIds
<1>t11. TypeUsed' /\ TypeData' /\ TypeSaves'
  BY DEF TypeUsed, TypeData, TypeSaves, RecvContinue
<1> QED
  BY <1>t1, <1>t2, <1>t3, <1>t4, <1>t5, <1>t6, <1>t7, <1>t8, <1>t9, <1>t10, <1>t11

\* RecvPayload keeps the invariant.
LEMMA RecvPayloadStep ==
  ASSUME IInv, NEW s \in Node, RecvPayload(s)
  PROVE  IInv'
<1> USE DEF IInv, Types
<1>1. link[s].chan # <<>> /\ Msg(s).k = "rdb" /\ repl_state[s] = "TRANSFER"
  BY DEF RecvPayload, Receives, Msg
<1>2. Msg(s).rdb \in SentRdb /\ initial[s].off \in Nat /\ initial[s].id \in Nat
  <2>1. Msg(s) \in Message /\ initial[s].off # -1
    BY <1>1, MsgTyped DEF Links, LinkOK, ConnOK
  <2> QED
    BY <1>1, <2>1 DEF Message, Unit, TypeIds
<1>3. /\ link' = [t \in Node |-> link'[t]] /\ link'[s] = ReadLink(s)
      /\ \A t \in Node : t # s => link'[t] = link[t]
  BY Zenon DEF Links, RecvPayload
<1>4. master'[s] \in MasterClient /\ master'[s] # NULL
  <2>1. master'[s] \in MasterClient
    BY <1>2, NoTxnTyped DEF RecvPayload, TypeMaster, MasterClient, SentRdb
  <2> QED
    BY <2>1, NullAssumption
<1>t1. TypeIds'
  BY <1>2 DEF TypeIds, RecvPayload, NoId
<1>t2. TypeStream'
  BY <1>2, CreateTyped DEF TypeStream, RecvPayload
<1>t3. TypeData'
  BY <1>2 DEF TypeData, RecvPayload, SentRdb
<1>t4. TypeMaster'
  BY <1>4 DEF TypeMaster, RecvPayload
<1>t5. TypeSaves'
  BY SMTT(60), <1>2 DEF TypeSaves, RecvPayload, SentRdb, Rdb
<1>t6. Roles'
  BY <1>1, <1>2, <1>4, CreateTyped DEF Roles, RecvPayload, TypeIds, TypeStream, TypeMaster
<1>t7. Links'
  <2>1. ASSUME NEW t \in Node, t # s PROVE LinkOK(t)'
    BY <1>3, <2>1 DEF Links, LinkOK, RecvPayload, TypeIds
  <2>2. ConnOK(link[s], masterhost[s], repl_state[s], cached_master[s], initial[s].off)
    BY DEF Links, LinkOK
  <2>3. ConnOK([link[s] EXCEPT !.chan = Tail(@)], masterhost[s], "CONNECTED",
               cached_master'[s], initial'[s].off)
    BY <1>1, <2>2, ConnRead
  <2>4. LinkOK(s)'
    BY Zenon, <1>1, <1>3, <2>3, MsgTyped DEF LinkOK, RecvPayload, TypeIds
  <2> QED
    BY <1>3, <2>1, <2>4 DEF Links
<1>t8. Waiters'
  BY <1>1, <1>3, MsgTyped DEF Waiters, Attached, Serves, RecvPayload
<1>t9. Sources'
  BY <1>2, <1>4, CreateTyped DEF Sources, HasSlaves, RecvPayload, TypeStream, TypeMaster
<1>t10. TypeUsed' /\ TypeCached' /\ TypeSlaves' /\ Files'
  BY DEF TypeUsed, TypeCached, TypeSlaves, Files, RecvPayload
<1> QED
  BY SMTT(60), <1>t1, <1>t2, <1>t3, <1>t4, <1>t5, <1>t6, <1>t7, <1>t8, <1>t9, <1>t10

\* RecvPayloadBad keeps the invariant.
LEMMA RecvPayloadBadStep ==
  ASSUME IInv, NEW s \in Node, RecvPayloadBad(s)
  PROVE  IInv'
<1> USE DEF IInv, Types
<1>t1. TypeIds'
  BY DEF TypeIds, RecvPayloadBad, Happens
<1>t2. TypeUsed'
  <2>1. (\E k \in Event : Happens(k)) \/ used' = used
    BY DEF Event, RecvPayloadBad
  <2> QED
    BY <2>1, HappensTyped
<1>t3. TypeData'
  BY DEF TypeData, RecvPayloadBad, Dataset
<1>t4. TypeSaves'
  <2>1. [EmptyRdb EXCEPT !.ok = FALSE] \in Rdb
    BY Zenon, EmptyRdbTyped DEF Rdb
  <2> QED
    BY <2>1 DEF TypeSaves, RecvPayloadBad
<1>t5. Roles'
  BY DEF Roles, RecvPayloadBad
<1>t6. Links'
  <2>1. ASSUME NEW t \in Node, t # s PROVE LinkOK(t)'
    BY <2>1 DEF Links, LinkOK, RecvPayloadBad
  <2>2. LinkOK(s)'
    BY ConnNone DEF Links, LinkOK, RecvPayloadBad, TypeIds
  <2> QED
    BY <2>1, <2>2 DEF Links, RecvPayloadBad
<1>t7. Waiters'
  BY DEF Waiters, Attached, Serves, RecvPayloadBad, NoLink, Links
<1>t8. TypeStream' /\ TypeMaster' /\ TypeCached' /\ TypeSlaves' /\ Files' /\ Sources'
  BY DEF TypeStream, TypeMaster, TypeCached, TypeSlaves, Files, Sources, HasSlaves, RecvPayloadBad
<1> QED
  BY <1>t1, <1>t2, <1>t3, <1>t4, <1>t5, <1>t6, <1>t7, <1>t8

\* freeClient of the client of the master, cached or not.
LEMMA FreeMasterFacts ==
  ASSUME IInv, NEW s \in Node, NEW u \in [Event -> Nat], master[s] # NULL, FreeMaster(s, u)
  PROVE  /\ TypeUsed'
         /\ master' = [master EXCEPT ![s] = NULL]
         /\ \E c \in MasterClient \cup {NULL} :
              /\ cached_master' = [cached_master EXCEPT ![s] = c]
              /\ c # NULL => c = Cached(s)
<1>1. Cached(s) \in MasterClient /\ "uncached" \in Event
  BY CachedTyped DEF IInv, Types, TypeMaster, Event
<1> QED
  BY Zenon, <1>1, ThenTyped DEF FreeMaster

\* ConnLost keeps the invariant.
LEMMA ConnLostStep ==
  ASSUME IInv, NEW s \in Node, ConnLost(s)
  PROVE  IInv'
<1> USE DEF IInv, Types
<1>1. masterhost[s] # NULL
  BY DEF ConnLost, Links, LinkOK, ConnOK
<1> DEFINE u == IF link[s].st = "closed" THEN used ELSE [used EXCEPT !["loss"] = @ + 1]
<1>2. u \in [Event -> Nat]
  BY DEF TypeUsed, Event
<1>3. IF repl_state[s] = "CONNECTED" THEN FreeMaster(s, u)
      ELSE used' = u /\ UNCHANGED <<master, cached_master>>
  BY Zenon DEF ConnLost
<1> HIDE DEF u
<1>4. /\ TypeUsed' /\ master' = [master EXCEPT ![s] = NULL]
      /\ \E c \in MasterClient \cup {NULL} : cached_master' = [cached_master EXCEPT ![s] = c]
  <2>1. CASE repl_state[s] = "CONNECTED"
    BY Zenon, <1>2, <1>3, <2>1, FreeMasterFacts DEF Roles
  <2>2. CASE repl_state[s] # "CONNECTED"
    BY <1>2, <1>3, <2>2 DEF Roles, TypeUsed, TypeMaster, TypeCached
  <2> QED
    BY <2>1, <2>2
<1>t1. TypeIds'
  BY DEF TypeIds, ConnLost
<1>t2. TypeUsed'
  BY <1>4
<1>t3. TypeMaster'
  BY <1>4 DEF TypeMaster
<1>t4. TypeCached'
  BY <1>4 DEF TypeCached
<1>t5. Roles'
  BY <1>1, <1>4 DEF Roles, ConnLost, TypeIds, TypeMaster, TypeCached
<1>t6. Links'
  <2>1. ASSUME NEW t \in Node, t # s PROVE LinkOK(t)'
    BY <1>4, <2>1 DEF Links, LinkOK, ConnLost, TypeCached
  <2>2. LinkOK(s)'
    BY ConnNone DEF Links, LinkOK, ConnLost, TypeIds
  <2> QED
    BY <2>1, <2>2 DEF Links, ConnLost
<1>t7. Waiters'
  BY DEF Waiters, Attached, Serves, ConnLost, NoLink, Links
<1>t8. Sources'
  BY DEF Sources, HasSlaves, ConnLost
<1>t9. TypeStream' /\ TypeData' /\ TypeSlaves' /\ TypeSaves' /\ Files'
  BY DEF TypeStream, TypeData, TypeSlaves, TypeSaves, Files, ConnLost
<1> QED
  BY <1>t1, <1>t2, <1>t3, <1>t4, <1>t5, <1>t6, <1>t7, <1>t8, <1>t9

\* RecvStream keeps the invariant.
LEMMA RecvStreamStep ==
  ASSUME IInv, NEW s \in Node, RecvStream(s)
  PROVE  IInv'
<1> USE DEF IInv, Types
<1> DEFINE u == Msg(s)
           items == Append(master[s].mstate.queue, u)
           res == Execute(Reached(s), u)
           Kept == /\ TypeMaster' /\ TypeData' /\ TypeStream' /\ TypeSlaves'
                   /\ Roles' /\ Sources' /\ Files' /\ Waiters'
                   /\ link' = [t \in Node |-> link'[t]] /\ link'[s] = ReadLink(s)
                   /\ \A t \in Node : t # s => LinkOK(t)'
           queued == u.k = "multi" \/ (InMulti(s) /\ u.k # "exec")
<1>1. link[s].chan # <<>> /\ repl_state[s] = "CONNECTED" /\ InStream(u)
  BY DEF RecvStream
<1>2. u \in Unit /\ master[s] \in MasterClient /\ master[s] # NULL
      /\ repl_backlog[s] \in Backlog /\ repl_backlog[s] # NULL
  BY <1>1, MsgTyped, MessageKind DEF Roles, TypeMaster, TypeStream
<1>3. items \in Seq(Unit) /\ Len(items) \in Nat
  BY <1>2 DEF MasterClient
<1>4. res \in [data : Dataset, db : DB]
  <2>1. Reached(s) \in [data : Dataset, db : DB]
    BY <1>2 DEF Reached, MasterClient, TypeData
  <2> QED
    BY <1>2, <2>1, ExecuteTyped
<1> HIDE DEF items, res
<1>5. ASSUME queued PROVE Kept
  <2>1. /\ master' = [master EXCEPT ![s].mstate = [queue |-> items, data |-> res.data, db |-> res.db]]
        /\ link' = [link EXCEPT ![s] = ReadLink(s)]
        /\ UNCHANGED <<data, master_repl_offset, repl_backlog, slaves>>
    BY <1>5 DEF RecvStream, items, res
  <2>2. master'[s] \in MasterClient /\ master'[s] # NULL
    <3>1. master'[s] \in MasterClient
      BY Zenon, <1>2, <1>3, <1>4, <2>1 DEF MasterClient, TypeMaster
    <3> QED
      BY <3>1, NullAssumption
  <2>3. TypeMaster' /\ TypeData' /\ TypeStream' /\ TypeSlaves'
    BY <2>1, <2>2 DEF TypeMaster, TypeData, TypeStream, TypeSlaves, RecvStream
  <2>4. Roles' /\ Sources' /\ Files'
    BY <1>2, <2>1, <2>2 DEF Roles, Sources, Files, HasSlaves, RecvStream, TypeMaster
  <2>5. /\ link' = [t \in Node |-> link'[t]] /\ link'[s] = ReadLink(s)
        /\ \A t \in Node : t # s => link'[t] = link[t]
    BY <2>1 DEF Links
  <2>6. Waiters'
    BY <1>1, <2>1, <2>5, MsgTyped DEF Waiters, Attached, Serves, RecvStream
  <2>7. ASSUME NEW t \in Node, t # s PROVE LinkOK(t)'
    BY <2>5, <2>7 DEF Links, LinkOK, RecvStream
  <2> QED
    BY <2>3, <2>4, <2>5, <2>6, <2>7
<1>6. ASSUME ~queued PROVE Kept
  <2>1. /\ data' = [data EXCEPT ![s] = res.data]
        /\ master' = [master EXCEPT ![s] = [@ EXCEPT !.mstate = NoTxn, !.db = res.db,
                                                     !.off = master[s].off + Len(items)]]
        /\ master_repl_offset' = [master_repl_offset EXCEPT ![s] = @ + Len(items)]
        /\ repl_backlog' = [repl_backlog EXCEPT ![s] = feedReplicationBacklog(@, items)]
        /\ slaves' = [slaves EXCEPT ![s] = FedClients(s, items)]
        /\ link' = [t \in Node |-> IF t = s THEN ReadLink(s) ELSE FedLink(s, t, items)]
    BY <1>2, <1>6 DEF RecvStream, items, res
  <2>2. master'[s] \in MasterClient /\ master'[s] # NULL
    <3>1. res.db \in DB /\ master[s].off + Len(items) \in Nat
      BY <1>2, <1>3, <1>4 DEF MasterClient
    <3>2. master'[s] = [master[s] EXCEPT !.mstate = NoTxn, !.db = res.db,
                                         !.off = master[s].off + Len(items)]
      BY <1>2, <2>1 DEF TypeMaster, MasterClient
    <3>3. master'[s] \in MasterClient
      BY Zenon, <1>2, <3>1, <3>2, NoTxnTyped DEF MasterClient
    <3> QED
      BY <3>3, NullAssumption
  <2>3. repl_backlog'[s] \in Backlog /\ repl_backlog'[s] # NULL
    BY <1>2, <1>3, <2>1, FeedWindow, NullAssumption DEF TypeStream
  <2>4. TypeMaster' /\ TypeData'
    BY <1>4, <2>1, <2>2 DEF TypeMaster, TypeData
  <2>5. TypeStream'
    BY <1>3, <2>1, <2>3 DEF TypeStream, RecvStream
  <2>6. TypeSlaves' /\ \A n, t \in Node : slaves'[n][t].st = slaves[n][t].st
    BY <1>3, <2>1, FedTyped DEF TypeSlaves
  <2>7. Roles' /\ Files'
    BY SMTT(60), <1>2, <2>1, <2>2, <2>3, <2>6 DEF Roles, Files, RecvStream, TypeMaster, TypeStream
  <2>8. Sources'
    BY <1>2, <2>1, <2>2, <2>3, <2>6 DEF Sources, HasSlaves, RecvStream, TypeMaster, TypeStream
  <2>9. /\ link' = [t \in Node |-> link'[t]] /\ link'[s] = ReadLink(s)
        /\ \A t \in Node : t # s => link'[t] = FedLink(s, t, items)
    BY <2>1
  <2>10. Waiters'
    <3> SUFFICES ASSUME NEW n \in Node, NEW t \in Node,
                        slaves'[n][t].st = "wait_bgsave_start", Attached(n, t)'
                 PROVE  link'[t].chan = <<>>
      BY DEF Waiters
    <3>1. CASE t = s
      BY SMTT(60), <1>1, <2>6, <2>9, <3>1, MsgTyped DEF Waiters, Attached, Serves, RecvStream
    <3>2. CASE t # s
      BY SMTT(60), <1>3, <2>6, <2>9, <3>2, WaiterFed DEF RecvStream
    <3> QED
      BY <3>1, <3>2
  <2>11. ASSUME NEW t \in Node, t # s PROVE LinkOK(t)'
    BY <1>3, <2>9, <2>11, FedConn DEF Links, LinkOK, RecvStream
  <2> QED
    BY SMTT(60), <2>4, <2>5, <2>6, <2>7, <2>8, <2>9, <2>10, <2>11
<1>7. Kept
  BY <1>5, <1>6
<1>t1. Links'
  <2>2. ConnOK(link[s], masterhost[s], repl_state[s], cached_master[s], initial[s].off)
    BY DEF Links, LinkOK
  <2>3. ConnOK([link[s] EXCEPT !.chan = Tail(@)], masterhost[s], "CONNECTED",
               cached_master'[s], initial'[s].off)
    BY <1>1, <2>2, ConnRead
  <2>4. LinkOK(s)'
    BY Zenon, <1>1, <1>7, <2>3, MsgTyped DEF LinkOK, RecvStream, TypeIds
  <2> QED
    BY <1>7, <2>4 DEF Links
<1>t2. TypeIds' /\ TypeUsed' /\ TypeCached' /\ TypeSaves'
  BY DEF TypeIds, TypeUsed, TypeCached, TypeSaves, RecvStream
<1> QED
  BY <1>7, <1>t1, <1>t2

-----------------------------------------------------------------------------
(* Changes of role, and restarts.                                          *)

\* SlaveOf keeps the invariant.
LEMMA SlaveOfStep ==
  ASSUME IInv, NEW s \in Node, NEW m \in Node, SlaveOf(s, m)
  PROVE  IInv'
<1> USE DEF IInv, Types
<1>1. disconnectSlaves(s, NoLink)
  BY DEF SlaveOf
<1> DEFINE u == [used EXCEPT !["slaveof"] = @ + 1]
<1>2. u \in [Event -> Nat]
  BY DEF TypeUsed, Event
<1>3. IF master[s] # NULL THEN FreeMaster(s, u)
      ELSE /\ cached_master' = [cached_master EXCEPT ![s] =
                                  IF masterhost[s] = NULL THEN Myself(s) ELSE @]
           /\ used' = u /\ UNCHANGED master
  BY Zenon DEF SlaveOf
<1> HIDE DEF u
<1>4. /\ TypeUsed' /\ master' = [master EXCEPT ![s] = NULL]
      /\ \E c \in MasterClient \cup {NULL} : cached_master' = [cached_master EXCEPT ![s] = c]
  <2>1. Myself(s) \in MasterClient
    BY NoTxnTyped, DBAssumption DEF Myself, MasterClient, TypeIds, TypeStream
  <2>2. CASE master[s] # NULL
    BY Zenon, <1>2, <1>3, <2>2, FreeMasterFacts
  <2>3. CASE master[s] = NULL
    BY <1>2, <1>3, <2>1, <2>3 DEF TypeUsed, TypeMaster, TypeCached
  <2> QED
    BY <2>2, <2>3
<1>t1. TypeIds'
  BY DEF TypeIds, SlaveOf
<1>t2. TypeUsed'
  BY <1>4
<1>t3. TypeMaster'
  BY <1>4 DEF TypeMaster
<1>t4. TypeCached'
  BY <1>4 DEF TypeCached
<1>t5. TypeSlaves'
  BY SMTT(60), <1>1, DisconnectFacts
<1>t6. Roles'
  BY <1>4, NullAssumption DEF Roles, SlaveOf, TypeIds, TypeMaster, TypeCached
<1>t7. Links'
  <2>1. ASSUME NEW t \in Node, t # s PROVE LinkOK(t)'
    BY SMTT(60), <1>1, <1>4, <2>1, DisconnectOthers DEF SlaveOf, TypeIds, TypeCached
  <2>2. LinkOK(s)'
    BY SMTT(60), <1>1, DisconnectFacts, ConnNone DEF LinkOK, SlaveOf, TypeIds
  <2> QED
    BY SMTT(60), <1>1, <2>1, <2>2, DisconnectFacts DEF Links
<1>t8. Waiters'
  BY SMTT(60), <1>1, DisconnectWaiters DEF SlaveOf, TypeIds, NoLink
<1>t9. Files'
  BY SMTT(60), <1>1, DisconnectFacts DEF Files, SlaveOf
<1>t10. Sources'
  BY ZenonT(60), <1>1, DisconnectHasSlaves DEF Sources, SlaveOf
<1>t11. TypeStream' /\ TypeData' /\ TypeSaves'
  BY DEF TypeStream, TypeData, TypeSaves, SlaveOf
<1> QED
  BY SMTT(60), <1>t1, <1>t2, <1>t3, <1>t4, <1>t5, <1>t6, <1>t7, <1>t8, <1>t9, <1>t10, <1>t11

\* SlaveOfNoOne keeps the invariant.
LEMMA SlaveOfNoOneStep ==
  ASSUME IInv, NEW s \in Node, SlaveOfNoOne(s)
  PROVE  IInv'
<1> USE DEF IInv, Types
<1>1. disconnectSlaves(s, NoLink)
  BY SMTT(60) DEF SlaveOfNoOne
<1>t1. TypeIds'
  BY DEF TypeIds, TypeStream, SlaveOfNoOne, shiftReplicationId
<1>t2. TypeUsed'
  <2>1. (\E k \in Event : Happens(k)) \/ used' = used
    BY DEF Event, SlaveOfNoOne
  <2> QED
    BY <2>1, HappensTyped
<1>t3. TypeStream'
  BY DEF TypeStream, SlaveOfNoOne
<1>t4. TypeMaster'
  BY DEF TypeMaster, SlaveOfNoOne
<1>t5. TypeCached'
  BY DEF TypeCached, SlaveOfNoOne
<1>t6. TypeSlaves'
  BY SMTT(60), <1>1, DisconnectFacts
<1>t7. Roles'
  BY ZenonT(60), NullAssumption DEF Roles, SlaveOfNoOne, TypeIds, TypeMaster, TypeCached
<1>t8. Links'
  <2>1. ASSUME NEW t \in Node, t # s PROVE LinkOK(t)'
    BY SMTT(60), <1>1, <2>1, DisconnectOthers DEF SlaveOfNoOne, TypeIds, TypeCached
  <2>2. LinkOK(s)'
    BY SMTT(60), <1>1, DisconnectFacts, ConnNone DEF LinkOK, SlaveOfNoOne, TypeIds
  <2> QED
    BY SMTT(60), <1>1, <2>1, <2>2, DisconnectFacts DEF Links
<1>t9. Waiters'
  BY SMTT(60), <1>1, DisconnectWaiters DEF SlaveOfNoOne, TypeIds, NoLink
<1>t10. Files'
  BY SMTT(60), <1>1, DisconnectFacts DEF Files, SlaveOfNoOne
<1>t11. Sources'
  BY ZenonT(60), <1>1, DisconnectHasSlaves DEF Sources, SlaveOfNoOne, TypeIds, TypeMaster, TypeCached
<1>t12. TypeData' /\ TypeSaves'
  BY DEF TypeData, TypeSaves, SlaveOfNoOne
<1> QED
  BY SMTT(60), <1>t1, <1>t2, <1>t3, <1>t4, <1>t5, <1>t6, <1>t7, <1>t8, <1>t9, <1>t10, <1>t11, <1>t12

\* Restart keeps the invariant.
LEMMA RestartStep ==
  ASSUME IInv, NEW n \in Node, NEW m \in Node \cup {NULL}, Restart(n, m)
  PROVE  IInv'
<1> USE DEF IInv, Types
<1> DEFINE rdb == rdb_file[n]
           c == [id |-> rdb.replid, off |-> rdb.off, db |-> rdb.db, mstate |-> NoTxn]
<1>1. rdb \in Rdb
  BY SMTT(60) DEF TypeSaves
<1>2. rdb.db # -1 => c \in MasterClient /\ c # NULL
  <2>1. rdb.db # -1 => c \in MasterClient
    BY SMTT(60), <1>1, NoTxnTyped DEF Rdb, MasterClient
  <2> QED
    BY SMTT(60), <2>1, NullAssumption
<1>3. cached_master' = [cached_master EXCEPT ![n] = IF m # NULL /\ rdb.db # -1 THEN c ELSE NULL]
  BY Zenon DEF Restart
<1> HIDE DEF rdb, c
<1>4. /\ slaves' \in [Node -> [Node -> SlaveClient]] /\ \A t \in Node : slaves'[n][t].st = "none"
      /\ \A r \in Node : r # n => slaves'[r] = slaves[r]
  BY SMTT(60), ClientTyped DEF Restart, TypeSlaves
<1>5. /\ link' = [t \in Node |-> link'[t]] /\ link'[n] = NoLink
      /\ \A t \in Node : t # n => link'[t] = IF masterhost[t] = n THEN Closed(link[t]) ELSE link[t]
  BY ZenonT(60) DEF Restart
<1>t1. TypeIds'
  <2>1. replid' \in [Node -> Nat] /\ nextId' \in Nat
    <3>1. rdb.replid \in Nat
      BY SMTT(60), <1>1 DEF Rdb
    <3>2. \/ replid' = [replid EXCEPT ![n] = rdb.replid] /\ nextId' = nextId
          \/ replid' = [replid EXCEPT ![n] = nextId] /\ nextId' = nextId + 1
      BY ZenonT(60) DEF Restart, rdb
    <3> QED
      BY <3>1, <3>2 DEF TypeIds
  <2>2. initial' \in [Node -> [id : Nat, off : Nat \cup {-1}]]
    BY Zenon DEF TypeIds, Restart, NoId
  <2> QED
    BY ZenonT(60), <2>1, <2>2 DEF TypeIds, Restart, NoId
<1>t2. TypeUsed'
  <2>1. (\E k \in Event : Happens(k)) \/ used' = used
    BY ZenonT(60) DEF Event, Restart
  <2> QED
    BY SMTT(60), <2>1, HappensTyped
<1>t3. TypeStream'
  BY ZenonT(60), <1>1 DEF TypeStream, Restart, Rdb, rdb
<1>t4. TypeData'
  BY ZenonT(60), <1>1 DEF TypeData, Restart, Rdb, rdb
<1>t5. TypeMaster'
  BY Zenon DEF TypeMaster, Restart
<1>t6. TypeCached'
  BY <1>2, <1>3 DEF TypeCached
<1>t7. TypeSlaves'
  BY SMTT(60), <1>4 DEF TypeSlaves
<1>t8. TypeSaves'
  BY ZenonT(60) DEF TypeSaves, Restart
<1>t9. Roles'
  <2>1. ASSUME NEW r \in Node, r # n PROVE /\ UNCHANGED <<masterhost[r], repl_state[r], master[r], cached_master[r], repl_backlog[r]>>
    BY ZenonT(60), <2>1 DEF Restart, TypeIds, TypeMaster, TypeCached, TypeStream
  <2>2. /\ masterhost'[n] = m /\ repl_state'[n] = IF m = NULL THEN "NONE" ELSE "CONNECT"
        /\ master'[n] = NULL /\ (m = NULL => cached_master'[n] = NULL)
    BY ZenonT(60), <1>3 DEF Restart, TypeIds, TypeMaster, TypeCached
  <2> QED
    BY SMTT(60), <2>1, <2>2, NullAssumption DEF Roles
<1>t10. Links'
  <2>1. ASSUME NEW t \in Node, t # n PROVE LinkOK(t)'
    <3>1. UNCHANGED <<masterhost[t], repl_state[t], cached_master[t], initial[t]>>
      BY Zenon, <2>1, <1>3 DEF Restart, TypeIds, TypeCached
    <3>2. LinkOK(t)
      BY SMTT(60) DEF Links
    <3> QED
      BY SMTT(60), <1>5, <2>1, <3>1, <3>2, ConnClosed DEF LinkOK
  <2>2. LinkOK(n)'
    BY ZenonT(60), <1>5, ConnNone DEF LinkOK, Restart, TypeIds
  <2> QED
    BY SMTT(60), <1>5, <2>1, <2>2 DEF Links
<1>t11. Waiters'
  <2> SUFFICES ASSUME NEW r \in Node, NEW t \in Node,
                      slaves'[r][t].st = "wait_bgsave_start", Attached(r, t)'
               PROVE  link'[t].chan = <<>>
    BY ZenonT(60) DEF Waiters
  <2>1. r # n /\ slaves[r][t].st = "wait_bgsave_start"
    BY SMTT(60), <1>4
  <2>2. t # n /\ masterhost'[t] = r /\ masterhost[t] = r
    BY ZenonT(60), <1>5 DEF Attached, Serves, NoLink, Restart, TypeIds
  <2> QED
    BY SMTT(60), <1>5, <2>1, <2>2 DEF Waiters, Attached, Serves
<1>t12. Files'
  BY ZenonT(60), <1>4 DEF Files, Restart, TypeSaves
<1>t13. Sources'
  <2>1. ASSUME NEW r \in Node, HasSlaves(r)' PROVE r # n /\ HasSlaves(r)
    BY <1>4, <2>1 DEF HasSlaves
  <2> QED
    BY ZenonT(60), <2>1 DEF Sources, Restart, TypeIds, TypeMaster, TypeCached, TypeStream
<1> QED
  BY SMTT(60), <1>t1, <1>t2, <1>t3, <1>t4, <1>t5, <1>t6, <1>t7, <1>t8, <1>t9, <1>t10, <1>t11, <1>t12, <1>t13

=============================================================================
