-------------------------- MODULE ReplicationMaster -------------------------
(***************************************************************************)
(* Every step of the master side of replication keeps the invariant (the   *)
(* ones that start and end its saves are in ReplicationInv).               *)
(***************************************************************************)
EXTENDS ReplicationInv

USE DEF ids, stream, saves, client, bounds

\* CronBgsave keeps the invariant.
LEMMA CronBgsaveStep ==
  ASSUME IInv, NEW n \in Node, CronBgsave(n)
  PROVE  IInv'
<1> USE DEF IInv, Types
<1>1. Prepared(n, slaves[n], link) /\ Same
  BY SMTT(60) DEF CronBgsave, Prepared, Files, Links, LinkOK, Waiters, Attached, TypeSlaves, Same
<1>9. Saved(n, slaves[n])
  <2>1. replid[n] \in Nat
    BY SMTT(60) DEF TypeIds
  <2> QED
    BY Zenon, <1>1, <2>1, StartSaved, FailSaved DEF CronBgsave
<1>2. UNCHANGED <<masterhost, repl_state, ids, master_repl_offset, repl_backlog, data, client, rdb_file>>
  BY Zenon DEF CronBgsave
<1>3. UNCHANGED nextWrite
  BY Zenon DEF CronBgsave
<1>t1. TypeIds'
  BY SMTT(60) DEF TypeIds, CronBgsave
<1>t2. TypeUsed'
  <2>1. (SaveFails(n, used) \/ used' = used) /\ used \in [Event -> Nat]
    BY ZenonT(60) DEF CronBgsave, TypeUsed
  <2> QED
    BY Zenon, <2>1, SaveFailsTyped
<1>t3. TypeStream'
  BY ZenonT(60), <1>2, <1>9 DEF Saved, TypeStream
<1>t4. TypeSlaves'
  BY ZenonT(60), <1>9 DEF Saved
<1>t5. TypeSaves'
  BY ZenonT(60), <1>2, <1>9 DEF Saved, TypeSaves
<1>t6. Links'
  BY ZenonT(60), <1>9 DEF Saved
<1>t7. Waiters'
  BY ZenonT(60), <1>9 DEF Saved
<1>t8. Files'
  BY ZenonT(60), <1>9 DEF Saved
<1>t9. Sources'
  BY SMTT(60), <1>9 DEF Saved, Sources, HasSlaves, CronBgsave
<1>t10. TypeData' /\ TypeMaster' /\ TypeCached' /\ Roles'
  BY ZenonT(60), <1>2, <1>3 DEF TypeData, TypeMaster, TypeCached, Roles
<1> QED
  BY <1>t1, <1>t2, <1>t3, <1>t4, <1>t5, <1>t6, <1>t7, <1>t8, <1>t9, <1>t10

\* SyncRefused keeps the invariant.
LEMMA SyncRefusedStep ==
  ASSUME IInv, NEW m \in Node, NEW s \in Node, SyncRefused(m, s)
  PROVE  IInv'
<1> USE DEF IInv, Types
<1>1. ConnOK(Answered(<<NoMasterLink>>), masterhost[s], repl_state[s], cached_master[s],
             initial[s].off) /\ Asks(m, s)
  <2>1. Plain(<<NoMasterLink>>)
    BY PlainOne DEF NoMasterLink, Message
  <2> QED
    BY <2>1, AnsweredConn DEF SyncRefused
<1>t1. Links'
  <2>1. ASSUME NEW t \in Node, t # s PROVE LinkOK(t)'
    BY <2>1 DEF Links, LinkOK, SyncRefused
  <2>2. LinkOK(s)'
    BY <1>1 DEF LinkOK, Links, SyncRefused
  <2> QED
    BY <2>1, <2>2 DEF Links, SyncRefused
<1>t2. Waiters'
  BY SMTT(60), <1>1, AskFacts DEF Waiters, Attached, Serves, SyncRefused, Links
<1>t3. TypeIds' /\ TypeUsed' /\ TypeStream' /\ TypeData' /\ TypeMaster' /\ TypeCached' /\ TypeSlaves' /\ TypeSaves' /\ Roles' /\ Files' /\ Sources'
  BY DEF TypeIds, TypeUsed, TypeStream, TypeData, TypeMaster, TypeCached, TypeSlaves, TypeSaves, Roles, Files, Sources, HasSlaves, SyncRefused
<1> QED
  BY SMTT(60), <1>t1, <1>t2, <1>t3

\* SyncPartial keeps the invariant.
LEMMA SyncPartialStep ==
  ASSUME IInv, NEW m \in Node, NEW s \in Node, SyncPartial(m, s)
  PROVE  IInv'
<1> USE DEF IInv, Types
<1> DEFINE q == BacklogFrom(m, link[s].req.off)
           l == Answered(<<Continue(replid[m])>> \o q)
<1>2. Asks(m, s) /\ PartialOK(m, link[s].req) /\ (masterhost[m] = NULL \/ master[m] # NULL)
  BY SMTT(60) DEF SyncPartial, CanSync, Roles
<1>3. link[s].req.id # AnyId /\ cached_master[s] # NULL
  BY SMTT(60), <1>2, AskFacts DEF PartialOK, TypeIds, AnyId
<1>4. q \in Seq(Unit)
  <2>1. repl_backlog[m] \in Backlog /\ link[s].req.off \in Int
        /\ link[s].req.off >= repl_backlog[m].off
    BY SMTT(60), <1>2, AskFacts DEF PartialOK, TypeStream, Request
  <2> QED
    BY SMTT(60), <2>1 DEF BacklogFrom, Backlog
<1> HIDE DEF q
<1>5. /\ <<Continue(replid[m])>> \o q \in Seq(Message)
      /\ Len(<<Continue(replid[m])>> \o q) = 1 + Len(q)
      /\ \A i \in 1..Len(<<Continue(replid[m])>> \o q) : i # 1 =>
           (<<Continue(replid[m])>> \o q)[i] \in Unit
      /\ (<<Continue(replid[m])>> \o q)[1].k = "continue"
  <2>1. Continue(replid[m]) \in Message /\ Continue(replid[m]).k = "continue"
    BY DEF Continue, Message, TypeIds
  <2>2. q \in Seq(Message) /\ <<Continue(replid[m])>> \in Seq(Message)
    BY SMTT(60), <1>4, <2>1, UnitsAreMessages
  <2> QED
    BY <1>4, <2>1, <2>2
<1>6. l \in Connection /\ l.req = NULL /\ l.st = "open" /\ l.chan = <<Continue(replid[m])>> \o q
  BY SMTT(60), <1>2, <1>5, AskFacts DEF Answered, Connection
<1> HIDE DEF l
<1>7. \A i \in 1..Len(l.chan) :
        (i # 1 => l.chan[i].k # "continue") /\ l.chan[i].k # "error"
  BY SMTT(60), <1>5, <1>6, UnitKind
<1>8. ConnOK(l, masterhost[s], repl_state[s], cached_master[s], initial[s].off)
  BY <1>2, <1>3, <1>6, <1>7, AskFacts DEF ConnOK
<1>1. ConnOK(l, masterhost[s], repl_state[s], cached_master[s], initial[s].off) /\ link'[s] = l
  BY <1>8 DEF SyncPartial, Links, l, q
<1>t1. TypeSlaves'
  BY ClientTyped DEF TypeSlaves, SyncPartial
<1>t2. Links'
  <2>1. ASSUME NEW t \in Node, t # s PROVE LinkOK(t)'
    BY <2>1 DEF Links, LinkOK, SyncPartial
  <2>2. LinkOK(s)'
    BY <1>1 DEF LinkOK, Links, SyncPartial
  <2> QED
    BY <2>1, <2>2 DEF Links, SyncPartial
<1>t3. Waiters'
  BY <1>2, AskFacts, ClientTyped DEF Waiters, Attached, Serves, SyncPartial, TypeSlaves, Links
<1>t4. Files'
  BY ClientTyped DEF Files, SyncPartial, TypeSlaves
<1>t5. Sources'
  BY <1>2 DEF Sources, HasSlaves, SyncPartial, TypeSlaves, PartialOK
<1>t6. TypeIds' /\ TypeUsed' /\ TypeStream' /\ TypeData' /\ TypeMaster' /\ TypeCached' /\ TypeSaves' /\ Roles'
  BY DEF TypeIds, TypeUsed, TypeStream, TypeData, TypeMaster, TypeCached, TypeSaves, Roles, SyncPartial
<1> QED
  BY <1>t1, <1>t2, <1>t3, <1>t4, <1>t5, <1>t6

\* SyncFullAttach keeps the invariant.
LEMMA SyncFullAttachStep ==
  ASSUME IInv, NEW m \in Node, NEW s \in Node, SyncFullAttach(m, s)
  PROVE  IInv'
<1> USE DEF IInv, Types
<1>2. SyncFull(m, s) /\ Asks(m, s)
  BY SyncFullFacts DEF SyncFullAttach
<1>3. PICK t \in Registering(m) :
        /\ slaves' = [slaves EXCEPT ![m][s] = slaves[m][t]]
        /\ link' = [link EXCEPT ![s] = Answered(<<FullResync(replid[m], slaves[m][t].off)>>)]
  BY Zenon DEF SyncFullAttach
<1>4. t \in Node /\ slaves[m][t] \in SlaveClient /\ slaves[m][t].st = "wait_bgsave_end"
  BY DEF Registering, TypeSlaves
<1>1. ConnOK(link'[s], masterhost[s], repl_state[s], cached_master[s], initial[s].off)
  <2> DEFINE x == FullResync(replid[m], slaves[m][t].off)
  <2>1. x \in Message /\ x.k = "fullresync"
    BY <1>4 DEF FullResync, Message, TypeIds, SlaveClient
  <2>2. Plain(<<x>>)
    BY <2>1, PlainOne
  <2> QED
    BY <1>2, <1>3, <2>2, AnsweredConn DEF Links
<1>5. \A n, r \in Node : ~(n = m /\ r = s) => slaves'[n][r] = slaves[n][r]
  BY <1>3 DEF TypeSlaves
<1>6. slaves'[m][s] = slaves[m][t]
  BY <1>3 DEF TypeSlaves
<1>8. \A r \in Node : r # s => link'[r] = link[r]
  BY SMTT(60), <1>3 DEF Links
<1>t1. TypeIds'
  BY SMTT(60), SyncFullFacts DEF TypeIds, SyncFullAttach
<1>t2. TypeStream'
  BY <1>2, SyncFullFacts DEF TypeStream, SyncFullAttach
<1>t3. TypeSlaves'
  BY SMTT(60), <1>3, <1>4 DEF TypeSlaves
<1>t4. Roles'
  BY <1>2, SyncFullFacts DEF Roles, SyncFullAttach
<1>t5. Links'
  <2>1. ASSUME NEW r \in Node, r # s PROVE LinkOK(r)'
    BY <2>1, <1>8 DEF Links, LinkOK, SyncFullAttach
  <2>2. LinkOK(s)'
    BY SMTT(60), <1>1 DEF LinkOK, SyncFullAttach
  <2> QED
    BY SMTT(60), <2>1, <2>2, <1>3 DEF Links
<1>t6. Waiters'
  BY SMTT(60), <1>2, <1>4, <1>5, <1>6, <1>8, AskFacts DEF Waiters, Attached, Serves, SyncFullAttach
<1>t7. Files'
  BY SMTT(60), <1>4, <1>5, <1>6 DEF Files, SyncFullAttach
<1>t8. Sources'
  <2>1. SyncFull(m, s)
    BY SMTT(60) DEF SyncFullAttach
  <2>2. \A n \in Node : n # m => (HasSlaves(n)' <=> HasSlaves(n))
    BY <1>5 DEF HasSlaves, TypeSlaves, SyncFullAttach
  <2> QED
    BY <2>1, <2>2, SyncFullFacts DEF Sources, SyncFullAttach
<1>t9. TypeUsed' /\ TypeData' /\ TypeMaster' /\ TypeCached' /\ TypeSaves'
  BY DEF TypeUsed, TypeData, TypeMaster, TypeCached, TypeSaves, SyncFullAttach
<1> QED
  BY SMTT(60), <1>t1, <1>t2, <1>t3, <1>t4, <1>t5, <1>t6, <1>t7, <1>t8, <1>t9

\* SyncFullWait keeps the invariant.
LEMMA SyncFullWaitStep ==
  ASSUME IInv, NEW m \in Node, NEW s \in Node, SyncFullWait(m, s)
  PROVE  IInv'
<1> USE DEF IInv, Types
<1>2. SyncFull(m, s) /\ Asks(m, s)
  BY SyncFullFacts DEF SyncFullWait
<1> DEFINE w == [NoClient EXCEPT !.st = "wait_bgsave_start"]
<1>3. w \in SlaveClient /\ w.st = "wait_bgsave_start"
  BY ClientTyped
<1> HIDE DEF w
<1>4. slaves' = [slaves EXCEPT ![m] = [slaves[m] EXCEPT ![s] = w]]
  BY DEF SyncFullWait, WithWaiter, w
<1>1. ConnOK(link'[s], masterhost[s], repl_state[s], cached_master[s], initial[s].off)
      /\ link'[s].chan = <<>>
  BY <1>2, EmptyPlain, AnsweredConn DEF Links, SyncFullWait, WithAnswered
<1>5. \A n, r \in Node : ~(n = m /\ r = s) => slaves'[n][r] = slaves[n][r]
  BY <1>4 DEF TypeSlaves
<1>6. slaves'[m][s] = w
  BY <1>4 DEF TypeSlaves
<1>8. \A r \in Node : r # s => link'[r] = link[r]
  BY SMTT(60) DEF Links, SyncFullWait, WithAnswered
<1>t1. TypeIds'
  BY <1>2, SyncFullFacts DEF TypeIds, SyncFullWait
<1>t2. TypeUsed'
  <2>1. (\E k \in Event : Happens(k)) \/ used' = used
    BY SMTT(60) DEF Event, SyncFullWait
  <2> QED
    BY <2>1, HappensTyped
<1>t3. TypeStream'
  BY Zenon, <1>2, SyncFullFacts DEF TypeStream, SyncFullWait
<1>t4. TypeSlaves'
  <2>1. TypeSlaves
    BY Zenon
  <2> QED
    BY ONLY <1>3, <1>4, <2>1 DEF TypeSlaves
<1>t5. Roles'
  BY <1>2, SyncFullFacts DEF Roles, SyncFullWait
<1>t6. Links'
  <2>1. ASSUME NEW r \in Node, r # s PROVE LinkOK(r)'
    BY SMTT(60), <2>1, <1>8 DEF Links, LinkOK, SyncFullWait
  <2>2. LinkOK(s)'
    BY <1>1 DEF LinkOK, SyncFullWait
  <2> QED
    BY <2>1, <2>2 DEF Links, SyncFullWait, WithAnswered
<1>t7. Waiters'
  <2> SUFFICES ASSUME NEW n \in Node, NEW t \in Node,
                      slaves'[n][t].st = "wait_bgsave_start", Attached(n, t)'
               PROVE  link'[t].chan = <<>>
    BY SMTT(60) DEF Waiters
  <2>1. CASE t = s
    BY SMTT(60), <1>1, <2>1
  <2>2. CASE t # s
    BY SMTT(60), <1>5, <1>8, <2>2 DEF Waiters, Attached, Serves, SyncFullWait
  <2> QED
    BY SMTT(60), <2>1, <2>2
<1>t8. Files'
  BY SMTT(60), <1>3, <1>5, <1>6 DEF Files, SyncFullWait
<1>t9. Sources'
  <2>1. SyncFull(m, s)
    BY DEF SyncFullWait
  <2>2. \A n \in Node : n # m => (HasSlaves(n)' <=> HasSlaves(n))
    BY <1>5 DEF HasSlaves, TypeSlaves, SyncFullWait
  <2> QED
    BY ZenonT(60), <2>1, <2>2, SyncFullFacts DEF Sources, SyncFullWait
<1>t10. TypeData' /\ TypeMaster' /\ TypeCached' /\ TypeSaves'
  BY DEF TypeData, TypeMaster, TypeCached, TypeSaves, SyncFullWait
<1> QED
  BY SMTT(60), <1>t1, <1>t2, <1>t3, <1>t4, <1>t5, <1>t6, <1>t7, <1>t8, <1>t9, <1>t10

\* SyncFullStart keeps the invariant.
LEMMA SyncFullStartStep ==
  ASSUME IInv, NEW m \in Node, NEW s \in Node, SyncFullStart(m, s)
  PROVE  IInv'
<1> USE DEF IInv, Types
<1>2. SyncFull(m, s) /\ Asks(m, s) /\ SyncId(m) \in Nat /\ Same
  BY SyncFullFacts DEF SyncFullStart, Same
<1> DEFINE w == [NoClient EXCEPT !.st = "wait_bgsave_start"]
           cl == WithWaiter(m, s)
           lk == WithAnswered(s)
<1>3. w \in SlaveClient /\ w.st = "wait_bgsave_start"
  BY ClientTyped
<1>4. cl = [slaves[m] EXCEPT ![s] = w]
  BY DEF WithWaiter
<1>5. lk = [link EXCEPT ![s] = lk[s]] /\ lk[s].chan = <<>>
      /\ ConnOK(lk[s], masterhost[s], repl_state[s], cached_master[s], initial[s].off)
  BY SMTT(60), <1>2, EmptyPlain, AnsweredConn DEF Links, WithAnswered
<1> HIDE DEF w, cl, lk
<1>1. Prepared(m, cl, lk)
  <2>1. /\ cl \in [Node -> SlaveClient] /\ lk = [t \in Node |-> lk[t]]
        /\ \A t \in Node : t # s => cl[t] = slaves[m][t] /\ lk[t] = link[t]
        /\ cl[s] = w
    BY SMTT(60), <1>3, <1>4, <1>5 DEF TypeSlaves, Links
  <2>2. \A t \in Node : ConnOK(lk[t], masterhost[t], repl_state[t], cached_master[t],
                              initial[t].off)
    BY <1>5, <2>1 DEF Links, LinkOK
  <2>3. \A t \in Node : (cl[t].st = "wait_bgsave_start" /\ Serves(m, t, lk[t])) => lk[t].chan = <<>>
    BY <1>5, <2>1 DEF Waiters, Attached
  <2>4. \A t \in Node : cl[t].st # "wait_bgsave_end"
    BY <1>3, <2>1 DEF Files, SyncFullStart
  <2>5. \A t \in Node : masterhost[t] # m => lk[t] = link[t]
    BY SMTT(60), <1>2, <2>1, AskFacts
  <2> QED
    BY <2>1, <2>2, <2>3, <2>4, <2>5 DEF Prepared
<1>9. Saved(m, cl)
  BY SMTT(60), <1>1, <1>2, StartSaved, FailSaved DEF SyncFullStart, cl, lk
<1>8. \A n \in Node : n # m => slaves'[n] = slaves[n]
  BY ZenonT(60), <1>9 DEF Saved
<1>t1. TypeIds'
  BY ZenonT(60), <1>2, SyncFullFacts DEF TypeIds, SyncFullStart
<1>t2. TypeUsed'
  <2>1. (SaveFails(m, used) \/ used' = used) /\ used \in [Event -> Nat]
    BY ZenonT(60) DEF SyncFullStart, TypeUsed
  <2> QED
    BY Zenon, <2>1, SaveFailsTyped
<1>t3. TypeStream'
  BY ZenonT(60), <1>2, <1>9, SyncFullFacts DEF TypeStream, SyncFullStart, Saved
<1>t4. TypeSlaves'
  BY ZenonT(60), <1>9 DEF Saved
<1>t5. TypeSaves'
  BY ZenonT(60), <1>9 DEF Saved, TypeSaves, SyncFullStart
<1>t6. Roles'
  BY ZenonT(60), <1>2, SyncFullFacts DEF Roles, SyncFullStart
<1>t7. Links'
  BY ZenonT(60), <1>9 DEF Saved
<1>t8. Waiters'
  BY ZenonT(60), <1>9 DEF Saved
<1>t9. Files'
  BY ZenonT(60), <1>9 DEF Saved
<1>t10. Sources'
  <2>1. SyncFull(m, s)
    BY SMTT(60) DEF SyncFullStart
  <2>2. \A n \in Node : n # m => (HasSlaves(n)' <=> HasSlaves(n))
    BY ZenonT(60), <1>8 DEF HasSlaves, TypeSlaves, SyncFullStart
  <2> QED
    BY <2>1, <2>2, SyncFullFacts DEF Sources, SyncFullStart
<1>t11. TypeData' /\ TypeMaster' /\ TypeCached'
  BY DEF TypeData, TypeMaster, TypeCached, SyncFullStart
<1> QED
  BY SMTT(60), <1>t1, <1>t2, <1>t3, <1>t4, <1>t5, <1>t6, <1>t7, <1>t8, <1>t9, <1>t10, <1>t11

\* SlaveGone keeps the invariant.
LEMMA SlaveGoneStep ==
  ASSUME IInv, NEW m \in Node, NEW s \in Node, SlaveGone(m, s)
  PROVE  IInv'
<1> USE DEF IInv, Types
<1>1. ConnOK(link'[s], masterhost[s], repl_state[s], cached_master[s], initial[s].off)
      /\ link'[s].chan = link[s].chan /\ (Serves(m, s, link'[s]) => slaves[m][s].st = "none")
  <2>1. LinkOK(s) /\ link'[s] = ClosedLink(m, s)
    BY SMTT(60) DEF Links, SlaveGone
  <2>2. ConnOK(link'[s], masterhost[s], repl_state[s], cached_master[s], initial[s].off)
    BY ZenonT(60), <2>1, ClosedLinkConn
  <2>3. link[s] \in Connection
    BY SMTT(60), <2>1 DEF LinkOK, ConnOK
  <2> QED
    BY ZenonT(60), <2>1, <2>2, <2>3, ClosedFields DEF ClosedLink, Attached, Serves
<1>t1. TypeIds'
  BY DEF TypeIds, SlaveGone, Happens
<1>t2. TypeUsed'
  <2>1. (\E k \in Event : Happens(k)) \/ used' = used
    BY DEF Event, SlaveGone
  <2> QED
    BY <2>1, HappensTyped
<1>t3. TypeSlaves'
  BY ClientTyped DEF TypeSlaves, SlaveGone
<1>t4. Links'
  <2>1. ASSUME NEW t \in Node, t # s PROVE LinkOK(t)'
    BY SMTT(60), <2>1 DEF Links, LinkOK, SlaveGone
  <2>2. LinkOK(s)'
    BY <1>1 DEF LinkOK, Links, SlaveGone
  <2> QED
    BY <2>1, <2>2 DEF Links, SlaveGone
<1>t5. Waiters'
  BY <1>1, ClientTyped DEF Waiters, Attached, Serves, SlaveGone, TypeSlaves, Links, ClosedLink, Closed, NoClient
<1>t6. Files'
  BY ClientTyped DEF Files, SlaveGone, TypeSlaves, NoClient
<1>t7. Sources'
  BY SMTT(60), ClientTyped DEF Sources, HasSlaves, SlaveGone, TypeSlaves, NoClient
<1>t8. TypeStream' /\ TypeData' /\ TypeMaster' /\ TypeCached' /\ TypeSaves' /\ Roles'
  BY DEF TypeStream, TypeData, TypeMaster, TypeCached, TypeSaves, Roles, SlaveGone
<1> QED
  BY SMTT(60), <1>t1, <1>t2, <1>t3, <1>t4, <1>t5, <1>t6, <1>t7, <1>t8

\* ClientWrite keeps the invariant.
LEMMA ClientWriteStep ==
  ASSUME IInv, NEW m \in Node, NEW d \in DB, ClientWrite(m, d)
  PROVE  IInv'
<1> USE DEF IInv, Types
<1>1. /\ <<Write(nextWrite)>> \in Seq(Unit) /\ <<Multi, Write(nextWrite), Exec>> \in Seq(Unit)
  <2>1. Write(nextWrite) \in Unit /\ Multi \in Unit /\ Exec \in Unit
    BY SMTT(60) DEF Unit, Write, Multi, Exec, TypeIds
  <2> QED
    BY SMTT(60), <2>1
<1>9. Fed
  <2>1. \E items \in Seq(Unit) : replicationFeedSlaves(m, d, items)
    BY ZenonT(60), <1>1 DEF ClientWrite
  <2> QED
    BY <2>1, FeedFacts DEF ClientWrite, Same
<1>t1. TypeIds'
  BY DEF TypeIds, ClientWrite
<1>t2. TypeUsed'
  <2>1. Happens("write") \/ Happens("multi")
    BY DEF ClientWrite
  <2> QED
    BY <2>1 DEF TypeUsed, Event, Happens, Then
<1>t3. TypeStream'
  BY ZenonT(60), <1>9 DEF Fed
<1>t4. TypeData'
  <2>1. Append(data[m], <<nextWrite, d>>) \in Dataset
    BY DEF TypeData, TypeIds, Dataset
  <2> QED
    BY <2>1 DEF TypeData, ClientWrite
<1>t5. TypeSlaves'
  BY ZenonT(60), <1>9 DEF Fed
<1>t6. Roles'
  BY <1>9 DEF Fed, Roles, ClientWrite
<1>t7. Links'
  BY ZenonT(60), <1>9 DEF Fed
<1>t8. Waiters'
  BY ZenonT(60), <1>9 DEF Fed
<1>t9. Files'
  BY SMTT(60), <1>9 DEF Fed, Files, ClientWrite
<1>t10. Sources'
  BY <1>9 DEF Fed, Sources, HasSlaves, ClientWrite
<1>t11. TypeMaster' /\ TypeCached' /\ TypeSaves'
  BY DEF TypeMaster, TypeCached, TypeSaves, ClientWrite
<1> QED
  BY SMTT(60), <1>t1, <1>t2, <1>t3, <1>t4, <1>t5, <1>t6, <1>t7, <1>t8, <1>t9, <1>t10, <1>t11

\* PingSlaves keeps the invariant.
LEMMA PingSlavesStep ==
  ASSUME IInv, NEW m \in Node, PingSlaves(m)
  PROVE  IInv'
<1> USE DEF IInv, Types
<1>9. Fed
  <2>1. <<Ping>> \in Seq(Unit)
    BY DEF Unit, Ping
  <2> QED
    BY ZenonT(60), <2>1, FeedFacts DEF PingSlaves, Same
<1>t1. TypeIds'
  BY DEF TypeIds, PingSlaves
<1>t2. TypeUsed'
  <2>1. (\E k \in Event : Happens(k)) \/ used' = used
    BY DEF Event, PingSlaves
  <2> QED
    BY <2>1, HappensTyped
<1>t3. TypeStream'
  BY ZenonT(60), <1>9 DEF Fed
<1>t4. TypeSlaves'
  BY ZenonT(60), <1>9 DEF Fed
<1>t5. Roles'
  BY <1>9 DEF Fed, Roles, PingSlaves
<1>t6. Links'
  BY ZenonT(60), <1>9 DEF Fed
<1>t7. Waiters'
  BY ZenonT(60), <1>9 DEF Fed
<1>t8. Files'
  BY SMTT(60), <1>9 DEF Fed, Files, PingSlaves
<1>t9. Sources'
  BY ZenonT(60), <1>9 DEF Fed, Sources, HasSlaves, PingSlaves
<1>t10. TypeData' /\ TypeMaster' /\ TypeCached' /\ TypeSaves'
  BY DEF TypeData, TypeMaster, TypeCached, TypeSaves, PingSlaves
<1> QED
  BY SMTT(60), <1>t1, <1>t2, <1>t3, <1>t4, <1>t5, <1>t6, <1>t7, <1>t8, <1>t9, <1>t10

\* FreeBacklog keeps the invariant.
LEMMA FreeBacklogStep ==
  ASSUME IInv, NEW m \in Node, FreeBacklog(m)
  PROVE  IInv'
<1> USE DEF IInv, Types
<1>t1. TypeIds'
  BY SMTT(60) DEF TypeIds, FreeBacklog, NoId
<1>t2. TypeUsed'
  <2>1. (\E k \in Event : Happens(k)) \/ used' = used
    BY ZenonT(60) DEF Event, FreeBacklog
  <2> QED
    BY <2>1, HappensTyped
<1>t3. TypeStream'
  BY SMTT(60) DEF TypeStream, FreeBacklog
<1>t4. Roles'
  BY SMTT(60) DEF Roles, FreeBacklog, TypeStream
<1>t5. Sources'
  BY ZenonT(60) DEF Sources, HasSlaves, FreeBacklog, TypeStream
<1>t6. TypeData' /\ TypeMaster' /\ TypeCached' /\ TypeSlaves' /\ TypeSaves' /\ Links' /\ Waiters' /\ Files'
  BY SMTT(60) DEF TypeData, TypeMaster, TypeCached, TypeSlaves, TypeSaves, Links, LinkOK, Waiters, Attached, Serves, Files, FreeBacklog
<1> QED
  BY SMTT(60), <1>t1, <1>t2, <1>t3, <1>t4, <1>t5, <1>t6

\* resizeReplicationBacklog keeps the invariant.
LEMMA resizeReplicationBacklogStep ==
  ASSUME IInv, NEW n \in Node, resizeReplicationBacklog(n)
  PROVE  IInv'
<1>0. master_repl_offset \in [Node -> Nat]
  BY Zenon DEF IInv, Types, TypeStream
<1> USE DEF IInv, Types
<1> DEFINE bl == createReplicationBacklog(master_repl_offset[n])
<1>1. bl \in Backlog /\ bl # NULL
  <2>1. master_repl_offset[n] \in Nat
    BY ONLY <1>0, n \in Node
  <2> QED
    BY Zenon, <2>1, CreateTyped
<1>2. repl_backlog' = [repl_backlog EXCEPT ![n] = bl]
  BY SMTT(60) DEF resizeReplicationBacklog
<1> HIDE DEF bl
<1>t1. TypeIds'
  BY SMTT(60) DEF TypeIds, resizeReplicationBacklog
<1>t2. TypeUsed'
  <2>1. (\E k \in Event : Happens(k)) \/ used' = used
    BY DEF Event, resizeReplicationBacklog
  <2> QED
    BY <2>1, HappensTyped
<1>t3. TypeStream'
  BY SMTT(60), <1>1, <1>2 DEF TypeStream, resizeReplicationBacklog
<1>t4. Roles'
  BY SMTT(60), <1>1, <1>2 DEF Roles, TypeStream, resizeReplicationBacklog
<1>t5. Sources'
  BY SMTT(60), <1>1, <1>2 DEF Sources, HasSlaves, TypeStream, resizeReplicationBacklog
<1>t6. TypeData' /\ TypeMaster' /\ TypeCached' /\ TypeSlaves' /\ TypeSaves' /\ Links' /\ Waiters' /\ Files'
  BY DEF TypeData, TypeMaster, TypeCached, TypeSlaves, TypeSaves, Links, LinkOK, Waiters, Attached, Serves, Files, resizeReplicationBacklog
<1> QED
  BY <1>t1, <1>t2, <1>t3, <1>t4, <1>t5, <1>t6

=============================================================================
