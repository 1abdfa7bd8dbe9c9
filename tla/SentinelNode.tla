---------------------------- MODULE SentinelNode ----------------------------
(***************************************************************************)
(* One Sentinel process that monitors one master name: its tables of       *)
(* slaves and of other Sentinels, the detection of failures, the votes,    *)
(* the failover state machine and the configuration file.  Every operator  *)
(* takes the state s of Sentinel i and returns the new state; what is sent *)
(* is collected in s.out.                                                  *)
(*                                                                         *)
(* Time is abstracted to the outcome of the comparisons with the clock,    *)
(* which the caller passes in.                                             *)
(***************************************************************************)
EXTENDS Integers, FiniteSets, FiniteSetsExt, Sequences, TLC

CONSTANTS
  Sentinel,   \* run ids of the Sentinels
  Instance,   \* addresses of the Redis instances
  Host,       \* addresses of the Sentinels
  NULL

ASSUME NameAssumption ==
  /\ IsFiniteSet(Sentinel) /\ Sentinel \subseteq Host
  /\ NULL \notin Sentinel /\ NULL \notin Instance

\* failover_state
NONE == 0
WAIT_START == 1
SELECT_SLAVE == 2
SEND_SLAVEOF_NOONE == 3
WAIT_PROMOTION == 4
RECONF_SLAVES == 5
UPDATE_CONFIG == 6

MasterFlag == {"s_down", "o_down", "failover_in_progress", "force_failover"}
SlaveFlag == {"s_down", "promoted", "reconf_sent", "reconf_inprog", "reconf_done"}

\* createSentinelRedisInstance
NewSlave == {}   \* a slave is the set of its flags
NewSentinel(at) == [down |-> FALSE, leader |-> NULL, leader_epoch |-> 0, at |-> at]
Empty == [x \in {} |-> NULL]
NewMaster(addr, quorum) ==
  [addr |-> addr, quorum |-> quorum, flags |-> {}, role |-> "master", config_epoch |-> 0,
   leader |-> NULL, leader_epoch |-> 0, failover_state |-> NONE, failover_epoch |-> 0,
   promoted |-> NULL, recent |-> FALSE, slaves |-> Empty, sentinels |-> Empty]

With(f, k, v) == [x \in DOMAIN f \cup {k} |-> IF x = k THEN v ELSE f[x]]
Send(s, msgs) == [s EXCEPT !.out = @ \cup msgs]

InProgress(s) == "failover_in_progress" \in s.m.flags

sentinelGetCurrentMasterAddress(m) ==
  IF "failover_in_progress" \in m.flags /\ m.promoted # NULL /\ m.failover_state >= RECONF_SLAVES
  THEN m.promoted ELSE m.addr

\* The file lists the promoted slave as the master and the master in its place
rewriteConfigSentinelOption(s) ==
  LET addr == sentinelGetCurrentMasterAddress(s.m)
  IN [current_epoch |-> s.current_epoch, on |-> s.on, addr |-> addr, quorum |-> s.m.quorum,
      config_epoch |-> s.m.config_epoch, leader_epoch |-> s.m.leader_epoch,
      slaves |-> {IF x = addr THEN s.m.addr ELSE x : x \in DOMAIN s.m.slaves},
      sentinels |-> [j \in DOMAIN s.m.sentinels |-> s.m.sentinels[j].at]]

sentinelFlushConfig(s) == [s EXCEPT !.disk = rewriteConfigSentinelOption(s)]

\* The process starts with the configuration file d
sentinelHandleConfiguration(d) ==
  [current_epoch |-> d.current_epoch, tilt |-> FALSE, on |-> d.on, disk |-> d, out |-> {},
   m |-> [NewMaster(d.addr, d.quorum) EXCEPT
            !.config_epoch = d.config_epoch, !.leader_epoch = d.leader_epoch,
            !.slaves = [x \in d.slaves |-> NewSlave],
            !.sentinels = [j \in DOMAIN d.sentinels |-> NewSentinel(d.sentinels[j])]]]

-----------------------------------------------------------------------------
(* Resets *)

\* All but the address, the quorum and the epochs, and perhaps the Sentinels
sentinelResetMaster(s, keepSentinels) ==
  [s EXCEPT !.m = [NewMaster(s.m.addr, s.m.quorum) EXCEPT
     !.config_epoch = s.m.config_epoch, !.leader_epoch = s.m.leader_epoch,
     !.failover_epoch = s.m.failover_epoch,
     !.sentinels = IF keepSentinels THEN s.m.sentinels ELSE Empty]]

\* Mutant: the old master is not kept as a slave
MutantForgetsOldMaster(s, addr) ==
  LET kept == DOMAIN s.m.slaves \ {addr}
      r == sentinelResetMaster(s, TRUE)
  IN sentinelFlushConfig([r EXCEPT !.m = [r.m EXCEPT !.addr = addr, !.slaves = [x \in kept |-> NewSlave]]])

sentinelResetMasterAndChangeAddress(s, addr) ==
  LET kept == (DOMAIN s.m.slaves \cup {s.m.addr}) \ {addr}
      r == sentinelResetMaster(s, TRUE)
  IN sentinelFlushConfig([r EXCEPT !.m = [r.m EXCEPT !.addr = addr, !.slaves = [x \in kept |-> NewSlave]]])

-----------------------------------------------------------------------------
(* Messages of other Sentinels *)

\* Sentinel h.from, at address h.at, is new or has moved.  A Sentinel that was known at
\* its address has no valid address any more (NULL)
Introduce(s, h) ==
  LET known == s.m.sentinels
      others == IF h.from \in DOMAIN known THEN known
                ELSE [j \in DOMAIN known |-> IF known[j].at = h.at
                                             THEN [known[j] EXCEPT !.at = NULL] ELSE known[j]]
  IN sentinelFlushConfig([s EXCEPT !.m.sentinels = With(others, h.from, NewSentinel(h.at))])

\* Mutants: the current epoch is not raised; older configurations are accepted
MutantKeepsEpoch(s, h) ==
  LET s1 == IF h.from \in DOMAIN s.m.sentinels /\ s.m.sentinels[h.from].at = h.at
            THEN s ELSE Introduce(s, h)
      s3 == [s1 EXCEPT !.m.config_epoch = h.config_epoch]
  IN IF s.m.config_epoch >= h.config_epoch THEN s1
     ELSE IF h.addr = s.m.addr THEN s3
     ELSE sentinelResetMasterAndChangeAddress(s3, h.addr)
MutantAcceptsOlder(s, h) ==
  LET s1 == IF h.from \in DOMAIN s.m.sentinels /\ s.m.sentinels[h.from].at = h.at
            THEN s ELSE Introduce(s, h)
      s2 == IF h.epoch > s.current_epoch
            THEN sentinelFlushConfig([s1 EXCEPT !.current_epoch = h.epoch]) ELSE s1
      s3 == [s2 EXCEPT !.m.config_epoch = h.config_epoch]
  IN IF s.m.config_epoch = h.config_epoch THEN s2
     ELSE IF h.addr = s.m.addr THEN s3
     ELSE sentinelResetMasterAndChangeAddress(s3, h.addr)

sentinelProcessHelloMessage(s, h) ==
  LET s1 == IF h.from \in DOMAIN s.m.sentinels /\ s.m.sentinels[h.from].at = h.at
            THEN s ELSE Introduce(s, h)
      s2 == IF h.epoch > s.current_epoch
            THEN sentinelFlushConfig([s1 EXCEPT !.current_epoch = h.epoch]) ELSE s1
      s3 == [s2 EXCEPT !.m.config_epoch = h.config_epoch]
  IN IF s.m.config_epoch >= h.config_epoch THEN s2
     ELSE IF h.addr = s.m.addr THEN s3
     ELSE sentinelResetMasterAndChangeAddress(s3, h.addr)

sentinelSendHello(i, s, at) ==
  [type |-> "hello", from |-> i, at |-> at, epoch |-> s.current_epoch,
   addr |-> sentinelGetCurrentMasterAddress(s.m), config_epoch |-> s.m.config_epoch]

\* Mutant: the vote is not saved
MutantVoteNotSaved(i, s, epoch, runid) ==
  LET s1 == IF epoch > s.current_epoch
            THEN sentinelFlushConfig([s EXCEPT !.current_epoch = epoch]) ELSE s
  IN IF s1.m.leader_epoch < epoch /\ s1.current_epoch <= epoch
     THEN [s1 EXCEPT !.m.leader = runid, !.m.leader_epoch = s1.current_epoch,
                     !.m.recent = IF runid = i THEN @ ELSE TRUE]
     ELSE s1

sentinelVoteLeader(i, s, epoch, runid) ==
  LET s1 == IF epoch > s.current_epoch
            THEN sentinelFlushConfig([s EXCEPT !.current_epoch = epoch]) ELSE s
  IN IF s1.m.leader_epoch < epoch /\ s1.current_epoch <= epoch
     THEN sentinelFlushConfig([s1 EXCEPT !.m = [s1.m EXCEPT
            !.leader = runid, !.leader_epoch = s1.current_epoch,
            !.recent = s1.m.recent \/ runid # i]])
     ELSE s1

\* SENTINEL IS-MASTER-DOWN-BY-ADDR.  q.runid is NULL ("*") when no vote is asked for
IsMasterDownByAddr(i, s, q) ==
  LET ours == s.on /\ s.m.addr = q.addr
      s1 == IF ours /\ q.runid # NULL THEN sentinelVoteLeader(i, s, q.epoch, q.runid) ELSE s
      vote == ours /\ q.runid # NULL /\ s1.m.leader # NULL
  IN Send(s1, {[type |-> "answer", from |-> i, to |-> q.from,
                down |-> ours /\ ~s.tilt /\ "s_down" \in s.m.flags,
                leader |-> IF vote THEN s1.m.leader ELSE NULL,
                epoch |-> IF ours /\ q.runid # NULL THEN s1.m.leader_epoch ELSE 0]})

\* The entry of a Sentinel that was removed or replaced does not receive the answer
sentinelReceiveIsMasterDownReply(s, a) ==
  IF ~s.on \/ a.from \notin DOMAIN s.m.sentinels THEN s
  ELSE LET known == s.m.sentinels[a.from]
           seen == [known EXCEPT !.down = a.down,
                                 !.leader = IF a.leader # NULL THEN a.leader ELSE known.leader,
                                 !.leader_epoch = IF a.leader # NULL THEN a.epoch
                                                   ELSE known.leader_epoch]
       IN [s EXCEPT !.m.sentinels = With(s.m.sentinels, a.from, seen)]

\* sentinelAskMasterStateToOtherSentinels asks the Sentinels in links; the last answers of
\* those in stale are too old
sentinelAskMasterStateToOtherSentinels(i, s, links, stale) ==
  LET known == s.m.sentinels
      s1 == [s EXCEPT !.m.sentinels = [j \in DOMAIN known |->
               IF j \in stale THEN [known[j] EXCEPT !.down = FALSE, !.leader = NULL] ELSE known[j]]]
  IN IF "s_down" \notin s.m.flags THEN s1
     ELSE Send(s1, {[type |-> "ask", from |-> i, to |-> j, addr |-> s.m.addr,
                     epoch |-> s.current_epoch,
                     runid |-> IF s.m.failover_state > NONE THEN i ELSE NULL] :
                       j \in links \cap DOMAIN s.m.sentinels})

-----------------------------------------------------------------------------
(* Failure detection.  c is what the clock and the connections say: c.late are the    *)
(* instances that have not answered for down_after_period, c.reach those with a      *)
(* connection, c.links the Sentinels with one, c.elapsed the timeouts that expired   *)

sentinelCheckSubjectivelyDown(flags, down) ==
  IF down THEN flags \cup {"s_down"} ELSE flags \ {"s_down"}

sentinelCheckObjectivelyDown(s) ==
  LET quorum == 1 + Cardinality({j \in DOMAIN s.m.sentinels : s.m.sentinels[j].down})
  IN IF "s_down" \in s.m.flags /\ quorum >= s.m.quorum
     THEN [s EXCEPT !.m.flags = @ \cup {"o_down"}]
     ELSE [s EXCEPT !.m.flags = @ \ {"o_down"}]

-----------------------------------------------------------------------------
(* Failover *)

sentinelStartFailover(s) ==
  [s EXCEPT !.current_epoch = @ + 1,
            !.m = [s.m EXCEPT !.failover_state = WAIT_START,
                              !.flags = s.m.flags \cup {"failover_in_progress"},
                              !.failover_epoch = s.current_epoch + 1, !.recent = TRUE]]

sentinelStartFailoverIfNeeded(s, c) ==
  "o_down" \in s.m.flags /\ ~InProgress(s) /\ (s.m.recent => "delay" \in c.elapsed)

\* Mutant: the slave keeps its flag
MutantAbortKeepsFlag(s) ==
  [s EXCEPT !.m.flags = @ \ {"failover_in_progress", "force_failover"}, !.m.failover_state = NONE,
            !.m.promoted = NULL]

sentinelAbortFailover(s) ==
  [s EXCEPT !.m = [s.m EXCEPT
     !.flags = s.m.flags \ {"failover_in_progress", "force_failover"}, !.failover_state = NONE,
     !.slaves = [x \in DOMAIN s.m.slaves |->
                   IF x = s.m.promoted THEN s.m.slaves[x] \ {"promoted"} ELSE s.m.slaves[x]],
     !.promoted = NULL]]

\* voters_quorum
MutantMajority(voters) == voters \div 2
Majority(voters) == voters \div 2 + 1

\* The votes of other Sentinels for the current epoch
Votes(s, runid) ==
  Cardinality({j \in DOMAIN s.m.sentinels :
                 s.m.sentinels[j].leader = runid /\ s.m.sentinels[j].leader_epoch = s.current_epoch})

\* sentinelGetLeader: the possible pairs of leader and state after the vote; the order of a
\* hash table decides between Sentinels with as many votes
sentinelGetLeader(i, s, epoch) ==
  LET max == Max({Votes(s, r) : r \in Sentinel})
      most == IF max = 0 THEN {NULL} ELSE {r \in Sentinel : Votes(s, r) = max}
      voters == Cardinality(DOMAIN s.m.sentinels) + 1
      After(w) == sentinelVoteLeader(i, s, epoch, IF w = NULL THEN i ELSE w)
      Result(w) ==
        LET v == After(w)
            mine == IF v.m.leader_epoch = epoch THEN v.m.leader ELSE NULL
            mineVotes == IF mine = NULL THEN 0 ELSE Votes(s, mine) + 1
            winner == IF mineVotes > max THEN mine ELSE w
            votes == IF mineVotes > max THEN mineVotes ELSE max
        IN <<IF votes >= Majority(voters) /\ votes >= s.m.quorum THEN winner ELSE NULL, v>>
  IN {Result(w) : w \in most}

\* A smaller priority is better, then a greater offset, then the smaller run id
compareSlavesForPromotion(rank, x, y) ==
  \/ rank[x].priority < rank[y].priority
  \/ /\ rank[x].priority = rank[y].priority
     /\ \/ rank[x].offset > rank[y].offset
        \/ rank[x].offset = rank[y].offset /\ x < y

\* The slaves in c.unfit have an old INFO, or were disconnected from the master for long
sentinelSelectSlave(s, c) ==
  LET fit == {x \in (DOMAIN s.m.slaves \cap c.reach) \ c.unfit :
                "s_down" \notin s.m.slaves[x] /\ c.rank[x].priority # 0}
      best == {x \in fit : \A y \in fit \ {x} : compareSlavesForPromotion(c.rank, x, y)}
  IN IF best = {} THEN NULL ELSE CHOOSE x \in best : TRUE

sentinelFailoverWaitStart(i, s, c) ==
  {LET leader == r[1]
       v == r[2]
   IN IF leader = i \/ "force_failover" \in s.m.flags
      THEN [v EXCEPT !.m.failover_state = SELECT_SLAVE]
      ELSE IF "election" \in c.elapsed THEN sentinelAbortFailover(v) ELSE v :
     r \in sentinelGetLeader(i, s, s.m.failover_epoch)}

sentinelFailoverSelectSlave(s, c) ==
  LET slave == sentinelSelectSlave(s, c)
  IN IF slave = NULL THEN sentinelAbortFailover(s)
     ELSE [s EXCEPT !.m = [s.m EXCEPT
            !.slaves = With(s.m.slaves, slave, s.m.slaves[slave] \cup {"promoted"}),
            !.promoted = slave, !.failover_state = SEND_SLAVEOF_NOONE]]

sentinelSendSlaveOf(i, x, addr) == [type |-> "slaveof", from |-> i, to |-> x, master |-> addr]

sentinelFailoverSendSlaveOfNoOne(i, s, c) ==
  IF s.m.promoted \notin c.reach
  THEN IF "failover" \in c.elapsed THEN sentinelAbortFailover(s) ELSE s
  ELSE Send([s EXCEPT !.m.failover_state = WAIT_PROMOTION],
            {sentinelSendSlaveOf(i, s.m.promoted, NULL)})

sentinelFailoverWaitPromotion(s, c) ==
  IF "failover" \in c.elapsed THEN sentinelAbortFailover(s) ELSE s

sentinelFailoverDetectEnd(i, s, c) ==
  LET timeout == "failover" \in c.elapsed
      todo == {x \in DOMAIN s.m.slaves :
                 s.m.slaves[x] \cap {"promoted", "reconf_done", "s_down"} = {}}
      told == {x \in DOMAIN s.m.slaves \cap c.reach :
                 s.m.slaves[x] \cap {"reconf_done", "reconf_sent"} = {}}
      s1 == IF todo = {} \/ timeout THEN [s EXCEPT !.m.failover_state = UPDATE_CONFIG] ELSE s
  IN IF s.m.promoted = NULL \/ "s_down" \in s.m.slaves[s.m.promoted] THEN s
     ELSE IF ~timeout THEN s1
     ELSE Send([s1 EXCEPT !.m.slaves = [x \in DOMAIN s.m.slaves |->
                  IF x \in told THEN s.m.slaves[x] \cup {"reconf_sent"} ELSE s.m.slaves[x]]],
               {sentinelSendSlaveOf(i, x, s.m.promoted) : x \in told})

\* A slave that was told about the new master but did not follow counts as done after a while
Overdue(f, c) ==
  IF f \cap {"promoted", "reconf_done"} = {} /\ "reconf_sent" \in f /\ "reconf" \in c.elapsed
  THEN (f \ {"reconf_sent"}) \cup {"reconf_done"} ELSE f

\* The slaves that are being reconfigured
Busy(s) ==
  {x \in DOMAIN s.m.slaves : s.m.slaves[x] \cap {"reconf_sent", "reconf_inprog"} # {}}

\* The slaves that the loop, when it comes to them, tells about the new master
ToTell(s, c) ==
  {x \in DOMAIN s.m.slaves \cap c.reach :
     /\ s.m.slaves[x] \cap {"promoted", "reconf_done"} = {}
     /\ Overdue(s.m.slaves[x], c) \cap {"reconf_sent", "reconf_inprog"} = {}}

\* The slaves that the loop comes to, in the order of a hash table, before parallel_syncs
\* of them are being reconfigured
Visits(s, c) ==
  LET room == c.parallel_syncs - Cardinality(Busy(s))
  IN IF room <= 0 THEN {{}}
     ELSE {v \in SUBSET DOMAIN s.m.slaves :
             LET n == Cardinality(v \cap ToTell(s, c))
             IN n = room \/ (n < room /\ v = DOMAIN s.m.slaves)}

ReconfPass(i, s, c, visited) ==
  LET told == visited \cap ToTell(s, c)
  IN Send([s EXCEPT !.m.slaves = [x \in DOMAIN s.m.slaves |->
             (IF x \in visited THEN Overdue(s.m.slaves[x], c) ELSE s.m.slaves[x])
             \cup (IF x \in told THEN {"reconf_sent"} ELSE {})]],
          {sentinelSendSlaveOf(i, x, s.m.promoted) : x \in told})

sentinelFailoverReconfNextSlave(i, s, c) ==
  {sentinelFailoverDetectEnd(i, ReconfPass(i, s, c, visited), c) : visited \in Visits(s, c)}

\* The possible states after a step of the state machine
sentinelFailoverStateMachine(i, s, c) ==
  CASE ~InProgress(s) -> {s}
    [] InProgress(s) /\ s.m.failover_state = WAIT_START -> sentinelFailoverWaitStart(i, s, c)
    [] InProgress(s) /\ s.m.failover_state = SELECT_SLAVE -> {sentinelFailoverSelectSlave(s, c)}
    [] InProgress(s) /\ s.m.failover_state = SEND_SLAVEOF_NOONE ->
         {sentinelFailoverSendSlaveOfNoOne(i, s, c)}
    [] InProgress(s) /\ s.m.failover_state = WAIT_PROMOTION -> {sentinelFailoverWaitPromotion(s, c)}
    [] InProgress(s) /\ s.m.failover_state = RECONF_SLAVES ->
         sentinelFailoverReconfNextSlave(i, s, c)
    [] OTHER -> {s}

sentinelFailoverSwitchToPromotedSlave(s) ==
  sentinelResetMasterAndChangeAddress(s, IF s.m.promoted = NULL THEN s.m.addr ELSE s.m.promoted)

-----------------------------------------------------------------------------
(* INFO of instance x: its role, its master, the state of its replication link and, of a *)
(* master, its slaves.  c.waited: the instance has reported the same for long enough, and *)
(* was not down meanwhile; c.fresh: the last INFO of the master is recent                *)

sentinelMasterLooksSane(s, c) ==
  s.m.role = "master" /\ s.m.flags \cap {"s_down", "o_down"} = {} /\ c.fresh

\* Slaves that are not in the table yet
Discover(s, info) ==
  LET new == info.slaves \ DOMAIN s.m.slaves
  IN IF new = {} THEN s
     ELSE sentinelFlushConfig([s EXCEPT !.m.slaves =
            [x \in DOMAIN s.m.slaves \cup new |-> IF x \in new THEN NewSlave ELSE s.m.slaves[x]]])

\* sentinelRefreshInstanceInfo of the master
MasterInfo(s, info) == [Discover(s, info) EXCEPT !.m.role = info.role]

\* Mutant: the new configuration has no new epoch
MutantOldEpoch(s) == sentinelFlushConfig([s EXCEPT !.m.failover_state = RECONF_SLAVES])

Promotion(s) ==
  sentinelFlushConfig([s EXCEPT !.m = [s.m EXCEPT !.config_epoch = s.m.failover_epoch,
                                                  !.failover_state = RECONF_SLAVES]])

\* A slave reports to be a master
SlaveIsMaster(i, s, x, c) ==
  LET promoted == "promoted" \in s.m.slaves[x]
  IN IF promoted /\ InProgress(s) /\ s.m.failover_state = WAIT_PROMOTION THEN Promotion(s)
     ELSE IF ~promoted /\ sentinelMasterLooksSane(s, c) /\ c.waited
     THEN Send(s, {sentinelSendSlaveOf(i, x, s.m.addr)})
     ELSE s

\* A slave that is being reconfigured follows the promoted one, and has the data
Reconfigured(s, x, info) ==
  LET f == s.m.slaves[x]
      f1 == IF "reconf_sent" \in f /\ info.host = s.m.promoted
            THEN (f \ {"reconf_sent"}) \cup {"reconf_inprog"} ELSE f
  IN IF "reconf_inprog" \in f1 /\ info.link
     THEN (f1 \ {"reconf_inprog"}) \cup {"reconf_done"} ELSE f1

SlaveIsSlave(i, s, x, info, c) ==
  LET s1 == IF info.host # s.m.addr /\ sentinelMasterLooksSane(s, c) /\ c.waited
            THEN Send(s, {sentinelSendSlaveOf(i, x, s.m.addr)}) ELSE s
  IN [s1 EXCEPT !.m.slaves = With(s.m.slaves, x, Reconfigured(s, x, info))]

\* sentinelRefreshInstanceInfo of slave x
SlaveInfo(i, s, x, info, c) ==
  IF s.tilt THEN s
  ELSE IF info.role = "master" THEN SlaveIsMaster(i, s, x, c)
  ELSE SlaveIsSlave(i, s, x, info, c)

sentinelRefreshInstanceInfo(i, s, x, info, c) ==
  IF x = s.m.addr THEN MasterInfo(s, info) ELSE SlaveInfo(i, s, x, info, c)

-----------------------------------------------------------------------------
(* The timer.  The master has been reported as a slave for long when c.misled *)

HandleMaster(i, s, c) ==
  LET s1 == sentinelCheckObjectivelyDown([s EXCEPT !.m.flags =
              sentinelCheckSubjectivelyDown(@, s.m.addr \in c.late
                                               \/ (s.m.role = "slave" /\ c.misled))])
      starts == sentinelStartFailoverIfNeeded(s1, c)
      s2 == IF starts THEN sentinelAskMasterStateToOtherSentinels(
                             i, sentinelStartFailover(s1), c.links, c.stale) ELSE s1
  IN {sentinelAskMasterStateToOtherSentinels(i, v, IF starts THEN {} ELSE c.links, c.stale) :
        v \in sentinelFailoverStateMachine(i, s2, c)}

HandleSlaves(s, c) ==
  [s EXCEPT !.m.slaves = [x \in DOMAIN s.m.slaves |->
     sentinelCheckSubjectivelyDown(s.m.slaves[x], x \in c.late)]]

\* sentinelHandleDictOfRedisInstances
HandleMasters(i, s, c) ==
  {LET w == HandleSlaves(v, c)
   IN IF w.m.failover_state = UPDATE_CONFIG THEN sentinelFailoverSwitchToPromotedSlave(w) ELSE w :
     v \in HandleMaster(i, s, c)}

sentinelTimer(i, s, c) ==
  LET s1 == IF c.jump THEN [s EXCEPT !.tilt = TRUE] ELSE s
  IN IF ~s.on \/ (s1.tilt /\ "tilt" \notin c.elapsed) THEN {s1}
     ELSE HandleMasters(i, [s1 EXCEPT !.tilt = FALSE], c)

-----------------------------------------------------------------------------
(* Commands of the administrator *)

\* SENTINEL FAILOVER
FailoverCommand(s, c) ==
  IF ~s.on \/ InProgress(s) \/ sentinelSelectSlave(s, c) = NULL THEN s
  ELSE LET s1 == sentinelStartFailover(s)
       IN [s1 EXCEPT !.m.flags = @ \cup {"force_failover"}]

\* SENTINEL RESET
sentinelResetMastersByPattern(s) == IF s.on THEN sentinelResetMaster(s, FALSE) ELSE s

\* SENTINEL MONITOR
MonitorCommand(s, addr, quorum) ==
  IF s.on \/ quorum <= 0 THEN s
  ELSE sentinelFlushConfig([s EXCEPT !.on = TRUE, !.m = NewMaster(addr, quorum)])

\* SENTINEL REMOVE
RemoveCommand(s) ==
  IF ~s.on THEN s
  ELSE sentinelFlushConfig([s EXCEPT !.on = FALSE, !.m = NewMaster(s.m.addr, s.m.quorum)])

\* SENTINEL SET quorum
sentinelSetCommand(s, quorum) ==
  IF ~s.on \/ quorum <= 0 THEN s ELSE sentinelFlushConfig([s EXCEPT !.m.quorum = quorum])
=============================================================================
