---------------------------- MODULE ClusterNode ----------------------------
(***************************************************************************)
(* What one node of a cluster does (cluster.c).  Its state is a record s,  *)
(* server.cluster with the part of the dataset that the bus code looks at; *)
(* every function of the code that changes that state is an operator from  *)
(* records to records.  Packets for other nodes are collected in s.out.    *)
(*                                                                         *)
(* Time is abstracted: whether a delay has elapsed is an argument of the   *)
(* operators, chosen by the actions of Cluster.  A link that is down is a  *)
(* packet that is lost.                                                    *)
(***************************************************************************)
EXTENDS Integers, FiniteSets

CONSTANTS
  Node,   \* names of nodes, compared with memcmp: numbers
  Slot    \* hash slots

ASSUME NodeAssumption == Node \subseteq Nat \ {0} /\ IsFiniteSet(Node)
ASSUME SlotAssumption == Slot \subseteq Nat /\ IsFiniteSet(Slot)

NULL == 0

Role   == {"master", "slave"}
Health == {"ok", "pfail", "fail"}    \* CLUSTER_NODE_PFAIL, CLUSTER_NODE_FAIL
Todo   == {"failover", "state", "save", "fsync"}

\* An entry of the table of nodes.  The list n->slaves is the set of the entries
\* whose slaveof is n, the bitmap n->slots the set of the slots bound to n: the code
\* changes both in the same places.
createClusterNode(known, role) ==
  [known |-> known, role |-> role, slaveof |-> NULL, epoch |-> 0, health |-> "ok",
   reports |-> {}, migrate_to |-> FALSE]

Me(s)         == s.name
Known(s)      == {n \in Node : s.nodes[n].known}
IsMaster(s,n) == s.nodes[n].role = "master"
Slots(s, n)   == {k \in Slot : s.slots[k] = n}
Slaves(s, n)  == {x \in Known(s) : s.nodes[x].slaveof = n}
Max(S)        == CHOOSE x \in S : \A y \in S : y <= x

clusterDoBeforeSleep(s, flags) == [s EXCEPT !.todo = @ \cup flags]

clusterGetMaxEpoch(s) == Max({s.nodes[n].epoch : n \in Known(s)} \cup {s.currentEpoch})

\* What the configuration file holds: everything but the reports, and no handshakes
clusterGenNodesDescription(s) ==
  [currentEpoch |-> s.currentEpoch, lastVoteEpoch |-> s.lastVoteEpoch,
   nodes |-> [n \in Node |-> [s.nodes[n] EXCEPT !.reports = {}, !.migrate_to = FALSE]],
   slots |-> s.slots, importing |-> s.importing, migrating |-> s.migrating]

clusterSaveConfig(s) ==
  [s EXCEPT !.file = clusterGenNodesDescription(s), !.todo = @ \ {"save", "fsync"}]

-----------------------------------------------------------------------------
(* Packets *)

\* The header speaks for the master when the node is a slave
clusterBuildMessageHdr(s, type, to) ==
  LET me     == s.nodes[s.name]
      master == IF me.role = "slave" /\ me.slaveof # NULL THEN me.slaveof ELSE s.name
  IN [type |-> type, from |-> s.name, to |-> to,
      currentEpoch |-> s.currentEpoch, configEpoch |-> s.nodes[master].epoch,
      slots |-> Slots(s, master), role |-> me.role, slaveof |-> me.slaveof,
      offset |-> s.offset, paused |-> me.role = "master" /\ s.mf_end, force |-> FALSE,
      about |-> NULL, aboutEpoch |-> 0, aboutSlots |-> {},
      bad |-> {}, good |-> {}, via |-> "in"]

\* Gossip is about all nodes that may be mentioned: those that are not in handshake,
\* the failing ones with their flags
clusterSendPing(s, type, to, via) ==
  LET others == Known(s) \ {s.name}
      bad    == {n \in others : s.nodes[n].health # "ok"}
  IN [s EXCEPT !.out = @ \cup
        {[clusterBuildMessageHdr(s, type, to) EXCEPT
             !.bad = bad, !.good = others \ bad, !.via = via]}]

clusterBroadcastMessage(s, m) ==
  [s EXCEPT !.out = @ \cup {[m EXCEPT !.to = n] : n \in Known(s) \ {s.name}}]

clusterBroadcastPong(s, targets) ==
  LET others == Known(s) \ {s.name}
      bad    == {n \in others : s.nodes[n].health # "ok"}
  IN [s EXCEPT !.out = @ \cup
        {[clusterBuildMessageHdr(s, "pong", n) EXCEPT !.bad = bad, !.good = others \ bad] :
         n \in targets \cap others}]

\* A packet about each node of N
clusterSendFail(s, N) ==
  [s EXCEPT !.out = @ \cup {[clusterBuildMessageHdr(s, "fail", to) EXCEPT !.about = n] :
                            to \in Known(s) \ {s.name}, n \in N}]

clusterSendUpdate(s, to, n) ==
  [s EXCEPT !.out = @ \cup
     {[clusterBuildMessageHdr(s, "update", to) EXCEPT
         !.about = n, !.aboutEpoch = s.nodes[n].epoch, !.aboutSlots = Slots(s, n)]}]

clusterRequestFailoverAuth(s) ==
  clusterBroadcastMessage(s,
    [clusterBuildMessageHdr(s, "auth_request", NULL) EXCEPT !.force = s.mf_end])

clusterSendFailoverAuth(s, to) ==
  [s EXCEPT !.out = @ \cup {clusterBuildMessageHdr(s, "auth_ack", to)}]

clusterSendMFStart(s, to) ==
  [s EXCEPT !.out = @ \cup {clusterBuildMessageHdr(s, "mfstart", to)}]

-----------------------------------------------------------------------------
(* The tables *)

\* The flag MIGRATE_TO of the master is cleared with its last slave
clusterNodeRemoveSlave(s, m, x) ==
  IF m # NULL /\ Slaves(s, m) = {x} THEN [s EXCEPT !.nodes[m].migrate_to = FALSE] ELSE s

clusterNodeAddSlave(s, m, x) ==
  [s EXCEPT !.nodes[m].migrate_to = @ \/ x \notin Slaves(s, m), !.nodes[x].slaveof = m]

clusterSetNodeAsMaster(s, n) ==
  LET old == s.nodes[n].slaveof
      r   == clusterNodeRemoveSlave(s, old, n)
  IN IF IsMaster(s, n) THEN s
     ELSE clusterDoBeforeSleep(
            [r EXCEPT !.nodes[n] = [r.nodes[n] EXCEPT !.role = "master", !.slaveof = NULL,
                !.migrate_to = @ \/ (old # NULL /\ n # s.name)]],
            {"save", "state"})

clusterMastersHaveSlaves(s) ==
  \E m \in Known(s) : IsMaster(s, m) /\ Slaves(s, m) # {}

clusterDelSlots(s, K) == [s EXCEPT !.slots = [k \in Slot |-> IF k \in K THEN NULL ELSE @[k]]]

\* clusterAddSlot for each slot of K: they are unassigned
clusterAddSlots(s, n, K) ==
  [s EXCEPT !.slots = [k \in Slot |-> IF k \in K THEN n ELSE @[k]],
            !.nodes[n].migrate_to =
               @ \/ (Slots(s, n) = {} /\ K # {} /\ clusterMastersHaveSlaves(s))]

clusterCloseAllSlots(s) ==
  [s EXCEPT !.migrating = [k \in Slot |-> NULL], !.importing = [k \in Slot |-> NULL]]

\* Clients are paused on a master as long as mf_end is set
resetManualFailover(s) ==
  [s EXCEPT !.mf_end = FALSE, !.mf_can_start = FALSE, !.mf_slave = NULL,
            !.mf_master_offset = 0]

\* Mutant: the slots that were being moved stay open
MutantSlotsStayOpen(s, n) ==
  LET c == [s EXCEPT !.nodes[s.name].role = "slave", !.nodes[s.name].slaveof = NULL]
  IN resetManualFailover(clusterNodeAddSlave(c, n, s.name))

clusterSetMaster(s, n) ==
  LET me == s.nodes[s.name]
      r  == IF me.role = "master"
            THEN clusterCloseAllSlots([s EXCEPT !.nodes[s.name].role = "slave",
                                                !.nodes[s.name].migrate_to = FALSE])
            ELSE clusterNodeRemoveSlave(s, me.slaveof, s.name)
      c  == [r EXCEPT !.nodes[s.name].slaveof = NULL]
  IN resetManualFailover(clusterNodeAddSlave(c, n, s.name))

clusterDelNode(s, n) ==
  LET r == IF s.nodes[n].role = "slave"
           THEN clusterNodeRemoveSlave(s, s.nodes[n].slaveof, n) ELSE s
      Drop(f) == [k \in Slot |-> IF f[k] = n THEN NULL ELSE f[k]]
      Left(e) == [e EXCEPT !.reports = @ \ {n}, !.slaveof = IF @ = n THEN NULL ELSE @]
  IN [r EXCEPT
       !.slots = Drop(@), !.importing = Drop(@), !.migrating = Drop(@),
       !.nodes = [x \in Node |-> IF x = n THEN createClusterNode(FALSE, "master")
                                 ELSE Left(@[x])]]

clusterBumpConfigEpochWithoutConsensus(s) ==
  LET mine == s.nodes[s.name].epoch
  IN IF mine # 0 /\ mine = clusterGetMaxEpoch(s) THEN s
     ELSE clusterDoBeforeSleep(
            [s EXCEPT !.currentEpoch = @ + 1, !.nodes[s.name].epoch = s.currentEpoch + 1],
            {"save", "fsync"})

clusterUpdateSlotsConfigWith(s, sender, senderEpoch, claimed) ==
  LET me    == s.name
      cur   == IF IsMaster(s, me) THEN me ELSE s.nodes[me].slaveof
      taken == {k \in claimed : /\ s.slots[k] # sender
                                /\ s.importing[k] = NULL
                                /\ \/ s.slots[k] = NULL
                                   \/ s.nodes[s.slots[k]].epoch < senderEpoch}
      dirty == {k \in taken : s.slots[k] = me /\ k \in s.keys}
      moved == clusterDoBeforeSleep(clusterAddSlots(clusterDelSlots(s, taken), sender, taken),
                                    {"save", "state", "fsync"})
  IN IF sender = me \/ taken = {} THEN s
     ELSE IF (\E k \in taken : s.slots[k] = cur) /\ Slots(moved, cur) = {}
     THEN clusterSetMaster(moved, sender)
     ELSE [moved EXCEPT !.keys = @ \ dirty]

\* Nodes in handshake are known by their address only; to some of them a MEET is due
clusterStartHandshake(s, N) ==
  [s EXCEPT !.handshake = @ \cup N, !.meet = @ \cup (N \ s.handshake)]

-----------------------------------------------------------------------------
(* Failure detection *)

\* Mutant: a node that is not a master counts itself
MutantSlaveCounts(s, N) ==
  LET failing == {n \in N : /\ s.nodes[n].health = "pfail"
                            /\ Cardinality(s.nodes[n].reports) + 1 >= (s.size \div 2) + 1}
  IN IF failing = {} THEN s
     ELSE clusterDoBeforeSleep(
            [s EXCEPT !.nodes = [n \in Node |->
               IF n \in failing THEN [@[n] EXCEPT !.health = "fail"] ELSE @[n]]],
            {"state", "save"})

\* For each node of N: what is decided of one does not depend on the others.  The
\* reports that are not too old are those that are still in the table
markNodeAsFailingIfNeeded(s, N) ==
  LET mine    == IF IsMaster(s, s.name) THEN 1 ELSE 0
      failing == {n \in N : /\ s.nodes[n].health = "pfail"
                            /\ Cardinality(s.nodes[n].reports) + mine >= (s.size \div 2) + 1}
      marked  == clusterDoBeforeSleep(
                   [s EXCEPT !.nodes = [n \in Node |->
                      IF n \in failing THEN [@[n] EXCEPT !.health = "fail"] ELSE @[n]]],
                   {"state", "save"})
  IN IF failing = {} THEN s
     ELSE IF IsMaster(s, s.name) THEN clusterSendFail(marked, failing) ELSE marked

\* long: the node has been FAIL for more than twice the node timeout
clearNodeFailureIfNeeded(s, n, long) ==
  IF ~IsMaster(s, n) \/ Slots(s, n) = {} \/ long
  THEN clusterDoBeforeSleep([s EXCEPT !.nodes[n].health = "ok"], {"state", "save"})
  ELSE s

\* Handshakes are started with the nodes that are not in the table
clusterProcessGossipSection(s, m) ==
  LET sender   == m.from
      about    == (Known(s) \ {s.name}) \cap (m.bad \cup m.good)
      Report(n) == IF n \in m.bad THEN s.nodes[n].reports \cup {sender}
                   ELSE s.nodes[n].reports \ {sender}
      heard    == [s EXCEPT !.nodes = [n \in Node |->
                     IF n \in about THEN [@[n] EXCEPT !.reports = Report(n)] ELSE @[n]]]
      failed   == IF IsMaster(s, sender) THEN markNodeAsFailingIfNeeded(heard, about \cap m.bad)
                  ELSE s
  IN clusterStartHandshake(failed, (m.bad \cup m.good) \ (Known(s) \cup s.blacklist))

MutantNoBump(s, sender) ==
  IF s.nodes[sender].epoch # s.nodes[s.name].epoch \/ sender <= s.name THEN s
  ELSE clusterSaveConfig([s EXCEPT !.nodes[s.name].epoch = s.currentEpoch])

clusterHandleConfigEpochCollision(s, sender) ==
  IF s.nodes[sender].epoch # s.nodes[s.name].epoch \/ sender <= s.name THEN s
  ELSE clusterSaveConfig(
         [s EXCEPT !.currentEpoch = @ + 1, !.nodes[s.name].epoch = s.currentEpoch + 1])

-----------------------------------------------------------------------------
(* Packets that arrive *)

MutantOldEpoch(s, m) ==
  IF m.configEpoch > s.nodes[m.from].epoch
  THEN clusterDoBeforeSleep([s EXCEPT !.nodes[m.from].epoch = m.configEpoch], {"save", "fsync"})
  ELSE s

\* The header of any packet of a node in the table
Header(s, m) ==
  LET newer == m.configEpoch > s.nodes[m.from].epoch
      heard == [s EXCEPT
        !.currentEpoch = IF m.currentEpoch > @ THEN m.currentEpoch ELSE @,
        !.nodes[m.from].epoch = IF newer THEN m.configEpoch ELSE @,
        !.mf_master_offset =
           IF /\ s.mf_end /\ ~IsMaster(s, s.name) /\ s.nodes[s.name].slaveof = m.from
              /\ m.paused /\ @ = 0
           THEN m.offset ELSE @]
  IN IF newer THEN clusterDoBeforeSleep(heard, {"save", "fsync"}) ELSE heard

\* slave -> master or master -> slave
RoleSwitch(s, m) ==
  LET n      == m.from
      master == m.slaveof
      slave  == IF ~IsMaster(s, n) THEN s
                ELSE clusterDoBeforeSleep(
                       [clusterDelSlots(s, Slots(s, n)) EXCEPT
                          !.nodes[n].role = "slave", !.nodes[n].migrate_to = FALSE],
                       {"save", "state"})
  IN IF master = NULL THEN clusterSetNodeAsMaster(s, n)
     ELSE IF master \notin Known(s) \/ slave.nodes[n].slaveof = master THEN slave
     ELSE clusterDoBeforeSleep(
            clusterNodeAddSlave(
              clusterNodeRemoveSlave(slave, slave.nodes[n].slaveof, n), master, n),
            {"save"})

\* What the sender claims is not what this node has bound to its master
Rebound(s, m) ==
  LET master == IF IsMaster(s, m.from) THEN m.from ELSE s.nodes[m.from].slaveof
  IN master # NULL /\ Slots(s, master) # m.slots

\* The sender is told of the first slot for which a newer owner is known
Newer(s, m) == {k \in m.slots : /\ s.slots[k] \notin {m.from, NULL}
                                /\ s.nodes[s.slots[k]].epoch > m.configEpoch}

StaleClaim(s, m) ==
  IF Newer(s, m) = {} THEN s
  ELSE clusterSendUpdate(s, m.from,
         s.slots[CHOOSE k \in Newer(s, m) : \A j \in Newer(s, m) : k <= j])

\* The slots that the sender claims
ClaimedSlots(s, m) ==
  IF ~Rebound(s, m) THEN s
  ELSE StaleClaim(IF IsMaster(s, m.from)
                  THEN clusterUpdateSlotsConfigWith(s, m.from, m.configEpoch, m.slots)
                  ELSE s, m)

\* A reply to a ping that this node sent: the node is reachable
Reachable(s, n, long) ==
  IF s.nodes[n].health = "pfail"
  THEN clusterDoBeforeSleep([s EXCEPT !.nodes[n].health = "ok"], {"save", "state"})
  ELSE IF s.nodes[n].health = "fail" THEN clearNodeFailureIfNeeded(s, n, long)
  ELSE s

Collision(s, m) ==
  IF /\ IsMaster(s, s.name) /\ IsMaster(s, m.from)
     /\ m.configEpoch = s.nodes[s.name].epoch
  THEN clusterHandleConfigEpochCollision(s, m.from) ELSE s

\* PING, PONG and MEET of a node in the table
ConfigInformation(s, m, long) ==
  LET a == IF m.type = "pong" /\ m.via = "link" THEN Reachable(s, m.from, long) ELSE s
  IN clusterProcessGossipSection(Collision(ClaimedSlots(RoleSwitch(a, m), m), m), m)

\* The answer to a PING is sent over the connection on which the PING arrived
Answer(s, m) == clusterSendPing(s, "pong", m.from, m.via)

\* A packet of a node that is not in the table.  A handshake ends with the answer
\* that tells the name of the node
Stranger(s, m) ==
  LET meet == IF m.type = "meet"
              THEN clusterDoBeforeSleep([s EXCEPT !.handshake = @ \cup {m.from}], {"save"})
              ELSE s
  IN CASE m.type \in {"ping", "meet"} -> Answer(meet, m)
       [] m.type = "pong" /\ m.via = "handshake" /\ m.from \in s.handshake ->
            clusterDoBeforeSleep(
              [s EXCEPT !.handshake = @ \ {m.from},
                        !.nodes[m.from] = createClusterNode(TRUE, m.role)], {"save"})
       [] OTHER -> s

MutantVoteUnsaved(s, m, soon) ==
  LET master == s.nodes[m.from].slaveof
  IN IF /\ IsMaster(s, s.name) /\ m.currentEpoch >= s.currentEpoch
        /\ s.lastVoteEpoch # s.currentEpoch
        /\ master # NULL /\ (s.nodes[master].health = "fail" \/ m.force)
     THEN clusterSendFailoverAuth([s EXCEPT !.lastVoteEpoch = s.currentEpoch], m.from) ELSE s

MutantVoteTwice(s, m, soon) ==
  LET master == s.nodes[m.from].slaveof
  IN IF /\ IsMaster(s, s.name) /\ m.currentEpoch >= s.currentEpoch
        /\ master # NULL /\ (s.nodes[master].health = "fail" \/ m.force)
     THEN clusterSendFailoverAuth(
            clusterDoBeforeSleep([s EXCEPT !.lastVoteEpoch = s.currentEpoch],
                                 {"save", "fsync"}), m.from) ELSE s

\* soon: the node has voted for a slave of this master not long ago
clusterSendFailoverAuthIfNeeded(s, m, soon) ==
  LET master == s.nodes[m.from].slaveof
      may == /\ IsMaster(s, s.name) /\ Slots(s, s.name) # {}
             /\ m.currentEpoch >= s.currentEpoch
             /\ s.lastVoteEpoch # s.currentEpoch
             /\ ~IsMaster(s, m.from) /\ master # NULL
             /\ s.nodes[master].health = "fail" \/ m.force
             /\ ~soon
             /\ \A k \in m.slots : \/ s.slots[k] = NULL
                                   \/ s.nodes[s.slots[k]].epoch <= m.configEpoch
  IN IF ~may THEN s
     ELSE clusterSendFailoverAuth(
            clusterDoBeforeSleep([s EXCEPT !.lastVoteEpoch = s.currentEpoch],
                                 {"save", "fsync"}), m.from)

FailReceived(s, m) ==
  IF m.about \in Known(s) \ {s.name} /\ s.nodes[m.about].health # "fail"
  THEN clusterDoBeforeSleep([s EXCEPT !.nodes[m.about].health = "fail"], {"save", "state"})
  ELSE s

\* late is a history variable: a vote was counted that was not given in this election
AckReceived(s, m) ==
  IF IsMaster(s, m.from) /\ Slots(s, m.from) # {} /\ m.currentEpoch >= s.auth_epoch
  THEN clusterDoBeforeSleep(
         [s EXCEPT !.auth_count = @ + 1, !.late = @ \/ ~s.auth_sent], {"failover"})
  ELSE s

MFStartReceived(s, m) ==
  IF s.nodes[m.from].slaveof # s.name THEN s
  ELSE [resetManualFailover(s) EXCEPT !.mf_end = TRUE, !.mf_slave = m.from]

UpdateReceived(s, m) ==
  LET n == m.about
      r == IF IsMaster(s, n) THEN s ELSE clusterSetNodeAsMaster(s, n)
  IN IF n \notin Known(s) \/ s.nodes[n].epoch >= m.aboutEpoch THEN s
     ELSE clusterUpdateSlotsConfigWith(
            clusterDoBeforeSleep([r EXCEPT !.nodes[n].epoch = m.aboutEpoch], {"save", "fsync"}),
            n, m.aboutEpoch, m.aboutSlots)

\* s is the state with the header of the packet taken in
Payload(s, m, long, soon) ==
  CASE m.type \in {"ping", "meet", "pong"} ->
         IF m.type = "pong" /\ m.via = "handshake" /\ m.from \in s.handshake
         THEN [s EXCEPT !.handshake = @ \ {m.from}]
         ELSE ConfigInformation(IF m.type = "pong" THEN s ELSE Answer(s, m), m, long)
    [] m.type = "fail"         -> FailReceived(s, m)
    [] m.type = "auth_request" -> clusterSendFailoverAuthIfNeeded(s, m, soon)
    [] m.type = "auth_ack"     -> AckReceived(s, m)
    [] m.type = "mfstart"      -> MFStartReceived(s, m)
    [] m.type = "update"       -> UpdateReceived(s, m)

clusterProcessPacket(s, m, long, soon) ==
  IF m.from \notin Known(s) THEN Stranger(s, m) ELSE Payload(Header(s, m), m, long, soon)

-----------------------------------------------------------------------------
(* The state of the cluster, failover of a master by its slaves *)

\* boot: the node was started a short time ago; minority: it was cut off from the
\* majority a short time ago.  cluster-require-full-coverage is yes, the default
clusterUpdateState(s) ==
  LET masters == {n \in Known(s) : IsMaster(s, n) /\ Slots(s, n) # {}}
      reached == {n \in masters : s.nodes[n].health = "ok"}
      few     == Cardinality(reached) < (Cardinality(masters) \div 2) + 1
      ok      == /\ \A k \in Slot : s.slots[k] # NULL /\ s.nodes[s.slots[k]].health # "fail"
                 /\ ~few
      done    == [s EXCEPT !.todo = @ \ {"state"}]
      counted == [done EXCEPT !.size = Cardinality(masters), !.minority = @ \/ few]
  IN CASE IsMaster(s, s.name) /\ ~s.ok /\ s.boot -> done
       [] ok /\ ~s.ok /\ IsMaster(s, s.name) /\ counted.minority -> counted
       [] OTHER -> [counted EXCEPT !.ok = ok]

clusterFailoverReplaceYourMaster(s) ==
  LET old == s.nodes[s.name].slaveof
      K   == Slots(s, old)
      t   == clusterDelSlots(clusterSetNodeAsMaster(s, s.name), K)
      u   == clusterSaveConfig(clusterUpdateState(clusterAddSlots(t, s.name, K)))
  IN IF IsMaster(s, s.name) \/ old = NULL THEN s
     ELSE resetManualFailover(clusterBroadcastPong(u, Node))

\* stage is the time since failover_auth_time: "none" when a new election may be
\* scheduled, "delay" before the election, "open" while votes are valid, "expired"
\* until the retry time.  The rank of the slave only lengthens the delay, and any delay
\* is a behaviour here, whatever the ranks are; a slave whose data is too old returns like
\* one that waits.  elected is a history variable
clusterHandleSlaveFailover(s) ==
  LET me     == s.nodes[s.name]
      master == me.slaveof
      manual == s.mf_end /\ s.mf_can_start
      t      == [s EXCEPT !.todo = @ \ {"failover"}]
      ring   == {x \in Known(s) : s.nodes[x].slaveof = master}
  IN CASE \/ me.role = "master" \/ master = NULL
          \/ s.nodes[master].health # "fail" /\ ~manual
          \/ Slots(s, master) = {} -> t
       [] OTHER ->
     CASE s.stage = "none" ->
            clusterBroadcastPong(
              [t EXCEPT !.stage = IF s.mf_end THEN "open" ELSE "delay",
                        !.auth_count = 0, !.auth_sent = FALSE, !.late = FALSE], ring)
       [] s.stage \in {"delay", "expired"} -> t
       [] s.stage = "open" /\ ~s.auth_sent ->
            clusterDoBeforeSleep(
              [clusterRequestFailoverAuth(
                 [t EXCEPT !.currentEpoch = @ + 1, !.auth_epoch = s.currentEpoch + 1])
               EXCEPT !.auth_sent = TRUE], {"save", "state", "fsync"})
       [] s.stage = "open" /\ s.auth_sent /\ s.auth_count >= (s.size \div 2) + 1 ->
            clusterFailoverReplaceYourMaster(
              [t EXCEPT !.nodes[s.name].epoch = IF @ < s.auth_epoch THEN s.auth_epoch ELSE @,
                        !.elected = @ \cup {[epoch |-> s.auth_epoch, late |-> s.late]}])
       [] OTHER -> t

MutantDoNotWait(s) ==
  IF s.mf_end /\ s.mf_master_offset # 0 THEN [s EXCEPT !.mf_can_start = TRUE] ELSE s

clusterHandleManualFailover(s) ==
  IF s.mf_end /\ s.mf_master_offset # 0 /\ s.mf_master_offset = s.offset
  THEN [s EXCEPT !.mf_can_start = TRUE] ELSE s

\* Migration of a slave to a master without slaves.  cluster-migration-barrier is 1
OkSlaves(s, n) == {x \in Slaves(s, n) : s.nodes[x].health # "fail"}

Orphaned(s) == {n \in Known(s) : /\ IsMaster(s, n) /\ s.nodes[n].health # "fail"
                                 /\ s.nodes[n].migrate_to /\ OkSlaves(s, n) = {}}

MaxSlaves(s) ==
  Max({0} \cup {Cardinality(OkSlaves(s, n)) : n \in {x \in Known(s) \ {s.name} :
                   IsMaster(s, x) /\ s.nodes[x].health # "fail"}})

\* target: the first orphan in the table; ripe: it has been one for some time
clusterHandleSlaveMigration(s, target, ripe) ==
  LET master == s.nodes[s.name].slaveof
      spare  == {x \in Slaves(s, master) : s.nodes[x].health = "ok"}
      full   == {n \in Known(s) : IsMaster(s, n)
                                  /\ Cardinality(OkSlaves(s, n)) = MaxSlaves(s)}
      rivals == UNION {Slaves(s, n) : n \in full}
      t      == [s EXCEPT !.orphaned = Orphaned(s)]
  IN IF ~s.ok \/ master = NULL \/ Cardinality(spare) <= 1 THEN s
     ELSE IF /\ target \in Orphaned(s) \cap s.orphaned /\ Slots(s, target) # {} /\ ripe
             /\ \A x \in rivals : s.name <= x
     THEN clusterSetMaster(t, target) ELSE t

-----------------------------------------------------------------------------
(* The timer *)

Ping(s, n) ==
  IF n \in s.handshake
  THEN [clusterSendPing(s, IF n \in s.meet THEN "meet" ELSE "ping", n, "handshake")
        EXCEPT !.meet = @ \ {n}]
  ELSE clusterSendPing(s, "ping", n, "link")

CronNodes(s, ping, late, gone) ==
  LET a == [s EXCEPT !.handshake = @ \ gone, !.meet = @ \ gone]
      P(n) == n \in late /\ s.nodes[n].health = "ok"
  IN [(IF ping = NULL THEN a ELSE Ping(a, ping)) EXCEPT !.nodes = [n \in Node |->
        IF P(n) THEN [s.nodes[n] EXCEPT !.health = "pfail"] ELSE s.nodes[n]]]

\* The masters without slaves are counted in s, before the failover that leads to t
CronMigration(s, t, target, ripe) ==
  LET me == s.nodes[s.name]
  IN IF /\ \E n \in Orphaned(s) \ {s.name} : Slots(s, n) # {}
        /\ MaxSlaves(s) >= 2
        /\ me.slaveof # NULL /\ s.nodes[me.slaveof].health # "fail"
        /\ Cardinality(OkSlaves(s, me.slaveof)) = MaxSlaves(s)
     THEN clusterHandleSlaveMigration(t, target, ripe) ELSE t

CronSlave(s, target, ripe) ==
  IF IsMaster(s, s.name) THEN s
  ELSE CronMigration(s, clusterHandleSlaveFailover(clusterHandleManualFailover(s)),
                     target, ripe)

manualFailoverCheckTimeout(s, over) ==
  IF s.mf_end /\ over THEN resetManualFailover(s) ELSE s

CronState(s, changed) == IF changed \/ ~s.ok THEN clusterUpdateState(s) ELSE s

\* ping: who is pinged; late: whose answer is overdue; gone: whose handshake timed out;
\* over: a manual failover timed out
clusterCron(s, ping, late, gone, over, target, ripe) ==
  CronState(
    CronSlave(manualFailoverCheckTimeout(CronNodes(s, ping, late, gone), over), target, ripe),
    \E n \in late : s.nodes[n].health = "ok")

DueFailover(s) == IF "failover" \in s.todo THEN clusterHandleSlaveFailover(s) ELSE s
DueState(s)    == IF "state" \in s.todo THEN clusterUpdateState(s) ELSE s
DueSave(s)     == IF "save" \in s.todo THEN clusterSaveConfig(s) ELSE s

clusterBeforeSleep(s) == [DueSave(DueState(DueFailover(s))) EXCEPT !.todo = {}]

-----------------------------------------------------------------------------
(* Start and restart *)

\* The state of a process that has just loaded its file f
clusterLoadConfig(name, f, keys, offset) ==
  LET raw == [name |-> name, currentEpoch |-> f.currentEpoch,
              lastVoteEpoch |-> f.lastVoteEpoch, ok |-> FALSE, size |-> 1,
              boot |-> TRUE, minority |-> FALSE,
              nodes |-> f.nodes, slots |-> f.slots, importing |-> f.importing,
              migrating |-> f.migrating, handshake |-> {}, meet |-> {}, blacklist |-> {},
              orphaned |-> {}, stage |-> "none", auth_count |-> 0, auth_sent |-> FALSE,
              auth_epoch |-> 0, mf_end |-> FALSE, mf_can_start |-> FALSE, mf_slave |-> NULL,
              mf_master_offset |-> 0, todo |-> {}, out |-> {}, file |-> f,
              keys |-> keys, offset |-> offset, late |-> FALSE, elected |-> {}]
      target(n) == \/ Slaves(raw, n) # {}
                   \/ Slots(raw, n) # {} /\ clusterMastersHaveSlaves(raw)
  IN [raw EXCEPT !.currentEpoch = clusterGetMaxEpoch(raw),
                 !.nodes = [n \in Node |-> [@[n] EXCEPT !.migrate_to = target(n)]]]

\* Keys of slots that belong to nobody or to another node
verifyClusterConfigWithData(s) ==
  LET odd  == {k \in s.keys : s.slots[k] # s.name /\ s.importing[k] = NULL}
      free == {k \in odd : s.slots[k] = NULL}
      t    == [clusterAddSlots(s, s.name, free) EXCEPT
                 !.importing = [k \in Slot |-> IF k \in odd \ free THEN s.slots[k] ELSE @[k]]]
  IN IF ~IsMaster(s, s.name) \/ odd = {} THEN s ELSE clusterSaveConfig(t)

-----------------------------------------------------------------------------
(* CLUSTER commands.  A command that is refused changes nothing *)

\* CLUSTER RESET SOFT.  RESET HARD also draws a new name and sets the epochs to zero, which
\* makes a node that no other node knows: nodes are fixed names here, and it is left out
clusterReset(s) ==
  LET me == s.name
      a  == IF IsMaster(s, me) THEN s ELSE [clusterSetNodeAsMaster(s, me) EXCEPT !.keys = {}]
      b  == clusterDelSlots(resetManualFailover(clusterCloseAllSlots(a)), Slot)
  IN clusterDoBeforeSleep(
       [b EXCEPT !.handshake = {}, !.meet = {},
                 !.nodes = [n \in Node |->
                    IF n # me THEN createClusterNode(FALSE, "master")
                    ELSE [@[n] EXCEPT !.slaveof = NULL, !.reports = {}, !.migrate_to = FALSE]]],
       {"save", "state", "fsync"})

MutantSameEpoch(s, k, n) ==
  LET a == [s EXCEPT !.importing[k] = IF n = s.name THEN NULL ELSE @,
                     !.migrating[k] = IF k \notin s.keys THEN NULL ELSE @]
  IN IF s.slots[k] = s.name /\ n # s.name /\ k \in s.keys THEN s
     ELSE clusterAddSlots(clusterDelSlots(a, {k}), n, {k})

setslotNode(s, k, n) ==
  LET busy == s.slots[k] = s.name /\ n # s.name /\ k \in s.keys
      a == IF k \notin s.keys THEN [s EXCEPT !.migrating[k] = NULL] ELSE s
      b == IF n = s.name /\ s.importing[k] # NULL
           THEN [clusterBumpConfigEpochWithoutConsensus(a) EXCEPT !.importing[k] = NULL] ELSE a
  IN IF busy THEN s ELSE clusterAddSlots(clusterDelSlots(b, {k}), n, {k})

clusterFailover(s, how) ==
  LET master == s.nodes[s.name].slaveof
      a == [resetManualFailover(s) EXCEPT !.mf_end = TRUE]
  IN IF \/ IsMaster(s, s.name) \/ master = NULL
        \/ how = "failover" /\ s.nodes[master].health = "fail" THEN s
     ELSE CASE how = "takeover" -> clusterFailoverReplaceYourMaster(
                                     clusterBumpConfigEpochWithoutConsensus(a))
            [] how = "force"    -> [a EXCEPT !.mf_can_start = TRUE]
            [] how = "failover" -> clusterSendMFStart(a, master)

clusterReplicate(s, n) ==
  IF \/ n = s.name \/ ~IsMaster(s, n)
     \/ IsMaster(s, s.name) /\ (Slots(s, s.name) # {} \/ s.keys # {}) THEN s
  ELSE clusterDoBeforeSleep(clusterSetMaster(s, n), {"save", "state"})

\* c names a node c.arg and a slot c.slot
Changed(s, t) == IF t = s THEN s ELSE clusterDoBeforeSleep(t, {"save", "state"})

slotsCommand(s, c) ==
  LET k == c.slot
      closed == [s EXCEPT !.importing[k] = NULL]
  IN Changed(s,
       CASE c.op = "addslots" /\ s.slots[k] = NULL -> clusterAddSlots(closed, s.name, {k})
         [] c.op = "delslots" /\ s.slots[k] # NULL -> clusterDelSlots(closed, {k})
         [] c.op = "flushslots" /\ s.keys = {} -> clusterDelSlots(s, Slots(s, s.name))
         [] OTHER -> s)

setslotCommand(s, c) ==
  LET k == c.slot
      own == s.slots[k] = s.name
  IN IF ~IsMaster(s, s.name) \/ c.arg \notin Known(s) THEN s
     ELSE Changed(s,
       CASE c.op = "migrating" /\ own -> [s EXCEPT !.migrating[k] = c.arg]
         [] c.op = "importing" /\ ~own -> [s EXCEPT !.importing[k] = c.arg]
         [] c.op = "stable" -> [s EXCEPT !.importing[k] = NULL, !.migrating[k] = NULL]
         [] c.op = "node" -> setslotNode(s, k, c.arg)
         [] OTHER -> s)

clusterForget(s, n) ==
  IF n \notin Known(s) \ {s.name, s.nodes[s.name].slaveof} THEN s
  ELSE Changed(s, [clusterDelNode(s, n) EXCEPT !.blacklist = @ \cup {n}])

setConfigEpoch(s, e) ==
  IF Known(s) # {s.name} \/ s.nodes[s.name].epoch # 0 THEN s
  ELSE Changed(s, [s EXCEPT !.nodes[s.name].epoch = e, !.currentEpoch = IF @ < e THEN e ELSE @])

clusterCommand(s, c) ==
  CASE c.op = "meet" -> clusterStartHandshake(s, {c.arg})
    [] c.op \in {"addslots", "delslots", "flushslots"} -> slotsCommand(s, c)
    [] c.op \in {"migrating", "importing", "stable", "node"} -> setslotCommand(s, c)
    [] c.op = "bumpepoch" -> clusterBumpConfigEpochWithoutConsensus(s)
    [] c.op = "set-config-epoch" -> setConfigEpoch(s, c.arg)
    [] c.op = "forget" -> clusterForget(s, c.arg)
    [] c.op = "replicate" /\ c.arg \in Known(s) -> clusterReplicate(s, c.arg)
    [] c.op \in {"failover", "force", "takeover"} -> clusterFailover(s, c.op)
    [] c.op = "reset" /\ (~IsMaster(s, s.name) \/ s.keys = {}) -> clusterReset(s)
    [] c.op = "saveconfig" -> clusterSaveConfig(s)
    [] OTHER -> s

\* Where a command about the only key of slot k is served: a node, with "ask" when the
\* client was not sent there for good.  NULL: the cluster is down.
getNodeByQuery(s, k, asking) ==
  LET n == s.slots[k]
      missing == k \notin s.keys
  IN CASE n = NULL \/ ~s.ok -> <<"down", NULL>>
       [] n = s.name /\ s.migrating[k] # NULL /\ missing -> <<"ask", s.migrating[k]>>
       [] ~(n = s.name /\ s.migrating[k] # NULL) /\ s.importing[k] # NULL /\ asking ->
            <<"serve", s.name>>
       [] OTHER -> IF n = s.name THEN <<"serve", n>> ELSE <<"moved", n>>
=============================================================================
