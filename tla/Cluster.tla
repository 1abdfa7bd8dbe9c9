------------------------------ MODULE Cluster ------------------------------
(***************************************************************************)
(* Nodes of a cluster (ClusterNode) that exchange packets over the bus, an *)
(* administrator who sends CLUSTER commands, crashes and restarts.         *)
(*                                                                         *)
(* A packet is delivered at any time, in any order, or never: packets of   *)
(* one connection are ordered, but every pair of nodes has two connections *)
(* and a node that reconnects leaves behind one that may still be read.    *)
(* After a handler the process runs clusterBeforeSleep before it writes    *)
(* packets to the network (AE_BARRIER) and before it handles anything      *)
(* else; it may crash in between.                                          *)
(***************************************************************************)
EXTENDS ClusterNode, Sequences

CONSTANTS
  Configs,    \* topologies with what may happen in them
  MaxEpoch,   \* bound on epochs
  MaxOffset   \* bound on replication offsets

Event == {"ping", "late", "tick", "crash", "expire", "write", "settle"}

\* master: the master of each node, NULL for masters; owner: of each slot; epoch: the
\* configEpoch of each node; health: of each node, as the others see it; up: running
\* processes; alone: the nodes that know nobody; keys: the slots with a key; max: how often
\* an event happens; pings: who pings whom; fragile: the nodes that may crash; script:
\* what the administrator does
Config == [master : [Node -> Node \cup {NULL}], owner : [Slot -> Node \cup {NULL}],
           epoch : [Node -> Nat], health : [Node -> Health], up : SUBSET Node,
           alone : SUBSET Node, keys : SUBSET Slot, max : [Event -> Nat],
           pings : SUBSET (Node \X Node), fragile : SUBSET Node,
           script : Seq([node : Node, op : STRING, slot : Slot, arg : Node \cup {NULL}])]

ASSUME ConfigAssumption == Configs # {} /\ \A c \in Configs : c \in Config

VARIABLES
  conf,    \* the scenario
  used,    \* how often each event has happened
  srv,     \* the state of each node
  up,      \* running processes
  awake,   \* the node that has handled an event and is about to sleep, or NULL
  net,     \* packets in flight
  pc,      \* the next command of the administrator
  votes,   \* history: the votes that were sent
  suspected  \* history: <<i, n>> when i has had n as possibly failing

vars == <<conf, used, srv, up, awake, net, pc, votes, suspected>>

Happens(e) == used[e] < conf.max[e] /\ used' = [used EXCEPT ![e] = @ + 1]

\* A running cluster.  Nodes that are alone know only themselves
File(c, i) ==
  [currentEpoch |-> IF i \in c.alone THEN c.epoch[i] ELSE Max({c.epoch[n] : n \in Node}),
   lastVoteEpoch |-> 0,
   nodes |-> [n \in Node |->
      IF n # i /\ (i \in c.alone \/ n \in c.alone) THEN createClusterNode(FALSE, "master")
      ELSE [createClusterNode(TRUE, IF c.master[n] = NULL THEN "master" ELSE "slave") EXCEPT
              !.slaveof = c.master[n], !.epoch = c.epoch[n],
              !.health = IF n = i THEN "ok" ELSE c.health[n]]],
   slots |-> [k \in Slot |->
      IF c.owner[k] # i /\ (i \in c.alone \/ c.owner[k] \in c.alone) THEN NULL ELSE c.owner[k]],
   importing |-> [k \in Slot |-> NULL], migrating |-> [k \in Slot |-> NULL]]

Running(c, i) ==
  LET keys == {k \in c.keys : c.owner[k] \in {i, c.master[i]}}
  IN clusterUpdateState([clusterLoadConfig(i, File(c, i), keys, 1) EXCEPT !.boot = FALSE])

Init ==
  /\ conf \in Configs
  /\ used = [e \in Event |-> 0]
  /\ srv = [i \in Node |-> Running(conf, i)]
  /\ up = conf.up
  /\ awake = NULL
  /\ net = {}
  /\ pc = 1
  /\ votes = {}
  /\ suspected = {}

\* Node i runs, and is not about to call beforeSleep
Ready(i) == awake = NULL /\ i \in up

\* Node i has handled an event
Handled(i, s) ==
  /\ suspected' = suspected \cup {<<i, n>> : n \in {x \in Known(s) : s.nodes[x].health = "pfail"}}
  /\ s.currentEpoch <= MaxEpoch
  /\ srv' = [srv EXCEPT ![i] = s]
  /\ awake' = IF s.todo = {} /\ s.out = {} THEN NULL ELSE i
  /\ UNCHANGED <<conf, up, votes>>

clusterReadHandler(i) ==
  /\ Ready(i)
  /\ \E m \in {x \in net : x.to = i} : \E long, soon \in BOOLEAN :
       /\ soon => srv[i].lastVoteEpoch # 0
       /\ Handled(i, clusterProcessPacket(srv[i], m, long, soon))
       /\ net' = net \ {m}
  /\ UNCHANGED <<used, pc>>

\* One call of the timer pings one node at most
PingCron(i) ==
  /\ Ready(i) /\ Happens("ping")
  /\ \E n \in (Known(srv[i]) \cup srv[i].handshake) \ {i} :
       /\ <<i, n>> \in conf.pings
       /\ Handled(i, clusterCron(srv[i], n, {}, {}, FALSE, NULL, FALSE))
  /\ UNCHANGED <<net, pc>>

LateCron(i) ==
  /\ Ready(i) /\ Happens("late")
  /\ \E n \in Known(srv[i]) \ {i} :
       /\ srv[i].nodes[n].health = "ok"
       /\ Handled(i, clusterCron(srv[i], NULL, {n}, {}, FALSE, NULL, FALSE))
  /\ UNCHANGED <<net, pc>>

\* ASSUMED of the clocks: the slave gives up a manual failover before its master does.  Both
\* wait CLUSTER_MF_TIMEOUT, the slave from its command, the master from the later MFSTART;
\* the pause of the clients lasts twice as long.  A slave whose event loop stands still for
\* the whole of that time is outside of the model
Cron(i) ==
  /\ Ready(i)
  /\ \E over, ripe \in BOOLEAN, target \in Orphaned(srv[i]) \cup {NULL},
        gone \in SUBSET srv[i].handshake :
       LET s == clusterCron(srv[i], NULL, {}, gone, over, target, ripe)
           x == srv[i].mf_slave
       IN /\ over => /\ srv[i].mf_end
                     /\ x # NULL => ~srv[x].mf_end
                     /\ Happens("expire")
          /\ gone # {} => Happens("expire")
          /\ ~over /\ gone = {} => UNCHANGED used
          /\ s # srv[i]
          /\ Handled(i, s)
  /\ UNCHANGED <<net, pc>>

Asleep(i, s) ==
  /\ s.currentEpoch <= MaxEpoch
  /\ srv' = [srv EXCEPT ![i] = [s EXCEPT !.out = {}]]
  /\ net' = net \cup {m \in s.out : m.to \in up}
  /\ votes' = votes \cup {<<i, m.currentEpoch, m.to>> : m \in {x \in s.out : x.type = "auth_ack"}}

beforeSleep(i) ==
  /\ awake = i /\ i \in up
  /\ Asleep(i, clusterBeforeSleep(srv[i]))
  /\ awake' = NULL
  /\ UNCHANGED <<conf, used, up, pc, suspected>>

\* Time passes for the election of a slave
Tick(i) ==
  LET next == [none |-> "none", delay |-> "open", open |-> "expired", expired |-> "none"]
  IN /\ Ready(i)
     /\ srv[i].stage # "none"
     /\ Happens("tick")
     /\ srv' = [srv EXCEPT ![i].stage = next[@]]
     /\ UNCHANGED <<conf, up, awake, net, pc, votes, suspected>>

\* A failure report, or an entry of the blacklist, gets too old
Expire(i) ==
  /\ Ready(i)
  /\ Happens("expire")
  /\ \/ \E n \in Known(srv[i]) : \E x \in srv[i].nodes[n].reports :
          srv' = [srv EXCEPT ![i].nodes[n].reports = @ \ {x}]
     \/ \E n \in srv[i].blacklist : srv' = [srv EXCEPT ![i].blacklist = @ \ {n}]
  /\ UNCHANGED <<conf, up, awake, net, pc, votes, suspected>>

\* The delays that follow a start and a return to the majority
Settle(i) ==
  /\ Ready(i)
  /\ srv[i].boot \/ srv[i].minority
  /\ Happens("settle")
  /\ srv' = [srv EXCEPT ![i].boot = FALSE, ![i].minority = FALSE]
  /\ UNCHANGED <<conf, up, awake, net, pc, votes, suspected>>

\* The process is killed: what it has not written is lost.  The administrator's tool
\* loses its connection and gives up, unless it is done with this node
Crash(i) ==
  /\ i \in up \cap conf.fragile /\ awake \in {NULL, i}
  /\ Happens("crash")
  /\ up' = up \ {i}
  /\ srv' = [srv EXCEPT ![i] =
       [clusterLoadConfig(i, @.file, @.keys, @.offset) EXCEPT !.elected = srv[i].elected]]
  /\ net' = {m \in net : m.to # i}
  /\ awake' = NULL
  /\ pc' = IF \E x \in 1..Len(conf.script) :
                  conf.script[x].node = i /\ (x >= pc \/ (x = pc - 1 /\ awake = i))
           THEN Len(conf.script) + 1 ELSE pc
  /\ UNCHANGED <<conf, votes, suspected>>

Restart(i) ==
  /\ awake = NULL /\ i \notin up
  /\ i \in conf.fragile
  /\ up' = up \cup {i}
  /\ srv' = [srv EXCEPT ![i] = verifyClusterConfigWithData(@)]
  /\ UNCHANGED <<conf, used, awake, net, pc, votes, suspected>>

\* Clients of a master, whose writes reach the slaves later
Write(i) ==
  /\ Ready(i)
  /\ IsMaster(srv[i], i) /\ ~srv[i].mf_end /\ srv[i].ok
  /\ srv[i].offset < MaxOffset /\ Happens("write")
  /\ srv' = [srv EXCEPT ![i].offset = @ + 1]
  /\ UNCHANGED <<conf, up, awake, net, pc, votes, suspected>>

Replicate(i) ==
  LET m == srv[i].nodes[i].slaveof
  IN /\ Ready(i)
     /\ m \in up
     /\ srv[m].offset # srv[i].offset \/ srv[m].keys # srv[i].keys
     /\ srv' = [srv EXCEPT ![i].offset = srv[m].offset, ![i].keys = srv[m].keys]
     /\ UNCHANGED <<conf, used, up, awake, net, pc, votes, suspected>>

\* MIGRATE: the key is restored on the target, which must accept it, and deleted when
\* the answer arrives.  When it does not, the administrator's tool gives up
migrateCommand(c) ==
  LET src == srv[c.node]  dst == srv[c.arg]
      open == src.migrating[c.slot] # NULL \/ src.importing[c.slot] # NULL
      accepts == getNodeByQuery(dst, c.slot, TRUE)[1] = "serve" /\ c.slot \notin dst.keys
  IN /\ c.arg \in up
     /\ \/ /\ open /\ accepts /\ c.slot \in src.keys
           /\ srv' = [srv EXCEPT ![c.node].keys = @ \ {c.slot}, ![c.arg].keys = @ \cup {c.slot}]
           /\ pc' = pc + 1
        \/ /\ open /\ accepts /\ c.slot \in src.keys
           /\ srv' = [srv EXCEPT ![c.arg].keys = @ \cup {c.slot}]
           /\ pc' = Len(conf.script) + 1
        \/ /\ c.slot \notin src.keys
           /\ pc' = pc + 1
           /\ UNCHANGED srv
     /\ UNCHANGED <<conf, up, votes, awake, suspected>>

Admin ==
  LET c == conf.script[pc]
  IN /\ pc <= Len(conf.script)
     /\ Ready(c.node)
     /\ IF c.op = "migrate" THEN migrateCommand(c)
        ELSE Handled(c.node, clusterCommand(srv[c.node], c)) /\ pc' = pc + 1
     /\ UNCHANGED <<used, net>>

Next ==
  \/ Admin
  \/ \E i \in Node :
       \/ clusterReadHandler(i) \/ PingCron(i) \/ LateCron(i) \/ Cron(i) \/ beforeSleep(i)
       \/ Tick(i) \/ Expire(i) \/ Settle(i) \/ Crash(i) \/ Restart(i)
       \/ Write(i) \/ Replicate(i)

Spec == Init /\ [][Next]_vars

-----------------------------------------------------------------------------
(* Properties *)

\* Every name in the tables of a node is the name of a node in its table of nodes:
\* clusterDelNode leaves no pointer to the node that it frees
TypeOK ==
  /\ \A i \in Node :
       LET s == srv[i]
       IN /\ s.currentEpoch \in 0..MaxEpoch /\ s.lastVoteEpoch \in 0..MaxEpoch
          /\ s.slots \in [Slot -> Known(s) \cup {NULL}]
          /\ s.importing \in [Slot -> Known(s) \cup {NULL}]
          /\ s.migrating \in [Slot -> Known(s) \cup {NULL}]
          /\ \A n \in Node : s.nodes[n].slaveof \in Known(s) \cup {NULL}
          /\ s.name = i /\ i \in Known(s)
  /\ awake \in up \cup {NULL}

\* No configuration is newer than the epoch of the node that knows it: otherwise a
\* slave could be elected with an epoch that is already in use
EpochsBounded ==
  /\ \A i \in Node : \A n \in Node : srv[i].nodes[n].epoch <= srv[i].currentEpoch
  /\ \A m \in net : m.configEpoch <= m.currentEpoch /\ m.aboutEpoch <= m.currentEpoch
  /\ \A i \in Node : srv[i].lastVoteEpoch <= srv[i].currentEpoch

\* A master votes once in an epoch, restarts included: the vote is in the file before
\* the packet is sent (clusterSendFailoverAuthIfNeeded)
OneVote == \A v, w \in votes : v[1] = w[1] /\ v[2] = w[2] => v = w

\* Two slaves never win elections of the same epoch, if both count only votes that were
\* given in their election
ElectedOnce ==
  \A i, j \in Node : \A e \in srv[i].elected, f \in srv[j].elected :
    i # j /\ ~e.late /\ ~f.late => e.epoch # f.epoch

\* A slave has a master (clusterFailoverReplaceYourMaster and clusterHandleSlaveFailover
\* use it), serves no slot and has no open slot (the assertions of clusterSetMaster)
SlavesHaveMasters ==
  \A i \in Node : ~IsMaster(srv[i], i) =>
     /\ srv[i].nodes[i].slaveof # NULL
     /\ Slots(srv[i], i) = {}
     /\ \A k \in Slot : srv[i].importing[k] = NULL /\ srv[i].migrating[k] = NULL

\* Masters that serve slots
Voters(c) == {n \in Node : \E k \in Slot : c.owner[k] = n}

\* A node is FAIL for some node only if a majority of the masters has found it not
\* reachable by itself (markNodeAsFailingIfNeeded), whatever was gossiped
FailByMajority ==
  \A i \in up, n \in Node :
    srv[i].nodes[n].health = "fail" /\ conf.health[n] # "fail" =>
      2 * Cardinality({j \in Voters(conf) : <<j, n>> \in suspected}) > Cardinality(Voters(conf))

\* A fresh ping of j would tell i nothing new
Told(i, j) ==
  LET View(s) == <<s.currentEpoch, s.slots, [n \in Node |->
                     <<s.nodes[n].role, s.nodes[n].slaveof, s.nodes[n].epoch>>]>>
      m == CHOOSE x \in clusterSendPing(srv[j], "ping", i, "link").out : x.to = i
      t == clusterProcessPacket(srv[i], m, FALSE, FALSE)
      updates == {x \in t.out : x.type = "update"}
  IN /\ View(t) = View(srv[i])
     /\ \A x \in updates : View(clusterProcessPacket(srv[j], x, FALSE, FALSE)) = View(srv[j])

Settled ==
  /\ net = {} /\ awake = NULL /\ up = conf.up
  /\ \A i, j \in up : j \in Known(srv[i]) /\ (i # j => Told(i, j))
  /\ \A i \in up, k \in Slot : srv[i].importing[k] = NULL

\* Nodes that have nothing new to tell each other agree on who serves each slot: the
\* rules of clusterUpdateSlotsConfigWith and the UPDATE packets leave no disagreement, but
\* that a slot is removed (DELSLOTS) is not told
NoStuckDisagreement ==
  Settled => \A i, j \in up, k \in Slot :
               srv[i].slots[k] # NULL /\ srv[j].slots[k] # NULL => srv[i].slots[k] = srv[j].slots[k]

\* ... and no two masters have the same configEpoch (clusterHandleConfigEpochCollision)
DistinctEpochs ==
  Settled => \A i, j \in up : i # j /\ IsMaster(srv[i], i) /\ IsMaster(srv[j], j)
                => srv[i].nodes[i].epoch # srv[j].nodes[j].epoch

\* Resharding loses no key: a node drops the keys of a slot it loses
\* (clusterUpdateSlotsConfigWith) only if they are somewhere else
KeyKept == \A k \in conf.keys : \E i \in Node : k \in srv[i].keys

\* Replica migration does not leave a master without slaves: several slaves that decide
\* by themselves (clusterHandleSlaveMigration) do not all go
MasterKeepsSlave ==
  \A n \in Node :
    (\E i \in conf.up : conf.master[i] = n) /\ n \in up /\ conf.script = <<>>
      => \E i \in Node : srv[i].nodes[i].slaveof = n

\* A client that follows the redirections of getNodeByQuery while a slot moves is never
\* told that a key does not exist
NoFalseMiss ==
  \A i \in up, k \in conf.keys :
    LET q == getNodeByQuery(srv[i], k, FALSE)
    IN /\ q[1] = "serve" => k \in srv[i].keys
       /\ q[1] = "ask" /\ q[2] \in up
          => (getNodeByQuery(srv[q[2]], k, TRUE)[1] = "serve" => k \in srv[q[2]].keys)

\* A slave takes over in a manual failover with all that its master has
ManualNoLoss ==
  [][\A i \in Node :
      LET m == srv[i].nodes[i].slaveof
      IN /\ ~IsMaster(srv[i], i) /\ IsMaster(srv'[i], i) /\ m # NULL
         /\ srv[i].mf_end /\ srv[i].mf_master_offset # 0
         => srv[i].offset = srv[m].offset]_vars

\* Nodes that have nothing new to tell each other agree: no slot has two owners and
\* no two masters have the same epoch
SettledAgree == NoStuckDisagreement /\ DistinctEpochs

\* Slaves have masters to replace and masters that had slaves keep one
SlavesKept == SlavesHaveMasters /\ MasterKeepsSlave

\* No key is lost and no client is told that a key that exists does not, while a slot
\* moves from node to node
KeysServed == KeyKept /\ NoFalseMiss
=============================================================================
