----------------------------- MODULE MCCluster -----------------------------
(***************************************************************************)
(* Instances of Cluster.  Nodes 1 to 3 are masters and 4 and 5 slaves,     *)
(* unless a scenario says otherwise; a node that is alone and not up does  *)
(* not exist.                                                              *)
(***************************************************************************)
EXTENDS Cluster, TLC

MCNode == 1..5
MCSlot == 0..2

Owners(a, b, c) == (0 :> a) @@ (1 :> b) @@ (2 :> c)
AllOk == [n \in MCNode |-> "ok"]
Never == [e \in Event |-> 0]
C(node, op, slot, arg) == [node |-> node, op |-> op, slot |-> slot, arg |-> arg]

Base == [master |-> <<0, 0, 0, 1, 1>>, owner |-> Owners(1, 2, 3), epoch |-> <<1, 2, 3, 1, 1>>,
         health |-> AllOk, up |-> MCNode, alone |-> {}, keys |-> {}, max |-> Never,
         pings |-> MCNode \X MCNode, fragile |-> {}, script |-> <<>>]
Masters == [Base EXCEPT !.master = <<0, 0, 0, 0, 0>>, !.up = 1..3, !.alone = 4..5]

\* Two slaves compete for a master that has failed
Election == [Base EXCEPT !.health[1] = "fail", !.up = 2..5, !.max = [Never EXCEPT !.tick = 2]]

\* ... and one of two voters, the only one that runs, crashes
Voter == [Election EXCEPT !.up = {2, 4, 5}, !.fragile = {2},
                          !.max = [Never EXCEPT !.tick = 2, !.crash = 1]]

\* The nodes suspect each other, and one of them does not run
Detect == [Base EXCEPT !.master = <<0, 0, 0, 1, 0>>, !.up = 2..4, !.alone = {5},
                       !.max = [Never EXCEPT !.ping = 2, !.late = 2, !.settle = 1]]

Manual == [Base EXCEPT !.master = <<0, 0, 0, 1, 0>>, !.up = 1..4, !.alone = {5},
                       !.max = [Never EXCEPT !.ping = 1, !.tick = 1, !.expire = 1, !.write = 1],
                       !.script = <<C(4, "failover", 0, NULL)>>]

\* The steps of redis-trib to move the only slot of node 2 to node 1
Reshard == [Masters EXCEPT !.owner = Owners(2, 1, 1), !.up = 1..2, !.alone = 3..5, !.keys = {0},
                           !.fragile = {1},
                           !.max = [Never EXCEPT !.ping = 3, !.crash = 1, !.settle = 1],
                           !.script = <<C(1, "importing", 0, 2), C(2, "migrating", 0, 1),
                                        C(2, "migrate", 0, 1), C(1, "node", 0, 1),
                                        C(2, "node", 0, 1)>>]

\* Masters that were created with the same epoch
Collide == [Masters EXCEPT !.epoch = <<1, 1, 1, 1, 1>>, !.max = [Never EXCEPT !.ping = 3]]

\* Both slaves of a master that has failed are told to take over
Takeover == [Election EXCEPT !.up = 4..5, !.pings = {<<4, 5>>, <<5, 4>>},
                             !.max = [Never EXCEPT !.ping = 1],
                             !.script = <<C(4, "takeover", 0, NULL), C(5, "takeover", 0, NULL)>>]

Meet == [Masters EXCEPT !.epoch = <<0, 0, 0, 0, 0>>, !.alone = MCNode,
                        !.max = [Never EXCEPT !.ping = 4, !.expire = 1],
                        !.script = <<C(1, "meet", 0, 2), C(2, "meet", 0, 3)>>]

\* A cluster is created: slots, epochs, a slave; node 3 is reset later
Create == [Masters EXCEPT !.epoch = <<0, 0, 0, 0, 0>>, !.alone = MCNode, !.up = {1, 3},
                          !.owner = [k \in MCSlot |-> NULL], !.max = [Never EXCEPT !.ping = 3],
                          !.script = <<C(1, "addslots", 0, NULL), C(1, "addslots", 1, NULL),
                                       C(1, "delslots", 1, NULL), C(1, "set-config-epoch", 0, 1),
                                       C(1, "meet", 0, 3), C(3, "replicate", 0, 1),
                                       C(1, "bumpepoch", 0, NULL), C(3, "reset", 0, NULL),
                                       C(1, "flushslots", 0, NULL), C(1, "saveconfig", 0, NULL)>>]

Forget == [Masters EXCEPT !.max = [Never EXCEPT !.ping = 2, !.expire = 1],
                          !.script = <<C(1, "forget", 0, 3), C(2, "forget", 0, 3)>>]

\* Node 1 has two slaves, the only slave of node 2 has failed
Migrate == [Base EXCEPT !.master = <<0, 0, 1, 1, 2>>, !.owner = Owners(1, 2, 2),
                        !.epoch = <<1, 2, 1, 1, 2>>, !.health[5] = "fail", !.up = 1..4,
                        !.max = [Never EXCEPT !.ping = 1, !.late = 1]]

Scenarios == {Election, Voter, Detect, Manual, Reshard, Collide, Takeover, Meet, Create, Forget,
              Migrate}
=============================================================================
