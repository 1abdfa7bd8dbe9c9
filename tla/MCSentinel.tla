----------------------------- MODULE MCSentinel -----------------------------
(***************************************************************************)
(* Instances of Sentinel: instance 1 is the master, the others its slaves. *)
(***************************************************************************)
EXTENDS Sentinel, TLC

MCSentinels == 1..3
MCInstance == 1..4
MCHost == 1..4
Never == [e \in Event |-> 0]
C(node, op, arg) == [node |-> node, op |-> op, arg |-> arg]

All == MCSentinels \X MCSentinels

Base == [master |-> <<NULL, 1, 1, 1>>, down |-> {4}, cut |-> {}, up |-> 1..3, watched |-> 1,
         slaves |-> {2, 3}, friends |-> 1..3, quorum |-> 2, parallel_syncs |-> 1,
         rank |-> [x \in MCInstance |-> [priority |-> 1, offset |-> x]], unfit |-> {{}},
         max |-> Never, fragile |-> {}, flags |-> {}, active |-> 1..3, hears |-> {},
         infos |-> {}, script |-> <<>>]

\* The master is down for all; two Sentinels want to fail over, the third one crashes
Down == [Base EXCEPT !.down = {1, 4}, !.flags = {"s_down", "o_down"}, !.slaves = {2},
                     !.master = <<NULL, 1, NULL, NULL>>]
Elect == [Down EXCEPT !.max = [Never EXCEPT !.crash = 1], !.quorum = 1, !.fragile = {3}, !.active = 1..2]

\* ... and one hears of the epoch of the other
Hear == [Down EXCEPT !.active = 1..2, !.hears = {<<1, 2>>}]

\* The Sentinels find out that the master is down; one of them has trouble with its clock
Detect == [Down EXCEPT !.flags = {}, !.down = {4}, !.cut = {<<1, 1>>, <<2, 1>>}, !.active = 1..2, !.quorum = 3,
                       !.max = [Never EXCEPT !.stale = 1, !.jump = 1, !.expire = 1, !.recover = 1, !.lose = 1]]

\* A single Sentinel reconfigures three slaves
Alone == [Base EXCEPT !.down = {1}, !.flags = {"s_down", "o_down"}, !.slaves = 2..4, !.up = {1},
                      !.friends = {1}, !.quorum = 1, !.infos = {1} \X (2..4), !.fragile = {1},
                      !.max = [Never EXCEPT !.expire = 2, !.fail = 1, !.crash = 1]]

\* Sentinel 1 fails over, Sentinel 2 hears of it; the old master comes back
Observe == [Down EXCEPT !.up = 1..2, !.friends = 1..2, !.active = {1}, !.hears = {<<1, 2>>, <<2, 1>>},
                        !.infos = (1..2) \X (1..2), !.fragile = {1},
                        !.max = [Never EXCEPT !.recover = 1, !.crash = 1]]

\* The Sentinels do not know each other nor the slaves, and move
Move == [Base EXCEPT !.down = {3, 4}, !.slaves = {}, !.friends = {}, !.active = {}, !.hears = All, !.up = 1..3,
                     !.infos = {<<1, 1>>}, !.fragile = {2, 3}, !.max = [Never EXCEPT !.crash = 2]]

\* A failover that is asked for and a reset
Forced == [Base EXCEPT !.down = {4}, !.up = 1..2, !.friends = 1..2, !.active = {1}, !.hears = {<<2, 1>>, <<1, 2>>},
                       !.infos = (1..2) \X (1..2), !.unfit = {{}, {3}},
                       !.script = <<C(1, "failover", 0), C(2, "quorum", 1), C(2, "quorum", 0), C(2, "reset", 0)>>]

\* ... with a reset of the leader and a master that is removed and monitored again
Again == [Forced EXCEPT !.unfit = {{3}}, !.hears = {<<2, 1>>}, !.infos = {<<1, 1>>, <<1, 2>>, <<2, 1>>},
                        !.script = <<C(1, "failover", 0), C(1, "reset", 0), C(2, "remove", 0), C(2, "monitor", 1)>>]

\* Two failovers are asked for, at two Sentinels that choose different slaves
TwoForced == [Forced EXCEPT !.active = 1..2, !.infos = {<<1, 2>>, <<2, 3>>, <<1, 3>>, <<2, 2>>},
                            !.hears = {}, !.unfit = {{2}, {3}},
                            !.script = <<C(1, "failover", 0), C(2, "failover", 0)>>]

\* Two Sentinels want to fail over, and one counts the votes of a later epoch for its own
Rivals == [Down EXCEPT !.active = 1..2, !.slaves = {}, !.max = [Never EXCEPT !.other = 1]]

Scenarios == {Elect, Hear, Detect, Alone, Observe, Move, Forced, Again, TwoForced, Rivals}

=============================================================================
