------------------------------ MODULE Sentinel ------------------------------
(***************************************************************************)
(* Sentinels (SentinelNode) that watch Redis instances and talk to each    *)
(* other, an administrator, crashes and restarts of both.                  *)
(*                                                                         *)
(* A hello travels through the Pub/Sub channel of every instance and       *)
(* directly, hence it may be delivered late, in any order and several      *)
(* times.  The question whether the master is down and its answer use one  *)
(* connection; while an answer is due no other question is asked on it.    *)
(* SLAVEOF commands of a Sentinel for an instance arrive in order.         *)
(***************************************************************************)
EXTENDS SentinelNode

CONSTANTS
  Configs,    \* topologies with what may happen in them
  MaxEpoch    \* bound on epochs

Event == {"expire", "stale", "jump", "crash", "fail", "lose", "recover", "other"}

\* The commands of the administrator
Command == {"failover", "reset", "remove", "monitor", "quorum"}

\* master: of each instance, or NULL; down: instances that do not run; cut: the pairs of a
\* Sentinel and an instance that do not reach each other; up: running Sentinels; watched:
\* the master they monitor; slaves: the ones they know; friends: the Sentinels they know;
\* quorum, parallel_syncs: configuration; rank: of each instance for promotions; unfit: which
\* slaves may be disregarded; max: how often an event happens; fragile: the Sentinels that
\* may crash; active: the Sentinels whose timer runs; hears: <<i, j>> if a hello of j reaches
\* i in time; infos: <<i, x>> if i gets INFO of x; script: what the administrator does
Config == [master : [Instance -> Instance \cup {NULL}], down : SUBSET Instance,
           cut : SUBSET (Sentinel \X Instance), up : SUBSET Sentinel, watched : Instance,
           slaves : SUBSET Instance, friends : SUBSET Sentinel, quorum : Nat, parallel_syncs : Nat,
           rank : [Instance -> [priority : Nat, offset : Nat]], unfit : SUBSET SUBSET Instance,
           max : [Event -> Nat], fragile : SUBSET Sentinel, flags : SUBSET MasterFlag,
           active : SUBSET Sentinel, hears : SUBSET (Sentinel \X Sentinel),
           infos : SUBSET (Sentinel \X Instance),
           script : Seq([node : Sentinel, op : Command, arg : Nat])]

ASSUME ConfigAssumption ==
  /\ Configs # {} /\ \A c \in Configs : c \in Config
  /\ \A c \in Configs : \A k \in DOMAIN c.script :
       c.script[k].op = "monitor" => c.script[k].arg \in Instance

VARIABLES
  conf,     \* the scenario
  used,     \* how often each event has happened
  st,       \* the state of each Sentinel
  up,       \* running Sentinels
  at,       \* where each Sentinel listens
  inst,     \* the instances: whether they run, and their master
  cut,      \* the pairs of a Sentinel and an instance that do not reach each other
  wire,     \* SLAVEOF commands on their way
  net,      \* questions and answers on their way
  hellos,   \* hellos that were published
  pc,       \* the next command of the administrator
  votes,    \* history: <<voter, epoch, leader>>
  elected   \* history: failovers that began: the leader, the epoch, the epoch of the votes
            \* that were counted, the Sentinels that count as voters, whether they had a say

vars == <<conf, used, st, up, at, inst, cut, wire, net, hellos, pc, votes, elected>>

Happens(e) == used[e] < conf.max[e] /\ used' = [used EXCEPT ![e] = @ + 1]

InitialFile(c, i) ==
  [current_epoch |-> 0, on |-> TRUE, addr |-> c.watched, quorum |-> c.quorum, config_epoch |-> 0,
   leader_epoch |-> 0, slaves |-> c.slaves, sentinels |-> [j \in c.friends \ {i} |-> j]]

\* Sentinel i when the scenario begins
Started(c, i) ==
  LET s == sentinelHandleConfiguration(InitialFile(c, i))
      known == s.m.sentinels
  IN [s EXCEPT !.m = [s.m EXCEPT !.flags = c.flags, !.sentinels =
       [j \in DOMAIN known |-> [known[j] EXCEPT !.down = "o_down" \in c.flags]]]]

Init ==
  /\ conf \in Configs
  /\ used = [e \in Event |-> 0]
  /\ st = [i \in Sentinel |-> Started(conf, i)]
  /\ up = conf.up
  /\ at = [i \in Sentinel |-> i]
  /\ inst = [x \in Instance |-> [up |-> x \notin conf.down, master |-> conf.master[x]]]
  /\ cut = conf.cut
  /\ wire = [p \in Sentinel \X Instance |-> <<>>]
  /\ net = {}
  /\ hellos = {}
  /\ pc = 1
  /\ votes = {}
  /\ elected = {}

Reach(i) == {x \in Instance : inst[x].up /\ <<i, x>> \notin cut}

\* The entries of i's table whose connection was closed by the change from s to t
Closed(s, t) ==
  {j \in DOMAIN s.m.sentinels : ~t.on \/ j \notin DOMAIN t.m.sentinels
                                \/ t.m.sentinels[j].at # s.m.sentinels[j].at}

\* Sentinel i has handled an event: its state is t and it sends t.out
Handled(i, t) ==
  LET closed == Closed(st[i], t)
      stays == {q \in net : ~(q.type = "ask" /\ q.from = i /\ q.to \in closed)
                            /\ ~(q.type = "answer" /\ q.to = i /\ q.from \in closed)}
      sent == {q \in t.out : q.type # "slaveof"}
      cmds == {q \in t.out : q.type = "slaveof"}
  IN /\ st' = [st EXCEPT ![i] = [t EXCEPT !.out = {}]]
     /\ net' = stays \cup sent
     /\ wire' = [p \in Sentinel \X Instance |->
                   LET new == {q.master : q \in {q \in cmds : p = <<i, q.to>>}}
                   IN IF new = {} THEN wire[p] ELSE Append(wire[p], CHOOSE x \in new : TRUE)]
     /\ votes' = votes \cup
          (IF t.m.leader = NULL \/ t.m.leader_epoch = st[i].m.leader_epoch THEN {}
           ELSE {<<i, t.m.leader_epoch, t.m.leader>>})
     /\ elected' = elected \cup
          (IF st[i].m.failover_state <= WAIT_START /\ t.m.failover_state = SELECT_SLAVE
           THEN {[leader |-> i, epoch |-> t.m.failover_epoch, votes |-> t.current_epoch,
                  voters |-> DOMAIN t.m.sentinels \cup {i},
                  forced |-> "force_failover" \in t.m.flags]} ELSE {})

\* No time has passed
Clock(i) ==
  [reach |-> Reach(i), rank |-> conf.rank, parallel_syncs |-> conf.parallel_syncs, late |-> {},
   elapsed |-> {}, unfit |-> {}, stale |-> {}, jump |-> FALSE, misled |-> FALSE, waited |-> FALSE,
   fresh |-> FALSE, links |-> {}]

\* The timeouts that matter in state s
Timeouts(s) ==
  IF s.tilt THEN {"tilt"}
  ELSE CASE ~InProgress(s) -> IF s.m.recent THEN {"delay"} ELSE {}
         [] InProgress(s) /\ s.m.failover_state = WAIT_START -> {"election"}
         [] InProgress(s) /\ s.m.failover_state = SELECT_SLAVE -> {}
         [] InProgress(s) /\ s.m.failover_state \in {SEND_SLAVEOF_NOONE, WAIT_PROMOTION} -> {"failover"}
         [] InProgress(s) /\ s.m.failover_state = RECONF_SLAVES -> {"failover", "reconf"}

\* The Sentinels that i can ask: those it has an address of, that run there, and that do
\* not owe an answer
Links(i) ==
  {j \in DOMAIN st[i].m.sentinels :
     /\ j \in up /\ st[i].m.sentinels[j].at = at[j]
     /\ \A q \in net : ~(q.type = "ask" /\ q.from = i /\ q.to = j)
                       /\ ~(q.type = "answer" /\ q.from = j /\ q.to = i)}

\* Instances that i does not reach are late sooner or later
Late(i) ==
  LET lost == Instance \ Reach(i)
      s == st[i].m
  IN {lost, {x \in lost : IF x = s.addr THEN "s_down" \in s.flags
                          ELSE x \in DOMAIN s.slaves /\ "s_down" \in s.slaves[x]}}
\* The timer runs when the instances in late have not answered, the timeouts in expired have
\* expired, the clock has jumped, the answers of other Sentinels are stale ...
Fires(i, late, expired, jump, stale, unfit, misled) ==
  LET spent == {e \in Event : \/ e = "jump" /\ jump
                              \/ e = "stale" /\ stale
                              \/ e = "expire" /\ expired # {}}
      c == [Clock(i) EXCEPT !.late = late, !.elapsed = expired, !.jump = jump, !.unfit = unfit,
              !.misled = misled, !.stale = IF stale THEN Sentinel ELSE {}, !.links = Links(i)]
  IN /\ \A e \in spent : used[e] < conf.max[e]
     /\ used' = [e \in Event |-> IF e \in spent THEN used[e] + 1 ELSE used[e]]
     /\ \E t \in sentinelTimer(i, st[i], c) : t.current_epoch <= MaxEpoch /\ Handled(i, t)

Timer(i) ==
  /\ i \in up \cap conf.active
  /\ \E late \in Late(i), expired \in SUBSET Timeouts(st[i]), jump, stale \in BOOLEAN,
        unfit \in (IF st[i].m.failover_state = SELECT_SLAVE THEN conf.unfit ELSE {{}}),
        misled \in (IF st[i].m.role = "slave" THEN BOOLEAN ELSE {FALSE}) :
       Fires(i, late, expired, jump, stale, unfit, misled)
  /\ UNCHANGED <<conf, up, at, inst, cut, hellos, pc>>

\* A question arrives
AskedIfDown(q) ==
  /\ q.type = "ask" /\ q.to \in up
  /\ LET s == IsMasterDownByAddr(q.to, st[q.to], q)
         s1 == [s EXCEPT !.out = {}]
     IN /\ st' = [st EXCEPT ![q.to] = s1]
        /\ net' = (net \ {q}) \cup s.out
        /\ votes' = votes \cup
             {<<q.to, a.epoch, a.leader>> : a \in {a \in s.out : a.leader # NULL}}
  /\ UNCHANGED <<conf, used, up, at, inst, cut, wire, hellos, pc, elected>>

Answered(a) ==
  /\ a.type = "answer" /\ a.to \in up
  /\ st' = [st EXCEPT ![a.to] = sentinelReceiveIsMasterDownReply(@, a)]
  /\ net' = net \ {a}
  /\ UNCHANGED <<conf, used, up, at, inst, cut, wire, hellos, pc, votes, elected>>

\* The connection breaks before the answer
Lose(q) ==
  /\ Happens("lose")
  /\ net' = net \ {q}
  /\ UNCHANGED <<conf, st, up, at, inst, cut, wire, hellos, pc, votes, elected>>

\* A hello that tells no one anything changes nothing, and is left out
PublishHello(i) ==
  /\ i \in up /\ st[i].on
  /\ LET h == sentinelSendHello(i, st[i], at[i])
     IN /\ h \notin hellos /\ hellos' = hellos \cup {h}
        /\ \E j \in up : <<j, i>> \in conf.hears /\ sentinelProcessHelloMessage(st[j], h) # st[j]
  /\ UNCHANGED <<conf, used, st, up, at, inst, cut, wire, net, pc, votes, elected>>

ReceiveHello(i, h) ==
  /\ i \in up /\ st[i].on /\ h.from # i /\ <<i, h.from>> \in conf.hears
  /\ Handled(i, sentinelProcessHelloMessage(st[i], h))
  /\ UNCHANGED <<conf, used, up, at, inst, cut, hellos, pc>>

\* Every configuration that was published and is newer than the one of i has reached i
Informed(i) == \A h \in hellos : h.config_epoch <= st[i].m.config_epoch

InfoOf(x, link) ==
  [role |-> IF inst[x].master = NULL THEN "master" ELSE "slave", host |-> inst[x].master,
   link |-> link, slaves |-> {y \in Instance : inst[y].up /\ inst[y].master = x /\ y # x}]

\* INFO is asked for and answered.  The waits of sentinelRefreshInstanceInfo are long
\* enough for newer configurations to arrive
Info(i, x) ==
  /\ <<i, x>> \in conf.infos /\ i \in up /\ st[i].on /\ wire[<<i, x>>] = <<>>
  /\ x \in Reach(i) \cap (DOMAIN st[i].m.slaves \cup {st[i].m.addr})
  /\ \E link, waited, fresh \in BOOLEAN :
       /\ link => inst[x].master # NULL /\ inst[inst[x].master].up /\ inst[x].master # x
       /\ waited => Informed(i)
       /\ Handled(i, sentinelRefreshInstanceInfo(i, st[i], x, InfoOf(x, link),
                       [Clock(i) EXCEPT !.waited = waited, !.fresh = fresh]))
  /\ UNCHANGED <<conf, used, up, at, inst, cut, hellos, pc>>

\* Instance x executes the transaction with SLAVEOF
SlaveOf(i, x) ==
  /\ wire[<<i, x>>] # <<>> /\ inst[x].up
  /\ inst' = [inst EXCEPT ![x].master = Head(wire[<<i, x>>])]
  /\ wire' = [wire EXCEPT ![<<i, x>>] = Tail(@)]
  /\ UNCHANGED <<conf, used, st, up, at, cut, net, hellos, pc, votes, elected>>

\* An instance stops; the commands that it did not read are lost
Fail(x) ==
  /\ inst[x].up /\ Happens("fail")
  /\ inst' = [inst EXCEPT ![x].up = FALSE]
  /\ wire' = [p \in DOMAIN wire |-> IF p[2] = x THEN <<>> ELSE wire[p]]
  /\ UNCHANGED <<conf, st, up, at, cut, net, hellos, pc, votes, elected>>

\* An instance starts again with the configuration it has rewritten
Recover(x) ==
  /\ ~inst[x].up /\ Happens("recover")
  /\ inst' = [inst EXCEPT ![x].up = TRUE]
  /\ UNCHANGED <<conf, st, up, at, cut, wire, net, hellos, pc, votes, elected>>

\* i reaches the instances again
Heal(i) ==
  /\ \E x \in Instance : <<i, x>> \in cut
  /\ Happens("recover")
  /\ cut' = {p \in cut : p[1] # i}
  /\ UNCHANGED <<conf, st, up, at, inst, wire, net, hellos, pc, votes, elected>>

\* A Sentinel stops and starts again from its configuration file, perhaps elsewhere
Crash(i) ==
  /\ i \in up \cap conf.fragile /\ Happens("crash")
  /\ up' = up \ {i}
  /\ net' = {q \in net : q.from # i /\ q.to # i}
  /\ wire' = [p \in DOMAIN wire |-> IF p[1] = i THEN <<>> ELSE wire[p]]
  /\ UNCHANGED <<conf, st, at, inst, cut, hellos, pc, votes, elected>>

Restart(i, h) ==
  /\ i \in conf.up \ up
  /\ up' = up \cup {i}
  /\ st' = [st EXCEPT ![i] = sentinelHandleConfiguration(@.disk)]
  /\ at' = [at EXCEPT ![i] = h]
  /\ \A j \in up : at[j] # h
  /\ UNCHANGED <<conf, used, inst, cut, wire, net, hellos, pc, votes, elected>>

\* A failover of another master that i monitors begins; the epoch is not saved yet
OtherFailover(i) ==
  /\ i \in up /\ Happens("other") /\ st[i].current_epoch < MaxEpoch
  /\ st' = [st EXCEPT ![i].current_epoch = @ + 1]
  /\ UNCHANGED <<conf, up, at, inst, cut, wire, net, hellos, pc, votes, elected>>

\* The next command of the administrator
Execute(k) ==
  LET i == k.node
  IN /\ i \in up
     /\ CASE k.op = "failover" -> st[i].current_epoch < MaxEpoch
                                  /\ Handled(i, FailoverCommand(st[i], Clock(i)))
          [] k.op = "reset" -> Handled(i, sentinelResetMastersByPattern(st[i]))
          [] k.op = "remove" -> Handled(i, RemoveCommand(st[i]))
          [] k.op = "monitor" -> Handled(i, MonitorCommand(st[i], k.arg, conf.quorum))
          [] k.op = "quorum" -> Handled(i, sentinelSetCommand(st[i], k.arg))
Admin ==
  /\ pc <= Len(conf.script)
  /\ Execute(conf.script[pc])
  /\ pc' = pc + 1
  /\ UNCHANGED <<conf, used, up, at, inst, cut, hellos>>

Next ==
  \/ \E i \in Sentinel : Timer(i) \/ PublishHello(i) \/ Heal(i) \/ Crash(i) \/ OtherFailover(i)
  \/ \E i \in Sentinel, h \in Host : Restart(i, h)
  \/ \E i \in Sentinel, h \in hellos : ReceiveHello(i, h)
  \/ \E i \in Sentinel, x \in Instance : Info(i, x) \/ SlaveOf(i, x)
  \/ \E x \in Instance : Fail(x) \/ Recover(x)
  \/ \E q \in net : AskedIfDown(q) \/ Answered(q) \/ Lose(q)
  \/ Admin

Spec == Init /\ [][Next]_vars

-----------------------------------------------------------------------------
(* Properties *)

\* SENTINEL REMOVE has made Sentinel i forget the master, and its last vote with it
Removed(i) == \E k \in 1..(pc - 1) : conf.script[k].op = "remove" /\ conf.script[k].node = i

\* A Sentinel votes for one leader per epoch, also when it crashes after the vote: the vote
\* is in the configuration file before it is answered (sentinelVoteLeader).  It is not so for
\* a master that was removed and is monitored again: the epoch of the vote starts at 0
OneVote ==
  \A v, w \in votes : v[1] = w[1] /\ v[2] = w[2] /\ ~Removed(v[1]) => v[3] = w[3]

\* The majority behind the elected leader of e: others voted for it in the epoch that was
\* counted, and its own vote, if it needs it, is one of the epoch of its failover
Majorities(e) ==
  {Q \in SUBSET e.voters :
     /\ 2 * Cardinality(Q) > Cardinality(e.voters)
     /\ \A q \in Q : \/ <<q, e.votes, e.leader>> \in votes
                     \/ q = e.leader /\ <<q, e.epoch, e.leader>> \in votes}

\* Every failover that nobody has forced has a majority of the voters behind it, and two of
\* them in one epoch, among the same voters, have the same leader, unless one of the two
\* counted votes of a later epoch: sentinelGetLeader counts the votes of the current epoch,
\* which may have grown since the failover took its own.  In that case an epoch may have two
\* leaders (Rivals)
OneLeader ==
  LET unforced == {e \in elected : ~e.forced}
  IN /\ \A e \in unforced : Majorities(e) # {}
     /\ \A e, f \in unforced :
          /\ e.epoch = f.epoch /\ e.voters = f.voters /\ \A j \in e.voters : ~Removed(j)
          => e.leader = f.leader \/ e.votes > e.epoch \/ f.votes > f.epoch

\* No epoch of the state, of the file or of a vote is ahead of the current epoch
EpochsOrdered ==
  /\ \A i \in Sentinel :
       /\ \A e \in {st[i].m.config_epoch, st[i].m.leader_epoch, st[i].m.failover_epoch} :
            e <= st[i].current_epoch
       /\ \A e \in {st[i].disk.config_epoch, st[i].disk.leader_epoch} : e <= st[i].disk.current_epoch
  /\ \A v \in votes : v[2] <= st[v[1]].disk.current_epoch

\* The slave that is being promoted is in the table with its flag from its selection to the
\* end of the failover, and no other slave has the flag; no slave is reconfigured before the
\* promotion.  sentinelRefreshInstanceInfo and the state machine dereference promoted_slave
PromotedKnown ==
  \A i \in Sentinel :
    LET m == st[i].m
    IN /\ m.failover_state > NONE <=> "failover_in_progress" \in m.flags
       /\ m.failover_state \in SEND_SLAVEOF_NOONE..RECONF_SLAVES <=> m.promoted # NULL
       /\ {x \in DOMAIN m.slaves : "promoted" \in m.slaves[x]} = {m.promoted} \ {NULL}
       /\ \A x \in DOMAIN m.slaves :
            m.slaves[x] \cap {"reconf_sent", "reconf_inprog", "reconf_done"} # {}
            => m.failover_state = RECONF_SLAVES
       /\ m.addr \notin DOMAIN m.slaves

\* A leader reconfigures at most parallel_syncs slaves at a time
ParallelSyncs ==
  \A i \in Sentinel :
    Cardinality({x \in DOMAIN st[i].m.slaves :
                   st[i].m.slaves[x] \cap {"reconf_sent", "reconf_inprog"} # {}})
    <= conf.parallel_syncs

\* SENTINEL RESET was sent to Sentinel i.  In a failover past its promotion it brings the old
\* master back under the new epoch
Reset(i) == \E k \in 1..(pc - 1) : conf.script[k].op = "reset" /\ conf.script[k].node = i

\* Another Sentinel has begun a failover in epoch, or in an earlier one, than the one that
\* has begun the failover of epoch; or SENTINEL RESET has undone it
Disputed(epoch) ==
  \E e, f \in elected :
    /\ e.epoch <= epoch /\ f.epoch = epoch
    /\ e.leader # f.leader \/ Reset(f.leader)

\* Sentinels with the same configuration epoch agree on the master, unless the failover of
\* that epoch is disputed: the promotion installs the epoch of the failover without a look at
\* what others have done in it, hence two SENTINEL FAILOVERs (TwoForced), or two elections of
\* one epoch, leave two masters with one epoch
ConfigAgree ==
  \A i, j \in Sentinel :
    LET epoch == st[i].m.config_epoch
    IN /\ st[i].on /\ st[j].on /\ st[j].m.config_epoch = epoch /\ ~Removed(i) /\ ~Removed(j)
       => \/ sentinelGetCurrentMasterAddress(st[i].m) = sentinelGetCurrentMasterAddress(st[j].m)
          \/ Disputed(epoch)

Known(i) == {st[i].m.addr} \cup DOMAIN st[i].m.slaves

\* No instance and no Sentinel is ever forgotten but by a command of the administrator,
\* not by a switch to another master, a new address or a restart
KnownKept ==
  pc' = pc => \A i \in Sentinel :
    Known(i) \subseteq Known(i)' /\ DOMAIN st[i].m.sentinels \subseteq DOMAIN st'[i].m.sentinels

\* Sentinel i's own failover reaches its promotion
Promotes(i) ==
  /\ st[i].m.failover_state = WAIT_PROMOTION /\ st'[i].m.failover_state = RECONF_SLAVES
  /\ st'[i].m.config_epoch = st[i].m.failover_epoch

\* The configuration epoch of a Sentinel does not decrease while it runs: a late hello does
\* not bring an older configuration back.  It may in one case: a hello with a greater epoch
\* and the same master does not stop a failover, whose promotion then installs its own epoch
ConfigEpochGrows ==
  [][pc' = pc => \A i \in up \cap up' :
       st'[i].m.config_epoch >= st[i].m.config_epoch \/ Promotes(i)]_vars

\* The master of the newest published configuration
NewestMasters == {h.addr : h \in {h \in hellos : \A g \in hellos : g.config_epoch <= h.config_epoch}}

\* After one failover that is not reset, no Sentinel turns the master of the published
\* configuration into a slave of another instance
NewMasterStays ==
  /\ Cardinality(elected) = 1 /\ \A e \in elected : ~Reset(e.leader)
  /\ \E h \in hellos : h.config_epoch > 0
  =>
    \A i \in Sentinel, x \in NewestMasters :
      Len(wire'[<<i, x>>]) > Len(wire[<<i, x>>]) => wire'[<<i, x>>][Len(wire'[<<i, x>>])] \in {NULL, x}

\* The state of a failover is consistent, the slaves are not all reconfigured at once, and
\* what the Sentinels hold to be the master after it is the same for all who have heard of
\* it, if no other Sentinel has begun one and it was not reset
FailoverState == PromotedKnown /\ ParallelSyncs /\ ConfigAgree

\* Nothing that is known is forgotten, and the master that was elected stays
MasterKept == [][KnownKept /\ NewMasterStays]_vars
=============================================================================
