-------------------------- MODULE SentinelHandlers --------------------------
(***************************************************************************)
(* What a handler of a Sentinel, the timer, a command or a restart does to *)
(* its state, for any number of Sentinels and instances: the types, the    *)
(* order of the epochs, and that every vote it gives is new and on disk.   *)
(***************************************************************************)
EXTENDS SentinelNode, FiniteSetTheorems, TLAPS

-----------------------------------------------------------------------------
(* Types *)

\* A dictionary from some elements of D to R
Table(D, R) == UNION {[S -> R] : S \in SUBSET D}

\* sentinelRedisInstance of another Sentinel, and of a master with its tables
Friend == [down : BOOLEAN, leader : Sentinel \cup {NULL}, leader_epoch : Nat,
           at : Host \cup {NULL}]
SlaveTable == Table(Instance, SUBSET SlaveFlag)
FriendTable == Table(Sentinel, Friend)
Master ==
  [addr : Instance, quorum : Nat, flags : SUBSET MasterFlag, role : {"master", "slave"},
   config_epoch : Nat, leader : Sentinel \cup {NULL}, leader_epoch : Nat,
   failover_state : NONE..UPDATE_CONFIG, failover_epoch : Nat,
   promoted : Instance \cup {NULL}, recent : BOOLEAN, slaves : SlaveTable, sentinels : FriendTable]

\* The configuration file
File ==
  [current_epoch : Nat, on : BOOLEAN, addr : Instance, quorum : Nat, config_epoch : Nat,
   leader_epoch : Nat, slaves : SUBSET Instance, sentinels : Table(Sentinel, Host \cup {NULL})]

\* What is sent
Ask == [type : {"ask"}, from : Sentinel, to : Sentinel, addr : Instance, epoch : Nat,
        runid : Sentinel \cup {NULL}]
Answer == [type : {"answer"}, from : Sentinel, to : Sentinel, down : BOOLEAN,
           leader : Sentinel \cup {NULL}, epoch : Nat]
SlaveOfMsg == [type : {"slaveof"}, from : Sentinel, to : Instance, master : Instance \cup {NULL}]
Hello == [type : {"hello"}, from : Sentinel, at : Host, epoch : Nat, addr : Instance,
          config_epoch : Nat]

\* sentinelState
State == [current_epoch : Nat, tilt : BOOLEAN, on : BOOLEAN, disk : File,
          out : SUBSET (Ask \cup Answer \cup SlaveOfMsg), m : Master]

-----------------------------------------------------------------------------
(* Tables *)

\* A function on a subset of D is a table.
LEMMA TableIntro ==
  ASSUME NEW D, NEW R, NEW S \in SUBSET D, NEW f \in [S -> R]
  PROVE  f \in Table(D, R)
BY DEF Table

\* What a table is.
LEMMA TableElim ==
  ASSUME NEW D, NEW R, NEW f \in Table(D, R)
  PROVE  DOMAIN f \in SUBSET D /\ f \in [DOMAIN f -> R]
BY DEF Table

\* An entry is added to a table or replaced.
LEMMA TableWith ==
  ASSUME NEW D, NEW R, NEW f \in Table(D, R), NEW k \in D, NEW v \in R
  PROVE  With(f, k, v) \in Table(D, R)
<1>1. DOMAIN f \in SUBSET D /\ f \in [DOMAIN f -> R]
  BY TableElim
<1>2. With(f, k, v) \in [DOMAIN f \cup {k} -> R] /\ DOMAIN f \cup {k} \in SUBSET D
  BY <1>1 DEF With
<1> QED
  BY <1>2, TableIntro

-----------------------------------------------------------------------------
(* The state of one Sentinel *)

\* The epochs of a Sentinel: none is ahead of the current one, in memory and in the file,
\* and the epoch of the last vote is in the file.
EpochsOf(s) ==
  /\ s.m.config_epoch <= s.current_epoch
  /\ s.m.failover_epoch <= s.current_epoch
  /\ s.m.leader_epoch = s.disk.leader_epoch
  /\ s.disk.config_epoch <= s.disk.current_epoch
  /\ s.disk.leader_epoch <= s.disk.current_epoch
  /\ s.disk.current_epoch <= s.current_epoch

\* The votes that Sentinel i remembers, of its own and of others, and the answers it is
\* about to send, are votes in V.
Backed(i, s, V) ==
  /\ s.m.leader # NULL => <<i, s.m.leader_epoch, s.m.leader>> \in V
  /\ i \notin DOMAIN s.m.sentinels /\ i \notin DOMAIN s.disk.sentinels
  /\ \A j \in DOMAIN s.m.sentinels : s.m.sentinels[j].leader # NULL =>
       <<j, s.m.sentinels[j].leader_epoch, s.m.sentinels[j].leader>> \in V
  /\ \A a \in s.out : a.type = "answer" /\ a.leader # NULL => <<a.from, a.epoch, a.leader>> \in V

Good(i, s, V) == s \in State /\ EpochsOf(s) /\ Backed(i, s, V)

\* From s to t no epoch has decreased, and the Sentinel still monitors the master.
Later(s, t) ==
  /\ s.current_epoch <= t.current_epoch
  /\ s.disk.current_epoch <= t.disk.current_epoch
  /\ t.on = s.on /\ t.disk.on \in {s.on, s.disk.on}
  /\ s.m.leader_epoch <= t.m.leader_epoch

\* ... nor has it voted or won an election, or taken an older configuration.
Quiet(s, t) ==
  /\ Later(s, t) /\ s.m.config_epoch <= t.m.config_epoch
  /\ t.m.leader_epoch = s.m.leader_epoch
  /\ t.m.failover_state = SELECT_SLAVE => s.m.failover_state = SELECT_SLAVE

\* Saving the configuration.
LEMMA FlushGood ==
  ASSUME NEW i, NEW V, NEW s, Good(i, s, V)
  PROVE  LET t == sentinelFlushConfig(s)
         IN /\ Good(i, t, V) /\ Quiet(s, t)
            /\ t.m = s.m /\ t.current_epoch = s.current_epoch /\ t.out = s.out
<1> DEFINE d == rewriteConfigSentinelOption(s)
<1>1. s.m.slaves \in SlaveTable /\ s.m.sentinels \in FriendTable /\ s.m \in Master /\ s.disk \in File
  BY DEF Good, State, Master
<1>2. DOMAIN s.m.slaves \subseteq Instance
  BY <1>1, TableElim DEF SlaveTable
<1>3. [j \in DOMAIN s.m.sentinels |-> s.m.sentinels[j].at] \in Table(Sentinel, Host \cup {NULL})
  <2>1. DOMAIN s.m.sentinels \in SUBSET Sentinel /\ s.m.sentinels \in [DOMAIN s.m.sentinels -> Friend]
    BY <1>1, TableElim DEF FriendTable
  <2>2. \A j \in DOMAIN s.m.sentinels : s.m.sentinels[j].at \in Host \cup {NULL}
    BY <2>1 DEF Friend
  <2> QED
    BY Zenon, <2>1, <2>2, TableIntro
<1>4. sentinelGetCurrentMasterAddress(s.m) \in Instance
  BY <1>1 DEF sentinelGetCurrentMasterAddress, Master
<1>5. d \in File
  BY <1>1, <1>2, <1>3, <1>4 DEF rewriteConfigSentinelOption, File, Good, State, Master
<1>6. /\ d.current_epoch = s.current_epoch /\ d.config_epoch = s.m.config_epoch
      /\ d.leader_epoch = s.m.leader_epoch /\ d.on = s.on
      /\ DOMAIN d.sentinels = DOMAIN s.m.sentinels
  BY DEF rewriteConfigSentinelOption
<1> HIDE DEF d
<1>7. sentinelFlushConfig(s) = [s EXCEPT !.disk = d]
  BY DEF sentinelFlushConfig, d
<1>8. s \in State /\ EpochsOf(s)
  BY DEF Good
<1> DEFINE t == [s EXCEPT !.disk = d]
<1>9. t \in State /\ t.disk = d /\ t.m = s.m /\ t.current_epoch = s.current_epoch /\ t.on = s.on /\ t.out = s.out
  BY <1>5, <1>8 DEF State
<1> HIDE DEF t
<1>10. EpochsOf(t) /\ Quiet(s, t)
  BY <1>6, <1>8, <1>9 DEF EpochsOf, Quiet, Later, State, File, Master
<1>11. Backed(i, t, V)
  BY <1>6, <1>9 DEF Good, Backed
<1> QED
  BY <1>7, <1>9, <1>10, <1>11 DEF t, Good

\* From entry m to entry n no vote of a friend is made up.
FriendsKept(i, m, n) ==
  /\ i \notin DOMAIN n.sentinels
  /\ \A j \in DOMAIN n.sentinels :
       \/ n.sentinels[j].leader = NULL
       \/ /\ j \in DOMAIN m.sentinels
          /\ n.sentinels[j].leader = m.sentinels[j].leader
          /\ n.sentinels[j].leader_epoch = m.sentinels[j].leader_epoch

\* A change of the master's entry and of what is sent, without a vote.
LEMMA EntryGood ==
  ASSUME NEW i, NEW V, NEW s, Good(i, s, V), NEW n \in Master,
         n.leader \in {NULL, s.m.leader}, n.leader_epoch = s.m.leader_epoch,
         FriendsKept(i, s.m, n),
         s.m.config_epoch <= n.config_epoch, n.config_epoch <= s.current_epoch,
         n.failover_epoch <= s.current_epoch,
         n.failover_state = SELECT_SLAVE => s.m.failover_state = SELECT_SLAVE
  PROVE  LET t == [s EXCEPT !.m = n]
         IN Good(i, t, V) /\ Quiet(s, t) /\ t.m = n /\ t.current_epoch = s.current_epoch
<1> DEFINE t == [s EXCEPT !.m = n]
<1>1. /\ t \in State /\ t.m = n /\ t.current_epoch = s.current_epoch /\ t.disk = s.disk
      /\ t.out = s.out /\ t.on = s.on /\ s.m \in Master /\ s.disk \in File /\ s \in State
  BY DEF Good, State
<1> HIDE DEF t
<1>2. EpochsOf(t) /\ Quiet(s, t)
  BY <1>1 DEF Good, EpochsOf, Quiet, Later, State, Master, File
<1>3. Backed(i, t, V)
  BY <1>1 DEF Good, Backed, FriendsKept
<1> QED
  BY <1>1, <1>2, <1>3 DEF t, Good

\* Questions and SLAVEOF commands are sent.
LEMMA SendGood ==
  ASSUME NEW i, NEW V, NEW s, Good(i, s, V), NEW msgs \in SUBSET (Ask \cup SlaveOfMsg)
  PROVE  LET t == Send(s, msgs)
         IN Good(i, t, V) /\ Quiet(s, t) /\ t.m = s.m /\ t.current_epoch = s.current_epoch
<1> DEFINE t == Send(s, msgs)
<1>1. /\ t \in State /\ t.m = s.m /\ t.current_epoch = s.current_epoch /\ t.disk = s.disk
      /\ t.out = s.out \cup msgs /\ t.on = s.on /\ s.m \in Master /\ s.disk \in File /\ s \in State
  BY DEF Good, State, Send
<1> HIDE DEF t
<1>2. EpochsOf(t) /\ Quiet(s, t)
  BY <1>1 DEF Good, EpochsOf, Quiet, Later, State, Master, File
<1>3. \A a \in msgs : a.type # "answer"
  BY DEF Ask, SlaveOfMsg
<1>4. Backed(i, t, V)
  BY <1>1, <1>3 DEF Good, Backed
<1> QED
  BY <1>1, <1>2, <1>4 DEF t, Good

\* The current epoch is raised.
LEMMA EpochGood ==
  ASSUME NEW i, NEW V, NEW s, Good(i, s, V), NEW e \in Nat, s.current_epoch <= e
  PROVE  LET t == [s EXCEPT !.current_epoch = e]
         IN Good(i, t, V) /\ Quiet(s, t) /\ t.m = s.m /\ t.current_epoch = e
<1> DEFINE t == [s EXCEPT !.current_epoch = e]
<1>1. /\ t \in State /\ t.m = s.m /\ t.current_epoch = e /\ t.disk = s.disk
      /\ t.out = s.out /\ t.on = s.on /\ s.m \in Master /\ s.disk \in File /\ s \in State
  BY DEF Good, State
<1> HIDE DEF t
<1>2. EpochsOf(t) /\ Quiet(s, t)
  BY <1>1 DEF Good, EpochsOf, Quiet, Later, State, Master, File
<1>3. Backed(i, t, V)
  BY <1>1 DEF Good, Backed
<1> QED
  BY <1>1, <1>2, <1>3 DEF t, Good

\* Steps one after the other.
LEMMA QuietTrans ==
  ASSUME NEW i, NEW V, NEW r, NEW s, NEW t, Good(i, r, V), Good(i, s, V), Good(i, t, V),
         Quiet(r, s), Quiet(s, t)
  PROVE  Quiet(r, t)
BY DEF Good, Quiet, Later, State, Master, File

\* Nothing happens.
LEMMA QuietRefl ==
  ASSUME NEW i, NEW V, NEW s, Good(i, s, V)
  PROVE  Quiet(s, s)
<1>1. /\ s.current_epoch \in Nat /\ s.disk.current_epoch \in Nat /\ s.m.leader_epoch \in Nat
      /\ s.m.config_epoch \in Nat
  BY DEF Good, State, File, Master
<1> QED
  BY <1>1 DEF Quiet, Later

\* More votes do no harm.
LEMMA GoodMono ==
  ASSUME NEW i, NEW V, NEW W, V \subseteq W, NEW s, Good(i, s, V)
  PROVE  Good(i, s, W)
BY DEF Good, Backed

\* The parts of a good state.
LEMMA GoodTypes ==
  ASSUME NEW i, NEW V, NEW s, Good(i, s, V)
  PROVE  /\ s \in State /\ s.m \in Master /\ s.m.slaves \in SlaveTable /\ s.m.sentinels \in FriendTable
         /\ DOMAIN s.m.slaves \in SUBSET Instance /\ s.m.slaves \in [DOMAIN s.m.slaves -> SUBSET SlaveFlag]
         /\ DOMAIN s.m.sentinels \in SUBSET Sentinel /\ s.m.sentinels \in [DOMAIN s.m.sentinels -> Friend]
         /\ FriendsKept(i, s.m, s.m)
         /\ s.m.config_epoch <= s.current_epoch /\ s.m.failover_epoch <= s.current_epoch
         /\ s.current_epoch \in Nat /\ s.m.config_epoch \in Nat
         /\ s.m.config_epoch <= s.m.config_epoch
<1>1. s \in State /\ s.m \in Master /\ s.m.slaves \in SlaveTable /\ s.m.sentinels \in FriendTable
  BY DEF Good, State, Master
<1>2. DOMAIN s.m.slaves \in SUBSET Instance /\ s.m.slaves \in [DOMAIN s.m.slaves -> SUBSET SlaveFlag]
  BY <1>1, TableElim DEF SlaveTable
<1>3. DOMAIN s.m.sentinels \in SUBSET Sentinel /\ s.m.sentinels \in [DOMAIN s.m.sentinels -> Friend]
  BY <1>1, TableElim DEF FriendTable
<1> QED
  BY <1>1, <1>2, <1>3 DEF Good, Backed, FriendsKept, EpochsOf, State, Master

\* Flags or tables of the entry change.
LEMMA PutGood ==
  ASSUME NEW i, NEW V, NEW s, Good(i, s, V)
  PROVE  /\ \A f \in SUBSET MasterFlag :
              LET t == [s EXCEPT !.m.flags = f]
              IN Good(i, t, V) /\ Quiet(s, t) /\ t.m = [s.m EXCEPT !.flags = f]
         /\ \A f \in SlaveTable :
              LET t == [s EXCEPT !.m.slaves = f]
              IN Good(i, t, V) /\ Quiet(s, t) /\ t.m = [s.m EXCEPT !.slaves = f]
<1> USE GoodTypes
<1>1. ASSUME NEW f \in SUBSET MasterFlag
      PROVE  LET t == [s EXCEPT !.m.flags = f]
             IN Good(i, t, V) /\ Quiet(s, t) /\ t.m = [s.m EXCEPT !.flags = f]
  <2> DEFINE n == [s.m EXCEPT !.flags = f]
  <2>1. [s EXCEPT !.m.flags = f] = [s EXCEPT !.m = n]
    OBVIOUS
  <2>2. /\ n \in Master /\ n.leader = s.m.leader /\ n.leader_epoch = s.m.leader_epoch
        /\ n.sentinels = s.m.sentinels /\ n.config_epoch = s.m.config_epoch
        /\ n.failover_epoch = s.m.failover_epoch /\ n.failover_state = s.m.failover_state
    BY DEF Master
  <2> HIDE DEF n
  <2>3. FriendsKept(i, s.m, n)
    BY <2>2 DEF FriendsKept
  <2>4. Good(i, [s EXCEPT !.m = n], V) /\ Quiet(s, [s EXCEPT !.m = n]) /\ [s EXCEPT !.m = n].m = n
    BY <2>2, <2>3, EntryGood
  <2> QED
    BY <2>1, <2>4 DEF n
<1>2. ASSUME NEW f \in SlaveTable
      PROVE  LET t == [s EXCEPT !.m.slaves = f]
             IN Good(i, t, V) /\ Quiet(s, t) /\ t.m = [s.m EXCEPT !.slaves = f]
  <2> DEFINE n == [s.m EXCEPT !.slaves = f]
  <2>1. [s EXCEPT !.m.slaves = f] = [s EXCEPT !.m = n]
    OBVIOUS
  <2>2. /\ n \in Master /\ n.leader = s.m.leader /\ n.leader_epoch = s.m.leader_epoch
        /\ n.sentinels = s.m.sentinels /\ n.config_epoch = s.m.config_epoch
        /\ n.failover_epoch = s.m.failover_epoch /\ n.failover_state = s.m.failover_state
    BY DEF Master
  <2> HIDE DEF n
  <2>3. FriendsKept(i, s.m, n)
    BY <2>2 DEF FriendsKept
  <2>4. Good(i, [s EXCEPT !.m = n], V) /\ Quiet(s, [s EXCEPT !.m = n]) /\ [s EXCEPT !.m = n].m = n
    BY <2>2, <2>3, EntryGood
  <2> QED
    BY <2>1, <2>4 DEF n
<1> QED
  BY Zenon, <1>1, <1>2

-----------------------------------------------------------------------------
(* Resets and hellos *)

\* Empty tables.
LEMMA EmptyTable == Empty \in SlaveTable /\ Empty \in FriendTable
<1>1. Empty \in [{} -> SUBSET SlaveFlag] /\ Empty \in [{} -> Friend]
  BY DEF Empty
<1> QED
  BY Zenon, <1>1, TableIntro DEF SlaveTable, FriendTable

\* An entry as it is created.
LEMMA NewMasterType ==
  ASSUME NEW addr \in Instance, NEW q \in Nat
  PROVE  NewMaster(addr, q) \in Master
BY EmptyTable DEF NewMaster, Master, NONE, UPDATE_CONFIG

\* The entry after a reset.
LEMMA ResetEntry ==
  ASSUME NEW i, NEW V, NEW s, Good(i, s, V), NEW keep \in BOOLEAN
  PROVE  LET n == sentinelResetMaster(s, keep).m
         IN /\ n \in Master /\ n.leader = NULL /\ n.leader_epoch = s.m.leader_epoch
            /\ FriendsKept(i, s.m, n)
            /\ n.config_epoch = s.m.config_epoch /\ n.failover_epoch = s.m.failover_epoch
            /\ n.failover_state = NONE
            /\ sentinelResetMaster(s, keep) = [s EXCEPT !.m = n]
<1> DEFINE o == NewMaster(s.m.addr, s.m.quorum)
           k == IF keep THEN s.m.sentinels ELSE Empty
           n == [o EXCEPT !.config_epoch = s.m.config_epoch, !.leader_epoch = s.m.leader_epoch,
                          !.failover_epoch = s.m.failover_epoch, !.sentinels = k]
<1>1. s \in State /\ s.m \in Master /\ s.m.sentinels \in FriendTable /\ FriendsKept(i, s.m, s.m)
  BY GoodTypes
<1>2. o \in Master
  BY Zenon, <1>1, NewMasterType DEF Master
<1>3. o.leader = NULL /\ o.failover_state = NONE
  BY DEF NewMaster
<1>4. k \in FriendTable
  BY <1>1, EmptyTable
<1>5. sentinelResetMaster(s, keep) = [s EXCEPT !.m = n]
  BY DEF sentinelResetMaster
<1>6. sentinelResetMaster(s, keep).m = n
  BY <1>1, <1>5 DEF State
<1>7. \A j \in DOMAIN k : keep
  BY DEF Empty
<1> HIDE DEF o
<1>8. [o EXCEPT !.config_epoch = s.m.config_epoch] \in Master
  BY <1>1, <1>2 DEF Master
<1>9. [o EXCEPT !.config_epoch = s.m.config_epoch, !.leader_epoch = s.m.leader_epoch] \in Master
  BY Zenon, <1>1, <1>8 DEF Master
<1>10. [o EXCEPT !.config_epoch = s.m.config_epoch, !.leader_epoch = s.m.leader_epoch,
                 !.failover_epoch = s.m.failover_epoch] \in Master
  BY Zenon, <1>1, <1>9 DEF Master
<1> HIDE DEF k
<1>11. n \in Master
  BY ZenonT(60), <1>4, <1>10 DEF Master
<1>12. /\ n.leader = NULL /\ n.leader_epoch = s.m.leader_epoch /\ n.sentinels = k
       /\ n.config_epoch = s.m.config_epoch /\ n.failover_epoch = s.m.failover_epoch
       /\ n.failover_state = NONE
  BY <1>2, <1>3 DEF Master
<1> HIDE DEF n
<1>13. FriendsKept(i, s.m, n)
  BY <1>1, <1>7, <1>12 DEF FriendsKept, k, Empty
<1> QED
  BY <1>5, <1>6, <1>11, <1>12, <1>13

\* A reset.
LEMMA ResetGood ==
  ASSUME NEW i, NEW V, NEW s, Good(i, s, V), NEW keep \in BOOLEAN
  PROVE  LET t == sentinelResetMaster(s, keep)
         IN Good(i, t, V) /\ Quiet(s, t)
<1> DEFINE n == sentinelResetMaster(s, keep).m
<1>1. /\ n \in Master /\ n.leader = NULL /\ n.leader_epoch = s.m.leader_epoch
      /\ FriendsKept(i, s.m, n)
      /\ n.config_epoch = s.m.config_epoch /\ n.failover_epoch = s.m.failover_epoch
      /\ n.failover_state = NONE
      /\ sentinelResetMaster(s, keep) = [s EXCEPT !.m = n]
  BY ResetEntry
<1> HIDE DEF n
<1>2. Good(i, [s EXCEPT !.m = n], V) /\ Quiet(s, [s EXCEPT !.m = n])
  BY <1>1, EntryGood, GoodTypes DEF NONE, SELECT_SLAVE
<1> QED
  BY <1>1, <1>2

\* The master gets another address.
LEMMA ChangeAddressGood ==
  ASSUME NEW i, NEW V, NEW s, Good(i, s, V), NEW addr \in Instance
  PROVE  LET t == sentinelResetMasterAndChangeAddress(s, addr)
         IN /\ Good(i, t, V) /\ Quiet(s, t) /\ t.m.config_epoch = s.m.config_epoch
            /\ t.m.failover_state = NONE
<1> DEFINE kept == (DOMAIN s.m.slaves \cup {s.m.addr}) \ {addr}
           r == sentinelResetMaster(s, TRUE)
           f == [x \in kept |-> NewSlave]
           n == [r.m EXCEPT !.addr = addr, !.slaves = f]
<1>1. s.m \in Master /\ DOMAIN s.m.slaves \in SUBSET Instance
  BY GoodTypes
<1>2. kept \in SUBSET Instance /\ f \in [kept -> SUBSET SlaveFlag]
  BY <1>1 DEF Master, NewSlave
<1>3. f \in SlaveTable
  BY Zenon, <1>2, TableIntro DEF SlaveTable
<1>4. /\ r.m \in Master /\ r.m.leader = NULL /\ r.m.leader_epoch = s.m.leader_epoch
      /\ FriendsKept(i, s.m, r.m)
      /\ r.m.config_epoch = s.m.config_epoch /\ r.m.failover_epoch = s.m.failover_epoch
      /\ r.m.failover_state = NONE /\ r = [s EXCEPT !.m = r.m]
  <2> DEFINE keep == TRUE
  <2>1. keep \in BOOLEAN /\ r = sentinelResetMaster(s, keep)
    OBVIOUS
  <2> HIDE DEF keep, r
  <2> QED
    BY <2>1, ResetEntry
<1>5. sentinelResetMasterAndChangeAddress(s, addr) = sentinelFlushConfig([r EXCEPT !.m = n])
  BY DEF sentinelResetMasterAndChangeAddress
<1> HIDE DEF r, f
<1>6. [r.m EXCEPT !.addr = addr] \in Master
  BY <1>4 DEF Master
<1>7. n \in Master
  BY Zenon, <1>3, <1>6 DEF Master
<1>8. /\ n.leader = NULL /\ n.leader_epoch = s.m.leader_epoch /\ n.sentinels = r.m.sentinels
      /\ n.config_epoch = s.m.config_epoch /\ n.failover_epoch = s.m.failover_epoch
      /\ n.failover_state = NONE
  BY <1>4 DEF Master
<1> HIDE DEF n
<1>9. [r EXCEPT !.m = n] = [s EXCEPT !.m = n]
  BY <1>4, GoodTypes DEF State
<1>10. FriendsKept(i, s.m, n)
  BY <1>4, <1>8 DEF FriendsKept
<1> DEFINE u == [s EXCEPT !.m = n]
<1>11. Good(i, u, V) /\ Quiet(s, u) /\ u.m = n
  BY SMTT(60), <1>7, <1>8, <1>10, EntryGood, GoodTypes DEF NONE, SELECT_SLAVE
<1> HIDE DEF u
<1>12. LET t == sentinelFlushConfig(u) IN Good(i, t, V) /\ Quiet(u, t) /\ t.m = u.m
  BY <1>11, FlushGood
<1>13. Quiet(s, sentinelFlushConfig(u))
  BY <1>11, <1>12, QuietTrans
<1> QED
  BY <1>5, <1>8, <1>9, <1>11, <1>12, <1>13 DEF u

\* A Sentinel is added to the table, or its address replaced.
LEMMA IntroduceGood ==
  ASSUME NEW i, NEW V, NEW s, Good(i, s, V), NEW h \in Hello, h.from # i
  PROVE  LET t == Introduce(s, h)
         IN /\ Good(i, t, V) /\ Quiet(s, t)
            /\ t.m.config_epoch = s.m.config_epoch /\ t.m.addr = s.m.addr
            /\ t.current_epoch = s.current_epoch
<1> DEFINE known == s.m.sentinels
           others == IF h.from \in DOMAIN known THEN known
                     ELSE [j \in DOMAIN known |-> IF known[j].at = h.at
                                                  THEN [known[j] EXCEPT !.at = NULL] ELSE known[j]]
           g == With(others, h.from, NewSentinel(h.at))
           n == [s.m EXCEPT !.sentinels = g]
<1>1. /\ s \in State /\ s.m \in Master /\ known \in FriendTable
      /\ DOMAIN known \in SUBSET Sentinel /\ known \in [DOMAIN known -> Friend]
      /\ FriendsKept(i, s.m, s.m)
  BY GoodTypes
<1>2. h.from \in Sentinel /\ h.at \in Host
  BY DEF Hello
<1>3. \A j \in DOMAIN known :
        /\ [known[j] EXCEPT !.at = NULL] \in Friend
        /\ [known[j] EXCEPT !.at = NULL].leader = known[j].leader
        /\ [known[j] EXCEPT !.at = NULL].leader_epoch = known[j].leader_epoch
  BY SMTT(60), <1>1 DEF Friend
<1>4. /\ others \in [DOMAIN known -> Friend]
      /\ \A j \in DOMAIN known : /\ others[j].leader = known[j].leader
                                 /\ others[j].leader_epoch = known[j].leader_epoch
  BY <1>1, <1>3
<1>5. NewSentinel(h.at) \in Friend /\ NewSentinel(h.at).leader = NULL
  BY SMTT(60), <1>2 DEF NewSentinel, Friend
<1>6. others \in FriendTable /\ DOMAIN others = DOMAIN known
  BY Zenon, <1>1, <1>4, TableIntro DEF FriendTable
<1>7. Introduce(s, h) = sentinelFlushConfig([s EXCEPT !.m.sentinels = g])
  BY DEF Introduce
<1> HIDE DEF others
<1>8. g \in FriendTable
  BY <1>2, <1>5, <1>6, TableWith DEF FriendTable
<1>9. /\ DOMAIN g = DOMAIN known \cup {h.from}
      /\ \A j \in DOMAIN g : \/ g[j].leader = NULL
                             \/ /\ j \in DOMAIN known /\ g[j].leader = known[j].leader
                                /\ g[j].leader_epoch = known[j].leader_epoch
  BY <1>4, <1>5, <1>6 DEF With
<1> HIDE DEF g
<1>10. [s EXCEPT !.m.sentinels = g] = [s EXCEPT !.m = n]
  BY <1>1
<1>11. /\ n \in Master /\ n.leader = s.m.leader /\ n.leader_epoch = s.m.leader_epoch
       /\ n.sentinels = g /\ n.config_epoch = s.m.config_epoch /\ n.addr = s.m.addr
       /\ n.failover_epoch = s.m.failover_epoch /\ n.failover_state = s.m.failover_state
  BY <1>1, <1>8 DEF Master
<1> HIDE DEF n
<1>12. FriendsKept(i, s.m, n)
  BY <1>1, <1>9, <1>11 DEF FriendsKept
<1> DEFINE u == [s EXCEPT !.m = n]
<1>13. Good(i, u, V) /\ Quiet(s, u) /\ u.m = n /\ u.current_epoch = s.current_epoch
  BY SMTT(60), <1>11, <1>12, EntryGood, GoodTypes
<1> HIDE DEF u
<1>14. LET t == sentinelFlushConfig(u)
       IN Good(i, t, V) /\ Quiet(u, t) /\ t.m = u.m /\ t.current_epoch = u.current_epoch
  BY <1>13, FlushGood
<1>15. Quiet(s, sentinelFlushConfig(u))
  BY SMTT(60), <1>13, <1>14, QuietTrans
<1> QED
  BY SMTT(60), <1>7, <1>10, <1>11, <1>13, <1>14, <1>15 DEF u

\* A hello is handled.
LEMMA HelloGood ==
  ASSUME NEW i, NEW V, NEW s, Good(i, s, V), NEW h \in Hello, h.from # i,
         h.config_epoch <= h.epoch
  PROVE  LET t == sentinelProcessHelloMessage(s, h)
         IN Good(i, t, V) /\ Quiet(s, t) /\ t.m.config_epoch >= s.m.config_epoch
<1> DEFINE s1 == IF h.from \in DOMAIN s.m.sentinels /\ s.m.sentinels[h.from].at = h.at
                 THEN s ELSE Introduce(s, h)
           s2 == IF h.epoch > s.current_epoch
                 THEN sentinelFlushConfig([s1 EXCEPT !.current_epoch = h.epoch]) ELSE s1
           s3 == [s2 EXCEPT !.m.config_epoch = h.config_epoch]
           s4 == sentinelResetMasterAndChangeAddress(s3, h.addr)
<1>1. h.epoch \in Nat /\ h.config_epoch \in Nat /\ h.addr \in Instance
  BY DEF Hello
<1>2. s.m \in Master /\ s.current_epoch \in Nat /\ Quiet(s, s)
  BY SMTT(60), GoodTypes, QuietRefl
<1>3. /\ Good(i, s1, V) /\ Quiet(s, s1) /\ s1.current_epoch = s.current_epoch
      /\ s1.m.config_epoch = s.m.config_epoch
  BY <1>2, IntroduceGood
<1>4. sentinelProcessHelloMessage(s, h) =
        IF s.m.config_epoch >= h.config_epoch THEN s2 ELSE IF h.addr = s.m.addr THEN s3 ELSE s4
  BY DEF sentinelProcessHelloMessage
<1> HIDE DEF s1
<1>5. /\ Good(i, s2, V) /\ Quiet(s, s2) /\ s2.m.config_epoch = s.m.config_epoch
      /\ s2.current_epoch >= h.epoch
  <2>1. CASE h.epoch > s.current_epoch
    <3> DEFINE u == [s1 EXCEPT !.current_epoch = h.epoch]
    <3>1. Good(i, u, V) /\ Quiet(s1, u) /\ u.m = s1.m /\ u.current_epoch = h.epoch
      BY SMTT(60), <1>1, <1>2, <1>3, <2>1, EpochGood
    <3> HIDE DEF u
    <3>2. LET t == sentinelFlushConfig(u)
          IN Good(i, t, V) /\ Quiet(u, t) /\ t.m = u.m /\ t.current_epoch = u.current_epoch
      BY <3>1, FlushGood
    <3>3. s2 = sentinelFlushConfig(u)
      BY <2>1 DEF u
    <3> HIDE DEF s2
    <3>4. Quiet(s, u)
      BY <1>3, <3>1, QuietTrans
    <3>5. Good(i, s2, V) /\ Quiet(u, s2) /\ s2.m = u.m /\ s2.current_epoch = u.current_epoch
      BY <3>2, <3>3
    <3>6. Quiet(s, s2)
      BY <3>1, <3>4, <3>5, QuietTrans
    <3> QED
      BY SMTT(60), <1>1, <1>3, <3>1, <3>5, <3>6
  <2>2. CASE ~(h.epoch > s.current_epoch)
    BY <1>1, <1>2, <1>3, <2>2
  <2> QED
    BY <2>1, <2>2
<1> HIDE DEF s2
<1>6. CASE s.m.config_epoch >= h.config_epoch
  BY SMTT(60), <1>2, <1>4, <1>5, <1>6 DEF Master
<1>7. CASE ~(s.m.config_epoch >= h.config_epoch)
  <2> DEFINE n == [s2.m EXCEPT !.config_epoch = h.config_epoch]
  <2>1. s3 = [s2 EXCEPT !.m = n] /\ s2.m \in Master /\ s2.current_epoch \in Nat
    BY <1>5, GoodTypes
  <2>2. /\ n \in Master /\ n.leader = s2.m.leader /\ n.leader_epoch = s2.m.leader_epoch
        /\ n.sentinels = s2.m.sentinels /\ n.config_epoch = h.config_epoch
        /\ n.failover_epoch = s2.m.failover_epoch /\ n.failover_state = s2.m.failover_state
    BY SMTT(60), <1>1, <2>1 DEF Master
  <2> HIDE DEF n
  <2>3. FriendsKept(i, s2.m, n)
    BY <1>5, <2>2, GoodTypes DEF FriendsKept
  <2>4. /\ n.config_epoch <= s2.current_epoch /\ n.failover_epoch <= s2.current_epoch
        /\ s2.m.config_epoch <= n.config_epoch
    BY SMTT(60), <1>1, <1>2, <1>5, <1>7, <2>1, <2>2, GoodTypes DEF Master
  <2> HIDE DEF s3
  <2>5. Good(i, s3, V) /\ Quiet(s2, s3) /\ s3.m = n
    <3>1. LET t == [s2 EXCEPT !.m = n] IN Good(i, t, V) /\ Quiet(s2, t) /\ t.m = n
      BY SMTT(60), <1>5, <2>2, <2>3, <2>4, EntryGood
    <3> QED
      BY <2>1, <3>1
  <2>6. Quiet(s, s3)
    BY SMTT(60), <1>5, <2>5, QuietTrans
  <2>7. Good(i, s4, V) /\ Quiet(s3, s4) /\ s4.m.config_epoch = s3.m.config_epoch
    BY <1>1, <2>5, ChangeAddressGood
  <2> HIDE DEF s4
  <2>8. Quiet(s, s4)
    BY SMTT(60), <2>5, <2>6, <2>7, QuietTrans
  <2> QED
    BY SMTT(60), <1>1, <1>2, <1>4, <1>7, <2>2, <2>5, <2>6, <2>7, <2>8 DEF Master
<1> QED
  BY <1>6, <1>7

-----------------------------------------------------------------------------
(* Votes *)

\* The vote that i has given between s and t.
NewVote(i, s, t) ==
  IF t.m.leader = NULL \/ t.m.leader_epoch = s.m.leader_epoch THEN {}
  ELSE {<<i, t.m.leader_epoch, t.m.leader>>}

\* The parts of the entry that a vote leaves alone.
SameEntry(m, n) ==
  /\ n.failover_state = m.failover_state /\ n.failover_epoch = m.failover_epoch
  /\ n.flags = m.flags /\ n.sentinels = m.sentinels /\ n.config_epoch = m.config_epoch
  /\ n.addr = m.addr

\* A vote is asked for.
LEMMA VoteGood ==
  ASSUME NEW i \in Sentinel, NEW V, NEW s, Good(i, s, V), NEW epoch \in Nat, NEW runid \in Sentinel
  PROVE  LET t == sentinelVoteLeader(i, s, epoch, runid)
         IN /\ Good(i, t, V \cup NewVote(i, s, t)) /\ Later(s, t) /\ SameEntry(s.m, t.m)
            /\ t.m.leader_epoch # s.m.leader_epoch => t.m.leader \in Sentinel
            /\ t.current_epoch = IF epoch > s.current_epoch THEN epoch ELSE s.current_epoch
            /\ t.out = s.out
<1> DEFINE u  == [s EXCEPT !.current_epoch = epoch]
           s1 == IF epoch > s.current_epoch THEN sentinelFlushConfig(u) ELSE s
           n  == [s1.m EXCEPT !.leader = runid, !.leader_epoch = s1.current_epoch,
                              !.recent = s1.m.recent \/ runid # i]
           w  == [s1 EXCEPT !.m = n]
           t  == sentinelVoteLeader(i, s, epoch, runid)
<1>1. s \in State /\ s.m \in Master /\ s.current_epoch \in Nat /\ Quiet(s, s)
  BY GoodTypes, QuietRefl
<1>2. t = IF s1.m.leader_epoch < epoch /\ s1.current_epoch <= epoch
          THEN sentinelFlushConfig(w) ELSE s1
  BY DEF sentinelVoteLeader
<1>3. /\ Good(i, s1, V) /\ Quiet(s, s1) /\ s1.m = s.m /\ s1.out = s.out
      /\ s1.current_epoch = IF epoch > s.current_epoch THEN epoch ELSE s.current_epoch
  <2>1. CASE epoch > s.current_epoch
    <3>1. Good(i, u, V) /\ Quiet(s, u) /\ u.m = s.m /\ u.current_epoch = epoch
      BY <1>1, <2>1, EpochGood
    <3>2. u.out = s.out
      BY <1>1 DEF State
    <3> HIDE DEF u
    <3>3. LET x == sentinelFlushConfig(u)
          IN /\ Good(i, x, V) /\ Quiet(u, x) /\ x.m = u.m /\ x.current_epoch = u.current_epoch
             /\ x.out = u.out
      BY <3>1, FlushGood
    <3>4. Quiet(s, sentinelFlushConfig(u))
      BY SMTT(60), <3>1, <3>3, QuietTrans
    <3> QED
      BY SMTT(60), <2>1, <3>1, <3>2, <3>3, <3>4
  <2> QED
    BY <1>1, <2>1
<1> HIDE DEF s1, t
<1>4. CASE ~(s1.m.leader_epoch < epoch /\ s1.current_epoch <= epoch)
  <2>1. t = s1 /\ NewVote(i, s, t) = {}
    BY SMTT(60), <1>2, <1>3, <1>4 DEF NewVote
  <2> QED
    BY SMTT(60), <1>3, <2>1 DEF t, Quiet, SameEntry
<1>5. CASE s1.m.leader_epoch < epoch /\ s1.current_epoch <= epoch
  <2> DEFINE v == <<i, epoch, runid>>
             W == V \cup {v}
  <2>1. s1 \in State /\ s1.m \in Master /\ s1.disk \in File /\ EpochsOf(s1) /\ Backed(i, s1, V)
    BY SMTT(60), <1>3, GoodTypes DEF Good, State
  <2>2. s1.current_epoch = epoch
    BY <1>1, <1>3, <1>5
  <2>3. [s1.m EXCEPT !.leader = runid] \in Master
    BY <2>1 DEF Master
  <2>4. [s1.m EXCEPT !.leader = runid, !.leader_epoch = s1.current_epoch] \in Master
    BY Zenon, <2>2, <2>3 DEF Master
  <2>5. n \in Master
    BY Zenon, <2>4, <2>1 DEF Master
  <2>6. n.leader = runid /\ n.leader_epoch = epoch /\ SameEntry(s1.m, n)
    BY <2>1, <2>2 DEF Master, SameEntry
  <2> HIDE DEF n
  <2>7. /\ w \in State /\ w.m = n /\ w.current_epoch = epoch /\ w.disk = s1.disk /\ w.on = s1.on
        /\ w.out = s1.out
    BY SMTT(60), <2>1, <2>2, <2>5 DEF State
  <2> HIDE DEF w
  <2> DEFINE d == rewriteConfigSentinelOption(w)
  <2>8. /\ d.current_epoch = epoch /\ d.config_epoch = n.config_epoch
        /\ d.leader_epoch = epoch /\ d.on = w.on /\ DOMAIN d.sentinels = DOMAIN n.sentinels
    BY SMTT(60), <2>6, <2>7 DEF rewriteConfigSentinelOption
  <2>9. d \in File
    <3>1. w.m.slaves \in SlaveTable /\ w.m.sentinels \in FriendTable
      BY <2>5, <2>7 DEF Master
    <3>2. DOMAIN w.m.slaves \subseteq Instance
      BY <3>1, TableElim DEF SlaveTable
    <3>3. DOMAIN w.m.sentinels \in SUBSET Sentinel /\ w.m.sentinels \in [DOMAIN w.m.sentinels -> Friend]
      BY <3>1, TableElim DEF FriendTable
    <3>4. \A j \in DOMAIN w.m.sentinels : w.m.sentinels[j].at \in Host \cup {NULL}
      BY <3>3 DEF Friend
    <3>5. [j \in DOMAIN w.m.sentinels |-> w.m.sentinels[j].at] \in Table(Sentinel, Host \cup {NULL})
      BY ZenonT(60), <3>3, <3>4, TableIntro
    <3>6. sentinelGetCurrentMasterAddress(w.m) \in Instance /\ w.m.addr \in Instance
      BY <2>5, <2>7 DEF sentinelGetCurrentMasterAddress, Master
    <3>7. w.m \in Master /\ w.current_epoch \in Nat /\ w.on \in BOOLEAN
      BY <2>5, <2>7 DEF State
    <3> QED
      BY SMTT(60), <3>2, <3>5, <3>6, <3>7 DEF rewriteConfigSentinelOption, File, Master
  <2> HIDE DEF d
  <2>10. t = [w EXCEPT !.disk = d]
    BY <1>2, <1>5 DEF sentinelFlushConfig, d
  <2>11. /\ t \in State /\ t.m = n /\ t.current_epoch = epoch /\ t.disk = d /\ t.on = s1.on
         /\ t.out = s1.out
    BY <2>7, <2>9, <2>10 DEF State
  <2>12. n.config_epoch <= epoch /\ n.failover_epoch <= epoch
    BY <2>1, <2>2, <2>6 DEF EpochsOf, SameEntry
  <2>13. EpochsOf(t)
    BY SMTT(60), <2>6, <2>8, <2>11, <2>12 DEF EpochsOf
  <2>14. n.sentinels = s1.m.sentinels
    BY SMTT(60), <2>6 DEF SameEntry
  <2>15. Backed(i, t, W)
    BY SMTT(60), <2>1, <2>6, <2>8, <2>11, <2>14 DEF Backed
  <2>16. NewVote(i, s, t) = {v}
    <3>1. runid # NULL /\ s.m.leader_epoch < epoch /\ s.m.leader_epoch \in Nat
      BY SMTT(60), <1>1, <1>3, <1>5, NameAssumption DEF Master
    <3> QED
      BY SMTT(60), <3>1, <2>6, <2>11 DEF NewVote
  <2>17. Later(s, t)
    <3>1. Later(s, s1) /\ s1.m = s.m /\ s1.current_epoch <= epoch
      BY <1>3, <2>2 DEF Quiet
    <3>2. s1.disk.current_epoch <= s1.current_epoch /\ s1.disk.current_epoch \in Nat /\ s.disk.current_epoch \in Nat
      BY SMTT(60), <1>1, <2>1 DEF EpochsOf, State, File
    <3>3. s.m.leader_epoch <= epoch
      BY SMTT(60), <1>1, <1>3, <1>5 DEF Master
    <3> QED
      BY SMTT(60), <1>1, <2>2, <2>6, <2>7, <2>8, <2>11, <3>1, <3>2, <3>3 DEF Later, State
  <2> QED
    BY SMTT(60), <1>1, <1>3, <2>2, <2>6, <2>11, <2>13, <2>15, <2>16, <2>17 DEF Good, SameEntry, t
<1> QED
  BY SMTT(60), <1>4, <1>5

\* A question of another Sentinel is answered.
LEMMA AskedGood ==
  ASSUME NEW i \in Sentinel, NEW V, NEW s, Good(i, s, V), s.out = {}, NEW q \in Ask
  PROVE  LET t == IsMasterDownByAddr(i, s, q)
         IN /\ Good(i, t, V \cup NewVote(i, s, t)) /\ Later(s, t) /\ SameEntry(s.m, t.m)
            /\ t.m.leader_epoch # s.m.leader_epoch => t.m.leader \in Sentinel
            /\ t.out \subseteq Answer
            /\ \A a \in t.out : a.from = i /\ a.to = q.from
            /\ V \cup {<<i, a.epoch, a.leader>> : a \in {b \in t.out : b.leader # NULL}}
               = V \cup NewVote(i, s, t)
<1> DEFINE ours == s.on /\ s.m.addr = q.addr
           asks == ours /\ q.runid # NULL
           s1 == IF asks THEN sentinelVoteLeader(i, s, q.epoch, q.runid) ELSE s
           vote == ours /\ q.runid # NULL /\ s1.m.leader # NULL
           dn == ours /\ ~s.tilt /\ "s_down" \in s.m.flags
           ld == IF vote THEN s1.m.leader ELSE NULL
           ep == IF ours /\ q.runid # NULL THEN s1.m.leader_epoch ELSE 0
           a == [type |-> "answer", from |-> i, to |-> q.from, down |-> dn, leader |-> ld, epoch |-> ep]
           t == IsMasterDownByAddr(i, s, q)
           W == V \cup NewVote(i, s, t)
<1>1. q.from \in Sentinel /\ q.epoch \in Nat /\ q.runid \in Sentinel \cup {NULL} /\ NULL \notin Sentinel
  BY SMTT(60), NameAssumption DEF Ask
<1>2. t = Send(s1, {a})
  BY SMTT(60) DEF IsMasterDownByAddr
<1>3. /\ Good(i, s1, V \cup NewVote(i, s, s1)) /\ Later(s, s1) /\ SameEntry(s.m, s1.m)
      /\ s1.m.leader_epoch # s.m.leader_epoch => asks /\ s1.m.leader \in Sentinel
      /\ s1.out = {}
  <2>1. CASE asks
    <3>1. q.runid \in Sentinel /\ s1 = sentinelVoteLeader(i, s, q.epoch, q.runid)
      BY SMTT(60), <1>1, <2>1
    <3> HIDE DEF s1, asks
    <3> QED
      BY SMTT(60), <1>1, <2>1, <3>1, VoteGood
  <2>2. CASE ~asks
    <3>1. NewVote(i, s, s) = {} /\ SameEntry(s.m, s.m)
      BY DEF NewVote, SameEntry
    <3>2. Later(s, s)
      BY SMTT(60), QuietRefl DEF Quiet
    <3> QED
      BY SMTT(60), <2>2, <3>1, <3>2
  <2> QED
    BY SMTT(60), <2>1, <2>2
<1> HIDE DEF s1
<1>4. s1 \in State /\ s1.m \in Master /\ s1.m.leader \in Sentinel \cup {NULL} /\ s1.m.leader_epoch \in Nat
  BY SMTT(60), <1>3 DEF Good, State, Master
<1>5. dn \in BOOLEAN /\ ld \in Sentinel \cup {NULL} /\ ep \in Nat
  BY SMTT(60), <1>1, <1>4
<1>6. /\ ld # NULL => asks /\ ld = s1.m.leader /\ ep = s1.m.leader_epoch
      /\ asks /\ s1.m.leader # NULL => ld = s1.m.leader /\ ep = s1.m.leader_epoch
  BY SMTT(60)
<1> HIDE DEF dn, ld, ep
<1>7. a \in Answer /\ a.type = "answer" /\ a.leader = ld /\ a.epoch = ep /\ a.from = i /\ a.to = q.from
  BY <1>1, <1>5 DEF Answer
<1> HIDE DEF a, t
<1>8. /\ t \in State /\ t.m = s1.m /\ t.current_epoch = s1.current_epoch /\ t.disk = s1.disk
      /\ t.on = s1.on /\ t.out = {a}
  BY SMTT(60), <1>2, <1>3, <1>4, <1>7 DEF State, Send
<1>9. NewVote(i, s, t) = NewVote(i, s, s1)
  BY SMTT(60), <1>8 DEF NewVote
<1>10. ld # NULL => <<i, ep, ld>> \in V \cup NewVote(i, s, s1)
  BY SMTT(60), <1>3, <1>6 DEF Good, Backed
<1>11. V \cup {<<i, b.epoch, b.leader>> : b \in {b \in t.out : b.leader # NULL}} = W
  <2>1. NewVote(i, s, s1) \subseteq {<<i, b.epoch, b.leader>> : b \in {b \in t.out : b.leader # NULL}}
    BY SMTT(60), <1>3, <1>6, <1>7, <1>8 DEF NewVote
  <2>2. {<<i, b.epoch, b.leader>> : b \in {b \in t.out : b.leader # NULL}} \subseteq V \cup NewVote(i, s, s1)
    BY SMTT(60), <1>7, <1>8, <1>10
  <2> QED
    BY SMTT(60), <1>9, <2>1, <2>2
<1>12. Good(i, t, W)
  <2>1. EpochsOf(t)
    BY ZenonT(60), <1>3, <1>8 DEF Good, EpochsOf
  <2>2. Backed(i, t, W)
    BY SMTT(60), <1>3, <1>7, <1>8, <1>9, <1>10 DEF Good, Backed
  <2> QED
    BY SMTT(60), <1>8, <2>1, <2>2 DEF Good
<1>13. Later(s, t) /\ SameEntry(s.m, t.m)
  BY SMTT(60), <1>3, <1>8 DEF Later
<1> QED
  BY SMTT(60), <1>3, <1>7, <1>8, <1>11, <1>12, <1>13 DEF t

\* An answer arrives.
LEMMA ReplyGood ==
  ASSUME NEW i, NEW V, NEW s, Good(i, s, V), NEW a \in Answer,
         a.leader # NULL => <<a.from, a.epoch, a.leader>> \in V
  PROVE  LET t == sentinelReceiveIsMasterDownReply(s, a)
         IN Good(i, t, V) /\ Quiet(s, t) /\ t.out = s.out
<1>1. CASE ~s.on \/ a.from \notin DOMAIN s.m.sentinels
  BY <1>1, QuietRefl DEF sentinelReceiveIsMasterDownReply
<1>2. CASE ~(~s.on \/ a.from \notin DOMAIN s.m.sentinels)
  <2> DEFINE known == s.m.sentinels[a.from]
             ld == IF a.leader # NULL THEN a.leader ELSE known.leader
             ep == IF a.leader # NULL THEN a.epoch ELSE known.leader_epoch
             seen == [known EXCEPT !.down = a.down, !.leader = ld, !.leader_epoch = ep]
             g == With(s.m.sentinels, a.from, seen)
             n == [s.m EXCEPT !.sentinels = g]
             t == [s EXCEPT !.m = n]
  <2>1. /\ s \in State /\ s.m \in Master /\ s.m.sentinels \in FriendTable /\ s.disk \in File
        /\ s.m.sentinels \in [DOMAIN s.m.sentinels -> Friend] /\ EpochsOf(s) /\ Backed(i, s, V)
    BY GoodTypes DEF Good, State
  <2>2. known \in Friend
    BY <1>2, <2>1
  <2>3. a.from \in Sentinel /\ a.down \in BOOLEAN /\ a.leader \in Sentinel \cup {NULL} /\ a.epoch \in Nat
    BY SMTT(60) DEF Answer
  <2>4. ld \in Sentinel \cup {NULL} /\ ep \in Nat
    BY SMTT(60), <2>2, <2>3 DEF Friend
  <2>5. ld # NULL => <<a.from, ep, ld>> \in V
    BY <1>2, <2>1 DEF Backed
  <2>6. sentinelReceiveIsMasterDownReply(s, a) = [s EXCEPT !.m.sentinels = g]
    BY <1>2 DEF sentinelReceiveIsMasterDownReply
  <2> HIDE DEF ld, ep, known
  <2>7. seen \in Friend /\ seen.leader = ld /\ seen.leader_epoch = ep
    BY Zenon, <2>2, <2>3, <2>4 DEF Friend
  <2> HIDE DEF seen
  <2>8. g \in FriendTable
    BY <2>1, <2>3, <2>7, TableWith DEF FriendTable
  <2>9. /\ DOMAIN g = DOMAIN s.m.sentinels
        /\ \A j \in DOMAIN g : g[j] = IF j = a.from THEN seen ELSE s.m.sentinels[j]
    BY <1>2 DEF With
  <2> HIDE DEF g
  <2>10. [s EXCEPT !.m.sentinels = g] = t
    BY <2>1
  <2>11. /\ n \in Master /\ n.leader = s.m.leader /\ n.leader_epoch = s.m.leader_epoch
         /\ n.sentinels = g /\ n.config_epoch = s.m.config_epoch
         /\ n.failover_epoch = s.m.failover_epoch /\ n.failover_state = s.m.failover_state
    BY <2>1, <2>8 DEF Master
  <2> HIDE DEF n
  <2>12. /\ t \in State /\ t.m = n /\ t.current_epoch = s.current_epoch /\ t.disk = s.disk
         /\ t.out = s.out /\ t.on = s.on
    BY SMTT(60), <2>1, <2>11 DEF State
  <2> HIDE DEF t
  <2>13. EpochsOf(t)
    BY SMTT(60), <2>1, <2>11, <2>12 DEF EpochsOf
  <2>14. Backed(i, t, V)
    BY SMTT(60), <2>1, <2>5, <2>7, <2>9, <2>11, <2>12 DEF Backed
  <2>15. Quiet(s, t)
    BY SMTT(60), <2>11, <2>12, QuietRefl DEF Quiet, Later
  <2> QED
    BY SMTT(60), <2>6, <2>10, <2>12, <2>13, <2>14, <2>15 DEF Good
<1> QED
  BY <1>1, <1>2

\* From s to t neither a vote nor the progress of a failover.
Steady(s, t) ==
  /\ Quiet(s, t)
  /\ t.current_epoch = s.current_epoch /\ t.m.leader = s.m.leader
  /\ t.m.failover_state = s.m.failover_state /\ t.m.failover_epoch = s.m.failover_epoch
  /\ t.m.config_epoch = s.m.config_epoch /\ DOMAIN t.m.sentinels = DOMAIN s.m.sentinels
  /\ "force_failover" \in t.m.flags <=> "force_failover" \in s.m.flags

\* Two steps in a row that leave votes and failover alone leave them alone.
LEMMA SteadyTrans ==
  ASSUME NEW i, NEW V, NEW r, NEW s, NEW t, Good(i, r, V), Good(i, s, V), Good(i, t, V),
         Steady(r, s), Steady(s, t)
  PROVE  Steady(r, t)
<1>1. Quiet(r, t)
  BY QuietTrans DEF Steady
<1> QED
  BY SMTT(60), <1>1 DEF Steady

\* Flags of the master other than force_failover change.
LEMMA FlagsGood ==
  ASSUME NEW i, NEW V, NEW s, Good(i, s, V), NEW f \in SUBSET MasterFlag,
         "force_failover" \in f <=> "force_failover" \in s.m.flags
  PROVE  LET t == [s EXCEPT !.m.flags = f]
         IN Good(i, t, V) /\ Steady(s, t) /\ t.m.flags = f
<1> DEFINE t == [s EXCEPT !.m.flags = f]
<1>1. Good(i, t, V) /\ Quiet(s, t) /\ t.m = [s.m EXCEPT !.flags = f]
  BY SMTT(60), PutGood
<1>2. s \in State /\ s.m \in Master
  BY GoodTypes
<1>3. t.current_epoch = s.current_epoch
  BY <1>2 DEF State
<1> HIDE DEF t
<1>4. /\ t.m.leader = s.m.leader /\ t.m.failover_state = s.m.failover_state
      /\ t.m.failover_epoch = s.m.failover_epoch /\ t.m.config_epoch = s.m.config_epoch
      /\ t.m.sentinels = s.m.sentinels /\ t.m.flags = f
  BY <1>1, <1>2 DEF Master
<1> QED
  BY <1>1, <1>3, <1>4 DEF Steady, t

\* The table of slaves changes.
LEMMA SlavesGood ==
  ASSUME NEW i, NEW V, NEW s, Good(i, s, V), NEW f \in SlaveTable
  PROVE  LET t == [s EXCEPT !.m.slaves = f]
         IN Good(i, t, V) /\ Steady(s, t) /\ t.m = [s.m EXCEPT !.slaves = f]
<1> DEFINE t == [s EXCEPT !.m.slaves = f]
<1>1. Good(i, t, V) /\ Quiet(s, t) /\ t.m = [s.m EXCEPT !.slaves = f]
  BY SMTT(60), PutGood
<1>2. s \in State /\ s.m \in Master
  BY GoodTypes
<1>3. t.current_epoch = s.current_epoch
  BY <1>2 DEF State
<1> HIDE DEF t
<1>4. /\ t.m.leader = s.m.leader /\ t.m.failover_state = s.m.failover_state
      /\ t.m.failover_epoch = s.m.failover_epoch /\ t.m.config_epoch = s.m.config_epoch
      /\ t.m.sentinels = s.m.sentinels /\ t.m.flags = s.m.flags
  BY SMTT(60), <1>1, <1>2 DEF Master
<1> QED
  BY <1>1, <1>3, <1>4 DEF Steady, t

\* Questions and commands are sent.
LEMMA SendSteady ==
  ASSUME NEW i, NEW V, NEW s, Good(i, s, V), NEW msgs \in SUBSET (Ask \cup SlaveOfMsg)
  PROVE  Good(i, Send(s, msgs), V) /\ Steady(s, Send(s, msgs)) /\ Send(s, msgs).m = s.m
BY SendGood DEF Steady

\* The other Sentinels are asked about the master.
LEMMA AskGood ==
  ASSUME NEW i \in Sentinel, NEW V, NEW s, Good(i, s, V), NEW links, NEW stale
  PROVE  LET t == sentinelAskMasterStateToOtherSentinels(i, s, links, stale)
         IN Good(i, t, V) /\ Steady(s, t)
<1> DEFINE known == s.m.sentinels
           g == [j \in DOMAIN known |->
                   IF j \in stale THEN [known[j] EXCEPT !.down = FALSE, !.leader = NULL] ELSE known[j]]
           n == [s.m EXCEPT !.sentinels = g]
           s1 == [s EXCEPT !.m = n]
           msgs == {[type |-> "ask", from |-> i, to |-> j, addr |-> s.m.addr,
                     epoch |-> s.current_epoch,
                     runid |-> IF s.m.failover_state > NONE THEN i ELSE NULL] :
                       j \in links \cap DOMAIN s.m.sentinels}
           t == sentinelAskMasterStateToOtherSentinels(i, s, links, stale)
<1>1. /\ s \in State /\ s.m \in Master /\ known \in FriendTable /\ DOMAIN known \in SUBSET Sentinel
      /\ known \in [DOMAIN known -> Friend] /\ FriendsKept(i, s.m, s.m)
  BY GoodTypes
<1>2. \A j \in DOMAIN known :
        LET k == [known[j] EXCEPT !.down = FALSE, !.leader = NULL]
        IN k \in Friend /\ k.leader = NULL
  BY ZenonT(60), <1>1 DEF Friend
<1>3. /\ g \in [DOMAIN known -> Friend]
      /\ \A j \in DOMAIN known : g[j].leader = NULL \/ g[j] = known[j]
  BY Zenon, <1>1, <1>2
<1>4. msgs \in SUBSET (Ask \cup SlaveOfMsg)
  <2>1. s.m.addr \in Instance /\ s.current_epoch \in Nat
    BY <1>1 DEF Master, State
  <2> QED
    BY SMTT(60), <1>1, <2>1 DEF Ask
<1>5. t = IF "s_down" \notin s.m.flags THEN [s EXCEPT !.m.sentinels = g]
          ELSE Send([s EXCEPT !.m.sentinels = g], msgs)
  BY SMTT(60) DEF sentinelAskMasterStateToOtherSentinels
<1> HIDE DEF g, msgs
<1>6. g \in FriendTable /\ DOMAIN g = DOMAIN known
  BY ZenonT(60), <1>1, <1>3, TableIntro DEF FriendTable
<1>7. [s EXCEPT !.m.sentinels = g] = s1
  BY <1>1
<1>8. /\ n \in Master /\ n.leader = s.m.leader /\ n.leader_epoch = s.m.leader_epoch
      /\ n.sentinels = g /\ n.config_epoch = s.m.config_epoch /\ n.flags = s.m.flags
      /\ n.failover_epoch = s.m.failover_epoch /\ n.failover_state = s.m.failover_state
  BY <1>1, <1>6 DEF Master
<1> HIDE DEF n
<1>9. FriendsKept(i, s.m, n)
  BY <1>1, <1>3, <1>6, <1>8 DEF FriendsKept
<1>10. Good(i, s1, V) /\ Quiet(s, s1) /\ s1.m = n /\ s1.current_epoch = s.current_epoch
  BY SMTT(60), <1>8, <1>9, EntryGood, GoodTypes
<1> HIDE DEF s1
<1>11. Steady(s, s1)
  BY SMTT(60), <1>6, <1>8, <1>10 DEF Steady
<1>12. LET x == Send(s1, msgs) IN Good(i, x, V) /\ Steady(s1, x)
  BY SMTT(60), <1>4, <1>10, SendSteady
<1>13. Steady(s, Send(s1, msgs))
  BY SMTT(60), <1>10, <1>11, <1>12, SteadyTrans
<1> QED
  BY SMTT(60), <1>5, <1>7, <1>10, <1>11, <1>12, <1>13

\* The master is found to be down, or up.
LEMMA DownGood ==
  ASSUME NEW i, NEW V, NEW s, Good(i, s, V), NEW down
  PROVE  LET t == sentinelCheckObjectivelyDown(
                    [s EXCEPT !.m.flags = sentinelCheckSubjectivelyDown(@, down)])
         IN Good(i, t, V) /\ Steady(s, t)
<1> DEFINE f == sentinelCheckSubjectivelyDown(s.m.flags, down)
           u == [s EXCEPT !.m.flags = f]
           t == sentinelCheckObjectivelyDown(u)
<1>1. s.m \in Master /\ s.m.flags \in SUBSET MasterFlag /\ s \in State
  BY GoodTypes DEF Master
<1>2. f \in SUBSET MasterFlag /\ ("force_failover" \in f <=> "force_failover" \in s.m.flags)
  BY <1>1 DEF sentinelCheckSubjectivelyDown, MasterFlag
<1>3. [s EXCEPT !.m.flags = sentinelCheckSubjectivelyDown(@, down)] = u
  BY <1>1 DEF State, Master
<1> HIDE DEF f
<1>4. Good(i, u, V) /\ Steady(s, u)
  BY Zenon, <1>2, FlagsGood
<1> HIDE DEF u
<1>5. u.m.flags \in SUBSET MasterFlag /\ u \in State /\ u.m \in Master
  BY <1>4, GoodTypes DEF Master
<1> DEFINE a == u.m.flags \cup {"o_down"}
           b == u.m.flags \ {"o_down"}
<1>6. /\ a \in SUBSET MasterFlag /\ ("force_failover" \in a <=> "force_failover" \in u.m.flags)
      /\ b \in SUBSET MasterFlag /\ ("force_failover" \in b <=> "force_failover" \in u.m.flags)
  BY <1>5 DEF MasterFlag
<1>7. t = [u EXCEPT !.m.flags = a] \/ t = [u EXCEPT !.m.flags = b]
  BY <1>5 DEF sentinelCheckObjectivelyDown, State, Master
<1> HIDE DEF a, b, t
<1>8. Good(i, t, V) /\ Steady(u, t)
  <2>1. LET x == [u EXCEPT !.m.flags = a] IN Good(i, x, V) /\ Steady(u, x)
    BY Zenon, <1>4, <1>6, FlagsGood
  <2>2. LET x == [u EXCEPT !.m.flags = b] IN Good(i, x, V) /\ Steady(u, x)
    BY ZenonT(60), <1>4, <1>6, FlagsGood
  <2> QED
    BY <1>7, <2>1, <2>2
<1>9. Steady(s, t)
  BY <1>4, <1>8, SteadyTrans
<1> QED
  BY SMTT(60), <1>3, <1>8, <1>9 DEF t

-----------------------------------------------------------------------------
(* The steps of a failover *)

\* The states of the failover.
LEMMA StateRange ==
  /\ NONE \in NONE..UPDATE_CONFIG /\ WAIT_START \in NONE..UPDATE_CONFIG
  /\ SELECT_SLAVE \in NONE..UPDATE_CONFIG /\ SEND_SLAVEOF_NOONE \in NONE..UPDATE_CONFIG
  /\ WAIT_PROMOTION \in NONE..UPDATE_CONFIG /\ RECONF_SLAVES \in NONE..UPDATE_CONFIG
  /\ UPDATE_CONFIG \in NONE..UPDATE_CONFIG
  /\ WAIT_START < SELECT_SLAVE
  /\ SELECT_SLAVE \notin {NONE, WAIT_START, SEND_SLAVEOF_NOONE, WAIT_PROMOTION, RECONF_SLAVES,
                          UPDATE_CONFIG}
  /\ UPDATE_CONFIG \notin {NONE, WAIT_START, SELECT_SLAVE}
BY DEF NONE, WAIT_START, SELECT_SLAVE, SEND_SLAVEOF_NOONE, WAIT_PROMOTION, RECONF_SLAVES, UPDATE_CONFIG

\* The entry changes, but not what concerns votes, elections and configurations.
LEMMA MoveGood ==
  ASSUME NEW i, NEW V, NEW s, Good(i, s, V), NEW n \in Master,
         n.leader = s.m.leader, n.leader_epoch = s.m.leader_epoch, n.sentinels = s.m.sentinels,
         n.config_epoch = s.m.config_epoch, n.failover_epoch = s.m.failover_epoch,
         n.failover_state # SELECT_SLAVE
  PROVE  LET t == [s EXCEPT !.m = n]
         IN /\ Good(i, t, V) /\ Quiet(s, t) /\ t.m = n /\ t.current_epoch = s.current_epoch
            /\ t.m.leader = s.m.leader
<1>1. FriendsKept(i, s.m, n)
  BY GoodTypes DEF FriendsKept
<1> QED
  BY SMTT(60), <1>1, EntryGood, GoodTypes

\* A failover begins.
LEMMA StartGood ==
  ASSUME NEW i, NEW V, NEW s, Good(i, s, V)
  PROVE  LET t == sentinelStartFailover(s)
         IN /\ Good(i, t, V) /\ Quiet(s, t) /\ t.m.leader = s.m.leader
            /\ t.m.failover_state = WAIT_START /\ t.m.config_epoch = s.m.config_epoch
<1> DEFINE e == s.current_epoch + 1
           u == [s EXCEPT !.current_epoch = e]
           f == s.m.flags \cup {"failover_in_progress"}
           n == [s.m EXCEPT !.failover_state = WAIT_START, !.flags = f,
                            !.failover_epoch = e, !.recent = TRUE]
           t == sentinelStartFailover(s)
<1>1. s \in State /\ s.m \in Master /\ s.current_epoch \in Nat /\ e \in Nat /\ s.current_epoch <= e
  BY GoodTypes
<1>2. t = [u EXCEPT !.m = n]
  BY <1>1 DEF sentinelStartFailover, State
<1> HIDE DEF e, t
<1>3. Good(i, u, V) /\ Quiet(s, u) /\ u.m = s.m /\ u.current_epoch = e
  BY SMTT(60), <1>1, EpochGood
<1> HIDE DEF u
<1>4. f \in SUBSET MasterFlag /\ WAIT_START \in NONE..UPDATE_CONFIG
  BY <1>1, StateRange DEF Master, MasterFlag
<1> HIDE DEF f
<1>5. [s.m EXCEPT !.failover_state = WAIT_START] \in Master
  BY <1>1, <1>4 DEF Master
<1>6. [s.m EXCEPT !.failover_state = WAIT_START, !.flags = f] \in Master
  BY Zenon, <1>4, <1>5 DEF Master
<1>7. [s.m EXCEPT !.failover_state = WAIT_START, !.flags = f, !.failover_epoch = e] \in Master
  BY Zenon, <1>1, <1>6 DEF Master
<1>8. n \in Master
  BY ZenonT(60), <1>7 DEF Master
<1>9. /\ n.leader = s.m.leader /\ n.leader_epoch = s.m.leader_epoch /\ n.sentinels = s.m.sentinels
      /\ n.config_epoch = s.m.config_epoch /\ n.failover_epoch = e /\ n.failover_state = WAIT_START
  BY <1>1 DEF Master
<1> HIDE DEF n
<1>10. FriendsKept(i, u.m, n)
  BY <1>3, <1>9, GoodTypes DEF FriendsKept
<1>11. /\ n.config_epoch <= u.current_epoch /\ n.failover_epoch <= u.current_epoch
       /\ u.m.config_epoch <= n.config_epoch
  BY <1>1, <1>3, <1>9, GoodTypes
<1>12. Good(i, t, V) /\ Quiet(u, t) /\ t.m = n
  BY SMTT(60), <1>2, <1>3, <1>8, <1>9, <1>10, <1>11, EntryGood DEF WAIT_START, SELECT_SLAVE
<1>13. Quiet(s, t)
  BY <1>3, <1>12, QuietTrans
<1> QED
  BY SMTT(60), <1>9, <1>12, <1>13 DEF t

\* A failover is aborted.
LEMMA AbortGood ==
  ASSUME NEW i, NEW V, NEW s, Good(i, s, V)
  PROVE  LET t == sentinelAbortFailover(s)
         IN /\ Good(i, t, V) /\ Quiet(s, t) /\ t.m.leader = s.m.leader
            /\ t.m.failover_state = NONE /\ t.m.config_epoch = s.m.config_epoch
<1> DEFINE f == s.m.flags \ {"failover_in_progress", "force_failover"}
           g == [x \in DOMAIN s.m.slaves |->
                   IF x = s.m.promoted THEN s.m.slaves[x] \ {"promoted"} ELSE s.m.slaves[x]]
           n == [s.m EXCEPT !.flags = f, !.failover_state = NONE, !.slaves = g, !.promoted = NULL]
           t == sentinelAbortFailover(s)
<1>1. /\ s.m \in Master /\ DOMAIN s.m.slaves \in SUBSET Instance
      /\ s.m.slaves \in [DOMAIN s.m.slaves -> SUBSET SlaveFlag]
  BY GoodTypes
<1>2. t = [s EXCEPT !.m = n]
  BY DEF sentinelAbortFailover
<1> HIDE DEF t
<1>3. f \in SUBSET MasterFlag /\ NONE \in NONE..UPDATE_CONFIG
  BY SMTT(60), <1>1 DEF Master, NONE, UPDATE_CONFIG
<1>4. g \in SlaveTable
  <2>1. g \in [DOMAIN s.m.slaves -> SUBSET SlaveFlag]
    BY <1>1
  <2> QED
    BY Zenon, <1>1, <2>1, TableIntro DEF SlaveTable
<1> HIDE DEF f, g
<1>5. [s.m EXCEPT !.flags = f] \in Master
  BY <1>1, <1>3 DEF Master
<1>6. [s.m EXCEPT !.flags = f, !.failover_state = NONE] \in Master
  BY Zenon, <1>3, <1>5 DEF Master
<1>7. [s.m EXCEPT !.flags = f, !.failover_state = NONE, !.slaves = g] \in Master
  BY Zenon, <1>4, <1>6 DEF Master
<1>8. n \in Master
  BY ZenonT(60), <1>7 DEF Master
<1>9. /\ n.leader = s.m.leader /\ n.leader_epoch = s.m.leader_epoch /\ n.sentinels = s.m.sentinels
      /\ n.config_epoch = s.m.config_epoch /\ n.failover_epoch = s.m.failover_epoch
      /\ n.failover_state = NONE
  BY <1>1 DEF Master
<1> HIDE DEF n
<1>10. LET x == [s EXCEPT !.m = n] IN Good(i, x, V) /\ Quiet(s, x) /\ x.m = n
  BY <1>8, <1>9, MoveGood DEF NONE, SELECT_SLAVE
<1> QED
  BY SMTT(60), <1>2, <1>9, <1>10 DEF t

\* A slave is selected.
LEMMA SelectGood ==
  ASSUME NEW i, NEW V, NEW s, Good(i, s, V), NEW c
  PROVE  LET t == sentinelFailoverSelectSlave(s, c)
         IN Good(i, t, V) /\ Quiet(s, t)
<1> DEFINE x == sentinelSelectSlave(s, c)
           fit == {y \in (DOMAIN s.m.slaves \cap c.reach) \ c.unfit :
                     "s_down" \notin s.m.slaves[y] /\ c.rank[y].priority # 0}
           best == {y \in fit : \A z \in fit \ {y} : compareSlavesForPromotion(c.rank, y, z)}
           f == s.m.slaves[x] \cup {"promoted"}
           g == With(s.m.slaves, x, f)
           n == [s.m EXCEPT !.slaves = g, !.promoted = x, !.failover_state = SEND_SLAVEOF_NOONE]
           t == sentinelFailoverSelectSlave(s, c)
<1>1. /\ s.m \in Master /\ DOMAIN s.m.slaves \in SUBSET Instance /\ s.m.slaves \in SlaveTable
      /\ s.m.slaves \in [DOMAIN s.m.slaves -> SUBSET SlaveFlag]
  BY GoodTypes
<1>2. t = IF x = NULL THEN sentinelAbortFailover(s) ELSE [s EXCEPT !.m = n]
  BY DEF sentinelFailoverSelectSlave
<1>3. x = NULL \/ x \in DOMAIN s.m.slaves
  <2>1. x = IF best = {} THEN NULL ELSE CHOOSE y \in best : TRUE
    BY SMTT(60) DEF sentinelSelectSlave
  <2>2. best \subseteq DOMAIN s.m.slaves
    OBVIOUS
  <2> HIDE DEF best, x
  <2> QED
    BY SMTT(60), <2>1, <2>2
<1> HIDE DEF x, t
<1>4. CASE x = NULL
  BY <1>2, <1>4, AbortGood DEF t
<1>5. CASE x # NULL
  <2>1. x \in DOMAIN s.m.slaves /\ x \in Instance
    BY SMTT(60), <1>1, <1>3, <1>5
  <2>2. f \in SUBSET SlaveFlag
    BY SMTT(60), <1>1, <2>1 DEF SlaveFlag
  <2> HIDE DEF f
  <2>3. g \in SlaveTable
    BY SMTT(60), <1>1, <2>1, <2>2, TableWith DEF SlaveTable
  <2> HIDE DEF g
  <2>4. [s.m EXCEPT !.slaves = g] \in Master
    BY <1>1, <2>3 DEF Master
  <2>5. [s.m EXCEPT !.slaves = g, !.promoted = x] \in Master
    BY Zenon, <2>1, <2>4 DEF Master
  <2>6. n \in Master
    BY Zenon, <2>5, StateRange DEF Master
  <2>7. /\ n.leader = s.m.leader /\ n.leader_epoch = s.m.leader_epoch /\ n.sentinels = s.m.sentinels
        /\ n.config_epoch = s.m.config_epoch /\ n.failover_epoch = s.m.failover_epoch
        /\ n.failover_state = SEND_SLAVEOF_NOONE
    BY <1>1 DEF Master
  <2> HIDE DEF n
  <2>8. LET y == [s EXCEPT !.m = n] IN Good(i, y, V) /\ Quiet(s, y)
    BY SMTT(60), <2>6, <2>7, MoveGood DEF SEND_SLAVEOF_NOONE, SELECT_SLAVE
  <2> QED
    BY SMTT(60), <1>2, <1>5, <2>8 DEF t
<1> QED
  BY <1>4, <1>5

\* Only the state of the failover changes.
LEMMA StateGood ==
  ASSUME NEW i, NEW V, NEW s, Good(i, s, V), NEW x \in NONE..UPDATE_CONFIG, x # SELECT_SLAVE
  PROVE  LET t == [s EXCEPT !.m.failover_state = x]
         IN /\ Good(i, t, V) /\ Quiet(s, t) /\ t.m.slaves = s.m.slaves
            /\ t.m.failover_state = x
<1> DEFINE n == [s.m EXCEPT !.failover_state = x]
<1>1. s.m \in Master
  BY GoodTypes
<1>2. [s EXCEPT !.m.failover_state = x] = [s EXCEPT !.m = n]
  OBVIOUS
<1>3. /\ n \in Master /\ n.leader = s.m.leader /\ n.leader_epoch = s.m.leader_epoch
      /\ n.sentinels = s.m.sentinels /\ n.config_epoch = s.m.config_epoch
      /\ n.failover_epoch = s.m.failover_epoch /\ n.failover_state = x /\ n.slaves = s.m.slaves
  BY <1>1 DEF Master
<1> HIDE DEF n
<1>4. LET t == [s EXCEPT !.m = n] IN Good(i, t, V) /\ Quiet(s, t) /\ t.m = n
  BY <1>3, MoveGood
<1> QED
  BY Zenon, <1>2, <1>3, <1>4

\* SLAVEOF NO ONE is sent to the promoted slave.
LEMMA NoOneGood ==
  ASSUME NEW i \in Sentinel, NEW V, NEW s, Good(i, s, V), NEW c, NULL \notin c.reach
  PROVE  LET t == sentinelFailoverSendSlaveOfNoOne(i, s, c)
         IN Good(i, t, V) /\ Quiet(s, t)
<1> DEFINE t == sentinelFailoverSendSlaveOfNoOne(i, s, c)
           u == [s EXCEPT !.m.failover_state = WAIT_PROMOTION]
           q == sentinelSendSlaveOf(i, s.m.promoted, NULL)
<1>1. CASE s.m.promoted \notin c.reach
  BY SMTT(60), <1>1, AbortGood, QuietRefl DEF sentinelFailoverSendSlaveOfNoOne
<1>2. CASE s.m.promoted \in c.reach
  <2>1. t = Send(u, {q})
    BY SMTT(60), <1>2 DEF sentinelFailoverSendSlaveOfNoOne
  <2>2. s.m.promoted \in Instance
    BY SMTT(60), <1>2, GoodTypes DEF Master
  <2>3. q \in SlaveOfMsg
    BY <2>2 DEF sentinelSendSlaveOf, SlaveOfMsg
  <2>4. Good(i, u, V) /\ Quiet(s, u)
    BY ZenonT(60), StateGood, StateRange
  <2> HIDE DEF u, q
  <2>5. LET x == Send(u, {q}) IN Good(i, x, V) /\ Quiet(u, x)
    BY <2>3, <2>4, SendGood
  <2>6. Quiet(s, Send(u, {q}))
    BY <2>4, <2>5, QuietTrans
  <2> QED
    BY SMTT(60), <2>1, <2>5, <2>6
<1> QED
  BY <1>1, <1>2

\* The end of a failover is detected.
LEMMA DetectEndGood ==
  ASSUME NEW i \in Sentinel, NEW V, NEW s, Good(i, s, V), NEW c
  PROVE  LET t == sentinelFailoverDetectEnd(i, s, c)
         IN Good(i, t, V) /\ Quiet(s, t)
<1> DEFINE timeout == "failover" \in c.elapsed
           todo == {x \in DOMAIN s.m.slaves :
                      s.m.slaves[x] \cap {"promoted", "reconf_done", "s_down"} = {}}
           told == {x \in DOMAIN s.m.slaves \cap c.reach :
                      s.m.slaves[x] \cap {"reconf_done", "reconf_sent"} = {}}
           s1 == IF todo = {} \/ timeout THEN [s EXCEPT !.m.failover_state = UPDATE_CONFIG] ELSE s
           g == [x \in DOMAIN s.m.slaves |->
                   IF x \in told THEN s.m.slaves[x] \cup {"reconf_sent"} ELSE s.m.slaves[x]]
           s2 == [s1 EXCEPT !.m.slaves = g]
           msgs == {sentinelSendSlaveOf(i, x, s.m.promoted) : x \in told}
           none == s.m.promoted = NULL \/ "s_down" \in s.m.slaves[s.m.promoted]
           t == sentinelFailoverDetectEnd(i, s, c)
<1>1. /\ s.m \in Master /\ DOMAIN s.m.slaves \in SUBSET Instance
      /\ s.m.slaves \in [DOMAIN s.m.slaves -> SUBSET SlaveFlag]
      /\ s.m.promoted \in Instance \cup {NULL}
  BY GoodTypes DEF Master
<1>2. t = IF none THEN s ELSE IF ~timeout THEN s1 ELSE Send(s2, msgs)
  BY DEF sentinelFailoverDetectEnd
<1>3. Good(i, s1, V) /\ Quiet(s, s1)
  <2>1. LET x == [s EXCEPT !.m.failover_state = UPDATE_CONFIG] IN Good(i, x, V) /\ Quiet(s, x)
    BY Zenon, StateGood, StateRange
  <2> QED
    BY <2>1, QuietRefl
<1>4. g \in SlaveTable
  <2>1. g \in [DOMAIN s.m.slaves -> SUBSET SlaveFlag]
    BY <1>1 DEF SlaveFlag
  <2> QED
    BY ZenonT(60), <1>1, <2>1, TableIntro DEF SlaveTable
<1>5. msgs \in SUBSET (Ask \cup SlaveOfMsg)
  BY <1>1 DEF sentinelSendSlaveOf, SlaveOfMsg
<1> HIDE DEF s1, g, msgs, none, timeout
<1>6. Good(i, s2, V) /\ Quiet(s1, s2)
  BY ZenonT(60), <1>3, <1>4, SlavesGood DEF Steady
<1> HIDE DEF s2
<1>7. LET x == Send(s2, msgs) IN Good(i, x, V) /\ Quiet(s2, x)
  BY <1>5, <1>6, SendGood
<1>8. Quiet(s, s2)
  BY <1>3, <1>6, QuietTrans
<1>9. Quiet(s, Send(s2, msgs))
  BY <1>6, <1>7, <1>8, QuietTrans
<1> QED
  BY ZenonT(60), <1>2, <1>3, <1>7, <1>9, QuietRefl

\* Slaves are told to follow the new master.
LEMMA ReconfGood ==
  ASSUME NEW i \in Sentinel, NEW V, NEW s, Good(i, s, V), NEW c,
         NEW t \in sentinelFailoverReconfNextSlave(i, s, c)
  PROVE  Good(i, t, V) /\ Quiet(s, t)
<1>1. PICK visited \in Visits(s, c) :
        t = sentinelFailoverDetectEnd(i, ReconfPass(i, s, c, visited), c)
  BY SMTT(60) DEF sentinelFailoverReconfNextSlave
<1> DEFINE told == visited \cap ToTell(s, c)
           g == [x \in DOMAIN s.m.slaves |->
                   (IF x \in visited THEN Overdue(s.m.slaves[x], c) ELSE s.m.slaves[x])
                   \cup (IF x \in told THEN {"reconf_sent"} ELSE {})]
           u == [s EXCEPT !.m.slaves = g]
           msgs == {sentinelSendSlaveOf(i, x, s.m.promoted) : x \in told}
           p == ReconfPass(i, s, c, visited)
<1>2. /\ s.m \in Master /\ DOMAIN s.m.slaves \in SUBSET Instance
      /\ s.m.slaves \in [DOMAIN s.m.slaves -> SUBSET SlaveFlag]
      /\ s.m.promoted \in Instance \cup {NULL}
  BY GoodTypes DEF Master
<1>3. p = Send(u, msgs)
  BY SMTT(60) DEF ReconfPass
<1>4. \A x \in DOMAIN s.m.slaves : Overdue(s.m.slaves[x], c) \in SUBSET SlaveFlag
  BY SMTT(60), <1>2 DEF Overdue, SlaveFlag
<1>5. g \in SlaveTable
  <2>1. g \in [DOMAIN s.m.slaves -> SUBSET SlaveFlag]
    BY <1>2, <1>4 DEF SlaveFlag
  <2> QED
    BY Zenon, <1>2, <2>1, TableIntro DEF SlaveTable
<1>6. msgs \in SUBSET (Ask \cup SlaveOfMsg)
  BY <1>2 DEF sentinelSendSlaveOf, SlaveOfMsg, ToTell
<1> HIDE DEF g, msgs, p
<1>7. Good(i, u, V) /\ Quiet(s, u)
  BY ZenonT(60), <1>5, SlavesGood DEF Steady
<1> HIDE DEF u
<1>8. Good(i, p, V) /\ Quiet(u, p)
  BY <1>3, <1>6, <1>7, SendGood
<1>9. Quiet(s, p)
  BY <1>7, <1>8, QuietTrans
<1>10. Good(i, t, V) /\ Quiet(p, t)
  BY <1>1, <1>8, DetectEndGood DEF p
<1> QED
  BY SMTT(60), <1>8, <1>9, <1>10, QuietTrans

\* A step of the state machine that does not count votes.
LEMMA MachineGood ==
  ASSUME NEW i \in Sentinel, NEW V, NEW s, Good(i, s, V), NEW c, NULL \notin c.reach,
         ~(InProgress(s) /\ s.m.failover_state = WAIT_START),
         NEW t \in sentinelFailoverStateMachine(i, s, c)
  PROVE  Good(i, t, V) /\ Quiet(s, t)
<1>1. /\ LET x == sentinelFailoverSelectSlave(s, c) IN Good(i, x, V) /\ Quiet(s, x)
      /\ LET x == sentinelFailoverSendSlaveOfNoOne(i, s, c) IN Good(i, x, V) /\ Quiet(s, x)
      /\ LET x == sentinelFailoverWaitPromotion(s, c) IN Good(i, x, V) /\ Quiet(s, x)
  BY SMTT(60), SelectGood, NoOneGood, AbortGood, QuietRefl DEF sentinelFailoverWaitPromotion
<1>2. \/ t = s
      \/ t = sentinelFailoverSelectSlave(s, c)
      \/ t = sentinelFailoverSendSlaveOfNoOne(i, s, c)
      \/ t = sentinelFailoverWaitPromotion(s, c)
      \/ t \in sentinelFailoverReconfNextSlave(i, s, c)
  BY ZenonT(60) DEF sentinelFailoverStateMachine
<1> QED
  BY ZenonT(60), <1>1, <1>2, ReconfGood, QuietRefl

-----------------------------------------------------------------------------
(* Elections *)

\* A majority of the Sentinels in the table, i included, has voted for i in epoch c; its own
\* vote may be one of epoch e.
Elects(i, m, e, c, W) ==
  \E Q \in SUBSET (DOMAIN m.sentinels \cup {i}) :
    /\ 2 * Cardinality(Q) > Cardinality(DOMAIN m.sentinels \cup {i})
    /\ \A q \in Q : <<q, c, i>> \in W \/ (q = i /\ <<q, e, i>> \in W)

\* The votes are counted, and one's own is given.
LEMMA LeaderGood ==
  ASSUME NEW i \in Sentinel, NEW V, NEW s, Good(i, s, V), NEW epoch \in Nat, epoch <= s.current_epoch,
         NEW r \in sentinelGetLeader(i, s, epoch)
  PROVE  LET v == r[2]
         IN /\ Good(i, v, V \cup NewVote(i, s, v)) /\ Later(s, v) /\ SameEntry(s.m, v.m)
            /\ v.m.leader_epoch # s.m.leader_epoch => v.m.leader \in Sentinel
            /\ v.current_epoch = s.current_epoch
            /\ r[1] = i => Elects(i, v.m, epoch, s.current_epoch, V \cup NewVote(i, s, v))
<1> DEFINE max == Max({Votes(s, x) : x \in Sentinel})
           most == IF max = 0 THEN {NULL} ELSE {x \in Sentinel : Votes(s, x) = max}
           D == DOMAIN s.m.sentinels
           voters == Cardinality(D) + 1
<1>1. PICK w \in most :
        LET v == sentinelVoteLeader(i, s, epoch, IF w = NULL THEN i ELSE w)
            mine == IF v.m.leader_epoch = epoch THEN v.m.leader ELSE NULL
            mineVotes == IF mine = NULL THEN 0 ELSE Votes(s, mine) + 1
            winner == IF mineVotes > max THEN mine ELSE w
            votes_ == IF mineVotes > max THEN mineVotes ELSE max
        IN r = <<IF votes_ >= Majority(voters) /\ votes_ >= s.m.quorum THEN winner ELSE NULL, v>>
  BY ZenonT(60) DEF sentinelGetLeader
<1>2. NULL \notin Sentinel /\ i # NULL /\ s.current_epoch \in Nat
  BY ZenonT(60), NameAssumption, GoodTypes
<1>3. \/ w = NULL /\ max = 0
      \/ w \in Sentinel /\ Votes(s, w) = max
  BY SMTT(60)
<1> HIDE DEF max, most
<1> DEFINE x == IF w = NULL THEN i ELSE w
           v == sentinelVoteLeader(i, s, epoch, x)
           mine == IF v.m.leader_epoch = epoch THEN v.m.leader ELSE NULL
           mineVotes == IF mine = NULL THEN 0 ELSE Votes(s, mine) + 1
           winner == IF mineVotes > max THEN mine ELSE w
           total == IF mineVotes > max THEN mineVotes ELSE max
           W == V \cup NewVote(i, s, v)
<1>4. /\ r[2] = v
      /\ r[1] = IF total >= Majority(voters) /\ total >= s.m.quorum THEN winner ELSE NULL
  BY Zenon, <1>1
<1>5. x \in Sentinel
  BY SMTT(60), <1>2, <1>3
<1> HIDE DEF x
<1>6. /\ Good(i, v, W) /\ Later(s, v) /\ SameEntry(s.m, v.m)
      /\ v.m.leader_epoch # s.m.leader_epoch => v.m.leader \in Sentinel
      /\ v.current_epoch = IF epoch > s.current_epoch THEN epoch ELSE s.current_epoch
  BY SMTT(60), <1>5, VoteGood
<1>7. v.current_epoch = s.current_epoch
  BY SMTT(60), <1>2, <1>6
<1> HIDE DEF v
<1>8. ASSUME r[1] = i
      PROVE  Elects(i, v.m, epoch, s.current_epoch, W)
  <2>1. total >= Majority(voters) /\ winner = i
    BY SMTT(60), <1>2, <1>4, <1>8
  <2> DEFINE F == {j \in D : /\ s.m.sentinels[j].leader = i
                             /\ s.m.sentinels[j].leader_epoch = s.current_epoch}
  <2>2. Votes(s, i) = Cardinality(F)
    BY SMTT(60) DEF Votes
  <2>3. D \in SUBSET Sentinel /\ i \notin D /\ D = DOMAIN v.m.sentinels
    BY ZenonT(60), <1>6, GoodTypes DEF Good, Backed, SameEntry
  <2>4. IsFiniteSet(D) /\ Cardinality(D) \in Nat
    BY SMTT(60), <2>3, NameAssumption, FS_Subset, FS_CardinalityType
  <2>5. IsFiniteSet(F) /\ Cardinality(F) \in Nat
    BY SMTT(60), <2>4, FS_Subset, FS_CardinalityType
  <2>6. Cardinality(D \cup {i}) = voters /\ voters \in Nat
    <3> HIDE DEF D
    <3>1. Cardinality(D \cup {i}) = Cardinality(D) + 1
      BY Zenon, <2>3, <2>4, FS_AddElement
    <3> QED
      BY SMTT(60), <2>4, <3>1
  <2>7. Cardinality(F \cup {i}) = Cardinality(F) + 1
    BY ZenonT(60), <2>3, <2>5, FS_AddElement
  <2>8. \A q \in F : <<q, s.current_epoch, i>> \in W
    BY <1>2, <1>8 DEF Good, Backed
  <2>9. \A n \in Nat : n >= Majority(voters) => 2 * n > voters
    BY <2>6 DEF Majority
  <2>10. CASE mineVotes > max
    <3>1. mine = i /\ total = Cardinality(F) + 1
      BY ZenonT(60), <1>2, <2>1, <2>2, <2>10
    <3>2. <<i, epoch, i>> \in W
      BY SMTT(60), <1>2, <1>6, <3>1 DEF Good, Backed
    <3>3. 2 * Cardinality(F \cup {i}) > Cardinality(D \cup {i})
      <4> HIDE DEF F, D, voters, total, winner
      <4> QED
        BY SMTT(60), <2>1, <2>5, <2>6, <2>7, <2>9, <3>1
    <3>4. F \cup {i} \in SUBSET (DOMAIN v.m.sentinels \cup {i})
      BY SMTT(60), <2>3
    <3> HIDE DEF F
    <3>5. \A q \in F \cup {i} : <<q, s.current_epoch, i>> \in W \/ (q = i /\ <<q, epoch, i>> \in W)
      BY SMTT(60), <2>8, <3>2
    <3> QED
      BY ZenonT(60), <2>3, <3>3, <3>4, <3>5 DEF Elects
  <2>11. CASE ~(mineVotes > max)
    <3>1. w = i /\ total = Cardinality(F)
      BY SMTT(60), <1>2, <1>3, <2>1, <2>2, <2>11
    <3>2. 2 * Cardinality(F) > Cardinality(D \cup {i})
      <4> HIDE DEF F, D, voters, total, winner
      <4> QED
        BY SMTT(60), <2>1, <2>5, <2>6, <2>9, <3>1
    <3>3. F \in SUBSET (DOMAIN v.m.sentinels \cup {i})
      BY SMTT(60), <2>3
    <3> HIDE DEF F
    <3> QED
      BY ZenonT(60), <2>3, <2>8, <3>2, <3>3 DEF Elects
  <2> QED
    BY ZenonT(60), <2>10, <2>11
<1> QED
  BY SMTT(60), <1>4, <1>6, <1>7, <1>8

\* The Sentinel's failover is authorised by votes between s and t.
Wins(s, t) ==
  /\ s.m.failover_state <= WAIT_START /\ t.m.failover_state = SELECT_SLAVE
  /\ "force_failover" \notin t.m.flags

\* What every handler of Sentinel i but SENTINEL REMOVE does to its state.
Step(i, s, t, V) ==
  /\ Good(i, t, V \cup NewVote(i, s, t)) /\ Later(s, t)
  /\ t.m.leader_epoch # s.m.leader_epoch => t.m.leader \in Sentinel
  /\ Wins(s, t) => Elects(i, t.m, t.m.failover_epoch, t.current_epoch, V \cup NewVote(i, s, t))

\* A step without a vote.
LEMMA QuietStep ==
  ASSUME NEW i, NEW V, NEW s, NEW t, Good(i, t, V), Quiet(s, t)
  PROVE  Step(i, s, t, V)
<1>1. NewVote(i, s, t) = {} /\ V \cup {} = V
  BY SMTT(60) DEF NewVote, Quiet
<1>2. ~Wins(s, t)
  BY SMTT(60), StateRange DEF Wins, Quiet, WAIT_START, SELECT_SLAVE
<1> QED
  BY SMTT(60), <1>1, <1>2 DEF Step, Quiet

\* Nothing about votes changes after a step.
LEMMA StepSteady ==
  ASSUME NEW i, NEW V, NEW s \in State, NEW t, NEW u, Step(i, s, t, V),
         Good(i, u, V \cup NewVote(i, s, t)), Steady(t, u)
  PROVE  Step(i, s, u, V)
<1>1. NewVote(i, s, u) = NewVote(i, s, t)
  BY SMTT(60) DEF NewVote, Steady, Quiet
<1>2. Later(s, u)
  <2>1. Later(s, t) /\ Later(t, u) /\ t \in State /\ u \in State
    BY SMTT(60) DEF Step, Steady, Quiet, Good
  <2>2. /\ t.current_epoch \in Nat /\ t.disk.current_epoch \in Nat /\ t.m.leader_epoch \in Nat
        /\ u.current_epoch \in Nat /\ u.disk.current_epoch \in Nat /\ u.m.leader_epoch \in Nat
        /\ s.current_epoch \in Nat /\ s.disk.current_epoch \in Nat /\ s.m.leader_epoch \in Nat
    BY SMTT(60), <2>1 DEF State, File, Master
  <2> QED
    BY SMTT(60), <2>1, <2>2 DEF Later
<1>3. Wins(s, u) => Wins(s, t)
  BY SMTT(60) DEF Wins, Steady
<1>4. Elects(i, t.m, t.m.failover_epoch, t.current_epoch, V \cup NewVote(i, s, t)) =>
        Elects(i, u.m, u.m.failover_epoch, u.current_epoch, V \cup NewVote(i, s, t))
  BY ZenonT(60) DEF Elects, Steady
<1> QED
  BY ZenonT(60), <1>1, <1>2, <1>3, <1>4 DEF Step, Steady, Quiet

\* A step after preparations.
LEMMA PrepareStep ==
  ASSUME NEW i, NEW V, NEW r, NEW s, NEW t, Good(i, r, V), Good(i, s, V), Quiet(r, s), Step(i, s, t, V),
         s.m.failover_state <= WAIT_START
  PROVE  Step(i, r, t, V)
<1>1. NewVote(i, r, t) = NewVote(i, s, t)
  BY SMTT(60) DEF NewVote, Quiet
<1>2. Later(r, t)
  <2>1. Later(r, s) /\ Later(s, t) /\ s \in State /\ t \in State /\ r \in State
    BY SMTT(60) DEF Step, Quiet, Good
  <2>2. /\ s.current_epoch \in Nat /\ s.disk.current_epoch \in Nat /\ s.m.leader_epoch \in Nat
        /\ t.current_epoch \in Nat /\ t.disk.current_epoch \in Nat /\ t.m.leader_epoch \in Nat
        /\ r.current_epoch \in Nat /\ r.disk.current_epoch \in Nat /\ r.m.leader_epoch \in Nat
    BY SMTT(60), <2>1 DEF State, File, Master
  <2> QED
    BY SMTT(60), <2>1, <2>2 DEF Later
<1>3. Wins(r, t) => Wins(s, t)
  BY SMTT(60) DEF Wins
<1> QED
  BY SMTT(60), <1>1, <1>2, <1>3 DEF Step, Quiet

\* The start of a failover waits for the votes.
LEMMA WaitStartGood ==
  ASSUME NEW i \in Sentinel, NEW V, NEW s, Good(i, s, V), NEW c,
         s.m.failover_state = WAIT_START,
         NEW t \in sentinelFailoverWaitStart(i, s, c)
  PROVE  /\ Step(i, s, t, V) /\ t.m.failover_state # UPDATE_CONFIG
         /\ t.m.config_epoch = s.m.config_epoch
<1> DEFINE e == s.m.failover_epoch
<1>1. PICK r \in sentinelGetLeader(i, s, e) :
        t = IF r[1] = i \/ "force_failover" \in s.m.flags
            THEN [r[2] EXCEPT !.m.failover_state = SELECT_SLAVE]
            ELSE IF "election" \in c.elapsed THEN sentinelAbortFailover(r[2]) ELSE r[2]
  BY ZenonT(60) DEF sentinelFailoverWaitStart
<1>2. e \in Nat /\ e <= s.current_epoch /\ s.m \in Master
  BY GoodTypes DEF Master
<1> HIDE DEF e
<1> DEFINE v == r[2]
           W == V \cup NewVote(i, s, v)
<1>3. /\ Good(i, v, W) /\ Later(s, v) /\ SameEntry(s.m, v.m)
      /\ v.m.leader_epoch # s.m.leader_epoch => v.m.leader \in Sentinel
      /\ v.current_epoch = s.current_epoch
      /\ r[1] = i => Elects(i, v.m, e, s.current_epoch, W)
  BY ZenonT(60), <1>1, <1>2, LeaderGood
<1> HIDE DEF v
<1>4. v \in State /\ v.m \in Master /\ v.disk \in File /\ EpochsOf(v) /\ Backed(i, v, W)
  BY Zenon, <1>3, GoodTypes DEF Good, State
<1>5. CASE r[1] = i \/ "force_failover" \in s.m.flags
  <2> DEFINE n == [v.m EXCEPT !.failover_state = SELECT_SLAVE]
  <2>1. t = [v EXCEPT !.m = n]
    BY SMTT(60), <1>1, <1>5 DEF v
  <2>2. /\ n \in Master /\ n.leader = v.m.leader /\ n.leader_epoch = v.m.leader_epoch
        /\ n.sentinels = v.m.sentinels /\ n.config_epoch = v.m.config_epoch /\ n.flags = v.m.flags
        /\ n.failover_epoch = v.m.failover_epoch /\ n.failover_state = SELECT_SLAVE
    BY <1>4, StateRange DEF Master
  <2> HIDE DEF n
  <2>3. /\ t \in State /\ t.m = n /\ t.current_epoch = v.current_epoch /\ t.disk = v.disk
        /\ t.out = v.out /\ t.on = v.on
    BY ZenonT(60), <1>4, <2>1, <2>2 DEF State
  <2>4. Good(i, t, W)
    <3>1. EpochsOf(t)
      BY ZenonT(60), <1>4, <2>2, <2>3 DEF EpochsOf
    <3>2. Backed(i, t, W)
      BY SMTT(60), <1>4, <2>2, <2>3 DEF Backed
    <3> QED
      BY ZenonT(60), <2>3, <3>1, <3>2 DEF Good
  <2>5. NewVote(i, s, t) = NewVote(i, s, v)
    BY ZenonT(60), <2>2, <2>3 DEF NewVote
  <2>6. Later(s, t)
    BY ZenonT(60), <1>3, <2>2, <2>3 DEF Later
  <2>7. Wins(s, t) => Elects(i, t.m, t.m.failover_epoch, t.current_epoch, W)
    <3>1. Elects(i, v.m, e, s.current_epoch, W) => Elects(i, t.m, e, s.current_epoch, W)
      BY ZenonT(60), <2>2, <2>3 DEF Elects
    <3>2. t.m.failover_epoch = e /\ t.current_epoch = s.current_epoch /\ t.m.flags = s.m.flags
      BY ZenonT(60), <1>3, <2>2, <2>3 DEF SameEntry, e
    <3> QED
      BY SMTT(60), <1>3, <1>5, <3>1, <3>2 DEF Wins
  <2>8. t.m.config_epoch = s.m.config_epoch /\ t.m.failover_state # UPDATE_CONFIG
    BY SMTT(60), <1>3, <2>2, <2>3, StateRange DEF SameEntry
  <2> QED
    BY ZenonT(60), <1>3, <2>2, <2>3, <2>4, <2>5, <2>6, <2>7, <2>8 DEF Step
<1>6. CASE ~(r[1] = i \/ "force_failover" \in s.m.flags)
  <2>1. /\ Good(i, t, W) /\ Quiet(v, t) /\ t.m.leader = v.m.leader
        /\ t.m.failover_state \in {NONE, WAIT_START} /\ t.m.config_epoch = v.m.config_epoch
    <3>1. CASE "election" \in c.elapsed
      <4>1. t = sentinelAbortFailover(v)
        BY <1>1, <1>6, <3>1 DEF v
      <4> QED
        BY SMTT(60), <1>3, <4>1, AbortGood
    <3>2. CASE "election" \notin c.elapsed
      <4>1. t = v /\ v.m.failover_state = WAIT_START
        BY <1>1, <1>3, <1>6, <3>2 DEF v, SameEntry
      <4>2. Quiet(v, v)
        BY SMTT(60), <1>3, QuietRefl
      <4> QED
        BY <1>3, <4>1, <4>2
    <3> QED
      BY ZenonT(60), <3>1, <3>2
  <2>2. NewVote(i, s, t) = NewVote(i, s, v)
    BY SMTT(60), <2>1 DEF NewVote, Quiet
  <2>3. ~Wins(s, t) /\ t.m.failover_state # UPDATE_CONFIG
    BY SMTT(60), <2>1, StateRange DEF Wins
  <2>4. Later(s, t)
    <3>1. Later(s, v) /\ Later(v, t) /\ s \in State /\ t \in State
      BY ZenonT(60), <1>3, <2>1, GoodTypes DEF Quiet
    <3>2. /\ s.current_epoch \in Nat /\ s.disk.current_epoch \in Nat /\ s.m.leader_epoch \in Nat
          /\ t.current_epoch \in Nat /\ t.disk.current_epoch \in Nat /\ t.m.leader_epoch \in Nat
          /\ v.current_epoch \in Nat /\ v.disk.current_epoch \in Nat /\ v.m.leader_epoch \in Nat
      BY ZenonT(60), <1>4, <3>1 DEF State, File, Master
    <3> QED
      BY SMTT(60), <3>1, <3>2 DEF Later
  <2>5. t.m.config_epoch = s.m.config_epoch
    BY SMTT(60), <1>3, <2>1 DEF SameEntry
  <2> QED
    BY ZenonT(60), <1>3, <2>1, <2>2, <2>3, <2>4, <2>5 DEF Step, Quiet
<1> QED
  BY <1>5, <1>6

\* What the part of the timer does that looks at the master.
MasterStep(i, s, t, V) ==
  \/ Good(i, t, V) /\ Quiet(s, t)
  \/ /\ Step(i, s, t, V) /\ t.m.failover_state # UPDATE_CONFIG
     /\ s.m.config_epoch <= t.m.config_epoch

\* Nothing about votes changes after it.
LEMMA MasterStepSteady ==
  ASSUME NEW i, NEW V, NEW s, Good(i, s, V), NEW t, NEW u, MasterStep(i, s, t, V),
         \A W : Good(i, t, W) => Good(i, u, W) /\ Steady(t, u)
  PROVE  MasterStep(i, s, u, V)
<1>1. CASE Good(i, t, V) /\ Quiet(s, t)
  <2>1. Good(i, u, V) /\ Quiet(t, u)
    BY SMTT(60), <1>1 DEF Steady
  <2>2. Quiet(s, u)
    BY ZenonT(60), <1>1, <2>1, QuietTrans
  <2> QED
    BY ZenonT(60), <2>1, <2>2 DEF MasterStep
<1>2. CASE Step(i, s, t, V) /\ t.m.failover_state # UPDATE_CONFIG /\ s.m.config_epoch <= t.m.config_epoch
  <2> DEFINE W == V \cup NewVote(i, s, t)
  <2>1. Good(i, t, W)
    BY SMTT(60), <1>2 DEF Step
  <2>2. Good(i, u, W) /\ Steady(t, u)
    BY ZenonT(60), <2>1
  <2>3. Step(i, s, u, V)
    BY ZenonT(60), <1>2, <2>2, StepSteady, GoodTypes
  <2> QED
    BY ZenonT(60), <1>2, <2>2, <2>3 DEF MasterStep, Steady
<1> QED
  BY SMTT(60), <1>1, <1>2 DEF MasterStep

\* The master's part of the timer, up to the state machine.
LEMMA MachineStep ==
  ASSUME NEW i \in Sentinel, NEW V, NEW s, Good(i, s, V), NEW c, NULL \notin c.reach,
         NEW t \in sentinelFailoverStateMachine(i, s, c)
  PROVE  MasterStep(i, s, t, V)
<1>1. CASE InProgress(s) /\ s.m.failover_state = WAIT_START
  <2>1. t \in sentinelFailoverWaitStart(i, s, c)
    BY SMTT(60), <1>1 DEF sentinelFailoverStateMachine, WAIT_START, SELECT_SLAVE, SEND_SLAVEOF_NOONE,
                WAIT_PROMOTION, RECONF_SLAVES
  <2>2. Step(i, s, t, V) /\ t.m.failover_state # UPDATE_CONFIG /\ t.m.config_epoch = s.m.config_epoch
    BY SMTT(60), <1>1, <2>1, WaitStartGood
  <2> QED
    BY ZenonT(60), <2>2, GoodTypes DEF MasterStep
<1>2. CASE ~(InProgress(s) /\ s.m.failover_state = WAIT_START)
  BY ZenonT(60), <1>2, MachineGood DEF MasterStep
<1> QED
  BY SMTT(60), <1>1, <1>2

\* A step of the machine after preparations.
LEMMA PrepareMaster ==
  ASSUME NEW i, NEW V, NEW r, NEW s, NEW t, Good(i, r, V), Good(i, s, V), Quiet(r, s),
         MasterStep(i, s, t, V), Steady(r, s) \/ s.m.failover_state = WAIT_START
  PROVE  MasterStep(i, r, t, V)
<1>1. CASE Good(i, t, V) /\ Quiet(s, t)
  BY ZenonT(60), <1>1, QuietTrans DEF MasterStep
<1>2. CASE Step(i, s, t, V) /\ t.m.failover_state # UPDATE_CONFIG /\ s.m.config_epoch <= t.m.config_epoch
  <2>1. r.m.config_epoch <= t.m.config_epoch
    <3>1. r.m.config_epoch \in Nat /\ s.m.config_epoch \in Nat /\ r.m.config_epoch <= s.m.config_epoch
      BY ZenonT(60), GoodTypes DEF Quiet
    <3>2. t.m.config_epoch \in Nat
      BY SMTT(60), <1>2 DEF Step, Good, State, Master
    <3> QED
      BY SMTT(60), <1>2, <3>1, <3>2
  <2>2. Step(i, r, t, V)
    <3>1. CASE s.m.failover_state = WAIT_START
      <4>1. s.m.failover_state <= WAIT_START
        BY SMTT(60), <3>1 DEF WAIT_START
      <4> QED
        BY ZenonT(60), <1>2, <4>1, PrepareStep
    <3>2. CASE Steady(r, s)
      <4>1. NewVote(i, r, t) = NewVote(i, s, t) /\ (Wins(r, t) => Wins(s, t))
        BY ZenonT(60), <3>2 DEF NewVote, Steady, Quiet, Wins
      <4>2. Later(r, t)
        <5>1. Later(r, s) /\ Later(s, t) /\ s \in State /\ t \in State /\ r \in State
          BY ZenonT(60), <1>2 DEF Step, Quiet, Good
        <5>2. /\ s.current_epoch \in Nat /\ s.disk.current_epoch \in Nat /\ s.m.leader_epoch \in Nat
              /\ t.current_epoch \in Nat /\ t.disk.current_epoch \in Nat /\ t.m.leader_epoch \in Nat
              /\ r.current_epoch \in Nat /\ r.disk.current_epoch \in Nat /\ r.m.leader_epoch \in Nat
          BY ZenonT(60), <5>1 DEF State, File, Master
        <5> QED
          BY SMTT(60), <5>1, <5>2 DEF Later
      <4> QED
        BY ZenonT(60), <1>2, <4>1, <4>2 DEF Step, Quiet
    <3> QED
      BY ZenonT(60), <3>1, <3>2
  <2> QED
    BY ZenonT(60), <1>2, <2>1, <2>2 DEF MasterStep
<1> QED
  BY ZenonT(60), <1>1, <1>2 DEF MasterStep

\* sentinelHandleRedisInstance of the master.
LEMMA HandleMasterGood ==
  ASSUME NEW i \in Sentinel, NEW V, NEW s, Good(i, s, V), NEW c, NULL \notin c.reach,
         NEW t \in HandleMaster(i, s, c)
  PROVE  MasterStep(i, s, t, V)
<1> DEFINE s1 == sentinelCheckObjectivelyDown([s EXCEPT !.m.flags =
                   sentinelCheckSubjectivelyDown(@, s.m.addr \in c.late
                                                    \/ (s.m.role = "slave" /\ c.misled))])
           starts == sentinelStartFailoverIfNeeded(s1, c)
           s0 == sentinelStartFailover(s1)
           s2 == IF starts THEN sentinelAskMasterStateToOtherSentinels(i, s0, c.links, c.stale) ELSE s1
<1>1. PICK v \in sentinelFailoverStateMachine(i, s2, c) :
        t = sentinelAskMasterStateToOtherSentinels(i, v, IF starts THEN {} ELSE c.links, c.stale)
  BY DEF HandleMaster
<1>2. Good(i, s1, V) /\ Steady(s, s1)
  BY ZenonT(60), DownGood
<1> HIDE DEF s1
<1>3. /\ Good(i, s0, V) /\ Quiet(s1, s0) /\ s0.m.failover_state = WAIT_START
  BY SMTT(60), <1>2, StartGood
<1> HIDE DEF s0
<1>4. Good(i, s2, V) /\ Quiet(s, s2) /\ (Steady(s, s2) \/ s2.m.failover_state = WAIT_START)
  <2>1. CASE starts
    <3>1. Good(i, s2, V) /\ Steady(s0, s2)
      BY ZenonT(60), <1>3, <2>1, AskGood
    <3>2. s2.m.failover_state = WAIT_START /\ Quiet(s0, s2) /\ Quiet(s, s1)
      BY ZenonT(60), <1>2, <1>3, <3>1 DEF Steady
    <3>3. Quiet(s, s0)
      BY SMTT(60), <1>2, <1>3, <3>2, QuietTrans
    <3>4. Quiet(s, s2)
      BY ZenonT(60), <1>3, <3>1, <3>2, <3>3, QuietTrans
    <3> QED
      BY ZenonT(60), <3>1, <3>2, <3>4
  <2>2. CASE ~starts
    BY ZenonT(60), <1>2, <2>2 DEF Steady
  <2> QED
    BY ZenonT(60), <2>1, <2>2
<1> HIDE DEF s2, starts
<1>5. MasterStep(i, s2, v, V)
  BY ZenonT(60), <1>4, MachineStep
<1>6. MasterStep(i, s, v, V)
  BY ZenonT(60), <1>4, <1>5, PrepareMaster
<1>7. \A W : Good(i, v, W) => Good(i, t, W) /\ Steady(v, t)
  BY ZenonT(60), <1>1, AskGood
<1> QED
  BY SMTT(60), <1>6, <1>7, MasterStepSteady

\* The timer.
LEMMA TimerGood ==
  ASSUME NEW i \in Sentinel, NEW V, NEW s, Good(i, s, V), NEW c, NULL \notin c.reach,
         NEW t \in sentinelTimer(i, s, c)
  PROVE  Step(i, s, t, V) /\ s.m.config_epoch <= t.m.config_epoch
<1>1. \A b \in BOOLEAN : /\ Good(i, [s EXCEPT !.tilt = b], V)
                         /\ Steady(s, [s EXCEPT !.tilt = b])
  <2> SUFFICES ASSUME NEW b \in BOOLEAN
               PROVE  /\ Good(i, [s EXCEPT !.tilt = b], V)
                      /\ Steady(s, [s EXCEPT !.tilt = b])
    OBVIOUS
  <2> DEFINE u == [s EXCEPT !.tilt = b]
  <2>1. /\ u \in State /\ u.m = s.m /\ u.disk = s.disk /\ u.current_epoch = s.current_epoch
        /\ u.out = s.out /\ u.on = s.on
    BY SMTT(60), GoodTypes DEF State
  <2> HIDE DEF u
  <2>2. Good(i, u, V)
    <3>1. EpochsOf(u)
      BY ZenonT(60), <2>1 DEF Good, EpochsOf
    <3>2. Backed(i, u, V)
      BY ZenonT(60), <2>1 DEF Good, Backed
    <3> QED
      BY ZenonT(60), <2>1, <3>1, <3>2 DEF Good
  <2>3. Quiet(s, s)
    BY ZenonT(60), QuietRefl
  <2>4. Steady(s, u)
    BY SMTT(60), <2>1, <2>3 DEF Steady, Quiet, Later
  <2> QED
    BY <2>2, <2>4 DEF u
<1> DEFINE s1 == IF c.jump THEN [s EXCEPT !.tilt = TRUE] ELSE s
           s2 == [s1 EXCEPT !.tilt = FALSE]
<1>2. Good(i, s1, V) /\ Quiet(s, s1)
  <2>1. CASE c.jump
    <3>1. Good(i, [s EXCEPT !.tilt = TRUE], V) /\ Steady(s, [s EXCEPT !.tilt = TRUE])
      BY Zenon, <1>1
    <3> QED
      BY <2>1, <3>1 DEF Steady
  <2>2. CASE ~c.jump
    BY <2>2, QuietRefl
  <2> QED
    BY <2>1, <2>2
<1>3. Good(i, s2, V) /\ Steady(s, s2)
  <2>1. s2 = [s EXCEPT !.tilt = FALSE]
    BY Zenon, GoodTypes DEF State
  <2>2. Good(i, [s EXCEPT !.tilt = FALSE], V) /\ Steady(s, [s EXCEPT !.tilt = FALSE])
    BY ZenonT(60), <1>1
  <2> HIDE DEF s2
  <2> QED
    BY <2>1, <2>2
<1>4. t = s1 \/ t \in HandleMasters(i, s2, c)
  BY DEF sentinelTimer
<1> HIDE DEF s1, s2
<1>5. CASE t = s1
  BY ZenonT(60), <1>2, <1>5, QuietStep DEF Quiet
<1>6. CASE t \in HandleMasters(i, s2, c)
  <2> DEFINE w(v) == HandleSlaves(v, c)
  <2>1. PICK v \in HandleMaster(i, s2, c) :
          t = IF w(v).m.failover_state = UPDATE_CONFIG
              THEN sentinelFailoverSwitchToPromotedSlave(w(v)) ELSE w(v)
    BY ZenonT(60), <1>6 DEF HandleMasters
  <2> DEFINE u == w(v)
  <2>2. MasterStep(i, s2, v, V)
    BY SMTT(60), <1>3, <2>1, HandleMasterGood
  <2>3. MasterStep(i, s, v, V)
    BY ZenonT(60), <1>3, <2>2, PrepareMaster DEF Steady
  <2>4. \A W : Good(i, v, W) => Good(i, u, W) /\ Steady(v, u)
    <3> SUFFICES ASSUME NEW W, Good(i, v, W)
                 PROVE  Good(i, u, W) /\ Steady(v, u)
      BY ZenonT(60)
    <3> DEFINE f == [x \in DOMAIN v.m.slaves |->
                       sentinelCheckSubjectivelyDown(v.m.slaves[x], x \in c.late)]
    <3>1. DOMAIN v.m.slaves \in SUBSET Instance /\ v.m.slaves \in [DOMAIN v.m.slaves -> SUBSET SlaveFlag]
      BY SMTT(60), GoodTypes
    <3>2. f \in [DOMAIN v.m.slaves -> SUBSET SlaveFlag]
      BY SMTT(60), <3>1 DEF sentinelCheckSubjectivelyDown, SlaveFlag
    <3>3. f \in SlaveTable
      BY ZenonT(60), <3>1, <3>2, TableIntro DEF SlaveTable
    <3>4. u = [v EXCEPT !.m.slaves = f]
      BY DEF HandleSlaves
    <3> HIDE DEF f, u
    <3> QED
      BY SMTT(60), <3>3, <3>4, SlavesGood
  <2> HIDE DEF u
  <2>5. MasterStep(i, s, u, V)
    BY ZenonT(60), <2>3, <2>4, MasterStepSteady
  <2>6. CASE u.m.failover_state = UPDATE_CONFIG
    <3>1. Good(i, u, V) /\ Quiet(s, u)
      BY SMTT(60), <2>5, <2>6 DEF MasterStep
    <3> DEFINE addr == IF u.m.promoted = NULL THEN u.m.addr ELSE u.m.promoted
    <3>2. addr \in Instance
      BY ZenonT(60), <3>1, GoodTypes DEF Master
    <3>3. t = sentinelResetMasterAndChangeAddress(u, addr)
      BY ZenonT(60), <2>1, <2>6 DEF u, sentinelFailoverSwitchToPromotedSlave
    <3> HIDE DEF addr
    <3>4. Good(i, t, V) /\ Quiet(u, t)
      BY ZenonT(60), <3>1, <3>2, <3>3, ChangeAddressGood
    <3>5. Quiet(s, t)
      BY ZenonT(60), <3>1, <3>4, QuietTrans
    <3> QED
      BY ZenonT(60), <3>4, <3>5, QuietStep DEF Quiet
  <2>7. CASE u.m.failover_state # UPDATE_CONFIG
    <3>1. t = u
      BY SMTT(60), <2>1, <2>7 DEF u
    <3> QED
      BY ZenonT(60), <2>5, <3>1, QuietStep DEF MasterStep, Quiet
  <2> QED
    BY SMTT(60), <2>6, <2>7
<1> QED
  BY <1>4, <1>5, <1>6

InfoSet == [role : {"master", "slave"}, host : Instance \cup {NULL}, link : BOOLEAN,
            slaves : SUBSET Instance]

\* INFO of the master.
LEMMA MasterInfoGood ==
  ASSUME NEW i, NEW V, NEW s, Good(i, s, V), NEW info \in InfoSet
  PROVE  LET t == MasterInfo(s, info)
         IN Good(i, t, V) /\ Quiet(s, t)
<1> DEFINE d == Discover(s, info)
           t == MasterInfo(s, info)
           new == info.slaves \ DOMAIN s.m.slaves
<1>1. Good(i, d, V) /\ Quiet(s, d)
  <2>1. CASE new = {}
    BY SMTT(60), <2>1, QuietRefl DEF Discover
  <2>2. CASE new # {}
    <3> DEFINE f == [x \in DOMAIN s.m.slaves \cup new |-> IF x \in new THEN NewSlave ELSE s.m.slaves[x]]
               u == [s EXCEPT !.m.slaves = f]
    <3>1. DOMAIN s.m.slaves \in SUBSET Instance /\ s.m.slaves \in [DOMAIN s.m.slaves -> SUBSET SlaveFlag]
      BY SMTT(60), GoodTypes
    <3>2. DOMAIN s.m.slaves \cup new \in SUBSET Instance
      BY SMTT(60), <3>1 DEF InfoSet
    <3>3. f \in [DOMAIN s.m.slaves \cup new -> SUBSET SlaveFlag]
      BY SMTT(60), <3>1 DEF NewSlave
    <3>4. f \in SlaveTable
      BY ZenonT(60), <3>2, <3>3, TableIntro DEF SlaveTable
    <3>5. d = sentinelFlushConfig(u)
      BY <2>2 DEF Discover
    <3> HIDE DEF f
    <3>6. Good(i, u, V) /\ Steady(s, u)
      BY <3>4, SlavesGood
    <3> HIDE DEF u, d
    <3>7. Good(i, d, V) /\ Quiet(u, d)
      BY ZenonT(60), <3>5, <3>6, FlushGood
    <3>8. Quiet(s, d)
      BY SMTT(60), <3>6, <3>7, QuietTrans DEF Steady
    <3> QED
      BY ZenonT(60), <3>7, <3>8
  <2> QED
    BY SMTT(60), <2>1, <2>2
<1> DEFINE n == [d.m EXCEPT !.role = info.role]
<1>2. t = [d EXCEPT !.m = n]
  BY ZenonT(60) DEF MasterInfo
<1> HIDE DEF d, t
<1>3. d.m \in Master /\ FriendsKept(i, d.m, d.m)
  BY SMTT(60), <1>1, GoodTypes
<1>4. /\ n \in Master /\ n.leader = d.m.leader /\ n.leader_epoch = d.m.leader_epoch
      /\ n.sentinels = d.m.sentinels /\ n.config_epoch = d.m.config_epoch
      /\ n.failover_epoch = d.m.failover_epoch /\ n.failover_state = d.m.failover_state
  BY SMTT(60), <1>3 DEF Master, InfoSet
<1> HIDE DEF n
<1>5. FriendsKept(i, d.m, n)
  BY SMTT(60), <1>3, <1>4 DEF FriendsKept
<1>6. Good(i, t, V) /\ Quiet(d, t)
  BY SMTT(60), <1>1, <1>2, <1>4, <1>5, GoodTypes, EntryGood
<1>7. Quiet(s, t)
  BY ZenonT(60), <1>1, <1>6, QuietTrans
<1> QED
  BY ZenonT(60), <1>6, <1>7 DEF t

\* The promoted slave has become a master: the new configuration has the epoch of the failover.
LEMMA PromotionGood ==
  ASSUME NEW i, NEW V, NEW s, Good(i, s, V), s.m.failover_state = WAIT_PROMOTION
  PROVE  LET t == Promotion(s)
         IN /\ Step(i, s, t, V) /\ t.m.failover_state = RECONF_SLAVES
            /\ t.m.config_epoch = s.m.failover_epoch
<1> DEFINE n == [s.m EXCEPT !.config_epoch = s.m.failover_epoch, !.failover_state = RECONF_SLAVES]
           u == [s EXCEPT !.m = n]
           t == Promotion(s)
<1>1. s \in State /\ s.m \in Master /\ s.disk \in File /\ EpochsOf(s) /\ Backed(i, s, V)
  BY Zenon, GoodTypes DEF Good, State
<1>2. /\ n \in Master /\ n.leader = s.m.leader /\ n.leader_epoch = s.m.leader_epoch
      /\ n.sentinels = s.m.sentinels /\ n.config_epoch = s.m.failover_epoch
      /\ n.failover_epoch = s.m.failover_epoch /\ n.failover_state = RECONF_SLAVES
  <2> DEFINE k == [s.m EXCEPT !.config_epoch = s.m.failover_epoch]
  <2>1. k \in Master
    BY <1>1 DEF Master
  <2>2. n = [k EXCEPT !.failover_state = RECONF_SLAVES]
    BY <1>1 DEF Master
  <2>3. n \in Master
    <3> HIDE DEF k, n
    <3> QED
      BY SMTT(60), <2>1, <2>2, StateRange DEF Master
  <2> QED
    BY SMTT(60), <1>1, <2>3 DEF Master
<1> HIDE DEF n
<1>3. /\ u \in State /\ u.m = n /\ u.current_epoch = s.current_epoch /\ u.disk = s.disk
      /\ u.out = s.out /\ u.on = s.on
  BY <1>1, <1>2 DEF State
<1>4. t = sentinelFlushConfig(u)
  BY SMTT(60) DEF Promotion, n
<1> HIDE DEF u, t
<1>5. Good(i, u, V)
  <2>1. EpochsOf(u)
    BY ZenonT(60), <1>1, <1>2, <1>3 DEF EpochsOf
  <2>2. Backed(i, u, V)
    BY ZenonT(60), <1>1, <1>2, <1>3 DEF Backed
  <2> QED
    BY ZenonT(60), <1>3, <2>1, <2>2 DEF Good
<1>6. Good(i, t, V) /\ Quiet(u, t) /\ t.m = n
  BY ZenonT(60), <1>3, <1>4, <1>5, FlushGood
<1>7. Later(s, t)
  BY ZenonT(60), <1>1, <1>2, <1>3, <1>6 DEF Quiet, Later
<1>8. NewVote(i, s, t) = {} /\ V \cup {} = V /\ ~Wins(s, t)
  BY ZenonT(60), <1>2, <1>6, StateRange DEF NewVote, Wins
<1>9. Step(i, s, t, V)
  BY SMTT(60), <1>2, <1>6, <1>7, <1>8 DEF Step
<1> QED
  BY SMTT(60), <1>2, <1>6, <1>9 DEF t

\* INFO of an instance.
LEMMA InfoGood ==
  ASSUME NEW i \in Sentinel, NEW V, NEW s, Good(i, s, V), NEW info \in InfoSet, NEW c,
         NEW x \in DOMAIN s.m.slaves \cup {s.m.addr}
  PROVE  LET t == sentinelRefreshInstanceInfo(i, s, x, info, c)
         IN /\ Step(i, s, t, V)
            /\ \/ s.m.config_epoch <= t.m.config_epoch
               \/ /\ s.m.failover_state = WAIT_PROMOTION /\ t.m.failover_state = RECONF_SLAVES
                  /\ t.m.config_epoch = s.m.failover_epoch
<1> DEFINE t == sentinelRefreshInstanceInfo(i, s, x, info, c)
<1> DEFINE sent == Send(s, {sentinelSendSlaveOf(i, x, s.m.addr)})
<1>1. s.m.addr \in Instance /\ x \in Instance /\ s.m \in Master
  BY SMTT(60), GoodTypes DEF Master
<1>2. Good(i, sent, V) /\ Steady(s, sent) /\ sent.m = s.m
  <2>1. {sentinelSendSlaveOf(i, x, s.m.addr)} \in SUBSET (Ask \cup SlaveOfMsg)
    BY SMTT(60), <1>1 DEF sentinelSendSlaveOf, SlaveOfMsg
  <2> QED
    BY ZenonT(60), <2>1, SendSteady
<1> HIDE DEF sent
<1>3. CASE x = s.m.addr
  <2>1. t = MasterInfo(s, info)
    BY ZenonT(60), <1>3 DEF sentinelRefreshInstanceInfo
  <2>2. Good(i, t, V) /\ Quiet(s, t)
    BY SMTT(60), <2>1, MasterInfoGood
  <2> QED
    BY ZenonT(60), <2>2, QuietStep DEF Quiet
<1>4. CASE x # s.m.addr /\ (s.tilt \/ t = s)
  <2>1. t = s
    BY SMTT(60), <1>4 DEF sentinelRefreshInstanceInfo, SlaveInfo
  <2> QED
    BY ZenonT(60), <2>1, QuietRefl, QuietStep DEF Quiet
<1>5. CASE x # s.m.addr /\ ~s.tilt /\ t # s /\ info.role = "master"
  <2>1. t = SlaveIsMaster(i, s, x, c)
    BY SMTT(60), <1>5 DEF sentinelRefreshInstanceInfo, SlaveInfo
  <2>2. (t = Promotion(s) /\ s.m.failover_state = WAIT_PROMOTION) \/ t = sent
    BY ZenonT(60), <1>5, <2>1 DEF SlaveIsMaster, sent
  <2>3. CASE t = Promotion(s) /\ s.m.failover_state = WAIT_PROMOTION
    BY ZenonT(60), <2>3, PromotionGood
  <2>4. CASE t = sent
    BY ZenonT(60), <1>2, <2>4, QuietStep DEF Steady, Quiet
  <2> QED
    BY ZenonT(60), <2>2, <2>3, <2>4
<1>6. CASE x # s.m.addr /\ ~s.tilt /\ info.role # "master"
  <2> DEFINE s1 == IF info.host # s.m.addr /\ sentinelMasterLooksSane(s, c) /\ c.waited
                   THEN sent ELSE s
             f == With(s.m.slaves, x, Reconfigured(s, x, info))
  <2>1. t = [s1 EXCEPT !.m.slaves = f]
    BY SMTT(60), <1>6 DEF sentinelRefreshInstanceInfo, SlaveInfo, SlaveIsSlave, sent
  <2>2. Good(i, s1, V) /\ Quiet(s, s1)
    BY ZenonT(60), <1>2, QuietRefl DEF Steady
  <2>3. f \in SlaveTable
    <3>1. s.m.slaves[x] \in SUBSET SlaveFlag
      BY SMTT(60), <1>1, <1>6, GoodTypes
    <3>2. Reconfigured(s, x, info) \in SUBSET SlaveFlag
      BY <3>1 DEF Reconfigured, SlaveFlag
    <3> QED
      BY ZenonT(60), <1>1, <3>2, GoodTypes, TableWith DEF SlaveTable
  <2> HIDE DEF s1, f
  <2>4. Good(i, t, V) /\ Steady(s1, t)
    BY SMTT(60), <2>1, <2>2, <2>3, SlavesGood
  <2>5. Quiet(s, t)
    BY ZenonT(60), <2>2, <2>4, QuietTrans DEF Steady
  <2> QED
    BY ZenonT(60), <2>4, <2>5, QuietStep DEF Quiet
<1> QED
  BY ZenonT(60), <1>3, <1>4, <1>5, <1>6

\* SENTINEL FAILOVER.
LEMMA FailoverCommandGood ==
  ASSUME NEW i, NEW V, NEW s, Good(i, s, V), NEW c
  PROVE  LET t == FailoverCommand(s, c)
         IN Good(i, t, V) /\ Quiet(s, t)
<1> DEFINE t == FailoverCommand(s, c)
           s1 == sentinelStartFailover(s)
           f == s1.m.flags \cup {"force_failover"}
<1>1. t = s \/ t = [s1 EXCEPT !.m.flags = f]
  BY SMTT(60) DEF FailoverCommand
<1>2. Good(i, s1, V) /\ Quiet(s, s1)
  BY ZenonT(60), StartGood
<1> HIDE DEF s1
<1>3. f \in SUBSET MasterFlag
  BY SMTT(60), <1>2, GoodTypes DEF Master, MasterFlag
<1> HIDE DEF f, t
<1>4. CASE t = s
  BY SMTT(60), <1>4, QuietRefl DEF t
<1>5. CASE t = [s1 EXCEPT !.m.flags = f]
  <2>1. Good(i, t, V) /\ Quiet(s1, t)
    BY SMTT(60), <1>2, <1>3, <1>5, PutGood
  <2>2. Quiet(s, t)
    BY SMTT(60), <1>2, <2>1, QuietTrans
  <2> QED
    BY <2>1, <2>2 DEF t
<1> QED
  BY SMTT(60), <1>1, <1>4, <1>5

\* SENTINEL SET quorum.
LEMMA SetCommandGood ==
  ASSUME NEW i, NEW V, NEW s, Good(i, s, V), NEW q \in Nat
  PROVE  LET t == sentinelSetCommand(s, q)
         IN Good(i, t, V) /\ Quiet(s, t)
<1> DEFINE t == sentinelSetCommand(s, q)
           n == [s.m EXCEPT !.quorum = q]
           u == [s EXCEPT !.m = n]
<1>1. t = s \/ t = sentinelFlushConfig(u)
  BY DEF sentinelSetCommand
<1>2. /\ n \in Master /\ n.leader = s.m.leader /\ n.leader_epoch = s.m.leader_epoch
      /\ n.sentinels = s.m.sentinels /\ n.config_epoch = s.m.config_epoch
      /\ n.failover_epoch = s.m.failover_epoch /\ n.failover_state = s.m.failover_state
  BY SMTT(60), GoodTypes DEF Master
<1>3. s.m \in Master /\ FriendsKept(i, s.m, s.m)
  BY SMTT(60), GoodTypes
<1> HIDE DEF n
<1>4. FriendsKept(i, s.m, n)
  BY SMTT(60), <1>2, <1>3 DEF FriendsKept
<1>5. Good(i, u, V) /\ Quiet(s, u)
  BY SMTT(60), <1>2, <1>4, GoodTypes, EntryGood
<1> HIDE DEF u, t
<1>6. CASE t = s
  BY SMTT(60), <1>6, QuietRefl DEF t
<1>7. CASE t = sentinelFlushConfig(u)
  <2>1. Good(i, t, V) /\ Quiet(u, t)
    BY SMTT(60), <1>5, <1>7, FlushGood
  <2>2. Quiet(s, t)
    BY SMTT(60), <1>5, <2>1, QuietTrans
  <2> QED
    BY SMTT(60), <2>1, <2>2 DEF t
<1> QED
  BY SMTT(60), <1>1, <1>6, <1>7

\* Sentinel i starts to monitor the master, or the last time it did is forgotten.
Fresh(i, s, t, V) ==
  /\ Good(i, t, V) /\ t.m.leader = NULL /\ t.m.failover_state = NONE
  /\ s.disk.current_epoch <= t.disk.current_epoch

\* SENTINEL MONITOR and SENTINEL REMOVE install a new entry.
LEMMA FreshGood ==
  ASSUME NEW i, NEW V, NEW s, Good(i, s, V), NEW addr \in Instance, NEW q \in Nat, NEW on \in BOOLEAN
  PROVE  Fresh(i, s, sentinelFlushConfig([s EXCEPT !.on = on, !.m = NewMaster(addr, q)]), V)
<1> DEFINE n == NewMaster(addr, q)
           u == [s EXCEPT !.on = on, !.m = n]
           d == rewriteConfigSentinelOption(u)
           t == [u EXCEPT !.disk = d]
<1>1. /\ n \in Master /\ n.leader = NULL /\ n.leader_epoch = 0 /\ n.config_epoch = 0
      /\ n.failover_epoch = 0 /\ n.failover_state = NONE
      /\ DOMAIN n.sentinels = {} /\ DOMAIN n.slaves = {} /\ n.addr = addr /\ n.quorum = q
      /\ n.flags = {}
  BY ZenonT(60), NewMasterType DEF NewMaster, Empty
<1> HIDE DEF n
<1>2. s \in State /\ s.disk \in File /\ EpochsOf(s) /\ Backed(i, s, V) /\ s.current_epoch \in Nat
  BY DEF Good, State
<1>3. /\ u \in State /\ u.m = n /\ u.on = on /\ u.disk = s.disk /\ u.out = s.out
      /\ u.current_epoch = s.current_epoch
  <2>1. [s EXCEPT !.on = on] \in State
    BY <1>2 DEF State
  <2>2. u = [[s EXCEPT !.on = on] EXCEPT !.m = n]
    BY <1>2 DEF State
  <2>3. u \in State
    BY ZenonT(60), <1>1, <2>1, <2>2 DEF State
  <2> QED
    BY <1>2, <2>3 DEF State
<1> HIDE DEF u
<1>4. d \in File /\ d.current_epoch = s.current_epoch /\ d.config_epoch = 0 /\ d.leader_epoch = 0
      /\ DOMAIN d.sentinels = {}
  <2>1. sentinelGetCurrentMasterAddress(u.m) = addr
    BY ZenonT(60), <1>1, <1>3 DEF sentinelGetCurrentMasterAddress
  <2>2. [j \in DOMAIN u.m.sentinels |-> u.m.sentinels[j].at] \in [{} -> Host \cup {NULL}]
    BY SMTT(60), <1>1, <1>3
  <2>3. [j \in DOMAIN u.m.sentinels |-> u.m.sentinels[j].at] \in Table(Sentinel, Host \cup {NULL})
    BY SMTT(60), <2>2, TableIntro
  <2>4. {IF x = addr THEN u.m.addr ELSE x : x \in DOMAIN u.m.slaves} = {}
    BY SMTT(60), <1>1, <1>3
  <2>5. d = [current_epoch |-> s.current_epoch, on |-> on, addr |-> addr, quorum |-> q, config_epoch |-> 0,
             leader_epoch |-> 0, slaves |-> {}, sentinels |-> [j \in DOMAIN u.m.sentinels |-> u.m.sentinels[j].at]]
    BY Zenon, <1>1, <1>3, <2>1, <2>4 DEF rewriteConfigSentinelOption
  <2>6. DOMAIN [j \in DOMAIN u.m.sentinels |-> u.m.sentinels[j].at] = {}
    BY Zenon, <1>1, <1>3
  <2> HIDE DEF d
  <2> QED
    BY SMTT(60), <1>2, <2>3, <2>5, <2>6 DEF File
<1> HIDE DEF d
<1>5. /\ t \in State /\ t.m = n /\ t.on = on /\ t.disk = d /\ t.out = s.out
      /\ t.current_epoch = s.current_epoch
  BY ZenonT(60), <1>3, <1>4 DEF State
<1> HIDE DEF t
<1>6. EpochsOf(t)
  BY SMTT(60), <1>1, <1>2, <1>4, <1>5 DEF EpochsOf
<1>7. Backed(i, t, V)
  BY ZenonT(60), <1>1, <1>2, <1>4, <1>5 DEF Backed
<1>8. s.disk.current_epoch <= t.disk.current_epoch
  BY ZenonT(60), <1>2, <1>4, <1>5 DEF EpochsOf
<1>9. Fresh(i, s, t, V)
  BY ZenonT(60), <1>1, <1>5, <1>6, <1>7, <1>8 DEF Fresh, Good
<1> QED
  BY SMTT(60), <1>9 DEF t, d, u, n, sentinelFlushConfig

\* A process starts with a file.
LEMMA StartedGood ==
  ASSUME NEW i, NEW V, NEW d \in File, d.config_epoch <= d.current_epoch,
         d.leader_epoch <= d.current_epoch, i \notin DOMAIN d.sentinels
  PROVE  LET t == sentinelHandleConfiguration(d)
         IN /\ Good(i, t, V) /\ t.m.leader = NULL /\ t.m.failover_state = NONE
            /\ t.disk = d /\ t.on = d.on /\ t.out = {} /\ t.m.leader_epoch = d.leader_epoch
            /\ \A j \in DOMAIN t.m.sentinels : t.m.sentinels[j].leader = NULL
<1> DEFINE sl == [x \in d.slaves |-> NewSlave]
           fr == [j \in DOMAIN d.sentinels |-> NewSentinel(d.sentinels[j])]
           n0 == NewMaster(d.addr, d.quorum)
           n1 == [n0 EXCEPT !.config_epoch = d.config_epoch]
           n2 == [n1 EXCEPT !.leader_epoch = d.leader_epoch]
           n3 == [n2 EXCEPT !.slaves = sl]
           n == [n3 EXCEPT !.sentinels = fr]
           t == sentinelHandleConfiguration(d)
<1>1. sl \in SlaveTable
  <2>1. sl \in [d.slaves -> SUBSET SlaveFlag] /\ d.slaves \in SUBSET Instance
    BY DEF NewSlave, File
  <2> QED
    BY Zenon, <2>1, TableIntro DEF SlaveTable
<1>2. DOMAIN d.sentinels \in SUBSET Sentinel /\ d.sentinels \in [DOMAIN d.sentinels -> Host \cup {NULL}]
  BY TableElim DEF File
<1>3. fr \in FriendTable
  <2>1. fr \in [DOMAIN d.sentinels -> Friend]
    BY <1>2 DEF NewSentinel, Friend
  <2> QED
    BY ZenonT(60), <1>2, <2>1, TableIntro DEF FriendTable
<1>4. \A j \in DOMAIN fr : fr[j].leader = NULL
  BY DEF NewSentinel
<1>5. DOMAIN fr = DOMAIN d.sentinels
  BY SMTT(60)
<1> HIDE DEF sl, fr
<1>6. /\ n0 \in Master /\ n0.leader = NULL /\ n0.failover_epoch = 0 /\ n0.failover_state = NONE
  BY Zenon, NewMasterType DEF NewMaster, File
<1>7. t = [current_epoch |-> d.current_epoch, tilt |-> FALSE, on |-> d.on, disk |-> d,
           out |-> {}, m |-> n]
  BY DEF sentinelHandleConfiguration, sl, fr, NewMaster
<1> HIDE DEF n0
<1>8. n1 \in Master /\ n1.leader = NULL /\ n1.failover_epoch = 0 /\ n1.failover_state = NONE
      /\ n1.config_epoch = d.config_epoch
  BY <1>6 DEF Master, File
<1> HIDE DEF n1
<1>9. n2 \in Master /\ n2.leader = NULL /\ n2.failover_epoch = 0 /\ n2.failover_state = NONE
      /\ n2.config_epoch = d.config_epoch /\ n2.leader_epoch = d.leader_epoch
  BY <1>8 DEF Master, File
<1> HIDE DEF n2
<1>10. n3 \in Master /\ n3.leader = NULL /\ n3.failover_epoch = 0 /\ n3.failover_state = NONE
      /\ n3.config_epoch = d.config_epoch /\ n3.leader_epoch = d.leader_epoch
  BY SMTT(60), <1>1, <1>9 DEF Master
<1> HIDE DEF n3
<1>11. n \in Master /\ n.leader = NULL /\ n.failover_epoch = 0 /\ n.failover_state = NONE
      /\ n.config_epoch = d.config_epoch /\ n.leader_epoch = d.leader_epoch /\ n.sentinels = fr
  BY ZenonT(60), <1>3, <1>10 DEF Master
<1> HIDE DEF n
<1>12. /\ t \in State /\ t.m = n /\ t.current_epoch = d.current_epoch /\ t.disk = d /\ t.out = {}
       /\ t.on = d.on
  BY SMTT(60), <1>7, <1>11 DEF State, File
<1> HIDE DEF t
<1>13. EpochsOf(t)
  BY SMTT(60), <1>11, <1>12 DEF EpochsOf, File
<1>14. Backed(i, t, V)
  BY <1>4, <1>5, <1>11, <1>12 DEF Backed
<1>15. Good(i, t, V)
  BY SMTT(60), <1>12, <1>13, <1>14 DEF Good
<1> QED
  BY SMTT(60), <1>4, <1>11, <1>12, <1>15 DEF t
=============================================================================
