--------------------------- MODULE SentinelProofs ---------------------------
(***************************************************************************)
(* Votes and epochs of Sentinels, for any number of Sentinels and          *)
(* instances, any scenario and any epochs.                                 *)
(***************************************************************************)
EXTENDS Sentinel, SentinelHandlers

Election ==
  [leader : Sentinel, epoch : Nat, votes : Nat, voters : SUBSET Sentinel, forced : BOOLEAN]

\* The type of the state.
TypeOK ==
  /\ conf \in Configs /\ used \in [Event -> Nat] /\ up \subseteq conf.up /\ pc \in Nat \ {0}
  /\ st \in [Sentinel -> State] /\ \A i \in Sentinel : st[i].out = {}
  /\ inst \in [Instance -> [up : BOOLEAN, master : Instance \cup {NULL}]]
  /\ at \in [Sentinel -> Host]
  /\ cut \subseteq Sentinel \X Instance
  /\ wire \in [Sentinel \X Instance -> Seq(Instance \cup {NULL})]
  /\ net \subseteq Ask \cup Answer
  /\ hellos \subseteq Hello
  /\ votes \subseteq Sentinel \X Nat \X Sentinel
  /\ elected \subseteq Election

-----------------------------------------------------------------------------
(* The inductive invariant *)

\* Every Sentinel is in a state that its handlers keep, and every vote is behind what the
\* voter remembers of it, in memory and in its file.
Kept ==
  /\ \A i \in Sentinel : Good(i, st[i], votes)
  /\ \A v \in votes : /\ v[2] <= st[v[1]].disk.current_epoch
                      /\ ~Removed(v[1]) => v[2] <= st[v[1]].m.leader_epoch
  /\ \A i \in Sentinel : ~Removed(i) => st[i].on /\ st[i].disk.on
  /\ OneVote

\* A failover has the votes of a majority, unless it was forced, and counted votes of its own
\* epoch or of a later one.
Authorised(e) == e.epoch <= e.votes /\ (~e.forced => Majorities(e) # {})

\* Messages carry votes that were given, and a leader has the votes of a majority.
Carried ==
  /\ \A a \in net : a.type = "answer" /\ a.leader # NULL => <<a.from, a.epoch, a.leader>> \in votes
  /\ \A h \in hellos : h.config_epoch <= h.epoch
  /\ \A e \in elected : Authorised(e)

IInv == TypeOK /\ Kept /\ Carried

\* The commands before one are before a later one.
LEMMA Earlier ==
  ASSUME NEW a \in Nat, NEW b \in Nat, a <= b, NEW k \in 1..(a - 1)
  PROVE  k \in 1..(b - 1)
OBVIOUS

\* What was removed stays removed.
LEMMA RemovedStays ==
  ASSUME conf' = conf, pc \in Nat, pc' \in Nat, pc <= pc', NEW i
  PROVE  Removed(i) => Removed(i)'
<1> SUFFICES ASSUME NEW k \in 1..(pc - 1), conf.script[k].op = "remove", conf.script[k].node = i
             PROVE  Removed(i)'
  BY ZenonT(60) DEF Removed
<1>1. k \in 1..(pc' - 1)
  BY Zenon, Earlier
<1>2. Removed(i)' <=> \E x \in 1..(pc' - 1) : conf'.script[x].op = "remove" /\ conf'.script[x].node = i
  BY DEF Removed
<1> QED
  BY Zenon, <1>1, <1>2

\* Sentinel i goes to state t with the votes V more.
LEMMA KeptStep ==
  ASSUME TypeOK, Kept, conf' = conf, pc' \in Nat, pc <= pc', NEW i \in Sentinel, NEW t, NEW V,
         st' = [st EXCEPT ![i] = t], votes' = votes \cup V, Good(i, t, votes'),
         \A v \in V : v[1] = i /\ v[2] = t.m.leader_epoch /\ v[2] # st[i].m.leader_epoch,
         \A v, w \in V : v = w,
         st[i].disk.current_epoch <= t.disk.current_epoch,
         ~Removed(i)' => st[i].m.leader_epoch <= t.m.leader_epoch /\ t.on /\ t.disk.on
  PROVE  Kept'
<1>1. st'[i] = t /\ \A j \in Sentinel \ {i} : st'[j] = st[j]
  BY ZenonT(60) DEF TypeOK
<1>2. pc \in Nat
  BY SMTT(60) DEF TypeOK
<1>3. \A j \in Sentinel : Good(j, st[j], votes) /\ Good(j, st'[j], votes')
  <2> SUFFICES ASSUME NEW j \in Sentinel
               PROVE  Good(j, st[j], votes) /\ Good(j, st'[j], votes')
    BY ZenonT(60)
  <2>1. CASE j = i
    BY <1>1, <2>1 DEF Kept
  <2>2. CASE j # i
    <3>1. votes \subseteq votes' /\ st'[j] = st[j] /\ Good(j, st[j], votes)
      BY SMTT(60), <1>1, <2>2 DEF Kept
    <3> QED
      BY SMTT(60), <3>1, GoodMono
  <2> QED
    BY SMTT(60), <2>1, <2>2
<1>4. /\ st[i].m.leader_epoch \in Nat /\ t.m.leader_epoch \in Nat
      /\ st[i].disk.current_epoch \in Nat /\ t.disk.current_epoch \in Nat
      /\ t.m.leader_epoch <= t.disk.current_epoch
  <2>1. st[i] \in State /\ t \in State /\ EpochsOf(t)
    BY SMTT(60) DEF TypeOK, Good
  <2> QED
    BY SMTT(60), <2>1 DEF State, File, Master, EpochsOf
<1>5. \A v \in votes : v[1] \in Sentinel /\ v[2] \in Nat
  BY SMTT(60) DEF TypeOK
<1>6. \A v \in votes' : /\ v[2] <= st'[v[1]].disk.current_epoch
                        /\ ~Removed(v[1])' => v[2] <= st'[v[1]].m.leader_epoch
  <2> SUFFICES ASSUME NEW v \in votes'
               PROVE  /\ v[2] <= st'[v[1]].disk.current_epoch
                      /\ ~Removed(v[1])' => v[2] <= st'[v[1]].m.leader_epoch
    BY SMTT(60)
  <2>1. CASE v \in V
    BY SMTT(60), <1>1, <1>4, <2>1
  <2>2. CASE v \in votes /\ v[1] = i
    <3>1. v[2] <= st[i].disk.current_epoch /\ (~Removed(i) => v[2] <= st[i].m.leader_epoch)
      BY SMTT(60), <2>2 DEF Kept
    <3>2. Removed(i) => Removed(i)'
      BY <1>2, RemovedStays
    <3> QED
      BY SMTT(60), <1>1, <1>4, <1>5, <2>2, <3>1, <3>2
  <2>3. CASE v \in votes /\ v[1] # i
    <3>1. /\ v[2] <= st[v[1]].disk.current_epoch
          /\ ~Removed(v[1]) => v[2] <= st[v[1]].m.leader_epoch
      BY <2>3 DEF Kept
    <3>2. Removed(v[1]) => Removed(v[1])'
      BY <1>2, RemovedStays
    <3> QED
      BY <1>1, <1>5, <2>3, <3>1, <3>2
  <2> QED
    BY ZenonT(60), <2>1, <2>2, <2>3
<1>7. \A j \in Sentinel : ~Removed(j)' => st'[j].on /\ st'[j].disk.on
  <2> SUFFICES ASSUME NEW j \in Sentinel, ~Removed(j)'
               PROVE  st'[j].on /\ st'[j].disk.on
    OBVIOUS
  <2>1. CASE j = i
    BY <1>1, <2>1
  <2>2. CASE j # i
    <3>1. ~Removed(j)
      BY <1>2, RemovedStays
    <3> QED
      BY <1>1, <2>2, <3>1 DEF Kept
  <2> QED
    BY <2>1, <2>2
<1>8. OneVote'
  <2> SUFFICES ASSUME NEW v \in votes', NEW w \in votes', v[1] = w[1], v[2] = w[2], ~Removed(v[1])'
               PROVE  v[3] = w[3]
    BY DEF OneVote
  <2>1. ~Removed(v[1]) /\ ~Removed(w[1])
    BY <1>2, RemovedStays
  <2>2. CASE v \in votes /\ w \in votes
    BY <2>1, <2>2 DEF Kept, OneVote
  <2>3. CASE v \in V /\ w \in V
    BY <2>3
  <2>4. \A x \in V, y \in votes : x[1] = y[1] /\ ~Removed(y[1]) /\ ~Removed(y[1])' => x[2] # y[2]
    <3> SUFFICES ASSUME NEW x \in V, NEW y \in votes, x[1] = y[1], ~Removed(y[1]), ~Removed(y[1])'
                 PROVE  x[2] # y[2]
      OBVIOUS
    <3>1. x[1] = i /\ y[1] = i /\ x[2] = t.m.leader_epoch /\ x[2] # st[i].m.leader_epoch
      OBVIOUS
    <3>2. y[2] <= st[i].m.leader_epoch /\ st[i].m.leader_epoch <= t.m.leader_epoch
      BY <3>1 DEF Kept
    <3> QED
      BY <1>4, <1>5, <3>1, <3>2
  <2> QED
    BY <2>1, <2>2, <2>3, <2>4
<1> QED
  BY ZenonT(60), <1>3, <1>6, <1>7, <1>8 DEF Kept

\* Messages and elections after a step that adds votes.
LEMMA CarriedStep ==
  ASSUME Carried, NEW N, NEW H, NEW E, votes \subseteq votes', net' \subseteq net \cup N,
         hellos' = hellos \cup H, elected' = elected \cup E,
         \A a \in N : a.type = "answer" /\ a.leader # NULL => <<a.from, a.epoch, a.leader>> \in votes',
         \A h \in H : h.config_epoch <= h.epoch,
         \A e \in E : Authorised(e)'
  PROVE  Carried'
<1>1. \A a \in net' : a.type = "answer" /\ a.leader # NULL => <<a.from, a.epoch, a.leader>> \in votes'
  BY DEF Carried
<1>2. \A h \in hellos' : h.config_epoch <= h.epoch
  BY DEF Carried
<1>3. \A e \in elected' : Authorised(e)'
  <2> SUFFICES ASSUME NEW e \in elected
               PROVE  Authorised(e)'
    OBVIOUS
  <2>1. Authorised(e)
    BY DEF Carried
  <2>2. Majorities(e) \subseteq Majorities(e)'
    BY DEF Majorities
  <2> QED
    BY <2>1, <2>2 DEF Authorised
<1> QED
  BY <1>1, <1>2, <1>3 DEF Carried

\* The types of what Handled changes.
HandledTypes ==
  /\ st \in [Sentinel -> State] /\ \A i \in Sentinel : st[i].out = {}
  /\ wire \in [Sentinel \X Instance -> Seq(Instance \cup {NULL})]
  /\ net \subseteq Ask \cup Answer
  /\ votes \subseteq Sentinel \X Nat \X Sentinel
  /\ elected \subseteq Election

\* The state without what was sent.
LEMMA SentGood ==
  ASSUME NEW i, NEW V, NEW t, Good(i, t, V)
  PROVE  LET u == [t EXCEPT !.out = {}]
         IN /\ Good(i, u, V) /\ u.m = t.m /\ u.disk = t.disk /\ u.on = t.on /\ u.out = {}
            /\ u.current_epoch = t.current_epoch
<1> DEFINE u == [t EXCEPT !.out = {}]
<1>1. /\ u \in State /\ u.m = t.m /\ u.disk = t.disk /\ u.on = t.on /\ u.out = {}
      /\ u.current_epoch = t.current_epoch
  BY DEF Good, State
<1> HIDE DEF u
<1>2. EpochsOf(u)
  BY <1>1 DEF Good, EpochsOf
<1>3. Backed(i, u, V)
  BY <1>1 DEF Good, Backed
<1> QED
  BY <1>1, <1>2, <1>3 DEF u, Good

\* Handled keeps the invariant.
LEMMA HandledKeeps ==
  ASSUME IInv, conf' = conf, pc' \in Nat, pc <= pc', hellos' = hellos, NEW i \in Sentinel, NEW t,
         Handled(i, t),
         Step(i, st[i], t, votes) \/ (Fresh(i, st[i], t, votes) /\ Removed(i)')
  PROVE  Kept' /\ Carried' /\ HandledTypes' /\ st'[i].m = t.m
<1> DEFINE V == NewVote(i, st[i], t)
           u == [t EXCEPT !.out = {}]
           sent == {q \in t.out : q.type # "slaveof"}
           forced == "force_failover" \in t.m.flags
           E == IF st[i].m.failover_state <= WAIT_START /\ t.m.failover_state = SELECT_SLAVE
                THEN {[leader |-> i, epoch |-> t.m.failover_epoch, votes |-> t.current_epoch,
                       voters |-> DOMAIN t.m.sentinels \cup {i}, forced |-> forced]} ELSE {}
<1>1. /\ st' = [st EXCEPT ![i] = u] /\ net' \subseteq net \cup sent
      /\ votes' = votes \cup V /\ elected' = elected \cup E
  BY DEF Handled, NewVote
<1>f. forced \in BOOLEAN /\ (~forced => "force_failover" \notin t.m.flags)
  OBVIOUS
<1> HIDE DEF forced
<1>2. TypeOK /\ Kept /\ Carried /\ Good(i, st[i], votes) /\ st \in [Sentinel -> State]
  BY DEF IInv, Kept, TypeOK
<1>3. Good(i, t, votes')
  <2>1. CASE Step(i, st[i], t, votes)
    BY <1>1, <2>1 DEF Step
  <2>2. CASE Fresh(i, st[i], t, votes)
    BY <1>1, <2>2, GoodMono DEF Fresh
  <2> QED
    BY <2>1, <2>2
<1>4. /\ Good(i, u, votes') /\ u.m = t.m /\ u.disk = t.disk /\ u.on = t.on /\ u.out = {}
  BY <1>3, SentGood
<1> HIDE DEF u
<1>5. t \in State /\ t.m \in Master /\ t.current_epoch \in Nat /\ DOMAIN t.m.sentinels \in SUBSET Sentinel
  BY <1>3, GoodTypes
<1>6. /\ t.m.leader_epoch \in Nat /\ t.m.failover_epoch \in Nat /\ t.m.leader \in Sentinel \cup {NULL}
      /\ t.out \subseteq Ask \cup Answer \cup SlaveOfMsg
  BY <1>5 DEF Master, State
<1>7. Kept'
  <2>1. \A v \in V : v[1] = i /\ v[2] = u.m.leader_epoch /\ v[2] # st[i].m.leader_epoch
    BY <1>4 DEF NewVote
  <2>2. \A v, w \in V : v = w
    BY DEF NewVote
  <2>3. st[i].disk.current_epoch <= u.disk.current_epoch
    BY <1>4 DEF Step, Fresh, Later
  <2>4. ~Removed(i)' => st[i].m.leader_epoch <= u.m.leader_epoch /\ u.on /\ u.disk.on
    <3> SUFFICES ASSUME ~Removed(i)'
                 PROVE  st[i].m.leader_epoch <= u.m.leader_epoch /\ u.on /\ u.disk.on
      OBVIOUS
    <3>1. Later(st[i], t)
      BY DEF Step
    <3>2. ~Removed(i)
      BY <1>2, RemovedStays DEF TypeOK
    <3>3. st[i].on /\ st[i].disk.on
      BY <1>2, <3>2 DEF Kept
    <3> QED
      BY ZenonT(60), <1>4, <3>1, <3>3 DEF Later
  <2> HIDE DEF V
  <2> QED
    BY ZenonT(60), <1>1, <1>2, <1>4, <2>1, <2>2, <2>3, <2>4, KeptStep
<1>8. Carried'
  <2>1. \A a \in sent : a.type = "answer" /\ a.leader # NULL => <<a.from, a.epoch, a.leader>> \in votes'
    BY <1>3 DEF Good, Backed
  <2>2. \A e \in E : Authorised(e)'
    <3> SUFFICES ASSUME NEW e \in E
                 PROVE  Authorised(e)'
      OBVIOUS
    <3>1. /\ st[i].m.failover_state <= WAIT_START /\ t.m.failover_state = SELECT_SLAVE
          /\ e.leader = i /\ e.epoch = t.m.failover_epoch /\ e.votes = t.current_epoch
          /\ e.voters = DOMAIN t.m.sentinels \cup {i}
          /\ e.forced = forced
      OBVIOUS
    <3> HIDE DEF E
    <3>2. e.epoch <= e.votes
      BY <1>3, <3>1 DEF Good, EpochsOf
    <3>3. ASSUME ~e.forced
          PROVE  Majorities(e)' # {}
      <4>1. Wins(st[i], t)
        BY <1>f, <3>1, <3>3 DEF Wins
      <4>2. Step(i, st[i], t, votes)
        BY <3>1, StateRange DEF Fresh
      <4>3. Elects(i, t.m, e.epoch, e.votes, votes')
        BY ZenonT(60), <1>1, <3>1, <4>1, <4>2 DEF Step
      <4>4. PICK Q \in SUBSET e.voters :
              /\ 2 * Cardinality(Q) > Cardinality(e.voters)
              /\ \A q \in Q : <<q, e.votes, i>> \in votes' \/ (q = i /\ <<q, e.epoch, i>> \in votes')
        BY ZenonT(60), <3>1, <4>3 DEF Elects
      <4>5. Q \in Majorities(e)'
        BY ZenonT(60), <3>1, <4>4 DEF Majorities
      <4> QED
        BY <4>5
    <3> QED
      BY <3>2, <3>3 DEF Authorised
  <2> DEFINE H == {}
  <2>3. hellos' = hellos \cup H /\ votes \subseteq votes'
    BY <1>1
  <2>4. \A h \in H : h.config_epoch <= h.epoch
    OBVIOUS
  <2> HIDE DEF E, sent, H
  <2> QED
    BY ZenonT(60), <1>1, <1>2, <2>1, <2>2, <2>3, <2>4, CarriedStep
<1>9. HandledTypes'
  <2>1. st' \in [Sentinel -> State] /\ \A j \in Sentinel : st'[j].out = {}
    BY <1>1, <1>2, <1>4 DEF TypeOK, Good
  <2>2. wire' \in [Sentinel \X Instance -> Seq(Instance \cup {NULL})]
    <3> DEFINE cmds == {q \in t.out : q.type = "slaveof"}
               new(p) == {q.master : q \in {q \in cmds : p = <<i, q.to>>}}
    <3>1. wire' = [p \in Sentinel \X Instance |->
                     IF new(p) = {} THEN wire[p] ELSE Append(wire[p], CHOOSE x \in new(p) : TRUE)]
      BY DEF Handled
    <3>2. \A q \in cmds : q.master \in Instance \cup {NULL}
      BY <1>6 DEF Ask, Answer, SlaveOfMsg
    <3>3. \A p \in Sentinel \X Instance : new(p) # {} => (CHOOSE x \in new(p) : TRUE) \in Instance \cup {NULL}
      BY <3>2
    <3>4. \A p \in Sentinel \X Instance : wire[p] \in Seq(Instance \cup {NULL})
      BY <1>2 DEF TypeOK
    <3> HIDE DEF new
    <3>5. \A p \in Sentinel \X Instance :
            (IF new(p) = {} THEN wire[p] ELSE Append(wire[p], CHOOSE x \in new(p) : TRUE))
              \in Seq(Instance \cup {NULL})
      <4> SUFFICES ASSUME NEW p \in Sentinel \X Instance, new(p) # {}
                   PROVE  Append(wire[p], CHOOSE x \in new(p) : TRUE) \in Seq(Instance \cup {NULL})
        BY ZenonT(60), <3>4
      <4> DEFINE y == CHOOSE x \in new(p) : TRUE
      <4>1. y \in Instance \cup {NULL} /\ wire[p] \in Seq(Instance \cup {NULL})
        BY <3>3, <3>4
      <4> HIDE DEF y
      <4>2. Append(wire[p], y) \in Seq(Instance \cup {NULL})
        BY <4>1
      <4> QED
        BY <4>2 DEF y
    <3> QED
      BY <3>1, <3>5
  <2>3. net' \subseteq Ask \cup Answer
    <3>1. sent \subseteq Ask \cup Answer
      BY <1>6 DEF SlaveOfMsg
    <3> QED
      BY <1>1, <1>2, <3>1 DEF TypeOK
  <2>4. votes' \subseteq Sentinel \X Nat \X Sentinel
    <3>1. V \subseteq Sentinel \X Nat \X Sentinel
      BY <1>6 DEF NewVote
    <3> QED
      BY ZenonT(60), <1>1, <1>2, <3>1 DEF TypeOK
  <2>5. elected' \subseteq Election
    <3>1. E \subseteq Election
      BY SMTT(60), <1>5, <1>6, <1>f DEF Election
    <3> QED
      BY <1>1, <1>2, <3>1 DEF TypeOK
  <2> QED
    BY <2>1, <2>2, <2>3, <2>4, <2>5 DEF HandledTypes
<1>10. st'[i].m = t.m
  BY <1>1, <1>2, <1>4
<1> QED
  BY <1>7, <1>8, <1>9, <1>10

\* The state of a Sentinel when the scenario begins.
LEMMA InitialGood ==
  ASSUME NEW c \in Configs, NEW i \in Sentinel
  PROVE  LET t == Started(c, i)
         IN Good(i, t, {}) /\ t.on /\ t.disk.on /\ t.out = {}
<1> DEFINE d == InitialFile(c, i)
           s == sentinelHandleConfiguration(d)
           b == "o_down" \in c.flags
           fr == [j \in DOMAIN s.m.sentinels |-> [s.m.sentinels[j] EXCEPT !.down = b]]
           n1 == [s.m EXCEPT !.flags = c.flags]
           n == [n1 EXCEPT !.sentinels = fr]
           t == Started(c, i)
<1>1. c \in Config
  BY ConfigAssumption
<1>2. d \in File /\ d.on = TRUE /\ d.config_epoch = 0 /\ d.leader_epoch = 0 /\ d.current_epoch = 0
      /\ DOMAIN d.sentinels = c.friends \ {i}
  <2>1. [j \in c.friends \ {i} |-> j] \in Table(Sentinel, Host \cup {NULL})
    <3>1. c.friends \ {i} \in SUBSET Sentinel
      BY <1>1 DEF Config
    <3>2. [j \in c.friends \ {i} |-> j] \in [c.friends \ {i} -> Host \cup {NULL}]
      BY <3>1, NameAssumption
    <3> QED
      BY <3>1, <3>2, TableIntro
  <2>2. c.watched \in Instance /\ c.quorum \in Nat /\ c.slaves \in SUBSET Instance
    BY <1>1 DEF Config
  <2> QED
    BY <2>1, <2>2 DEF InitialFile, File
<1> HIDE DEF d
<1> DEFINE W == {}
<1> HIDE DEF W
<1>3. /\ Good(i, s, W) /\ s.disk = d /\ s.on = d.on /\ s.out = {} /\ s.m.failover_state = NONE
      /\ s.m.leader = NULL /\ \A j \in DOMAIN s.m.sentinels : s.m.sentinels[j].leader = NULL
  <2>1. d.config_epoch <= d.current_epoch /\ d.leader_epoch <= d.current_epoch /\ i \notin DOMAIN d.sentinels
    BY <1>2
  <2> HIDE DEF s
  <2>2. s = sentinelHandleConfiguration(d)
    BY DEF s
  <2> HIDE DEF b, fr, n1, n, t
  <2>3. d \in File
    BY <1>2
  <2>4. /\ Good(i, s, W) /\ s.disk = d /\ s.out = {} /\ s.m.failover_state = NONE
        /\ s.m.leader = NULL /\ \A j \in DOMAIN s.m.sentinels : s.m.sentinels[j].leader = NULL
    BY <2>1, <2>2, <2>3, StartedGood
  <2>5. s.on = d.on
    BY <2>2 DEF sentinelHandleConfiguration
  <2> QED
    BY <2>4, <2>5
<1>4. t = [s EXCEPT !.m = n]
  BY DEF Started, d
<1> HIDE DEF s, t
<1>b. b \in BOOLEAN
  OBVIOUS
<1> HIDE DEF b
<1>5. /\ s \in State /\ s.m \in Master /\ FriendsKept(i, s.m, s.m)
      /\ DOMAIN s.m.sentinels \in SUBSET Sentinel /\ s.m.sentinels \in [DOMAIN s.m.sentinels -> Friend]
  BY <1>3, GoodTypes
<1>6. fr \in FriendTable /\ \A j \in DOMAIN fr : fr[j].leader = NULL
  <2>1. fr \in [DOMAIN s.m.sentinels -> Friend]
    BY <1>b, <1>5 DEF Friend
  <2>2. \A j \in DOMAIN fr : fr[j].leader = NULL
    BY <1>3, <1>5 DEF Friend
  <2> QED
    BY ZenonT(60), <1>5, <2>1, <2>2, TableIntro DEF FriendTable
<1>7. DOMAIN fr = DOMAIN s.m.sentinels
  OBVIOUS
<1> HIDE DEF fr
<1>8. /\ n1 \in Master /\ n1.leader = s.m.leader /\ n1.leader_epoch = s.m.leader_epoch
      /\ n1.config_epoch = s.m.config_epoch /\ n1.failover_epoch = s.m.failover_epoch
      /\ n1.failover_state = s.m.failover_state
  BY ZenonT(60), <1>1, <1>5 DEF Master, Config
<1> HIDE DEF n1
<1>9. /\ n \in Master /\ n.leader = s.m.leader /\ n.leader_epoch = s.m.leader_epoch
      /\ n.config_epoch = s.m.config_epoch /\ n.failover_epoch = s.m.failover_epoch
      /\ n.failover_state = s.m.failover_state /\ n.sentinels = fr
  BY <1>6, <1>8 DEF Master
<1> HIDE DEF n
<1>10. FriendsKept(i, s.m, n)
  BY <1>5, <1>6, <1>7, <1>9 DEF FriendsKept
<1>11. Good(i, t, W)
  BY <1>3, <1>4, <1>9, <1>10, GoodTypes, EntryGood
<1>12. t.on /\ t.disk.on /\ t.out = {}
  BY ZenonT(60), <1>2, <1>3, <1>4, <1>5 DEF State
<1> QED
  BY <1>11, <1>12 DEF W, t

\* The types of the other variables.
OtherTypes ==
  /\ conf \in Configs /\ used \in [Event -> Nat] /\ up \subseteq conf.up /\ pc \in Nat \ {0}
  /\ inst \in [Instance -> [up : BOOLEAN, master : Instance \cup {NULL}]]
  /\ at \in [Sentinel -> Host]
  /\ cut \subseteq Sentinel \X Instance
  /\ hellos \subseteq Hello

\* The type invariant: what a handler can change, and the rest.
LEMMA Types == TypeOK <=> HandledTypes /\ OtherTypes
BY DEF TypeOK, HandledTypes, OtherTypes

\* The same in the next state.
LEMMA TypesNext == TypeOK' <=> HandledTypes' /\ OtherTypes'
BY ZenonT(60) DEF TypeOK, HandledTypes, OtherTypes

\* The initial states satisfy the invariant.
LEMMA InitInv == Init => IInv
<1> SUFFICES ASSUME Init
             PROVE  IInv
  OBVIOUS
<1>1. conf \in Config
  BY ConfigAssumption DEF Init
<1>2. \A i \in Sentinel : /\ st[i] = Started(conf, i)
                          /\ Good(i, st[i], {}) /\ st[i].on /\ st[i].disk.on /\ st[i].out = {}
  BY InitialGood DEF Init
<1>3. HandledTypes
  <2>1. st \in [Sentinel -> State]
    <3>1. \A i \in Sentinel : Started(conf, i) \in State
      BY <1>2 DEF Good
    <3> QED
      BY <3>1 DEF Init
  <2>2. wire \in [Sentinel \X Instance -> Seq(Instance \cup {NULL})]
    BY DEF Init
  <2> QED
    BY <1>2, <2>1, <2>2 DEF HandledTypes, Init
<1>4. OtherTypes
  <2>1. at \in [Sentinel -> Host]
    BY NameAssumption DEF Init
  <2>2. inst \in [Instance -> [up : BOOLEAN, master : Instance \cup {NULL}]]
    <3>1. \A x \in Instance : conf.master[x] \in Instance \cup {NULL}
      BY <1>1 DEF Config
    <3> QED
      BY <3>1 DEF Init
  <2>3. cut \subseteq Sentinel \X Instance
    BY <1>1 DEF Init, Config
  <2>4. used \in [Event -> Nat]
    BY DEF Init
  <2> QED
    BY SMTT(60), <2>1, <2>2, <2>3, <2>4 DEF OtherTypes, Init
<1>5. Kept
  <2>1. \A i \in Sentinel : Good(i, st[i], votes) /\ st[i].on /\ st[i].disk.on
    BY <1>2 DEF Init
  <2> QED
    BY <2>1 DEF Kept, OneVote, Init
<1>6. Carried
  BY DEF Carried, Init
<1> QED
  BY <1>3, <1>4, <1>5, <1>6, Types DEF IInv

-----------------------------------------------------------------------------
(* Each action keeps the invariant, and the configuration epoch of every Sentinel, unless *)
(* its failover reaches the promotion                                                     *)

Grows ==
  pc' = pc => \A i \in up \cap up' :
                st'[i].m.config_epoch >= st[i].m.config_epoch \/ Promotes(i)

\* Sentinel i goes on.
LEMMA GrowsStep ==
  ASSUME TypeOK, NEW i \in Sentinel, NEW t, st' = [st EXCEPT ![i] = t],
         \/ pc' # pc \/ i \notin up
         \/ st[i].m.config_epoch <= t.m.config_epoch
         \/ /\ st[i].m.failover_state = WAIT_PROMOTION /\ t.m.failover_state = RECONF_SLAVES
            /\ t.m.config_epoch = st[i].m.failover_epoch
  PROVE  Grows
<1>1. st \in [Sentinel -> State] /\ up \subseteq Sentinel
  BY ZenonT(60), ConfigAssumption DEF TypeOK, Config
<1>2. st'[i] = t /\ \A j \in Sentinel \ {i} : st'[j] = st[j]
  BY <1>1
<1>3. \A j \in Sentinel \ {i} : st'[j].m.config_epoch >= st[j].m.config_epoch
  <2> SUFFICES ASSUME NEW j \in Sentinel \ {i}
               PROVE  st'[j].m.config_epoch >= st[j].m.config_epoch
    OBVIOUS
  <2>1. st[j].m.config_epoch \in Nat
    BY <1>1 DEF State, Master
  <2> QED
    BY <1>2, <2>1
<1>4. pc' = pc /\ i \in up => st'[i].m.config_epoch >= st[i].m.config_epoch \/ Promotes(i)
  BY <1>2 DEF Promotes
<1> QED
  BY ZenonT(60), <1>1, <1>3, <1>4 DEF Grows

\* No Sentinel changes.
LEMMA GrowsSame ==
  ASSUME TypeOK, st' = st
  PROVE  Grows
<1>1. st \in [Sentinel -> State] /\ up \subseteq Sentinel
  BY ConfigAssumption DEF TypeOK, Config
<1>2. \A j \in Sentinel : st'[j].m.config_epoch >= st[j].m.config_epoch
  <2> SUFFICES ASSUME NEW j \in Sentinel
               PROVE  st'[j].m.config_epoch >= st[j].m.config_epoch
    OBVIOUS
  <2>1. st[j].m.config_epoch \in Nat
    BY ZenonT(60), <1>1 DEF State, Master
  <2> QED
    BY <2>1
<1> QED
  BY <1>1, <1>2 DEF Grows

\* Kept is about the variables conf, pc, st and votes.
LEMMA KeptSame ==
  ASSUME Kept, conf' = conf, pc' = pc, st' = st, votes' = votes
  PROVE  Kept'
BY DEF Kept, OneVote, Removed

\* An action of Sentinel i that ends with Handled.
LEMMA HandlerKeeps ==
  ASSUME IInv, NEW i \in Sentinel, NEW t, Handled(i, t),
         conf' = conf, hellos' = hellos, pc' \in {pc, pc + 1}, up' = up, at' = at, inst' = inst, cut' = cut,
         used' \in [Event -> Nat],
         Step(i, st[i], t, votes) \/ (Fresh(i, st[i], t, votes) /\ Removed(i)'),
         \/ pc' # pc
         \/ st[i].m.config_epoch <= t.m.config_epoch
         \/ /\ st[i].m.failover_state = WAIT_PROMOTION /\ t.m.failover_state = RECONF_SLAVES
            /\ t.m.config_epoch = st[i].m.failover_epoch
  PROVE  IInv' /\ Grows
<1>1. pc \in Nat \ {0} /\ TypeOK /\ OtherTypes
  BY ZenonT(60), Types DEF IInv, TypeOK
<1>2. pc' \in Nat \ {0} /\ pc <= pc'
  BY <1>1
<1>3. Kept' /\ Carried' /\ HandledTypes' /\ st'[i].m = t.m
  BY ZenonT(60), <1>2, HandledKeeps
<1>4. OtherTypes'
  BY ZenonT(60), <1>1, <1>2 DEF OtherTypes
<1>5. IInv'
  BY ZenonT(60), <1>3, <1>4, TypesNext DEF IInv
<1>6. Grows
  <2> DEFINE u == [t EXCEPT !.out = {}]
  <2>1. st' = [st EXCEPT ![i] = u]
    BY DEF Handled
  <2>2. st'[i] = u
    BY <1>1, <2>1 DEF TypeOK
  <2>3. u.m = t.m
    BY <1>3, <2>2
  <2> HIDE DEF u
  <2> QED
    BY ZenonT(60), <1>1, <2>1, <2>3, GrowsStep
<1> QED
  BY ZenonT(60), <1>5, <1>6

\* No Sentinel has a link to the null address.
LEMMA ReachNull ==
  ASSUME NEW i
  PROVE  NULL \notin Reach(i)
BY ZenonT(60), NameAssumption DEF Reach

\* sentinelTimer, whatever timeouts have expired, keeps the invariant.
LEMMA TimerKeeps ==
  ASSUME IInv, NEW i \in Sentinel, Timer(i)
  PROVE  IInv' /\ Grows
<1>1. PICK late \in Late(i), expired \in SUBSET Timeouts(st[i]), jump \in BOOLEAN, stale \in BOOLEAN,
           unfit \in (IF st[i].m.failover_state = SELECT_SLAVE THEN conf.unfit ELSE {{}}),
           misled \in (IF st[i].m.role = "slave" THEN BOOLEAN ELSE {FALSE}) :
        Fires(i, late, expired, jump, stale, unfit, misled)
  BY ZenonT(60) DEF Timer
<1> DEFINE c == [Clock(i) EXCEPT !.late = late, !.elapsed = expired, !.jump = jump, !.unfit = unfit,
                  !.misled = misled, !.stale = IF stale THEN Sentinel ELSE {}, !.links = Links(i)]
<1>2. NULL \notin c.reach
  BY ReachNull DEF Clock
<1>3. PICK t \in sentinelTimer(i, st[i], c) : Handled(i, t)
  BY <1>1 DEF Fires
<1>7. UNCHANGED <<conf, up, at, inst, cut, hellos, pc>>
  BY DEF Timer
<1> HIDE DEF c
<1>4. Good(i, st[i], votes)
  BY DEF IInv, Kept
<1>5. Step(i, st[i], t, votes) /\ st[i].m.config_epoch <= t.m.config_epoch
  BY <1>2, <1>3, <1>4, TimerGood
<1>6. used' \in [Event -> Nat]
  BY <1>1 DEF IInv, TypeOK, Fires
<1> QED
  BY ZenonT(60), <1>3, <1>5, <1>6, <1>7, HandlerKeeps

\* Answering SENTINEL IS-MASTER-DOWN-BY-ADDR, with or without a vote, keeps it.
LEMMA AskedKeeps ==
  ASSUME IInv, NEW q \in net, AskedIfDown(q)
  PROVE  IInv' /\ Grows
<1> DEFINE i == q.to
           s == st[i]
           t == IsMasterDownByAddr(i, s, q)
           u == [t EXCEPT !.out = {}]
           V == NewVote(i, s, t)
<1>1. TypeOK /\ Kept /\ Carried /\ OtherTypes /\ HandledTypes
  BY Types DEF IInv
<1>2. q \in Ask /\ i \in Sentinel
  BY ZenonT(60), <1>1 DEF AskedIfDown, TypeOK, Ask, Answer
<1>3. Good(i, s, votes) /\ s.out = {}
  BY <1>1, <1>2 DEF Kept, TypeOK
<1>4. /\ st' = [st EXCEPT ![i] = u] /\ net' = (net \ {q}) \cup t.out
      /\ votes' = votes \cup {<<i, a.epoch, a.leader>> : a \in {a \in t.out : a.leader # NULL}}
      /\ UNCHANGED <<conf, used, up, at, inst, cut, wire, hellos, pc, elected>>
  BY ZenonT(60) DEF AskedIfDown
<1> HIDE DEF i, s, t
<1>5. /\ Good(i, t, votes \cup V) /\ Later(s, t) /\ SameEntry(s.m, t.m)
      /\ t.m.leader_epoch # s.m.leader_epoch => t.m.leader \in Sentinel
      /\ t.out \subseteq Answer
      /\ votes \cup {<<i, a.epoch, a.leader>> : a \in {b \in t.out : b.leader # NULL}} = votes \cup V
  BY <1>2, <1>3, AskedGood DEF t
<1>6. votes' = votes \cup V
  BY <1>4, <1>5
<1>7. /\ Good(i, u, votes') /\ u.m = t.m /\ u.disk = t.disk /\ u.on = t.on /\ u.out = {}
  BY SMTT(60), <1>5, <1>6, SentGood
<1> HIDE DEF u
<1>8. t \in State /\ t.m \in Master /\ s.m \in Master
  BY ZenonT(60), <1>3, <1>5, GoodTypes
<1>9. Kept'
  <2>1. \A v \in V : v[1] = i /\ v[2] = u.m.leader_epoch /\ v[2] # s.m.leader_epoch
    BY <1>7 DEF NewVote
  <2>2. \A v, w \in V : v = w
    BY DEF NewVote
  <2>3. pc \in Nat /\ pc' = pc /\ pc <= pc' /\ conf' = conf
    BY <1>1, <1>4 DEF TypeOK
  <2>4. s.disk.current_epoch <= u.disk.current_epoch
    BY ZenonT(60), <1>5, <1>7 DEF Later
  <2>5. ~Removed(i)' => s.m.leader_epoch <= u.m.leader_epoch /\ u.on /\ u.disk.on
    <3>1. ~Removed(i)' => ~Removed(i)
      BY ZenonT(60), <2>3, RemovedStays
    <3>2. ~Removed(i) => s.on /\ s.disk.on
      BY ZenonT(60), <1>1, <1>2 DEF Kept, s
    <3> QED
      BY ZenonT(60), <1>5, <1>7, <3>1, <3>2 DEF Later
  <2> HIDE DEF V
  <2> QED
    BY ZenonT(60), <1>1, <1>2, <1>4, <1>6, <1>7, <2>1, <2>2, <2>3, <2>4, <2>5, KeptStep DEF s
<1>10. Carried'
  <2> DEFINE N == t.out
             H == {}
             E == {}
  <2>1. \A a \in N : a.type = "answer" /\ a.leader # NULL => <<a.from, a.epoch, a.leader>> \in votes'
    BY ZenonT(60), <1>5, <1>6 DEF Good, Backed
  <2>2. votes \subseteq votes' /\ net' \subseteq net \cup N /\ hellos' = hellos \cup H /\ elected' = elected \cup E
    BY <1>4, <1>6
  <2>3. \A h \in H : h.config_epoch <= h.epoch
    OBVIOUS
  <2>4. \A e \in E : Authorised(e)'
    OBVIOUS
  <2> HIDE DEF N, H, E
  <2> QED
    BY ZenonT(60), <1>1, <2>1, <2>2, <2>3, <2>4, CarriedStep
<1>11. HandledTypes'
  <2>1. st' \in [Sentinel -> State] /\ \A j \in Sentinel : st'[j].out = {}
    BY ZenonT(60), <1>1, <1>2, <1>4, <1>7 DEF TypeOK, Good
  <2>2. net' \subseteq Ask \cup Answer
    BY ZenonT(60), <1>1, <1>4, <1>5 DEF TypeOK
  <2>3. votes' \subseteq Sentinel \X Nat \X Sentinel
    <3>1. V \subseteq Sentinel \X Nat \X Sentinel
      BY SMTT(60), <1>2, <1>5, <1>8 DEF NewVote, Master
    <3> QED
      BY ZenonT(60), <1>1, <1>6, <3>1 DEF TypeOK
  <2> QED
    BY ZenonT(60), <1>1, <1>4, <2>1, <2>2, <2>3 DEF HandledTypes
<1>12. OtherTypes'
  BY <1>1, <1>4 DEF OtherTypes
<1>13. Grows
  <2>1. s.m.config_epoch <= u.m.config_epoch
    BY <1>5, <1>7, <1>8 DEF SameEntry, Master
  <2> QED
    BY ZenonT(60), <1>1, <1>2, <1>4, <2>1, GrowsStep DEF s
<1> QED
  BY ZenonT(60), <1>9, <1>10, <1>11, <1>12, <1>13, TypesNext DEF IInv

\* A step of Sentinel i that neither votes nor sends.
LEMMA SilentKeeps ==
  ASSUME IInv, NEW i \in Sentinel, NEW t, st' = [st EXCEPT ![i] = t], Good(i, t, votes), t.out = {},
         st[i].disk.current_epoch <= t.disk.current_epoch,
         ~Removed(i) => st[i].m.leader_epoch <= t.m.leader_epoch /\ t.on /\ t.disk.on,
         i \notin up \/ st[i].m.config_epoch <= t.m.config_epoch,
         net' \subseteq net, OtherTypes',
         UNCHANGED <<conf, pc, wire, hellos, votes, elected>>
  PROVE  IInv' /\ Grows
<1>1. TypeOK /\ Kept /\ Carried /\ HandledTypes
  BY ZenonT(60), Types DEF IInv
<1> DEFINE V == {}
<1>2. Kept'
  <2>1. pc \in Nat /\ pc' = pc /\ pc <= pc' /\ conf' = conf
    BY <1>1 DEF TypeOK
  <2>2. ~Removed(i)' => ~Removed(i)
    BY <2>1, RemovedStays
  <2>3. votes' = votes \cup V /\ votes' = votes
    OBVIOUS
  <2>4. V = {}
    OBVIOUS
  <2> HIDE DEF V
  <2> QED
    BY ZenonT(60), <1>1, <2>1, <2>2, <2>3, <2>4, KeptStep
<1>3. Carried'
  <2>1. votes \subseteq votes' /\ net' \subseteq net \cup V /\ hellos' = hellos \cup V /\ elected' = elected \cup V
    OBVIOUS
  <2>2. V = {}
    OBVIOUS
  <2> HIDE DEF V
  <2> QED
    BY ZenonT(60), <1>1, <2>1, <2>2, CarriedStep
<1>4. HandledTypes'
  <2>1. st' \in [Sentinel -> State] /\ \A j \in Sentinel : st'[j].out = {}
    BY ZenonT(60), <1>1 DEF TypeOK, Good
  <2> QED
    BY <1>1, <2>1 DEF HandledTypes
<1>5. Grows
  BY ZenonT(60), <1>1, GrowsStep
<1> QED
  BY ZenonT(60), <1>2, <1>3, <1>4, <1>5, TypesNext DEF IInv

\* No Sentinel takes part.
LEMMA AsideKeeps ==
  ASSUME IInv, UNCHANGED <<conf, pc, st, votes, elected>>, net' \subseteq net, OtherTypes',
         wire' \in [Sentinel \X Instance -> Seq(Instance \cup {NULL})],
         NEW H, hellos' = hellos \cup H, \A h \in H : h.config_epoch <= h.epoch
  PROVE  IInv' /\ Grows
<1>1. TypeOK /\ Kept /\ Carried /\ HandledTypes
  BY Types DEF IInv
<1>2. Kept'
  BY ZenonT(60), <1>1, KeptSame
<1>3. Carried'
  <2> DEFINE V == {}
  <2>1. votes \subseteq votes' /\ net' \subseteq net \cup V /\ elected' = elected \cup V
    OBVIOUS
  <2>2. \A a \in V : a.type = "answer" /\ a.leader # NULL => <<a.from, a.epoch, a.leader>> \in votes'
    OBVIOUS
  <2>3. \A e \in V : Authorised(e)'
    OBVIOUS
  <2> HIDE DEF V
  <2> QED
    BY ZenonT(60), <1>1, <2>1, <2>2, <2>3, CarriedStep
<1>4. HandledTypes'
  BY <1>1 DEF HandledTypes
<1>5. Grows
  BY ZenonT(60), <1>1, GrowsSame
<1> QED
  BY <1>2, <1>3, <1>4, <1>5, TypesNext DEF IInv

\* Reading the reply to that question keeps it, however late the reply is.
LEMMA AnsweredKeeps ==
  ASSUME IInv, NEW a \in net, Answered(a)
  PROVE  IInv' /\ Grows
<1> DEFINE i == a.to
           t == sentinelReceiveIsMasterDownReply(st[i], a)
<1>1. TypeOK /\ Kept /\ Carried /\ OtherTypes
  BY Types DEF IInv
<1>2. a \in Answer /\ i \in Sentinel
  BY <1>1 DEF Answered, TypeOK, Ask, Answer
<1>3. /\ st' = [st EXCEPT ![i] = t] /\ net' = net \ {a}
      /\ UNCHANGED <<conf, used, up, at, inst, cut, wire, hellos, pc, votes, elected>>
  BY ZenonT(60) DEF Answered
<1>4. Good(i, st[i], votes) /\ st[i].out = {} /\ (~Removed(i) => st[i].on /\ st[i].disk.on)
  BY <1>1, <1>2 DEF Kept, TypeOK
<1>5. a.leader # NULL => <<a.from, a.epoch, a.leader>> \in votes
  BY ZenonT(60), <1>1, <1>2 DEF Carried, Answer
<1>6. Good(i, t, votes) /\ Quiet(st[i], t) /\ t.out = st[i].out
  BY SMTT(60), <1>2, <1>4, <1>5, ReplyGood
<1> HIDE DEF i, t
<1>7. OtherTypes'
  BY <1>1, <1>3 DEF OtherTypes
<1> QED
  BY ZenonT(60), <1>2, <1>3, <1>4, <1>6, <1>7, SilentKeeps DEF Quiet, Later

\* Counting an event keeps the type of the counters.
LEMMA HappensType ==
  ASSUME TypeOK, NEW e \in Event, Happens(e)
  PROVE  used' \in [Event -> Nat]
<1>1. used \in [Event -> Nat] /\ used[e] + 1 \in Nat
  BY DEF TypeOK
<1> QED
  BY <1>1 DEF Happens

\* Losing a question or a reply keeps it.
LEMMA LoseKeeps ==
  ASSUME IInv, NEW q \in net, Lose(q)
  PROVE  IInv' /\ Grows
<1>1. TypeOK /\ OtherTypes
  BY Types DEF IInv
<1>2. OtherTypes'
  <2>1. used' \in [Event -> Nat]
    BY <1>1, HappensType DEF Lose, Event
  <2> QED
    BY <1>1, <2>1 DEF Lose, OtherTypes
<1> DEFINE H == {}
<1>3. /\ UNCHANGED <<conf, pc, st, votes, elected>> /\ net' \subseteq net /\ wire' = wire
      /\ hellos' = hellos \cup H /\ \A h \in H : h.config_epoch <= h.epoch
  BY DEF Lose
<1> HIDE DEF H
<1> QED
  BY ZenonT(60), <1>1, <1>2, <1>3, AsideKeeps DEF TypeOK

\* Publishing a hello message keeps it: the hello carries epochs in order.
LEMMA PublishKeeps ==
  ASSUME IInv, NEW i \in Sentinel, PublishHello(i)
  PROVE  IInv' /\ Grows
<1> DEFINE h == sentinelSendHello(i, st[i], at[i])
           H == {h}
<1>1. TypeOK /\ OtherTypes /\ Good(i, st[i], votes)
  BY Types DEF IInv, Kept
<1>2. h \in Hello /\ h.config_epoch <= h.epoch
  <2>1. st[i].m \in Master /\ st[i].current_epoch \in Nat /\ st[i].m.config_epoch <= st[i].current_epoch
    BY ZenonT(60), <1>1, GoodTypes
  <2>2. sentinelGetCurrentMasterAddress(st[i].m) \in Instance
    BY <2>1 DEF sentinelGetCurrentMasterAddress, Master
  <2> QED
    BY ZenonT(60), <1>1, <2>1, <2>2 DEF sentinelSendHello, Hello, Master, TypeOK
<1>3. /\ hellos' = hellos \cup H
      /\ UNCHANGED <<conf, used, st, up, at, inst, cut, wire, net, pc, votes, elected>>
  BY ZenonT(60) DEF PublishHello
<1> HIDE DEF h
<1>4. OtherTypes'
  BY <1>1, <1>2, <1>3 DEF OtherTypes
<1>5. \A g \in H : g.config_epoch <= g.epoch
  BY ZenonT(60), <1>2
<1> HIDE DEF H
<1> QED
  BY ZenonT(60), <1>1, <1>3, <1>4, <1>5, AsideKeeps DEF TypeOK

\* Processing a hello message, however old, keeps it.
LEMMA ReceiveKeeps ==
  ASSUME IInv, NEW i \in Sentinel, NEW h \in hellos, ReceiveHello(i, h)
  PROVE  IInv' /\ Grows
<1> DEFINE t == sentinelProcessHelloMessage(st[i], h)
<1>1. TypeOK /\ Kept /\ Carried
  BY ZenonT(60) DEF IInv
<1>2. h \in Hello /\ h.config_epoch <= h.epoch /\ h.from # i /\ Good(i, st[i], votes)
  BY <1>1 DEF TypeOK, Carried, Kept, ReceiveHello
<1>3. Good(i, t, votes) /\ Quiet(st[i], t)
  BY ZenonT(60), <1>2, HelloGood
<1>4. Handled(i, t) /\ UNCHANGED <<conf, used, up, at, inst, cut, hellos, pc>>
  BY DEF ReceiveHello
<1> HIDE DEF t
<1>5. Step(i, st[i], t, votes)
  BY ZenonT(60), <1>3, QuietStep
<1>6. used' \in [Event -> Nat]
  BY ZenonT(60), <1>1, <1>4 DEF TypeOK
<1> QED
  BY ZenonT(60), <1>3, <1>4, <1>5, <1>6, HandlerKeeps DEF Quiet

\* Reading an INFO reply keeps it, the promotion of the chosen slave included.
LEMMA InfoKeeps ==
  ASSUME IInv, NEW i \in Sentinel, NEW x \in Instance, Info(i, x)
  PROVE  IInv' /\ Grows
<1>1. TypeOK /\ Good(i, st[i], votes)
  BY DEF IInv, Kept
<1>2. PICK link \in BOOLEAN, waited \in BOOLEAN, fresh \in BOOLEAN :
        Handled(i, sentinelRefreshInstanceInfo(i, st[i], x, InfoOf(x, link),
                    [Clock(i) EXCEPT !.waited = waited, !.fresh = fresh]))
  BY Zenon DEF Info
<1>3. x \in DOMAIN st[i].m.slaves \cup {st[i].m.addr} /\ UNCHANGED <<conf, used, up, at, inst, cut, hellos, pc>>
  BY DEF Info
<1> DEFINE info == InfoOf(x, link)
           c == [Clock(i) EXCEPT !.waited = waited, !.fresh = fresh]
           t == sentinelRefreshInstanceInfo(i, st[i], x, info, c)
<1>4. info \in InfoSet
  <2>1. inst[x].master \in Instance \cup {NULL}
    BY <1>1 DEF TypeOK
  <2> QED
    BY ZenonT(60), <2>1 DEF InfoOf, InfoSet
<1>5. Handled(i, t)
  BY ZenonT(60), <1>2
<1> HIDE DEF info, c
<1>6. /\ Step(i, st[i], t, votes)
      /\ \/ st[i].m.config_epoch <= t.m.config_epoch
         \/ /\ st[i].m.failover_state = WAIT_PROMOTION /\ t.m.failover_state = RECONF_SLAVES
            /\ t.m.config_epoch = st[i].m.failover_epoch
  <2> DEFINE Promoted(v) == /\ st[i].m.failover_state = WAIT_PROMOTION /\ v.m.failover_state = RECONF_SLAVES
                            /\ v.m.config_epoch = st[i].m.failover_epoch
  <2>1. x \in DOMAIN st[i].m.slaves \cup {st[i].m.addr}
    BY <1>3
  <2>2. Good(i, st[i], votes)
    BY ZenonT(60), <1>1
  <2> HIDE DEF Promoted
  <2>3. Step(i, st[i], t, votes) /\ (st[i].m.config_epoch <= t.m.config_epoch \/ Promoted(t))
    BY SMTT(60), <2>1, <2>2, <1>4, InfoGood DEF Promoted
  <2> QED
    BY <2>3 DEF Promoted
<1> HIDE DEF t
<1>7. used' \in [Event -> Nat]
  BY <1>1, <1>3 DEF TypeOK
<1> QED
  BY ZenonT(60), <1>3, <1>5, <1>6, <1>7, HandlerKeeps

\* SLAVEOF arrives, an instance stops or starts, a Sentinel reaches the instances again or stops.
LEMMA InstanceKeeps ==
  ASSUME IInv, NEW i, NEW x,
         \/ i \in Sentinel /\ x \in Instance /\ SlaveOf(i, x)
         \/ x \in Instance /\ (Fail(x) \/ Recover(x))
         \/ i \in Sentinel /\ (Heal(i) \/ Crash(i))
  PROVE  IInv' /\ Grows
<1>1. TypeOK /\ OtherTypes
  BY Types DEF IInv
<1>2. UNCHANGED <<conf, pc, st, votes, elected, hellos>> /\ net' \subseteq net
  BY DEF SlaveOf, Fail, Recover, Heal, Crash
<1>3. used' \in [Event -> Nat]
  BY <1>1, HappensType DEF SlaveOf, Fail, Recover, Heal, Crash, Event, OtherTypes
<1>4. wire' \in [Sentinel \X Instance -> Seq(Instance \cup {NULL})]
  <2>1. wire \in [Sentinel \X Instance -> Seq(Instance \cup {NULL})]
    BY <1>1 DEF TypeOK
  <2>2. CASE i \in Sentinel /\ x \in Instance /\ SlaveOf(i, x)
    <3>1. wire[<<i, x>>] \in Seq(Instance \cup {NULL}) /\ wire[<<i, x>>] # <<>>
      BY <2>1, <2>2 DEF SlaveOf
    <3>2. Tail(wire[<<i, x>>]) \in Seq(Instance \cup {NULL})
      BY <3>1
    <3>3. wire' = [wire EXCEPT ![<<i, x>>] = Tail(wire[<<i, x>>])]
      BY <2>2 DEF SlaveOf
    <3> QED
      BY ZenonT(60), <2>1, <3>2, <3>3
  <2>3. CASE x \in Instance /\ Fail(x)
    BY <2>1, <2>3 DEF Fail
  <2>4. CASE Crash(i)
    BY <2>1, <2>4 DEF Crash
  <2>5. CASE Recover(x) \/ Heal(i)
    BY ZenonT(60), <2>1, <2>5 DEF Recover, Heal
  <2> QED
    BY ZenonT(60), <2>2, <2>3, <2>4, <2>5
<1>5. inst' \in [Instance -> [up : BOOLEAN, master : Instance \cup {NULL}]]
  <2>1. inst \in [Instance -> [up : BOOLEAN, master : Instance \cup {NULL}]]
    BY <1>1 DEF TypeOK
  <2>2. x \in Instance => inst[x] \in [up : BOOLEAN, master : Instance \cup {NULL}]
    BY <2>1
  <2>3. CASE i \in Sentinel /\ x \in Instance /\ SlaveOf(i, x)
    <3> DEFINE y == Head(wire[<<i, x>>])
    <3>1. wire[<<i, x>>] \in Seq(Instance \cup {NULL}) /\ wire[<<i, x>>] # <<>>
      BY <1>1, <2>3 DEF SlaveOf, TypeOK
    <3>2. y \in Instance \cup {NULL}
      BY <3>1
    <3>3. inst' = [inst EXCEPT ![x] = [inst[x] EXCEPT !.master = y]]
      BY <2>3 DEF SlaveOf
    <3> HIDE DEF y
    <3>4. [inst[x] EXCEPT !.master = y] \in [up : BOOLEAN, master : Instance \cup {NULL}]
      BY <2>2, <2>3, <3>2
    <3> QED
      BY ZenonT(60), <2>1, <3>3, <3>4
  <2>4. CASE x \in Instance /\ Fail(x)
    <3>1. inst' = [inst EXCEPT ![x] = [inst[x] EXCEPT !.up = FALSE]]
      BY <2>4 DEF Fail
    <3>2. [inst[x] EXCEPT !.up = FALSE] \in [up : BOOLEAN, master : Instance \cup {NULL}]
      BY ZenonT(60), <2>2, <2>4
    <3> QED
      BY ZenonT(60), <2>1, <3>1, <3>2
  <2>5. CASE x \in Instance /\ Recover(x)
    <3>1. inst' = [inst EXCEPT ![x] = [inst[x] EXCEPT !.up = TRUE]]
      BY <2>5 DEF Recover
    <3>2. [inst[x] EXCEPT !.up = TRUE] \in [up : BOOLEAN, master : Instance \cup {NULL}]
      BY ZenonT(60), <2>2, <2>5
    <3> QED
      BY ZenonT(60), <2>1, <3>1, <3>2
  <2>6. CASE Heal(i) \/ Crash(i)
    BY <2>1, <2>6 DEF Heal, Crash
  <2> QED
    BY ZenonT(60), <2>3, <2>4, <2>5, <2>6
<1>6. up' \subseteq conf.up /\ at' = at /\ cut' \subseteq Sentinel \X Instance
  BY ZenonT(60), <1>1 DEF OtherTypes, SlaveOf, Fail, Recover, Heal, Crash
<1>7. OtherTypes'
  BY ZenonT(60), <1>1, <1>2, <1>3, <1>5, <1>6 DEF OtherTypes
<1> DEFINE H == {}
<1>8. hellos' = hellos \cup H /\ \A h \in H : h.config_epoch <= h.epoch
  BY ZenonT(60), <1>2
<1> HIDE DEF H
<1> QED
  BY ZenonT(60), <1>2, <1>4, <1>7, <1>8, AsideKeeps

\* A restart brings back what the file says: the epoch of the last vote with it.
LEMMA RestartKeeps ==
  ASSUME IInv, NEW i \in Sentinel, NEW h \in Host, Restart(i, h)
  PROVE  IInv' /\ Grows
<1> DEFINE d == st[i].disk
           t == sentinelHandleConfiguration(d)
<1>1. TypeOK /\ OtherTypes /\ Kept /\ Good(i, st[i], votes)
  BY Types DEF IInv, Kept
<1>2. /\ st' = [st EXCEPT ![i] = t] /\ i \in conf.up \ up /\ up' = up \cup {i} /\ at' = [at EXCEPT ![i] = h]
      /\ UNCHANGED <<conf, used, inst, cut, wire, net, hellos, pc, votes, elected>>
  BY ZenonT(60) DEF Restart
<1>3. /\ d \in File /\ d.config_epoch <= d.current_epoch /\ d.leader_epoch <= d.current_epoch
      /\ i \notin DOMAIN d.sentinels /\ st[i].m.leader_epoch = d.leader_epoch
      /\ d.leader_epoch \in Nat /\ d.current_epoch \in Nat
  BY ZenonT(60), <1>1 DEF Good, State, EpochsOf, Backed, File
<1> HIDE DEF d
<1>4. Good(i, t, votes) /\ t.disk = d /\ t.on = d.on /\ t.out = {} /\ t.m.leader_epoch = d.leader_epoch
  BY ZenonT(60), <1>3, StartedGood
<1> HIDE DEF t
<1>5. ~Removed(i) => st[i].m.leader_epoch <= t.m.leader_epoch /\ t.on /\ t.disk.on
  <2>1. ~Removed(i) => d.on
    BY ZenonT(60), <1>1 DEF Kept, d
  <2> QED
    BY SMTT(60), <1>3, <1>4, <2>1
<1>6. st[i].disk.current_epoch <= t.disk.current_epoch
  BY SMTT(60), <1>3, <1>4 DEF d
<1>7. OtherTypes'
  BY ZenonT(60), <1>1, <1>2 DEF OtherTypes
<1> QED
  BY ZenonT(60), <1>2, <1>4, <1>5, <1>6, <1>7, SilentKeeps

\* A failover of another master, which raises the shared current epoch, keeps it.
LEMMA OtherFailoverKeeps ==
  ASSUME IInv, NEW i \in Sentinel, OtherFailover(i)
  PROVE  IInv' /\ Grows
<1> DEFINE e == st[i].current_epoch + 1
           t == [st[i] EXCEPT !.current_epoch = e]
<1>1. TypeOK /\ OtherTypes /\ Kept /\ Good(i, st[i], votes) /\ st[i].out = {}
  BY Types DEF IInv, Kept, TypeOK
<1>2. st' = [st EXCEPT ![i] = t] /\ Happens("other")
      /\ UNCHANGED <<conf, up, at, inst, cut, wire, net, hellos, pc, votes, elected>>
  BY <1>1 DEF OtherFailover, TypeOK
<1>3. e \in Nat /\ st[i].current_epoch <= e
  BY <1>1, GoodTypes
<1> HIDE DEF e
<1>4. Good(i, t, votes) /\ Quiet(st[i], t)
  BY ZenonT(60), <1>1, <1>3, EpochGood
<1>5. t.out = {}
  BY ZenonT(60), <1>1, <1>4 DEF State, Good
<1> HIDE DEF t
<1>8. ~Removed(i) => st[i].on /\ st[i].disk.on
  BY ZenonT(60), <1>1 DEF Kept
<1>9. OtherTypes'
  <2>1. used' \in [Event -> Nat]
    BY ZenonT(60), <1>1, <1>2, HappensType DEF Event
  <2> QED
    BY ZenonT(60), <1>1, <1>2, <2>1 DEF OtherTypes
<1> QED
  BY ZenonT(60), <1>2, <1>4, <1>5, <1>8, <1>9, SilentKeeps DEF Quiet, Later

\* A command of the administrator.
LEMMA ExecuteGood ==
  ASSUME IInv, NEW k, k = conf.script[pc], pc \in DOMAIN conf.script, pc' = pc + 1, conf' = conf,
         Execute(k)
  PROVE  /\ k.node \in Sentinel
         /\ \E t : /\ Handled(k.node, t)
                   /\ \/ Step(k.node, st[k.node], t, votes)
                      \/ Fresh(k.node, st[k.node], t, votes) /\ Removed(k.node)'
<1> DEFINE i == k.node
           s == st[i]
<1>1. conf \in Config /\ TypeOK /\ Kept
  BY ConfigAssumption DEF IInv, TypeOK
<1>2. conf.script \in Seq([node : Sentinel, op : Command, arg : Nat]) /\ conf.quorum \in Nat
  BY <1>1 DEF Config
<1>3. k \in [node : Sentinel, op : Command, arg : Nat]
  <2> DEFINE C == [node : Sentinel, op : Command, arg : Nat]
  <2>1. conf.script \in Seq(C)
    BY ZenonT(60), <1>2
  <2> HIDE DEF C
  <2>2. k \in C
    BY <2>1
  <2> QED
    BY ZenonT(60), <2>2 DEF C
<1>4. i \in Sentinel /\ k.arg \in Nat
  BY ZenonT(60), <1>3
<1>5. k.op = "monitor" => k.arg \in Instance
  BY ZenonT(60), ConfigAssumption DEF IInv, TypeOK
<1>6. Good(i, s, votes) /\ Quiet(s, s)
  BY ZenonT(60), <1>1, <1>4, QuietRefl DEF Kept
<1>7. Step(i, s, s, votes)
  BY ZenonT(60), <1>6, QuietStep
<1>8. pc \in Nat \ {0}
  BY ZenonT(60), <1>1 DEF TypeOK
<1>9. k.op = "remove" \/ Removed(i) => Removed(i)'
  <2>1. Removed(i)' <=> \E x \in 1..(pc' - 1) : conf'.script[x].op = "remove" /\ conf'.script[x].node = i
    BY DEF Removed
  <2>2. k.op = "remove" => pc \in 1..(pc' - 1) /\ conf'.script[pc].op = "remove" /\ conf'.script[pc].node = i
    BY <1>8
  <2>3. Removed(i) => \E x \in 1..(pc - 1) : conf.script[x].op = "remove" /\ conf.script[x].node = i
    BY DEF Removed
  <2>4. \A x \in 1..(pc - 1) : x \in 1..(pc' - 1)
    BY SMTT(60), <1>8
  <2> HIDE DEF i
  <2> QED
    BY ZenonT(60), <2>1, <2>2, <2>3, <2>4
<1>10. ~s.on => Removed(i)
  BY ZenonT(60), <1>1, <1>4 DEF Kept
<1>11. s.m.addr \in Instance /\ s.m.quorum \in Nat
  BY ZenonT(60), <1>6, GoodTypes DEF Master
<1>12. CASE k.op = "failover"
  <2> DEFINE t == FailoverCommand(s, Clock(i))
  <2>1. Handled(i, t)
    BY ZenonT(60), <1>12 DEF Execute
  <2>2. Good(i, t, votes) /\ Quiet(s, t)
    BY ZenonT(60), <1>6, FailoverCommandGood
  <2> HIDE DEF t
  <2> QED
    BY ZenonT(60), <1>4, <2>1, <2>2, QuietStep
<1>13. CASE k.op = "reset"
  <2> DEFINE t == sentinelResetMastersByPattern(s)
             keep == FALSE
             r == sentinelResetMaster(s, keep)
  <2>1. Handled(i, t)
    BY ZenonT(60), <1>13 DEF Execute
  <2>2. t = s \/ t = r
    BY ZenonT(60) DEF sentinelResetMastersByPattern
  <2>3. keep \in BOOLEAN
    OBVIOUS
  <2> HIDE DEF keep
  <2>4. Good(i, r, votes) /\ Quiet(s, r)
    BY <1>6, <2>3, ResetGood
  <2> HIDE DEF t, r
  <2> QED
    BY ZenonT(60), <1>4, <1>7, <2>1, <2>2, <2>4, QuietStep
<1>14. CASE k.op = "remove"
  <2> DEFINE t == RemoveCommand(s)
             on == FALSE
             f == sentinelFlushConfig([s EXCEPT !.on = on, !.m = NewMaster(s.m.addr, s.m.quorum)])
  <2>1. Handled(i, t)
    BY ZenonT(60), <1>14 DEF Execute
  <2>2. t = s \/ t = f
    BY ZenonT(60) DEF RemoveCommand
  <2>3. on \in BOOLEAN
    OBVIOUS
  <2> HIDE DEF on
  <2>4. Fresh(i, s, f, votes)
    BY ZenonT(60), <1>6, <1>11, <2>3, FreshGood
  <2> HIDE DEF t, f
  <2> QED
    BY ZenonT(60), <1>4, <1>7, <1>9, <1>14, <2>1, <2>2, <2>4
<1>15. CASE k.op = "monitor"
  <2> DEFINE t == MonitorCommand(s, k.arg, conf.quorum)
             on == TRUE
             f == sentinelFlushConfig([s EXCEPT !.on = on, !.m = NewMaster(k.arg, conf.quorum)])
  <2>1. Handled(i, t)
    BY ZenonT(60), <1>15 DEF Execute
  <2>2. t = s \/ (t = f /\ ~s.on)
    BY DEF MonitorCommand
  <2>3. on \in BOOLEAN
    OBVIOUS
  <2> HIDE DEF on
  <2>4. Fresh(i, s, f, votes)
    BY ZenonT(60), <1>2, <1>5, <1>6, <1>15, <2>3, FreshGood
  <2> HIDE DEF t, f
  <2> QED
    BY ZenonT(60), <1>4, <1>7, <1>9, <1>10, <2>1, <2>2, <2>4
<1>16. CASE k.op = "quorum"
  <2> DEFINE t == sentinelSetCommand(s, k.arg)
  <2>1. Handled(i, t)
    BY ZenonT(60), <1>16 DEF Execute
  <2>2. Good(i, t, votes) /\ Quiet(s, t)
    BY ZenonT(60), <1>4, <1>6, SetCommandGood
  <2> HIDE DEF t
  <2> QED
    BY ZenonT(60), <1>4, <2>1, <2>2, QuietStep
<1>17. k.op \in Command
  BY ZenonT(60), <1>3
<1> QED
  BY ZenonT(60), <1>12, <1>13, <1>14, <1>15, <1>16, <1>17 DEF Command

\* A SENTINEL command of the administrator keeps it.
LEMMA AdminKeeps ==
  ASSUME IInv, Admin
  PROVE  IInv' /\ Grows
<1> PICK k : k = conf.script[pc]
  OBVIOUS
<1>1. /\ pc <= Len(conf.script) /\ Execute(k) /\ pc' = pc + 1
      /\ UNCHANGED <<conf, used, up, at, inst, cut, hellos>>
  BY ZenonT(60) DEF Admin
<1>2. conf \in Config /\ TypeOK /\ pc \in Nat \ {0}
  BY ZenonT(60), ConfigAssumption DEF IInv, TypeOK
<1>3. conf.script \in Seq([node : Sentinel, op : Command, arg : Nat])
  BY ZenonT(60), <1>2 DEF Config
<1>4. pc \in DOMAIN conf.script /\ used' \in [Event -> Nat] /\ k = conf.script[pc]
  BY SMTT(60), <1>1, <1>2, <1>3 DEF TypeOK
<1>5. /\ k.node \in Sentinel
      /\ \E t : /\ Handled(k.node, t)
                /\ \/ Step(k.node, st[k.node], t, votes)
                   \/ Fresh(k.node, st[k.node], t, votes) /\ Removed(k.node)'
  BY ZenonT(60), <1>1, <1>4, ExecuteGood
<1>6. PICK t : /\ Handled(k.node, t)
               /\ \/ Step(k.node, st[k.node], t, votes)
                  \/ Fresh(k.node, st[k.node], t, votes) /\ Removed(k.node)'
  BY ZenonT(60), <1>5
<1>7. pc' # pc /\ pc' \in {pc, pc + 1}
  BY SMTT(60), <1>1, <1>2
<1> QED
  BY ZenonT(60), <1>1, <1>4, <1>5, <1>6, <1>7, HandlerKeeps

\* Every step keeps the invariant.
LEMMA NextInv == IInv /\ [Next]_vars => IInv' /\ (Grows \/ UNCHANGED vars)
<1> SUFFICES ASSUME IInv, [Next]_vars
             PROVE  IInv' /\ (Grows \/ UNCHANGED vars)
  OBVIOUS
<1>1. CASE UNCHANGED vars
  <2>1. TypeOK' /\ Kept'
    BY ZenonT(60), <1>1 DEF vars, IInv, TypeOK, Kept, OneVote, Removed
  <2>2. \A e : Authorised(e) => Authorised(e)'
    BY SMTT(60), <1>1 DEF vars, Authorised, Majorities
  <2>3. Carried'
    BY ZenonT(60), <1>1, <2>2 DEF vars, IInv, Carried
  <2> QED
    BY ZenonT(60), <1>1, <2>1, <2>3 DEF IInv
<1>2. CASE \E i \in Sentinel : Timer(i) \/ PublishHello(i) \/ OtherFailover(i)
  BY <1>2, TimerKeeps, PublishKeeps, OtherFailoverKeeps
<1>3. CASE \E i \in Sentinel : Heal(i) \/ Crash(i)
  BY <1>3, InstanceKeeps
<1>4. CASE \E i \in Sentinel, h \in Host : Restart(i, h)
  BY <1>4, RestartKeeps
<1>5. CASE \E i \in Sentinel, h \in hellos : ReceiveHello(i, h)
  BY ZenonT(60), <1>5, ReceiveKeeps
<1>6. CASE \E i \in Sentinel, x \in Instance : Info(i, x)
  BY <1>6, InfoKeeps
<1>7. CASE \E i \in Sentinel, x \in Instance : SlaveOf(i, x)
  BY <1>7, InstanceKeeps
<1>8. CASE \E x \in Instance : Fail(x) \/ Recover(x)
  BY <1>8, InstanceKeeps
<1>9. CASE \E q \in net : AskedIfDown(q) \/ Answered(q) \/ Lose(q)
  BY ZenonT(60), <1>9, AskedKeeps, AnsweredKeeps, LoseKeeps
<1>10. CASE Admin
  BY ZenonT(60), <1>10, AdminKeeps
<1> QED
  BY ZenonT(60), <1>1, <1>2, <1>3, <1>4, <1>5, <1>6, <1>7, <1>8, <1>9, <1>10 DEF Next

\* The majority behind a failover that counted the votes of its own epoch.
LEMMA OwnMajority ==
  ASSUME IInv, NEW e \in elected, ~e.forced, ~(e.votes > e.epoch)
  PROVE  \E Q \in SUBSET e.voters : /\ 2 * Cardinality(Q) > Cardinality(e.voters)
                                    /\ \A q \in Q : <<q, e.epoch, e.leader>> \in votes
<1>1. e.epoch \in Nat /\ e.votes \in Nat
  BY DEF IInv, TypeOK, Election
<1>2. Authorised(e)
  BY ZenonT(60) DEF IInv, Carried
<1>3. e.epoch = e.votes
  BY SMTT(60), <1>1, <1>2 DEF Authorised
<1> QED
  BY ZenonT(60), <1>2, <1>3 DEF Authorised, Majorities

\* The leader of an epoch, from the votes: two majorities of the same voters have a
\* Sentinel in common, and that one voted once.
LEMMA OneLeaderInv == IInv => OneLeader
<1> SUFFICES ASSUME IInv
             PROVE  OneLeader
  OBVIOUS
<1> SUFFICES ASSUME NEW e \in elected, NEW f \in elected, ~e.forced, ~f.forced,
                    e.epoch = f.epoch, e.voters = f.voters, \A j \in e.voters : ~Removed(j),
                    ~(e.votes > e.epoch), ~(f.votes > f.epoch)
             PROVE  e.leader = f.leader
  <2>1. \A e \in elected : ~e.forced => Majorities(e) # {}
    BY ZenonT(60) DEF IInv, Carried, Authorised
  <2> QED
    BY ZenonT(60), <2>1 DEF OneLeader
<1>1. TypeOK /\ Kept /\ Carried
  BY DEF IInv
<1>2. PICK P \in SUBSET e.voters : /\ 2 * Cardinality(P) > Cardinality(e.voters)
                                   /\ \A q \in P : <<q, e.epoch, e.leader>> \in votes
  BY ZenonT(60), OwnMajority
<1>3. PICK Q \in SUBSET e.voters : /\ 2 * Cardinality(Q) > Cardinality(e.voters)
                                   /\ \A q \in Q : <<q, e.epoch, f.leader>> \in votes
  BY ZenonT(60), OwnMajority
<1>4. IsFiniteSet(e.voters)
  <2>1. e.voters \subseteq Sentinel
    BY <1>1 DEF TypeOK, Election
  <2> QED
    BY ZenonT(60), <2>1, NameAssumption, FS_Subset
<1>5. Cardinality(P) + Cardinality(Q) > Cardinality(e.voters)
  <2>1. Cardinality(P) \in Nat /\ Cardinality(Q) \in Nat /\ Cardinality(e.voters) \in Nat
    BY ZenonT(60), <1>4, FS_Subset, FS_CardinalityType
  <2> QED
    BY SMTT(60), <1>2, <1>3, <2>1
<1>6. P \cap Q # {}
  BY ZenonT(60), <1>4, <1>5, FS_MajoritiesIntersect
<1>7. PICK q : q \in P /\ q \in Q
  BY <1>6
<1>8. <<q, e.epoch, e.leader>> \in votes /\ <<q, e.epoch, f.leader>> \in votes /\ ~Removed(q)
  BY ZenonT(60), <1>2, <1>3, <1>7
<1> QED
  BY ZenonT(60), <1>1, <1>8 DEF Kept, OneVote

\* The epochs, from what the invariant says of each Sentinel and each vote.
LEMMA EpochsOrderedInv == IInv => EpochsOrdered
<1> SUFFICES ASSUME IInv
             PROVE  EpochsOrdered
  OBVIOUS
<1>1. ASSUME NEW i \in Sentinel
      PROVE  /\ st[i].m.config_epoch <= st[i].current_epoch /\ st[i].m.leader_epoch <= st[i].current_epoch
             /\ st[i].m.failover_epoch <= st[i].current_epoch
             /\ st[i].disk.config_epoch <= st[i].disk.current_epoch
             /\ st[i].disk.leader_epoch <= st[i].disk.current_epoch
  <2>1. Good(i, st[i], votes)
    BY ZenonT(60) DEF IInv, Kept
  <2>2. st[i].current_epoch \in Nat /\ st[i].disk.current_epoch \in Nat /\ st[i].disk.leader_epoch \in Nat
    BY <2>1 DEF Good, State, File
  <2> QED
    BY SMTT(60), <2>1, <2>2 DEF Good, EpochsOf
<1>2. \A v \in votes : v[2] <= st[v[1]].disk.current_epoch
  BY DEF IInv, Kept
<1> QED
  BY <1>1, <1>2 DEF EpochsOrdered

\* The invariant always holds.
THEOREM SentinelInvariant == Spec => []IInv
BY InitInv, NextInv, PTL DEF Spec

\* The state of every Sentinel, its file, the messages and the votes have their types.
THEOREM SentinelTypeCorrect == Spec => []TypeOK
<1>1. IInv => TypeOK
  BY ZenonT(60) DEF IInv
<1> QED
  BY <1>1, SentinelInvariant, PTL

\* A Sentinel gives one vote in an epoch, whatever crashes, restarts, messages and commands
\* there are, until SENTINEL REMOVE makes it forget the master: sentinelVoteLeader saves the
\* epoch of the vote before it answers.
THEOREM SentinelOneVote == Spec => []OneVote
<1>1. IInv => OneVote
  BY DEF IInv, Kept
<1> QED
  BY <1>1, SentinelInvariant, PTL

\* Every failover that was not forced has a majority of its voters behind it, and two of one
\* epoch, among the same voters, have one leader unless one of them counted votes of a later
\* epoch (sentinelGetLeader asks for a majority of the voters and each votes once, but it
\* counts the votes of the current epoch, not those of the epoch of the failover).
THEOREM SentinelOneLeader == Spec => []OneLeader
BY OneLeaderInv, SentinelInvariant, PTL

\* No epoch of a Sentinel, of its file or of its votes is ahead of its current epoch, also
\* after a restart from the file.
THEOREM SentinelEpochsOrdered == Spec => []EpochsOrdered
BY EpochsOrderedInv, SentinelInvariant, PTL

\* The configuration epoch of a running Sentinel decreases in no step of its own or of
\* another, except when it promotes the slave of a failover it has won.
THEOREM SentinelConfigEpochGrows == Spec => ConfigEpochGrows
<1> DEFINE A == pc' = pc => \A i \in up \cap up' :
                  st'[i].m.config_epoch >= st[i].m.config_epoch \/ Promotes(i)
<1>1. IInv /\ [Next]_vars => [A]_vars
  BY NextInv DEF Grows
<1>2. ConfigEpochGrows <=> [][A]_vars
  BY DEF ConfigEpochGrows
<1> HIDE DEF A
<1> QED
  BY <1>1, <1>2, SentinelInvariant, PTL DEF Spec
=============================================================================
