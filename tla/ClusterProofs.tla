---------------------------- MODULE ClusterProofs ---------------------------
(***************************************************************************)
(* Votes and epochs of Cluster, for any nodes, slots and scenarios.        *)
(***************************************************************************)
EXTENDS Cluster, FiniteSetTheorems, TLAPS

-----------------------------------------------------------------------------
(* The state of a node: of its fields only these matter here. *)

Core == {"name", "currentEpoch", "lastVoteEpoch", "auth_epoch", "nodes", "slots", "file", "out", "todo"}

\* Its record has these fields
Shaped(s) == Core \subseteq DOMAIN s

\* An entry of the table of nodes, the table, and who serves the slots: no epoch is
\* ahead of e
Entry(x, e) ==
  /\ {"epoch", "slaveof"} \subseteq DOMAIN x
  /\ x.epoch \in Nat /\ x.epoch <= e
  /\ x.slaveof \in Node \cup {NULL}
Table(T, e) == DOMAIN T = Node /\ \A n \in Node : Entry(T[n], e)
SlotMap == [Slot -> Node \cup {NULL}]

\* A packet: no epoch of it is ahead of the current epoch of its sender
PacketType == {"ping", "pong", "meet", "fail", "auth_request", "auth_ack", "mfstart", "update"}
Packet(m) ==
  /\ m.type \in PacketType
  /\ {"type", "currentEpoch", "configEpoch", "aboutEpoch", "slots", "aboutSlots"} \subseteq DOMAIN m
  /\ m.currentEpoch \in Nat /\ m.configEpoch \in Nat /\ m.aboutEpoch \in Nat
  /\ m.configEpoch <= m.currentEpoch /\ m.aboutEpoch <= m.currentEpoch
  /\ m.slots \subseteq Slot /\ m.aboutSlots \subseteq Slot

\* What a configuration file holds
Saved(f) ==
  /\ f.currentEpoch \in Nat /\ f.lastVoteEpoch \in Nat /\ f.lastVoteEpoch <= f.currentEpoch
  /\ Table(f.nodes, f.currentEpoch) /\ f.slots \in SlotMap

\* The state of one node
Sound(s) ==
  /\ Shaped(s)
  /\ s.name \in Node
  /\ s.currentEpoch \in Nat /\ s.lastVoteEpoch \in Nat /\ s.auth_epoch \in Nat
  /\ s.lastVoteEpoch <= s.currentEpoch /\ s.auth_epoch <= s.currentEpoch
  /\ Table(s.nodes, s.currentEpoch) /\ s.slots \in SlotMap
  /\ Saved(s.file) /\ s.file.lastVoteEpoch <= s.lastVoteEpoch
  /\ \A m \in s.out : Packet(m)

\* The votes that a node is about to send
Acks(s) == {m \in s.out : m.type = "auth_ack"}

\* A step that gives no vote: it does not forget one that is to be saved
Quiet(s, t) ==
  /\ t.name = s.name /\ t.lastVoteEpoch = s.lastVoteEpoch
  /\ s.currentEpoch <= t.currentEpoch
  /\ Acks(t) = Acks(s)
  /\ \/ t.file.lastVoteEpoch = t.lastVoteEpoch
     \/ t.file.lastVoteEpoch = s.file.lastVoteEpoch /\ ("save" \in s.todo => "save" \in t.todo)

\* A step from s to t that is sound and gives no vote
Fine(s, t) == Sound(t) /\ Quiet(s, t)

\* A step that changes only fields that do not matter
Same(s, t) ==
  /\ DOMAIN t = DOMAIN s
  /\ t.name = s.name /\ t.currentEpoch = s.currentEpoch /\ t.lastVoteEpoch = s.lastVoteEpoch
  /\ t.auth_epoch = s.auth_epoch /\ t.nodes = s.nodes /\ t.slots = s.slots
  /\ t.file = s.file /\ t.out = s.out /\ t.todo = s.todo

\* Steps that give no vote compose.
LEMMA FineTrans ==
  ASSUME NEW s, NEW t, NEW u, Sound(s), Fine(s, t), Fine(t, u) PROVE Fine(s, u)
  BY DEF Fine, Quiet, Sound, Saved

\* Three steps.
LEMMA FineTrans3 ==
  ASSUME NEW s, NEW t, NEW u, NEW v, Sound(s), Fine(s, t), Fine(t, u), Fine(u, v) PROVE Fine(s, v)
<1>1. Fine(s, u)
  BY Zenon, FineTrans
<1> QED
  BY Zenon, <1>1, FineTrans

\* Four steps.
LEMMA FineTrans4 ==
  ASSUME NEW s, NEW t, NEW u, NEW v, NEW w,
         Sound(s), Fine(s, t), Fine(t, u), Fine(u, v), Fine(v, w)
  PROVE  Fine(s, w)
<1>1. Fine(s, v)
  BY Zenon, FineTrans3
<1> QED
  BY Zenon, <1>1, FineTrans

\* A step leaves a sound state.
LEMMA FineSound == ASSUME NEW s, NEW t, Fine(s, t) PROVE Sound(t)
  BY Zenon DEF Fine

\* A step may do nothing.
LEMMA FineRefl == ASSUME NEW s, Sound(s) PROVE Fine(s, s)
  BY DEF Fine, Quiet, Sound

\* The fields that do not matter.
LEMMA SameFine == ASSUME NEW s, NEW t, Sound(s), Same(s, t) PROVE Fine(s, t)
  BY DEF Fine, Quiet, Sound, Same, Shaped, Acks

\* One field that does not matter is set.
LEMMA OtherField ==
  ASSUME NEW s, Sound(s), NEW f, f \notin Core, NEW v
  PROVE  Fine(s, [s EXCEPT ![f] = v])
<1>1. Same(s, [s EXCEPT ![f] = v])
  BY DEF Same, Sound, Shaped, Core
<1> QED
  BY <1>1, SameFine

\* A table stays sound when the epoch grows.
LEMMA TableLater ==
  ASSUME NEW T, NEW e \in Nat, NEW f \in Nat, e <= f, Table(T, e) PROVE Table(T, f)
  BY DEF Table, Entry

\* What a step that gives no vote and saves nothing keeps.
Framed(s, t) ==
  /\ DOMAIN t = DOMAIN s
  /\ t.name = s.name /\ t.lastVoteEpoch = s.lastVoteEpoch /\ t.file = s.file
  /\ t.currentEpoch \in Nat /\ s.currentEpoch <= t.currentEpoch
  /\ t.auth_epoch \in Nat /\ t.auth_epoch <= t.currentEpoch
  /\ Table(t.nodes, t.currentEpoch) /\ t.slots \in SlotMap
  /\ s.out \subseteq t.out /\ \A m \in t.out \ s.out : Packet(m) /\ m.type # "auth_ack"
  /\ "save" \in s.todo => "save" \in t.todo

\* A step that changes only what Framed allows gives no vote.
LEMMA Frame ==
  ASSUME NEW s, NEW t, Sound(s), Framed(s, t) PROVE Fine(s, t)
<1>1. Acks(t) = Acks(s)
  BY DEF Acks, Framed
<1>2. Sound(t)
  BY DEF Sound, Shaped, Framed
<1>3. Quiet(s, t)
  BY <1>1 DEF Quiet, Framed
<1> QED
  BY <1>2, <1>3 DEF Fine

\* The table of nodes, the slots, the packets and the tasks change alone.
LEMMA NodesFine ==
  ASSUME NEW s, Sound(s), NEW T, Table(T, s.currentEpoch) PROVE Fine(s, [s EXCEPT !.nodes = T])
<1> DEFINE t == [s EXCEPT !.nodes = T]
<1>1. /\ DOMAIN t = DOMAIN s /\ t.name = s.name /\ t.lastVoteEpoch = s.lastVoteEpoch
      /\ t.file = s.file /\ t.currentEpoch = s.currentEpoch /\ t.auth_epoch = s.auth_epoch
      /\ t.nodes = T /\ t.slots = s.slots /\ t.out = s.out /\ t.todo = s.todo
  BY DEF Sound, Shaped, Core
<1> HIDE DEF t
<1>2. Framed(s, t)
  BY <1>1 DEF Sound, Framed
<1> QED
  BY Zenon, <1>2, Frame DEF t

\* The slots are set.
LEMMA SlotsFine ==
  ASSUME NEW s, Sound(s), NEW f \in SlotMap PROVE Fine(s, [s EXCEPT !.slots = f])
<1> DEFINE t == [s EXCEPT !.slots = f]
<1>1. /\ DOMAIN t = DOMAIN s /\ t.name = s.name /\ t.lastVoteEpoch = s.lastVoteEpoch
      /\ t.file = s.file /\ t.currentEpoch = s.currentEpoch /\ t.auth_epoch = s.auth_epoch
      /\ t.nodes = s.nodes /\ t.slots = f /\ t.out = s.out /\ t.todo = s.todo
  BY DEF Sound, Shaped, Core
<1> HIDE DEF t
<1>2. Framed(s, t)
  BY <1>1 DEF Sound, Framed
<1> QED
  BY Zenon, <1>2, Frame DEF t

\* Packets that are not votes are sent.
LEMMA OutFine ==
  ASSUME NEW s, Sound(s), NEW X, \A m \in X : Packet(m) /\ m.type # "auth_ack"
  PROVE  Fine(s, [s EXCEPT !.out = @ \cup X])
<1> DEFINE t == [s EXCEPT !.out = @ \cup X]
<1>1. /\ DOMAIN t = DOMAIN s /\ t.name = s.name /\ t.lastVoteEpoch = s.lastVoteEpoch
      /\ t.file = s.file /\ t.currentEpoch = s.currentEpoch /\ t.auth_epoch = s.auth_epoch
      /\ t.nodes = s.nodes /\ t.slots = s.slots /\ t.out = s.out \cup X /\ t.todo = s.todo
  BY DEF Sound, Shaped, Core
<1> HIDE DEF t
<1>2. Framed(s, t)
  BY <1>1 DEF Sound, Framed
<1> QED
  BY Zenon, <1>2, Frame DEF t

\* The tasks are set; a save that is due stays due.
LEMMA TodoFine ==
  ASSUME NEW s, Sound(s), NEW X, "save" \in s.todo => "save" \in X
  PROVE  Fine(s, [s EXCEPT !.todo = X])
<1> DEFINE t == [s EXCEPT !.todo = X]
<1>1. /\ DOMAIN t = DOMAIN s /\ t.name = s.name /\ t.lastVoteEpoch = s.lastVoteEpoch
      /\ t.file = s.file /\ t.currentEpoch = s.currentEpoch /\ t.auth_epoch = s.auth_epoch
      /\ t.nodes = s.nodes /\ t.slots = s.slots /\ t.out = s.out /\ t.todo = X
  BY DEF Sound, Shaped, Core
<1> HIDE DEF t
<1>2. Framed(s, t)
  BY <1>1 DEF Sound, Framed
<1> QED
  BY Zenon, <1>2, Frame DEF t

\* The current epoch grows.
LEMMA EpochFine ==
  ASSUME NEW s, Sound(s), NEW e \in Nat, s.currentEpoch <= e
  PROVE  Fine(s, [s EXCEPT !.currentEpoch = e])
<1> DEFINE t == [s EXCEPT !.currentEpoch = e]
<1>1. /\ DOMAIN t = DOMAIN s /\ t.name = s.name /\ t.lastVoteEpoch = s.lastVoteEpoch
      /\ t.file = s.file /\ t.currentEpoch = e /\ t.auth_epoch = s.auth_epoch
      /\ t.nodes = s.nodes /\ t.slots = s.slots /\ t.out = s.out /\ t.todo = s.todo
  BY DEF Sound, Shaped, Core
<1> HIDE DEF t
<1>2. Table(t.nodes, t.currentEpoch)
  BY <1>1, TableLater DEF Sound
<1>3. Framed(s, t)
  BY <1>1, <1>2 DEF Sound, Framed
<1> QED
  BY Zenon, <1>3, Frame DEF t

\* Tasks are added, and the file is written.
LEMMA DoFine == ASSUME NEW s, Sound(s), NEW X PROVE Fine(s, clusterDoBeforeSleep(s, X))
  BY TodoFine DEF clusterDoBeforeSleep

\* What is saved of an entry is sound.
LEMMA EntrySaved ==
  ASSUME NEW x, NEW e, Entry(x, e) PROVE Entry([x EXCEPT !.reports = {}, !.migrate_to = FALSE], e)
  BY DEF Entry

\* clusterSaveConfig: the vote is in the file afterwards.
LEMMA SaveFine == ASSUME NEW s, Sound(s) PROVE Fine(s, clusterSaveConfig(s))
<1> DEFINE f == clusterGenNodesDescription(s)
<1>1. /\ f.currentEpoch = s.currentEpoch /\ f.lastVoteEpoch = s.lastVoteEpoch /\ f.slots = s.slots
  BY DEF clusterGenNodesDescription
<1>0. f.nodes = [n \in Node |-> [s.nodes[n] EXCEPT !.reports = {}, !.migrate_to = FALSE]]
  BY DEF clusterGenNodesDescription
<1> HIDE DEF f
<1>2. Table(f.nodes, s.currentEpoch)
  <2>1. \A n \in Node : Entry(s.nodes[n], s.currentEpoch)
    BY DEF Sound, Table
  <2>2. \A n \in Node : Entry([s.nodes[n] EXCEPT !.reports = {}, !.migrate_to = FALSE], s.currentEpoch)
    BY Zenon, <2>1, EntrySaved
  <2> QED
    BY Zenon, <1>0, <2>2 DEF Table
<1>3. Saved(f)
  BY <1>1, <1>2 DEF Saved, Sound
<1> DEFINE t == clusterSaveConfig(s)
<1>4. t = [s EXCEPT !.file = f, !.todo = @ \ {"save", "fsync"}]
  BY DEF clusterSaveConfig, f
<1> HIDE DEF t
<1>5. /\ DOMAIN t = DOMAIN s /\ t.name = s.name /\ t.lastVoteEpoch = s.lastVoteEpoch
      /\ t.file = f /\ t.currentEpoch = s.currentEpoch /\ t.auth_epoch = s.auth_epoch
      /\ t.nodes = s.nodes /\ t.slots = s.slots /\ t.out = s.out
  BY <1>4 DEF Core, Sound, Shaped
<1>6. Sound(t)
  BY <1>1, <1>3, <1>5 DEF Sound, Shaped
<1>7. Quiet(s, t)
  BY <1>1, <1>5 DEF Quiet, Acks, Sound
<1> QED
  BY <1>6, <1>7 DEF Fine, t

-----------------------------------------------------------------------------
(* Packets. *)

\* The header of a packet.
LEMMA HdrPacket ==
  ASSUME NEW s, Sound(s), NEW type \in PacketType, NEW to
  PROVE  LET m == clusterBuildMessageHdr(s, type, to)
         IN Packet(m) /\ m.type = type /\ m.currentEpoch = s.currentEpoch /\ m.to = to
            /\ "to" \in DOMAIN m
<1> DEFINE Master(me) == IF me.role = "slave" /\ me.slaveof # NULL THEN me.slaveof ELSE s.name
           m == clusterBuildMessageHdr(s, type, to)
           n == Master(s.nodes[s.name])
<1>1. s.name \in Node /\ s.currentEpoch \in Nat
  BY Zenon DEF Sound
<1>2. ASSUME NEW x \in Node
      PROVE  /\ s.nodes[x].epoch \in Nat /\ s.nodes[x].epoch <= s.currentEpoch
             /\ s.nodes[x].slaveof \in Node \cup {NULL}
  BY Zenon DEF Sound, Table, Entry
<1>3. n \in Node
  BY ZenonT(60), <1>1, <1>2
<1>4. /\ m.type = type /\ m.currentEpoch = s.currentEpoch /\ m.to = to
      /\ m.configEpoch = s.nodes[n].epoch /\ m.aboutEpoch = 0
      /\ m.slots = Slots(s, n) /\ m.aboutSlots = {}
      /\ {"type", "currentEpoch", "configEpoch", "aboutEpoch", "slots", "aboutSlots", "to"} \subseteq DOMAIN m
  BY DEF clusterBuildMessageHdr
<1> HIDE DEF m, n
<1>5. m.configEpoch \in Nat /\ m.configEpoch <= s.currentEpoch
  BY <1>2, <1>3, <1>4
<1>6. m.slots \subseteq Slot
  BY <1>4 DEF Slots
<1>7. Packet(m)
  BY <1>1, <1>4, <1>5, <1>6 DEF Packet
<1> QED
  BY <1>4, <1>7 DEF m

\* The fields of a packet that do not matter.
LEMMA PacketField ==
  ASSUME NEW m, Packet(m), NEW f, NEW v,
         f \notin {"type", "currentEpoch", "configEpoch", "aboutEpoch", "slots", "aboutSlots"}
  PROVE  Packet([m EXCEPT ![f] = v]) /\ [m EXCEPT ![f] = v].type = m.type
  BY DEF Packet

\* Every function that sends something but a vote.
LEMMA PingFine ==
  ASSUME NEW s, Sound(s), NEW type \in PacketType \ {"auth_ack"}, NEW to, NEW via
  PROVE  Fine(s, clusterSendPing(s, type, to, via))
<1> DEFINE h == clusterBuildMessageHdr(s, type, to)
           bad == {n \in Known(s) \ {s.name} : s.nodes[n].health # "ok"}
           good == (Known(s) \ {s.name}) \ bad
           m == [h EXCEPT !.bad = bad, !.good = good, !.via = via]
<1>1. Packet(h) /\ h.type = type
  BY HdrPacket
<1> HIDE DEF h, bad, good
<1>2. Packet(m) /\ m.type = type
  BY <1>1 DEF Packet
<1> HIDE DEF m
<1> DEFINE X == {m}
<1>3. clusterSendPing(s, type, to, via) = [s EXCEPT !.out = @ \cup X]
  BY DEF clusterSendPing, h, bad, good, m
<1>4. \A x \in X : Packet(x) /\ x.type # "auth_ack"
  BY <1>2
<1> HIDE DEF X
<1> QED
  BY <1>3, <1>4, OutFine

\* clusterBroadcastMessage.
LEMMA BroadcastFine ==
  ASSUME NEW s, Sound(s), NEW m, Packet(m), m.type # "auth_ack"
  PROVE  Fine(s, clusterBroadcastMessage(s, m))
<1> DEFINE X == {[m EXCEPT !.to = n] : n \in Known(s) \ {s.name}}
<1>1. ASSUME NEW n PROVE Packet([m EXCEPT !.to = n]) /\ [m EXCEPT !.to = n].type # "auth_ack"
  BY PacketField
<1>2. \A x \in X : Packet(x) /\ x.type # "auth_ack"
  BY Zenon, <1>1
<1> HIDE DEF X
<1> QED
  BY Zenon, <1>2, OutFine DEF clusterBroadcastMessage, X

\* clusterBroadcastPong.
LEMMA PongsFine ==
  ASSUME NEW s, Sound(s), NEW targets PROVE Fine(s, clusterBroadcastPong(s, targets))
<1> DEFINE others == Known(s) \ {s.name}
           bad == {n \in others : s.nodes[n].health # "ok"}
           P(n) == [clusterBuildMessageHdr(s, "pong", n) EXCEPT !.bad = bad, !.good = others \ bad]
           X == {P(n) : n \in targets \cap others}
<1>1. ASSUME NEW n PROVE Packet(P(n)) /\ P(n).type # "auth_ack"
  <2> DEFINE h == clusterBuildMessageHdr(s, "pong", n)
  <2>1. Packet(h) /\ h.type = "pong"
    BY HdrPacket DEF PacketType
  <2> HIDE DEF h, bad, others
  <2>2. Packet([h EXCEPT !.bad = bad, !.good = others \ bad])
        /\ [h EXCEPT !.bad = bad, !.good = others \ bad].type # "auth_ack"
    BY <2>1 DEF Packet
  <2> QED
    BY <2>2 DEF h
<1>2. clusterBroadcastPong(s, targets) = [s EXCEPT !.out = @ \cup X]
  BY DEF clusterBroadcastPong
<1>3. \A x \in X : Packet(x) /\ x.type # "auth_ack"
  BY Zenon, <1>1
<1> HIDE DEF X
<1> QED
  BY <1>2, <1>3, OutFine

\* clusterSendFail.
LEMMA SendFailFine == ASSUME NEW s, Sound(s), NEW N PROVE Fine(s, clusterSendFail(s, N))
<1> DEFINE P(to, n) == [clusterBuildMessageHdr(s, "fail", to) EXCEPT !.about = n]
           X == {P(to, n) : to \in Known(s) \ {s.name}, n \in N}
<1>1. ASSUME NEW to, NEW n PROVE Packet(P(to, n)) /\ P(to, n).type # "auth_ack"
  <2> DEFINE h == clusterBuildMessageHdr(s, "fail", to)
  <2>1. Packet(h) /\ h.type = "fail"
    BY HdrPacket DEF PacketType
  <2> HIDE DEF h
  <2>2. Packet([h EXCEPT !.about = n]) /\ [h EXCEPT !.about = n].type # "auth_ack"
    BY <2>1 DEF Packet
  <2> QED
    BY <2>2 DEF h
<1>2. clusterSendFail(s, N) = [s EXCEPT !.out = @ \cup X]
  BY DEF clusterSendFail
<1>3. \A x \in X : Packet(x) /\ x.type # "auth_ack"
  <2> TAKE x \in X
  <2>1. PICK to, n : x = P(to, n)
    BY SMT
  <2> HIDE DEF P, X
  <2>2. Packet(P(to, n)) /\ P(to, n).type # "auth_ack"
    BY Zenon, <1>1
  <2> QED
    BY Zenon, <2>1, <2>2
<1> HIDE DEF X
<1> QED
  BY <1>2, <1>3, OutFine

\* clusterSendUpdate tells of an epoch of the table.
LEMMA SendUpdateFine ==
  ASSUME NEW s, Sound(s), NEW to, NEW n \in Node PROVE Fine(s, clusterSendUpdate(s, to, n))
<1> DEFINE h == clusterBuildMessageHdr(s, "update", to)
           e == s.nodes[n].epoch
           K == Slots(s, n)
           m == [h EXCEPT !.about = n, !.aboutEpoch = e, !.aboutSlots = K]
           X == {m}
<1>1. Packet(h) /\ h.type = "update" /\ h.currentEpoch = s.currentEpoch
  BY HdrPacket DEF PacketType
<1>2. e \in Nat /\ e <= s.currentEpoch
  BY Zenon DEF Sound, Table, Entry
<1>3. K \subseteq Slot
  BY DEF Slots
<1> HIDE DEF h, e, K
<1>4. Packet(m) /\ m.type = "update"
  BY <1>1, <1>2, <1>3 DEF Packet
<1> HIDE DEF m
<1>5. clusterSendUpdate(s, to, n) = [s EXCEPT !.out = @ \cup X]
  BY DEF clusterSendUpdate, h, e, K, m
<1>6. \A x \in X : Packet(x) /\ x.type # "auth_ack"
  BY <1>4
<1> HIDE DEF X
<1> QED
  BY <1>5, <1>6, OutFine

\* clusterRequestFailoverAuth asks for votes and gives none.
LEMMA RequestFine == ASSUME NEW s, Sound(s) PROVE Fine(s, clusterRequestFailoverAuth(s))
<1> DEFINE h == clusterBuildMessageHdr(s, "auth_request", NULL)
           m == [h EXCEPT !.force = s.mf_end]
<1>1. Packet(h) /\ h.type = "auth_request"
  BY HdrPacket DEF PacketType
<1> HIDE DEF h
<1>2. Packet(m) /\ m.type # "auth_ack"
  BY <1>1 DEF Packet
<1> HIDE DEF m
<1> QED
  BY Zenon, <1>2, BroadcastFine DEF clusterRequestFailoverAuth, m, h

\* clusterSendMFStart.
LEMMA MFStartFine == ASSUME NEW s, Sound(s), NEW to PROVE Fine(s, clusterSendMFStart(s, to))
<1> DEFINE m == clusterBuildMessageHdr(s, "mfstart", to)
           X == {m}
<1>1. Packet(m) /\ m.type = "mfstart"
  BY HdrPacket DEF PacketType
<1> HIDE DEF m
<1>2. \A x \in X : Packet(x) /\ x.type # "auth_ack"
  BY <1>1
<1>3. clusterSendMFStart(s, to) = [s EXCEPT !.out = @ \cup X]
  BY DEF clusterSendMFStart, m
<1> HIDE DEF X
<1> QED
  BY <1>2, <1>3, OutFine

-----------------------------------------------------------------------------
(* The table of nodes and the slots. *)

\* An entry, and the table, with a field changed.
LEMMA EntryField ==
  ASSUME NEW x, NEW e, Entry(x, e), NEW f, f \notin {"epoch", "slaveof"}, NEW v
  PROVE  Entry([x EXCEPT ![f] = v], e)
  BY DEF Entry

\* The master of an entry is set.
LEMMA EntrySlaveof ==
  ASSUME NEW x, NEW e, Entry(x, e), NEW v \in Node \cup {NULL} PROVE Entry([x EXCEPT !.slaveof = v], e)
  BY DEF Entry

\* The epoch of an entry is set, within the bound.
LEMMA EntryEpoch ==
  ASSUME NEW x, NEW e, Entry(x, e), NEW v \in Nat, v <= e PROVE Entry([x EXCEPT !.epoch = v], e)
  BY DEF Entry

\* The entry of a new node.
LEMMA EntryNew ==
  ASSUME NEW known, NEW role, NEW e \in Nat PROVE Entry(createClusterNode(known, role), e)
  BY DEF Entry, createClusterNode

\* One entry of a table is replaced.
LEMMA TableSet ==
  ASSUME NEW T, NEW e, Table(T, e), NEW n, NEW x, n \in Node => Entry(x, e)
  PROVE  Table([T EXCEPT ![n] = x], e)
  BY DEF Table

\* One entry of the table changes.
LEMMA NodeFine ==
  ASSUME NEW s, Sound(s), NEW n, NEW x, n \in Node => Entry(x, s.currentEpoch)
  PROVE  Fine(s, [s EXCEPT !.nodes[n] = x])
<1> DEFINE T == [s.nodes EXCEPT ![n] = x]
<1>1. Table(T, s.currentEpoch)
  BY TableSet DEF Sound
<1>2. [s EXCEPT !.nodes[n] = x] = [s EXCEPT !.nodes = T]
  OBVIOUS
<1> HIDE DEF T
<1> QED
  BY <1>1, <1>2, NodesFine

\* A field of an entry that does not matter changes.
LEMMA FlagFine ==
  ASSUME NEW s, Sound(s), NEW n, NEW f, f \notin {"epoch", "slaveof"}, NEW v
  PROVE  Fine(s, [s EXCEPT !.nodes[n][f] = v])
<1> DEFINE x == [s.nodes[n] EXCEPT ![f] = v]
<1>1. n \in Node => Entry(x, s.currentEpoch)
  BY EntryField DEF Sound, Table
<1>2. [s EXCEPT !.nodes[n][f] = v] = [s EXCEPT !.nodes[n] = x]
  OBVIOUS
<1> HIDE DEF x
<1> QED
  BY <1>1, <1>2, NodeFine

\* The functions on the tables.
LEMMA RemoveSlaveFine ==
  ASSUME NEW s, Sound(s), NEW m, NEW x PROVE Fine(s, clusterNodeRemoveSlave(s, m, x))
<1>1. Fine(s, [s EXCEPT !.nodes[m].migrate_to = FALSE])
  BY Zenon, FlagFine
<1> QED
  BY <1>1, FineRefl DEF clusterNodeRemoveSlave

\* clusterNodeAddSlave.
LEMMA AddSlaveFine ==
  ASSUME NEW s, Sound(s), NEW m \in Node, NEW x PROVE Fine(s, clusterNodeAddSlave(s, m, x))
<1> DEFINE v == s.nodes[m].migrate_to \/ x \notin Slaves(s, m)
           T == [s.nodes EXCEPT ![m].migrate_to = v]
           U == [T EXCEPT ![x].slaveof = m]
<1>1. clusterNodeAddSlave(s, m, x) = [s EXCEPT !.nodes = U]
  BY Zenon DEF clusterNodeAddSlave
<1> HIDE DEF v
<1>2. Table(T, s.currentEpoch)
  BY DEF Sound, Table, Entry
<1> HIDE DEF T
<1>3. Table(U, s.currentEpoch)
  BY <1>2 DEF Table, Entry
<1> HIDE DEF U
<1> QED
  BY <1>1, <1>3, NodesFine

\* clusterSetNodeAsMaster.
LEMMA SetAsMasterFine ==
  ASSUME NEW s, Sound(s), NEW n \in Node PROVE Fine(s, clusterSetNodeAsMaster(s, n))
<1> DEFINE old == s.nodes[n].slaveof
           r == clusterNodeRemoveSlave(s, old, n)
           x == [r.nodes[n] EXCEPT !.role = "master", !.slaveof = NULL,
                                   !.migrate_to = @ \/ (old # NULL /\ n # s.name)]
           t == [r EXCEPT !.nodes[n] = x]
<1>1. Fine(s, r)
  BY RemoveSlaveFine
<1>2. \/ clusterSetNodeAsMaster(s, n) = s
      \/ clusterSetNodeAsMaster(s, n) = clusterDoBeforeSleep(t, {"save", "state"})
  BY DEF clusterSetNodeAsMaster
<1> HIDE DEF r
<1>3. Entry(x, r.currentEpoch)
  BY <1>1 DEF Fine, Sound, Table, Entry
<1> HIDE DEF x
<1>4. Fine(r, t)
  BY <1>1, <1>3, NodeFine DEF Fine
<1> HIDE DEF t
<1>5. Fine(t, clusterDoBeforeSleep(t, {"save", "state"}))
  BY <1>4, DoFine DEF Fine
<1> QED
  BY <1>1, <1>2, <1>4, <1>5, FineTrans, FineRefl

\* clusterDelSlots.
LEMMA DelSlotsFine == ASSUME NEW s, Sound(s), NEW K PROVE Fine(s, clusterDelSlots(s, K))
<1> DEFINE f == [k \in Slot |-> IF k \in K THEN NULL ELSE s.slots[k]]
<1>1. f \in SlotMap
  BY DEF Sound, SlotMap
<1>2. clusterDelSlots(s, K) = [s EXCEPT !.slots = f]
  BY DEF clusterDelSlots
<1> HIDE DEF f
<1> QED
  BY <1>1, <1>2, SlotsFine

\* clusterAddSlots.
LEMMA AddSlotsFine ==
  ASSUME NEW s, Sound(s), NEW n \in Node, NEW K PROVE Fine(s, clusterAddSlots(s, n, K))
<1> DEFINE f == [k \in Slot |-> IF k \in K THEN n ELSE s.slots[k]]
           v == s.nodes[n].migrate_to \/ (Slots(s, n) = {} /\ K # {} /\ clusterMastersHaveSlaves(s))
           t == [s EXCEPT !.slots = f]
           u == [t EXCEPT !.nodes[n].migrate_to = v]
<1>1. f \in SlotMap
  BY DEF Sound, SlotMap
<1>2. clusterAddSlots(s, n, K) = u
  BY DEF clusterAddSlots, Sound, Shaped, Core
<1> HIDE DEF f, v
<1>3. Fine(s, t)
  BY <1>1, SlotsFine
<1> HIDE DEF t
<1>4. Fine(t, u)
  BY Zenon, <1>3, FlagFine DEF Fine
<1> HIDE DEF u
<1> QED
  BY <1>2, <1>3, <1>4, FineTrans

\* clusterCloseAllSlots.
LEMMA CloseFine == ASSUME NEW s, Sound(s) PROVE Fine(s, clusterCloseAllSlots(s))
<1>1. Same(s, clusterCloseAllSlots(s))
  BY DEF Same, Sound, Shaped, Core, clusterCloseAllSlots
<1> QED
  BY <1>1, SameFine

\* resetManualFailover.
LEMMA ResetFine == ASSUME NEW s, Sound(s) PROVE Fine(s, resetManualFailover(s))
<1>1. Same(s, resetManualFailover(s))
  BY DEF Same, Sound, Shaped, Core, resetManualFailover
<1> QED
  BY <1>1, SameFine

\* clusterSetMaster.
LEMMA SetMasterFine == ASSUME NEW s, Sound(s), NEW n \in Node PROVE Fine(s, clusterSetMaster(s, n))
<1> DEFINE i == s.name
           a == [s EXCEPT !.nodes[i].role = "slave", !.nodes[i].migrate_to = FALSE]
           b == clusterNodeRemoveSlave(s, s.nodes[i].slaveof, i)
           r == IF s.nodes[i].role = "master" THEN clusterCloseAllSlots(a) ELSE b
           c == [r EXCEPT !.nodes[i].slaveof = NULL]
           d == clusterNodeAddSlave(c, n, i)
<1>1. clusterSetMaster(s, n) = resetManualFailover(d)
  BY Zenon DEF clusterSetMaster
<1>3. Fine(s, a)
  <2> DEFINE y == [s EXCEPT !.nodes[i].role = "slave"]
  <2>1. Fine(s, y)
    BY Zenon, FlagFine
  <2>2. a = [y EXCEPT !.nodes[i].migrate_to = FALSE]
    BY DEF Sound, Shaped, Core
  <2> HIDE DEF y
  <2>3. Fine(y, a)
    BY Zenon, <2>1, <2>2, FineSound, FlagFine
  <2> QED
    BY Zenon, <2>1, <2>3, FineTrans
<1> HIDE DEF a
<1>4. Fine(a, clusterCloseAllSlots(a))
  BY <1>3, CloseFine DEF Fine
<1>5. Fine(s, r)
  BY <1>3, <1>4, FineTrans, RemoveSlaveFine
<1> HIDE DEF r
<1>6. i \in Node => Entry([r.nodes[i] EXCEPT !.slaveof = NULL], r.currentEpoch)
  BY <1>5 DEF Fine, Sound, Table, Entry
<1>7. Fine(r, c)
  BY <1>5, <1>6, NodeFine DEF Fine
<1> HIDE DEF c
<1>8. Fine(c, d)
  BY <1>7, AddSlaveFine DEF Fine
<1> HIDE DEF d
<1>9. Fine(d, resetManualFailover(d))
  BY <1>8, ResetFine DEF Fine
<1> QED
  BY Zenon, <1>1, <1>5, <1>7, <1>8, <1>9, FineTrans4

\* clusterDelNode.
LEMMA DelNodeFine == ASSUME NEW s, Sound(s), NEW n PROVE Fine(s, clusterDelNode(s, n))
<1> DEFINE r == IF s.nodes[n].role = "slave"
                THEN clusterNodeRemoveSlave(s, s.nodes[n].slaveof, n) ELSE s
           Drop(f) == [k \in Slot |-> IF f[k] = n THEN NULL ELSE f[k]]
           Left(e) == [e EXCEPT !.reports = @ \ {n}, !.slaveof = IF @ = n THEN NULL ELSE @]
           T == [x \in Node |-> IF x = n THEN createClusterNode(FALSE, "master") ELSE Left(r.nodes[x])]
           t == clusterDelNode(s, n)
<1>1. Fine(s, r)
  BY Zenon, RemoveSlaveFine, FineRefl
<1>2. t = [r EXCEPT !.slots = Drop(r.slots), !.importing = Drop(r.importing),
                    !.migrating = Drop(r.migrating), !.nodes = T]
  BY Zenon DEF clusterDelNode
<1> HIDE DEF r
<1>3. Sound(r)
  BY Zenon, <1>1, FineSound
<1>4. Drop(r.slots) \in SlotMap
  BY <1>3 DEF Sound, SlotMap
<1>5. Table(T, r.currentEpoch)
  <2>1. ASSUME NEW x \in Node PROVE Entry(Left(r.nodes[x]), r.currentEpoch)
    <3>1. Entry(r.nodes[x], r.currentEpoch)
      BY Zenon, <1>3 DEF Sound, Table
    <3> QED
      BY <3>1 DEF Entry
  <2>2. Entry(createClusterNode(FALSE, "master"), r.currentEpoch)
    BY Zenon, <1>3, EntryNew DEF Sound
  <2> HIDE DEF Left
  <2> QED
    BY Zenon, <2>1, <2>2 DEF Table
<1> DEFINE f == Drop(r.slots)
           i == Drop(r.importing)
           m == Drop(r.migrating)
<1> HIDE DEF T, f, i, m
<1> DEFINE a == [r EXCEPT !.slots = f]
           b == [a EXCEPT !.importing = i]
           c == [b EXCEPT !.migrating = m]
           d == [c EXCEPT !.nodes = T]
<1>6. t = d
  BY Zenon, <1>2 DEF f, i, m
<1>7. Fine(r, a)
  BY Zenon, <1>3, <1>4, SlotsFine DEF f
<1>8. /\ a.currentEpoch = r.currentEpoch
      /\ c.currentEpoch = r.currentEpoch
  BY <1>3 DEF Sound, Shaped, Core
<1> HIDE DEF t, a
<1>9. Fine(a, b)
  BY <1>7, FineSound, OtherField DEF Core
<1> HIDE DEF b
<1>10. Fine(b, c)
  BY <1>9, FineSound, OtherField DEF Core
<1> HIDE DEF c
<1>11. Fine(c, d)
  BY Zenon, <1>5, <1>8, <1>10, FineSound, NodesFine
<1>12. Fine(s, c)
  BY Zenon, <1>1, <1>7, <1>9, <1>10, FineTrans4
<1> QED
  BY Zenon, <1>6, <1>11, <1>12, FineTrans DEF t

\* The greatest epoch a node knows is its current one.
LEMMA MaxEpochIs == ASSUME NEW s, Sound(s) PROVE clusterGetMaxEpoch(s) = s.currentEpoch
<1> DEFINE S == {s.nodes[n].epoch : n \in Known(s)} \cup {s.currentEpoch}
<1>1. \A x \in S : x \in Nat /\ x <= s.currentEpoch
  BY DEF Sound, Table, Entry, Known
<1>2. s.currentEpoch \in S
  OBVIOUS
<1>3. \A x \in S : (\A y \in S : y <= x) => x = s.currentEpoch
  <2> HIDE DEF S
  <2> QED
    BY <1>1, <1>2
<1> HIDE DEF S
<1>4. \E x \in S : \A y \in S : y <= x
  BY <1>1, <1>2
<1>5. Max(S) = s.currentEpoch
  BY <1>3, <1>4 DEF Max
<1> QED
  BY <1>5 DEF clusterGetMaxEpoch, S

\* clusterBumpConfigEpochWithoutConsensus: the new configuration has the new current epoch.
LEMMA BumpFine == ASSUME NEW s, Sound(s) PROVE Fine(s, clusterBumpConfigEpochWithoutConsensus(s))
<1> DEFINE e == s.currentEpoch + 1
           a == [s EXCEPT !.currentEpoch = e]
           b == [a EXCEPT !.nodes[s.name].epoch = e]
           t == clusterBumpConfigEpochWithoutConsensus(s)
<1>1. t = s \/ t = clusterDoBeforeSleep(b, {"save", "fsync"})
  BY Zenon DEF clusterBumpConfigEpochWithoutConsensus
<1> HIDE DEF t
<1>2. e \in Nat /\ s.currentEpoch <= e
  BY DEF Sound
<1> HIDE DEF e
<1>3. Fine(s, a)
  BY Zenon, <1>2, EpochFine
<1>4. a.currentEpoch = e
  BY DEF Sound, Shaped, Core
<1> HIDE DEF a
<1> DEFINE x == [a.nodes[s.name] EXCEPT !.epoch = e]
<1>5. s.name \in Node => Entry(x, a.currentEpoch)
  BY <1>2, <1>3, <1>4 DEF Fine, Sound, Table, Entry
<1> HIDE DEF x
<1>6. Fine(a, [a EXCEPT !.nodes[s.name] = x])
  BY Zenon, <1>3, <1>5, FineSound, NodeFine
<1>7. Fine(a, b)
  BY Zenon, <1>6 DEF x
<1> HIDE DEF b
<1>8. Fine(b, clusterDoBeforeSleep(b, {"save", "fsync"}))
  BY Zenon, <1>7, FineSound, DoFine
<1> QED
  BY Zenon, <1>1, <1>3, <1>7, <1>8, FineTrans3, FineRefl DEF t

\* Slots change hands only to the sender of the claim.
LEMMA UpdateSlotsFine ==
  ASSUME NEW s, Sound(s), NEW sender \in Node, NEW e, NEW claimed
  PROVE  Fine(s, clusterUpdateSlotsConfigWith(s, sender, e, claimed))
<1> DEFINE taken == {k \in claimed : /\ s.slots[k] # sender
                                     /\ s.importing[k] = NULL
                                     /\ \/ s.slots[k] = NULL
                                        \/ s.nodes[s.slots[k]].epoch < e}
           dirty == {k \in taken : s.slots[k] = s.name /\ k \in s.keys}
           a == clusterDelSlots(s, taken)
           b == clusterAddSlots(a, sender, taken)
           c == clusterDoBeforeSleep(b, {"save", "state", "fsync"})
           t == clusterUpdateSlotsConfigWith(s, sender, e, claimed)
<1>1. t = s \/ t = clusterSetMaster(c, sender) \/ t = [c EXCEPT !.keys = @ \ dirty]
  BY Zenon DEF clusterUpdateSlotsConfigWith
<1> HIDE DEF t, taken, dirty
<1>2. Fine(s, a)
  BY Zenon, DelSlotsFine
<1> HIDE DEF a
<1>3. Fine(a, b)
  BY Zenon, <1>2, FineSound, AddSlotsFine
<1> HIDE DEF b
<1>4. Fine(b, c)
  BY Zenon, <1>3, FineSound, DoFine
<1> HIDE DEF c
<1>5. Fine(c, clusterSetMaster(c, sender))
  BY Zenon, <1>4, FineSound, SetMasterFine
<1>6. Fine(c, [c EXCEPT !.keys = @ \ dirty])
  BY <1>4, FineSound, OtherField DEF Core
<1> QED
  BY Zenon, <1>1, <1>2, <1>3, <1>4, <1>5, <1>6, FineTrans4, FineRefl DEF t

\* clusterStartHandshake.
LEMMA HandshakeFine == ASSUME NEW s, Sound(s), NEW N PROVE Fine(s, clusterStartHandshake(s, N))
<1>1. Same(s, clusterStartHandshake(s, N))
  BY DEF Same, Sound, Shaped, Core, clusterStartHandshake
<1> QED
  BY Zenon, <1>1, SameFine

-----------------------------------------------------------------------------
(* Failure detection. *)

\* markNodeAsFailingIfNeeded.
LEMMA MarkFine == ASSUME NEW s, Sound(s), NEW N PROVE Fine(s, markNodeAsFailingIfNeeded(s, N))
<1> DEFINE failing == {n \in N : /\ s.nodes[n].health = "pfail"
                                 /\ Cardinality(s.nodes[n].reports)
                                    + (IF IsMaster(s, s.name) THEN 1 ELSE 0) >= (s.size \div 2) + 1}
           T == [n \in Node |-> IF n \in failing THEN [s.nodes[n] EXCEPT !.health = "fail"] ELSE s.nodes[n]]
           a == [s EXCEPT !.nodes = T]
           b == clusterDoBeforeSleep(a, {"state", "save"})
           t == markNodeAsFailingIfNeeded(s, N)
<1>1. t = s \/ t = b \/ t = clusterSendFail(b, failing)
  BY Zenon DEF markNodeAsFailingIfNeeded
<1> HIDE DEF t, failing
<1>2. Fine(s, a)
  <2>1. \A n \in Node : Entry(s.nodes[n], s.currentEpoch)
    BY Zenon DEF Sound, Table
  <2>2. \A n \in Node : Entry([s.nodes[n] EXCEPT !.health = "fail"], s.currentEpoch)
    BY Zenon, <2>1, EntryField
  <2>3. Table(T, s.currentEpoch)
    BY Zenon, <2>1, <2>2 DEF Table
  <2> HIDE DEF T
  <2> QED
    BY Zenon, <2>3, NodesFine
<1> HIDE DEF a
<1>3. Fine(a, b)
  BY Zenon, <1>2, FineSound, DoFine
<1> HIDE DEF b
<1>4. Fine(b, clusterSendFail(b, failing))
  BY Zenon, <1>3, FineSound, SendFailFine
<1> QED
  BY Zenon, <1>1, <1>2, <1>3, <1>4, FineTrans, FineTrans3, FineRefl DEF t

\* A node is reachable again.
LEMMA HealthFine ==
  ASSUME NEW s, Sound(s), NEW n, NEW v, NEW X
  PROVE  Fine(s, clusterDoBeforeSleep([s EXCEPT !.nodes[n].health = v], X))
<1> DEFINE a == [s EXCEPT !.nodes[n].health = v]
<1>1. Fine(s, a)
  BY Zenon, FlagFine
<1> HIDE DEF a
<1>2. Fine(a, clusterDoBeforeSleep(a, X))
  BY Zenon, <1>1, FineSound, DoFine
<1> QED
  BY Zenon, <1>1, <1>2, FineTrans DEF a

\* clearNodeFailureIfNeeded.
LEMMA ClearFine ==
  ASSUME NEW s, Sound(s), NEW n, NEW long PROVE Fine(s, clearNodeFailureIfNeeded(s, n, long))
  BY Zenon, HealthFine, FineRefl DEF clearNodeFailureIfNeeded

\* clusterProcessGossipSection.
LEMMA GossipFine == ASSUME NEW s, Sound(s), NEW m PROVE Fine(s, clusterProcessGossipSection(s, m))
<1> DEFINE about == (Known(s) \ {s.name}) \cap (m.bad \cup m.good)
           Report(n) == IF n \in m.bad THEN s.nodes[n].reports \cup {m.from}
                        ELSE s.nodes[n].reports \ {m.from}
           T == [n \in Node |-> IF n \in about THEN [s.nodes[n] EXCEPT !.reports = Report(n)]
                                ELSE s.nodes[n]]
           a == [s EXCEPT !.nodes = T]
           b == IF IsMaster(s, m.from) THEN markNodeAsFailingIfNeeded(a, about \cap m.bad) ELSE s
           N == (m.bad \cup m.good) \ (Known(s) \cup s.blacklist)
<1>1. clusterProcessGossipSection(s, m) = clusterStartHandshake(b, N)
  BY Zenon DEF clusterProcessGossipSection
<1> HIDE DEF N, about, Report
<1>2. Fine(s, a)
  <2>1. \A n \in Node : Entry(s.nodes[n], s.currentEpoch)
    BY Zenon DEF Sound, Table
  <2>2. \A n \in Node : Entry([s.nodes[n] EXCEPT !.reports = Report(n)], s.currentEpoch)
    BY Zenon, <2>1, EntryField
  <2>3. Table(T, s.currentEpoch)
    BY Zenon, <2>1, <2>2 DEF Table
  <2> HIDE DEF T
  <2> QED
    BY Zenon, <2>3, NodesFine
<1> HIDE DEF a
<1>3. Fine(a, markNodeAsFailingIfNeeded(a, about \cap m.bad))
  BY Zenon, <1>2, FineSound, MarkFine
<1>4. Fine(s, b)
  BY Zenon, <1>2, <1>3, FineTrans, FineRefl
<1> HIDE DEF b
<1>5. Fine(b, clusterStartHandshake(b, N))
  BY Zenon, <1>4, FineSound, HandshakeFine
<1> QED
  BY Zenon, <1>1, <1>4, <1>5, FineTrans

\* clusterHandleConfigEpochCollision.
LEMMA CollisionFine == ASSUME NEW s, Sound(s), NEW m PROVE Fine(s, Collision(s, m))
<1> DEFINE e == s.currentEpoch + 1
           a == [s EXCEPT !.currentEpoch = e]
           b == [a EXCEPT !.nodes[s.name].epoch = e]
<1>1. Collision(s, m) = s \/ Collision(s, m) = clusterSaveConfig(b)
  BY ZenonT(60) DEF Collision, clusterHandleConfigEpochCollision
<1>2. e \in Nat /\ s.currentEpoch <= e
  BY DEF Sound
<1> HIDE DEF e
<1>3. Fine(s, a)
  BY Zenon, <1>2, EpochFine
<1>4. a.currentEpoch = e
  BY DEF Sound, Shaped, Core
<1> HIDE DEF a
<1> DEFINE x == [a.nodes[s.name] EXCEPT !.epoch = e]
<1>5. s.name \in Node => Entry(x, a.currentEpoch)
  BY <1>2, <1>3, <1>4 DEF Fine, Sound, Table, Entry
<1> HIDE DEF x
<1>6. Fine(a, [a EXCEPT !.nodes[s.name] = x])
  BY Zenon, <1>3, <1>5, FineSound, NodeFine
<1>7. Fine(a, b)
  BY Zenon, <1>6 DEF x
<1> HIDE DEF b
<1>8. Fine(b, clusterSaveConfig(b))
  BY Zenon, <1>7, FineSound, SaveFine
<1> QED
  BY Zenon, <1>1, <1>3, <1>7, <1>8, FineTrans3, FineRefl

-----------------------------------------------------------------------------
(* Packets that arrive. *)

\* After the header a node is not behind the sender.
LEMMA HeaderFine ==
  ASSUME NEW s, Sound(s), NEW m, Packet(m)
  PROVE  Fine(s, Header(s, m)) /\ m.currentEpoch <= Header(s, m).currentEpoch
<1> DEFINE e == IF m.currentEpoch > s.currentEpoch THEN m.currentEpoch ELSE s.currentEpoch
           newer == m.configEpoch > s.nodes[m.from].epoch
           v == IF newer THEN m.configEpoch ELSE s.nodes[m.from].epoch
           o == IF /\ s.mf_end /\ ~IsMaster(s, s.name) /\ s.nodes[s.name].slaveof = m.from
                   /\ m.paused /\ s.mf_master_offset = 0
                THEN m.offset ELSE s.mf_master_offset
           x == [s.nodes[m.from] EXCEPT !.epoch = v]
           h == [s EXCEPT !.currentEpoch = e, !.nodes[m.from].epoch = v, !.mf_master_offset = o]
           t == Header(s, m)
<1>1. t = h \/ t = clusterDoBeforeSleep(h, {"save", "fsync"})
  BY Zenon DEF Header
<1>2. e \in Nat /\ s.currentEpoch <= e /\ m.currentEpoch <= e
  BY DEF Sound, Packet
<1>3. m.from \in Node => Entry(x, e)
  BY <1>2 DEF Sound, Table, Entry, Packet
<1> HIDE DEF e, v, o, t
<1> DEFINE a == [s EXCEPT !.currentEpoch = e]
           b == [a EXCEPT !.nodes[m.from] = x]
<1>4. Fine(s, a) /\ a.currentEpoch = e /\ a.nodes = s.nodes
  BY <1>2, EpochFine DEF Sound, Shaped, Core
<1>5. h = [b EXCEPT !.mf_master_offset = o]
  BY DEF Sound, Shaped, Core
<1> HIDE DEF a, x, h
<1>6. Fine(a, b)
  BY Zenon, <1>3, <1>4, FineSound, NodeFine
<1> HIDE DEF b
<1>7. Fine(b, h)
  BY <1>5, <1>6, FineSound, OtherField DEF Core
<1>8. Fine(h, clusterDoBeforeSleep(h, {"save", "fsync"}))
  BY Zenon, <1>7, FineSound, DoFine
<1>9. Sound(a) /\ Fine(a, h)
  BY Zenon, <1>4, <1>6, <1>7, FineTrans, FineSound
<1>10. Fine(a, t)
  BY Zenon, <1>1, <1>8, <1>9, FineTrans
<1>11. Fine(s, t)
  BY Zenon, <1>4, <1>10, FineTrans
<1>12. m.currentEpoch <= t.currentEpoch
  BY <1>2, <1>4, <1>10 DEF Fine, Quiet, Sound, Packet
<1> QED
  BY Zenon, <1>11, <1>12 DEF t

\* The sender of a packet has changed its role.
LEMMA RoleSwitchFine ==
  ASSUME NEW s, Sound(s), NEW m, m.from \in Node PROVE Fine(s, RoleSwitch(s, m))
<1> DEFINE n == m.from
           a == clusterDelSlots(s, Slots(s, n))
           b == [a EXCEPT !.nodes[n].role = "slave"]
           c == [b EXCEPT !.nodes[n].migrate_to = FALSE]
           d == [a EXCEPT !.nodes[n].role = "slave", !.nodes[n].migrate_to = FALSE]
           u == IF ~IsMaster(s, n) THEN s ELSE clusterDoBeforeSleep(d, {"save", "state"})
           v == clusterNodeRemoveSlave(u, u.nodes[n].slaveof, n)
           w == clusterNodeAddSlave(v, m.slaveof, n)
           t == RoleSwitch(s, m)
<1>1. \/ t = clusterSetNodeAsMaster(s, n)
      \/ t = u
      \/ m.slaveof \in Known(s) /\ t = clusterDoBeforeSleep(w, {"save"})
  BY Zenon DEF RoleSwitch
<1> HIDE DEF t
<1>2. Fine(s, a)
  BY Zenon, DelSlotsFine
<1> HIDE DEF a
<1>3. Fine(a, b)
  BY Zenon, <1>2, FineSound, FlagFine
<1>4. d = c
  BY <1>2 DEF Fine, Sound, Shaped, Core
<1> HIDE DEF b, d
<1>5. Fine(b, d)
  BY Zenon, <1>3, <1>4, FineSound, FlagFine
<1>6. Fine(d, clusterDoBeforeSleep(d, {"save", "state"}))
  BY Zenon, <1>5, FineSound, DoFine
<1>7. Fine(s, u)
  BY Zenon, <1>2, <1>3, <1>5, <1>6, FineTrans4, FineRefl
<1> HIDE DEF u
<1>8. Fine(u, v)
  BY Zenon, <1>7, FineSound, RemoveSlaveFine
<1> HIDE DEF v
<1>9. m.slaveof \in Known(s) => Fine(v, w)
  BY Zenon, <1>8, FineSound, AddSlaveFine DEF Known
<1> HIDE DEF w
<1>10. m.slaveof \in Known(s) => Fine(w, clusterDoBeforeSleep(w, {"save"}))
  BY Zenon, <1>9, FineSound, DoFine
<1>11. Fine(s, clusterSetNodeAsMaster(s, n))
  BY Zenon, SetAsMasterFine
<1> QED
  BY Zenon, <1>1, <1>7, <1>8, <1>9, <1>10, <1>11, FineTrans4 DEF t

\* A set of numbers that is not empty has a least element.
LEMMA LeastExists == ASSUME NEW S, S \subseteq Nat, S # {} PROVE \E k \in S : \A j \in S : k <= j
<1>1. PICK k \in S : \A j \in S : ~(<<j, k>> \in OpToRel(<, Nat))
  BY Zenon, WFMin, NatLessThanWellFounded
<1>2. \A j \in S : ~(j < k)
  BY Zenon, <1>1 DEF OpToRel
<1> QED
  BY <1>2

\* The sender of a packet is told of a newer configuration.
LEMMA StaleFine == ASSUME NEW s, Sound(s), NEW m, Packet(m) PROVE Fine(s, StaleClaim(s, m))
<1> DEFINE S == Newer(s, m)
           k == CHOOSE x \in S : \A j \in S : x <= j
<1>1. S \subseteq Nat
  BY Zenon, SlotAssumption DEF Newer, Packet
<1>2. ASSUME NEW x \in S PROVE s.slots[x] \in Node
  BY Zenon DEF Newer, Packet, Sound, SlotMap
<1> HIDE DEF S
<1>3. S # {} => k \in S
  BY Zenon, <1>1, LeastExists
<1> HIDE DEF k
<1>4. S # {} => Fine(s, clusterSendUpdate(s, m.from, s.slots[k]))
  BY Zenon, <1>2, <1>3, SendUpdateFine
<1>5. StaleClaim(s, m) = IF S = {} THEN s ELSE clusterSendUpdate(s, m.from, s.slots[k])
  BY Zenon DEF StaleClaim, S, k
<1> QED
  BY Zenon, <1>4, <1>5, FineRefl

\* The slots that the sender of a packet claims.
LEMMA ClaimedFine ==
  ASSUME NEW s, Sound(s), NEW m, Packet(m), m.from \in Node PROVE Fine(s, ClaimedSlots(s, m))
<1> DEFINE a == IF IsMaster(s, m.from)
                THEN clusterUpdateSlotsConfigWith(s, m.from, m.configEpoch, m.slots) ELSE s
<1>1. ClaimedSlots(s, m) = s \/ ClaimedSlots(s, m) = StaleClaim(a, m)
  BY Zenon DEF ClaimedSlots
<1>2. Fine(s, a)
  BY Zenon, UpdateSlotsFine, FineRefl
<1> HIDE DEF a
<1>3. Fine(a, StaleClaim(a, m))
  BY Zenon, <1>2, FineSound, StaleFine
<1> QED
  BY Zenon, <1>1, <1>2, <1>3, FineTrans, FineRefl

\* The sender of an answer is reachable.
LEMMA ReachableFine == ASSUME NEW s, Sound(s), NEW n, NEW long PROVE Fine(s, Reachable(s, n, long))
  BY Zenon, HealthFine, ClearFine, FineRefl DEF Reachable

\* Everything that a PING, PONG or MEET tells.
LEMMA ConfigFine ==
  ASSUME NEW s, Sound(s), NEW m, Packet(m), m.from \in Node, NEW long
  PROVE  Fine(s, ConfigInformation(s, m, long))
<1> DEFINE a == IF m.type = "pong" /\ m.via = "link" THEN Reachable(s, m.from, long) ELSE s
           b == RoleSwitch(a, m)
           c == ClaimedSlots(b, m)
           d == Collision(c, m)
           t == clusterProcessGossipSection(d, m)
<1>1. ConfigInformation(s, m, long) = t
  BY Zenon DEF ConfigInformation
<1>2. Fine(s, a)
  BY Zenon, ReachableFine, FineRefl
<1> HIDE DEF a
<1>3. Fine(a, b)
  BY Zenon, <1>2, FineSound, RoleSwitchFine
<1> HIDE DEF b
<1>4. Fine(b, c)
  BY Zenon, <1>3, FineSound, ClaimedFine
<1> HIDE DEF c
<1>5. Fine(c, d)
  BY Zenon, <1>4, FineSound, CollisionFine
<1> HIDE DEF d
<1>6. Fine(d, t)
  BY Zenon, <1>5, FineSound, GossipFine
<1> HIDE DEF t
<1>7. Fine(s, d)
  BY Zenon, <1>2, <1>3, <1>4, <1>5, FineTrans4
<1> QED
  BY Zenon, <1>1, <1>6, <1>7, FineTrans

\* The answer to a PING.
LEMMA AnswerFine == ASSUME NEW s, Sound(s), NEW m PROVE Fine(s, Answer(s, m))
<1>1. "pong" \in PacketType \ {"auth_ack"}
  BY DEF PacketType
<1> QED
  BY Zenon, <1>1, PingFine DEF Answer

\* A packet of a node that is not in the table.
LEMMA StrangerFine == ASSUME NEW s, Sound(s), NEW m PROVE Fine(s, Stranger(s, m))
<1> DEFINE a == [s EXCEPT !.handshake = @ \cup {m.from}]
           b == IF m.type = "meet" THEN clusterDoBeforeSleep(a, {"save"}) ELSE s
           c == [s EXCEPT !.handshake = @ \ {m.from}]
           x == createClusterNode(TRUE, m.role)
           d == [c EXCEPT !.nodes[m.from] = x]
           e == [s EXCEPT !.handshake = @ \ {m.from}, !.nodes[m.from] = x]
           t == Stranger(s, m)
<1>1. t = Answer(b, m) \/ t = clusterDoBeforeSleep(e, {"save"}) \/ t = s
  BY Zenon DEF Stranger
<1>2a. Fine(s, a)
  BY OtherField DEF Core
<1>2b. Fine(s, c)
  BY OtherField DEF Core
<1>2. Fine(s, a) /\ Fine(s, c)
  BY Zenon, <1>2a, <1>2b
<1>3. e = d
  BY DEF Sound, Shaped, Core
<1>4. Fine(a, clusterDoBeforeSleep(a, {"save"}))
  BY Zenon, <1>2, FineSound, DoFine
<1>5. Fine(s, b)
  BY Zenon, <1>2, <1>4, FineTrans, FineRefl
<1> HIDE DEF a, b
<1>6. Fine(b, Answer(b, m))
  BY Zenon, <1>5, FineSound, AnswerFine
<1>7. c.currentEpoch \in Nat
  BY Zenon, <1>2, FineSound DEF Sound
<1>8. Entry(x, c.currentEpoch)
  BY Zenon, <1>7, EntryNew
<1> HIDE DEF c, x, e
<1>9. Fine(c, e)
  BY Zenon, <1>2, <1>3, <1>8, FineSound, NodeFine
<1>10. Fine(e, clusterDoBeforeSleep(e, {"save"}))
  BY Zenon, <1>9, FineSound, DoFine
<1> QED
  BY Zenon, <1>1, <1>2, <1>5, <1>6, <1>9, <1>10, FineTrans, FineTrans3, FineRefl

\* A FAIL packet.
LEMMA FailFine == ASSUME NEW s, Sound(s), NEW m PROVE Fine(s, FailReceived(s, m))
<1> DEFINE a == [s EXCEPT !.nodes[m.about].health = "fail"]
<1>1. Fine(s, a)
  BY Zenon, FlagFine
<1> HIDE DEF a
<1>2. Fine(a, clusterDoBeforeSleep(a, {"save", "state"}))
  BY Zenon, <1>1, FineSound, DoFine
<1>3. FailReceived(s, m) = s \/ FailReceived(s, m) = clusterDoBeforeSleep(a, {"save", "state"})
  BY Zenon DEF FailReceived, a
<1> QED
  BY Zenon, <1>1, <1>2, <1>3, FineTrans, FineRefl

\* A vote is counted.
LEMMA AckFine == ASSUME NEW s, Sound(s), NEW m PROVE Fine(s, AckReceived(s, m))
<1> DEFINE a == [s EXCEPT !.auth_count = @ + 1, !.late = @ \/ ~s.auth_sent]
<1>1. Same(s, a)
  BY DEF Same, Sound, Shaped, Core
<1>2. AckReceived(s, m) = s \/ AckReceived(s, m) = clusterDoBeforeSleep(a, {"failover"})
  BY Zenon DEF AckReceived
<1> HIDE DEF a
<1>3. Fine(s, a)
  BY Zenon, <1>1, SameFine
<1>4. Fine(a, clusterDoBeforeSleep(a, {"failover"}))
  BY Zenon, <1>3, FineSound, DoFine
<1> QED
  BY Zenon, <1>2, <1>3, <1>4, FineTrans, FineRefl

\* The master of a manual failover.
LEMMA MFReceivedFine == ASSUME NEW s, Sound(s), NEW m PROVE Fine(s, MFStartReceived(s, m))
<1> DEFINE a == resetManualFailover(s)
           b == [a EXCEPT !.mf_end = TRUE, !.mf_slave = m.from]
<1>1. MFStartReceived(s, m) = s \/ MFStartReceived(s, m) = b
  BY Zenon DEF MFStartReceived
<1>2. Fine(s, a)
  BY Zenon, ResetFine
<1> HIDE DEF a
<1>3. Sound(a)
  BY Zenon, <1>2, FineSound
<1>4. Same(a, b)
  BY <1>3 DEF Same, Sound, Shaped, Core
<1> HIDE DEF b
<1>5. Fine(a, b)
  BY Zenon, <1>3, <1>4, SameFine
<1> QED
  BY Zenon, <1>1, <1>2, <1>5, FineTrans, FineRefl

-----------------------------------------------------------------------------
(* A vote. *)

\* A step that gives a vote: the epoch is the node's own and newer than that of the
\* last vote, and what tells of it is to be saved.
Voted(s, t) ==
  /\ Sound(t) /\ t.name = s.name
  /\ s.lastVoteEpoch < t.lastVoteEpoch
  /\ s.file.lastVoteEpoch <= t.file.lastVoteEpoch /\ t.file.lastVoteEpoch <= s.lastVoteEpoch
  /\ "save" \in t.todo
  /\ \E a : Acks(t) = Acks(s) \cup {a} /\ a.currentEpoch = t.lastVoteEpoch

\* clusterSendFailoverAuthIfNeeded does nothing or gives one vote, in an epoch later than that of the last.
LEMMA VoteFine ==
  ASSUME NEW s, Sound(s), NEW m, NEW soon, NEW t, t = clusterSendFailoverAuthIfNeeded(s, m, soon)
  PROVE  t = s \/ Voted(s, t)
<1> DEFINE v == [s EXCEPT !.lastVoteEpoch = s.currentEpoch]
           w == clusterDoBeforeSleep(v, {"save", "fsync"})
<1>1. t = s \/ (s.lastVoteEpoch # s.currentEpoch /\ t = clusterSendFailoverAuth(w, m.from))
  BY Zenon DEF clusterSendFailoverAuthIfNeeded
<1> SUFFICES ASSUME s.lastVoteEpoch # s.currentEpoch, t = clusterSendFailoverAuth(w, m.from)
             PROVE  Voted(s, t)
  BY Zenon, <1>1
<1>2. /\ DOMAIN v = DOMAIN s /\ v.name = s.name /\ v.currentEpoch = s.currentEpoch
      /\ v.lastVoteEpoch = s.currentEpoch /\ v.auth_epoch = s.auth_epoch /\ v.nodes = s.nodes
      /\ v.slots = s.slots /\ v.file = s.file /\ v.out = s.out /\ v.todo = s.todo
  BY DEF Sound, Shaped, Core
<1>3. w = [v EXCEPT !.todo = @ \cup {"save", "fsync"}]
  BY Zenon DEF clusterDoBeforeSleep
<1> HIDE DEF v
<1>4. Sound(v)
  BY <1>2 DEF Sound, Shaped, Saved
<1>5. Fine(v, w)
  BY Zenon, <1>4, DoFine
<1>6. /\ DOMAIN w = DOMAIN v /\ w.name = v.name /\ w.currentEpoch = v.currentEpoch
      /\ w.lastVoteEpoch = v.lastVoteEpoch /\ w.auth_epoch = v.auth_epoch /\ w.nodes = v.nodes
      /\ w.slots = v.slots /\ w.file = v.file /\ w.out = v.out /\ "save" \in w.todo
  BY <1>3, <1>4 DEF Sound, Shaped, Core
<1> HIDE DEF w
<1>7. Sound(w)
  BY Zenon, <1>5, FineSound
<1> DEFINE a == clusterBuildMessageHdr(w, "auth_ack", m.from)
<1>8. Packet(a) /\ a.type = "auth_ack" /\ a.currentEpoch = w.currentEpoch
  BY <1>7, HdrPacket DEF PacketType
<1> HIDE DEF a
<1>9. t = [w EXCEPT !.out = @ \cup {a}]
  BY Zenon DEF clusterSendFailoverAuth, a
<1>10. /\ DOMAIN t = DOMAIN w /\ t.name = w.name /\ t.currentEpoch = w.currentEpoch
       /\ t.lastVoteEpoch = w.lastVoteEpoch /\ t.auth_epoch = w.auth_epoch /\ t.nodes = w.nodes
       /\ t.slots = w.slots /\ t.file = w.file /\ t.out = w.out \cup {a} /\ t.todo = w.todo
  BY <1>7, <1>9 DEF Sound, Shaped, Core
<1>11. Sound(t)
  BY <1>7, <1>8, <1>10 DEF Sound, Shaped
<1>12. Acks(t) = Acks(s) \cup {a}
  BY <1>2, <1>6, <1>8, <1>10 DEF Acks
<1>13. s.lastVoteEpoch < s.currentEpoch /\ s.file.lastVoteEpoch <= s.lastVoteEpoch
       /\ s.file.lastVoteEpoch \in Nat
  BY DEF Sound, Saved
<1>14. /\ t.name = s.name /\ t.lastVoteEpoch = s.currentEpoch /\ t.file = s.file
       /\ "save" \in t.todo /\ a.currentEpoch = s.currentEpoch
  BY Zenon, <1>2, <1>6, <1>8, <1>10
<1> QED
  BY <1>11, <1>12, <1>13, <1>14 DEF Voted

\* An UPDATE packet: its epoch is not ahead of the epoch of the packet, which the node has reached.
LEMMA UpdateFine ==
  ASSUME NEW s, Sound(s), NEW m, Packet(m), m.currentEpoch <= s.currentEpoch
  PROVE  Fine(s, UpdateReceived(s, m))
<1> DEFINE n == m.about
           e == m.aboutEpoch
           r == IF IsMaster(s, n) THEN s ELSE clusterSetNodeAsMaster(s, n)
           a == [r EXCEPT !.nodes[n].epoch = e]
           b == clusterDoBeforeSleep(a, {"save", "fsync"})
           c == clusterUpdateSlotsConfigWith(b, n, e, m.aboutSlots)
<1>1. UpdateReceived(s, m) = s \/ (n \in Known(s) /\ UpdateReceived(s, m) = c)
  BY Zenon DEF UpdateReceived
<1> SUFFICES ASSUME n \in Known(s) PROVE Fine(s, c)
  BY Zenon, <1>1, FineRefl
<1>2. n \in Node
  BY Zenon DEF Known
<1>3. Fine(s, r)
  BY Zenon, <1>2, SetAsMasterFine, FineRefl
<1> HIDE DEF r
<1>4. Sound(r) /\ s.currentEpoch <= r.currentEpoch
  BY Zenon, <1>3 DEF Fine, Quiet
<1>5. e \in Nat /\ e <= r.currentEpoch
  BY <1>4 DEF Packet, Sound
<1> DEFINE x == [r.nodes[n] EXCEPT !.epoch = e]
<1>6. Entry(x, r.currentEpoch)
  BY Zenon, <1>2, <1>4, <1>5, EntryEpoch DEF Sound, Table
<1>7. a = [r EXCEPT !.nodes[n] = x]
  BY Zenon
<1> HIDE DEF x, a
<1>8. Fine(r, a)
  BY Zenon, <1>4, <1>6, <1>7, NodeFine
<1>9. Fine(a, b)
  BY Zenon, <1>8, FineSound, DoFine
<1> HIDE DEF b
<1>10. Fine(b, c)
  BY Zenon, <1>2, <1>9, FineSound, UpdateSlotsFine
<1> HIDE DEF c
<1> QED
  BY Zenon, <1>3, <1>8, <1>9, <1>10, FineTrans4

\* What comes after the header of a packet.
LEMMA PayloadFine ==
  ASSUME NEW s, Sound(s), NEW m, Packet(m), m.currentEpoch <= s.currentEpoch, m.from \in Node,
         NEW long, NEW soon, NEW t, t = Payload(s, m, long, soon)
  PROVE  Fine(s, t) \/ Voted(s, t)
<1> DEFINE a == [s EXCEPT !.handshake = @ \ {m.from}]
           b == IF m.type = "pong" THEN s ELSE Answer(s, m)
           c == ConfigInformation(b, m, long)
<1>1. Fine(s, a)
  BY OtherField DEF Core
<1>2. Fine(s, b)
  BY Zenon, AnswerFine, FineRefl
<1>3. Fine(b, c)
  BY Zenon, <1>2, FineSound, ConfigFine
<1>4. Fine(s, c)
  BY Zenon, <1>2, <1>3, FineTrans
<1>5. /\ Fine(s, FailReceived(s, m)) /\ Fine(s, AckReceived(s, m))
      /\ Fine(s, MFStartReceived(s, m)) /\ Fine(s, UpdateReceived(s, m))
  BY Zenon, FailFine, AckFine, MFReceivedFine, UpdateFine
<1>6. m.type \in PacketType
  BY Zenon DEF Packet
<1>7. \/ t = a \/ t = c \/ t = FailReceived(s, m) \/ t = clusterSendFailoverAuthIfNeeded(s, m, soon)
      \/ t = AckReceived(s, m) \/ t = MFStartReceived(s, m) \/ t = UpdateReceived(s, m)
  BY <1>6 DEF Payload, PacketType
<1> HIDE DEF a, b, c
<1>8. t = clusterSendFailoverAuthIfNeeded(s, m, soon) => Fine(s, t) \/ Voted(s, t)
  BY Zenon, VoteFine, FineRefl
<1> QED
  BY Zenon, <1>1, <1>4, <1>5, <1>7, <1>8

\* A packet is handled without a vote, or with one.
LEMMA PacketFine ==
  ASSUME NEW s, Sound(s), NEW m, Packet(m), NEW long, NEW soon,
         NEW t, t = clusterProcessPacket(s, m, long, soon)
  PROVE  Fine(s, t) \/ Voted(s, t)
<1> DEFINE h == Header(s, m)
<1>1. \/ t = Stranger(s, m)
      \/ m.from \in Node /\ t = Payload(h, m, long, soon)
  BY Zenon DEF clusterProcessPacket, Known
<1>2. Fine(s, h) /\ m.currentEpoch <= h.currentEpoch
  BY Zenon, HeaderFine
<1> HIDE DEF h
<1>3. Sound(h)
  BY Zenon, <1>2, FineSound
<1>4. CASE t = Stranger(s, m)
  BY Zenon, <1>4, StrangerFine
<1>5. CASE m.from \in Node /\ t = Payload(h, m, long, soon)
  <2>1. Fine(h, t) \/ Voted(h, t)
    BY ZenonT(60), <1>2, <1>3, <1>5, PayloadFine
  <2>2. Voted(h, t) => Voted(s, t)
    BY <1>2, <1>3 DEF Voted, Fine, Quiet, Sound, Saved
  <2> QED
    BY Zenon, <1>2, <2>1, <2>2, FineTrans
<1> QED
  BY Zenon, <1>1, <1>4, <1>5

-----------------------------------------------------------------------------
(* The state of the cluster, elections and the timer. *)

\* clusterUpdateState.
LEMMA StateFine == ASSUME NEW s, Sound(s) PROVE Fine(s, clusterUpdateState(s))
<1> DEFINE X == s.todo \ {"state"}
           masters == {n \in Known(s) : IsMaster(s, n) /\ Slots(s, n) # {}}
           reached == {n \in masters : s.nodes[n].health = "ok"}
           few == Cardinality(reached) < (Cardinality(masters) \div 2) + 1
           ok == /\ \A k \in Slot : s.slots[k] # NULL /\ s.nodes[s.slots[k]].health # "fail"
                 /\ ~few
           done == [s EXCEPT !.todo = @ \ {"state"}]
           counted == [done EXCEPT !.size = Cardinality(masters), !.minority = @ \/ few]
           final == [counted EXCEPT !.ok = ok]
           t == clusterUpdateState(s)
<1>1. t = done \/ t = counted \/ t = final
  BY SMT DEF clusterUpdateState
<1>2. done = [s EXCEPT !.todo = X]
  BY Zenon
<1>3. "save" \in s.todo => "save" \in X
  OBVIOUS
<1> HIDE DEF X, t, masters, reached, few, ok, done
<1>4. Fine(s, done)
  BY Zenon, <1>2, <1>3, TodoFine
<1>5. Sound(done)
  BY Zenon, <1>4, FineSound
<1>6. Same(done, counted)
  BY <1>5 DEF Same, Sound, Shaped, Core
<1> HIDE DEF counted
<1>7. Fine(done, counted)
  BY Zenon, <1>5, <1>6, SameFine
<1>8. Fine(counted, final)
  BY <1>7, FineSound, OtherField DEF Core
<1> QED
  BY ZenonT(60), <1>1, <1>4, <1>7, <1>8, FineTrans, FineTrans3 DEF t

\* clusterFailoverReplaceYourMaster.
LEMMA ReplaceFine ==
  ASSUME NEW s, Sound(s) PROVE Fine(s, clusterFailoverReplaceYourMaster(s))
<1> DEFINE K == Slots(s, s.nodes[s.name].slaveof)
           a == clusterSetNodeAsMaster(s, s.name)
           b == clusterDelSlots(a, K)
           c == clusterAddSlots(b, s.name, K)
           d == clusterUpdateState(c)
           e == clusterSaveConfig(d)
           f == clusterBroadcastPong(e, Node)
           g == resetManualFailover(f)
           t == clusterFailoverReplaceYourMaster(s)
<1>0. s.name \in Node
  BY Zenon DEF Sound
<1>1. t = s \/ t = g
  BY Zenon DEF clusterFailoverReplaceYourMaster
<1> HIDE DEF K, t
<1>2. Fine(s, a)
  BY Zenon, <1>0, SetAsMasterFine
<1> HIDE DEF a
<1>3. Fine(a, b)
  BY Zenon, <1>2, FineSound, DelSlotsFine
<1> HIDE DEF b
<1>4. Fine(b, c)
  BY Zenon, <1>0, <1>3, FineSound, AddSlotsFine
<1> HIDE DEF c
<1>5. Fine(c, d)
  BY Zenon, <1>4, FineSound, StateFine
<1> HIDE DEF d
<1>6. Fine(d, e)
  BY Zenon, <1>5, FineSound, SaveFine
<1> HIDE DEF e
<1>7. Fine(e, f)
  BY Zenon, <1>6, FineSound, PongsFine
<1> HIDE DEF f
<1>8. Fine(f, g)
  BY Zenon, <1>7, FineSound, ResetFine
<1> HIDE DEF g
<1>9. Fine(s, d)
  BY Zenon, <1>2, <1>3, <1>4, <1>5, FineTrans4
<1>10. Fine(s, g)
  BY Zenon, <1>6, <1>7, <1>8, <1>9, FineTrans4
<1> QED
  BY Zenon, <1>1, <1>10, FineRefl DEF t

\* A slave that asks for votes moves to a new epoch, which is the epoch of its election.
LEMMA AskFine ==
  ASSUME NEW s, Sound(s), NEW e, e = s.currentEpoch + 1
  PROVE  Fine(s, [s EXCEPT !.currentEpoch = e, !.auth_epoch = e])
<1> DEFINE t == [s EXCEPT !.currentEpoch = e, !.auth_epoch = e]
<1>0. e \in Nat /\ s.currentEpoch <= e /\ s.currentEpoch \in Nat
  BY DEF Sound
<1>1. /\ DOMAIN t = DOMAIN s /\ t.name = s.name /\ t.lastVoteEpoch = s.lastVoteEpoch
      /\ t.file = s.file /\ t.currentEpoch = e /\ t.auth_epoch = e
      /\ t.nodes = s.nodes /\ t.slots = s.slots /\ t.out = s.out /\ t.todo = s.todo
  BY DEF Sound, Shaped, Core
<1> HIDE DEF t
<1>2. Table(t.nodes, t.currentEpoch)
  BY <1>0, <1>1, TableLater DEF Sound
<1>3. Framed(s, t)
  BY <1>0, <1>1, <1>2 DEF Sound, Framed
<1> QED
  BY Zenon, <1>3, Frame DEF t

\* clusterHandleSlaveFailover: the winner takes the epoch of its election, which it has reached.
LEMMA FailoverFine == ASSUME NEW s, Sound(s) PROVE Fine(s, clusterHandleSlaveFailover(s))
<1> DEFINE X == s.todo \ {"failover"}
           t == [s EXCEPT !.todo = @ \ {"failover"}]
           ring == {x \in Known(s) : s.nodes[x].slaveof = s.nodes[s.name].slaveof}
           st == IF s.mf_end THEN "open" ELSE "delay"
           a == [t EXCEPT !.stage = st, !.auth_count = 0, !.auth_sent = FALSE, !.late = FALSE]
           b == [t EXCEPT !.currentEpoch = @ + 1, !.auth_epoch = s.currentEpoch + 1]
           c == clusterRequestFailoverAuth(b)
           d == [c EXCEPT !.auth_sent = TRUE]
           Ep(x) == IF x < s.auth_epoch THEN s.auth_epoch ELSE x
           el == t.elected \cup {[epoch |-> s.auth_epoch, late |-> s.late]}
           f == [t EXCEPT !.nodes[s.name].epoch = Ep(t.nodes[s.name].epoch), !.elected = el]
           r == clusterHandleSlaveFailover(s)
<1>1. \/ r = t \/ r = clusterBroadcastPong(a, ring)
      \/ r = clusterDoBeforeSleep(d, {"save", "state", "fsync"})
      \/ r = clusterFailoverReplaceYourMaster(f)
  BY Zenon DEF clusterHandleSlaveFailover
<1>2. t = [s EXCEPT !.todo = X]
  BY Zenon
<1>3. "save" \in s.todo => "save" \in X
  OBVIOUS
<1>4. /\ t.currentEpoch = s.currentEpoch /\ t.auth_epoch = s.auth_epoch /\ t.name = s.name
      /\ t.nodes = s.nodes
  BY DEF Sound, Shaped, Core
<1> HIDE DEF X, r, ring, st, t
<1>5. Fine(s, t)
  BY Zenon, <1>2, <1>3, TodoFine
<1>6. Sound(t)
  BY Zenon, <1>5, FineSound
<1>7. Fine(t, a)
  <2>1. Same(t, a)
    BY <1>6 DEF Same, Sound, Shaped, Core
  <2> QED
    BY Zenon, <1>6, <2>1, SameFine
<1> HIDE DEF a
<1>8. Fine(a, clusterBroadcastPong(a, ring))
  BY Zenon, <1>7, FineSound, PongsFine
<1>9. Fine(t, b)
  <2> DEFINE e == t.currentEpoch + 1
  <2>1. b = [t EXCEPT !.currentEpoch = e, !.auth_epoch = e]
    BY <1>4
  <2> HIDE DEF b
  <2> QED
    BY Zenon, <1>6, <2>1, AskFine
<1> HIDE DEF b
<1>10. Fine(b, c)
  BY Zenon, <1>9, FineSound, RequestFine
<1> HIDE DEF c
<1>11. Fine(c, d)
  BY <1>10, FineSound, OtherField DEF Core
<1> HIDE DEF d
<1>12. Fine(d, clusterDoBeforeSleep(d, {"save", "state", "fsync"}))
  BY Zenon, <1>11, FineSound, DoFine
<1>13. Fine(t, f)
  <2> DEFINE g == t.nodes[s.name].epoch
             x == [t.nodes[s.name] EXCEPT !.epoch = Ep(g)]
             u == [t EXCEPT !.nodes[s.name] = x]
             w == [u EXCEPT !.elected = el]
  <2>1. s.name \in Node /\ Entry(t.nodes[s.name], t.currentEpoch)
    BY Zenon, <1>4, <1>6 DEF Sound, Table
  <2>2. t.auth_epoch \in Nat /\ t.currentEpoch \in Nat /\ t.auth_epoch <= t.currentEpoch
    BY Zenon, <1>6 DEF Sound
  <2>3. g \in Nat /\ g <= t.currentEpoch
    BY Zenon, <2>1 DEF Entry
  <2> HIDE DEF g
  <2>4. Ep(g) \in Nat /\ Ep(g) <= t.currentEpoch
    BY <1>4, <2>2, <2>3
  <2> HIDE DEF Ep, el
  <2>5. Entry(x, t.currentEpoch)
    BY Zenon, <2>1, <2>4, EntryEpoch
  <2>6. f = w
    BY <1>6 DEF g, Sound, Shaped, Core
  <2> HIDE DEF x, f
  <2>7. Fine(t, u)
    BY Zenon, <1>6, <2>5, NodeFine
  <2> HIDE DEF u
  <2>8. Fine(u, w)
    BY <2>7, FineSound, OtherField DEF Core
  <2> HIDE DEF w
  <2> QED
    BY Zenon, <1>6, <2>6, <2>7, <2>8, FineTrans
<1> HIDE DEF f
<1>14. Fine(f, clusterFailoverReplaceYourMaster(f))
  BY Zenon, <1>13, FineSound, ReplaceFine
<1>15. Fine(t, d)
  BY Zenon, <1>6, <1>9, <1>10, <1>11, FineTrans3
<1>16. Fine(t, r)
  BY Zenon, <1>1, <1>6, <1>7, <1>8, <1>12, <1>13, <1>14, <1>15, FineTrans, FineRefl
<1> QED
  BY Zenon, <1>5, <1>16, FineTrans DEF r

\* clusterHandleManualFailover.
LEMMA ManualFine == ASSUME NEW s, Sound(s) PROVE Fine(s, clusterHandleManualFailover(s))
<1>1. Fine(s, [s EXCEPT !.mf_can_start = TRUE])
  BY OtherField DEF Core
<1> QED
  BY Zenon, <1>1, FineRefl DEF clusterHandleManualFailover

\* clusterHandleSlaveMigration.
LEMMA MigrationFine ==
  ASSUME NEW s, Sound(s), NEW target, NEW ripe
  PROVE  Fine(s, clusterHandleSlaveMigration(s, target, ripe))
<1> DEFINE t == [s EXCEPT !.orphaned = Orphaned(s)]
           r == clusterHandleSlaveMigration(s, target, ripe)
<1>1. r = s \/ r = t \/ (target \in Orphaned(s) /\ r = clusterSetMaster(t, target))
  BY Zenon DEF clusterHandleSlaveMigration
<1>2. Fine(s, t)
  BY OtherField DEF Core
<1> HIDE DEF t, r
<1>3. target \in Orphaned(s) => target \in Node
  BY Zenon DEF Orphaned, Known
<1>4. target \in Node => Fine(t, clusterSetMaster(t, target))
  BY Zenon, <1>2, FineSound, SetMasterFine
<1> QED
  BY Zenon, <1>1, <1>2, <1>3, <1>4, FineTrans, FineRefl DEF r

\* A PING or a MEET.
LEMMA PingOneFine == ASSUME NEW s, Sound(s), NEW n PROVE Fine(s, Ping(s, n))
<1> DEFINE type == IF n \in s.meet THEN "meet" ELSE "ping"
           a == clusterSendPing(s, type, n, "handshake")
           b == [a EXCEPT !.meet = @ \ {n}]
           c == clusterSendPing(s, "ping", n, "link")
<1>1. Ping(s, n) = b \/ Ping(s, n) = c
  BY Zenon DEF Ping
<1>2. type \in PacketType \ {"auth_ack"} /\ "ping" \in PacketType \ {"auth_ack"}
  BY DEF PacketType
<1> HIDE DEF type
<1>3. Fine(s, a) /\ Fine(s, c)
  BY Zenon, <1>2, PingFine
<1> HIDE DEF a, c
<1>4. Fine(a, b)
  BY <1>3, FineSound, OtherField DEF Core
<1> HIDE DEF b
<1> QED
  BY Zenon, <1>1, <1>3, <1>4, FineTrans

\* The nodes of a set are marked as possibly failing.
LEMMA SuspectTable ==
  ASSUME NEW T, NEW e, Table(T, e), NEW L
  PROVE  Table([n \in Node |-> IF n \in L /\ T[n].health = "ok"
                               THEN [T[n] EXCEPT !.health = "pfail"] ELSE T[n]], e)
<1>1. ASSUME NEW n \in Node
      PROVE  Entry(T[n], e) /\ Entry([T[n] EXCEPT !.health = "pfail"], e)
  BY EntryField DEF Table
<1> QED
  BY Zenon, <1>1 DEF Table

\* The part of the timer that is about other nodes.
LEMMA CronNodesFine ==
  ASSUME NEW s, Sound(s), NEW ping, NEW late, NEW gone
  PROVE  Fine(s, CronNodes(s, ping, late, gone))
<1> DEFINE a == [s EXCEPT !.handshake = @ \ gone, !.meet = @ \ gone]
           b == IF ping = NULL THEN a ELSE Ping(a, ping)
           T == [n \in Node |-> IF n \in late /\ s.nodes[n].health = "ok"
                                THEN [s.nodes[n] EXCEPT !.health = "pfail"] ELSE s.nodes[n]]
           t == [b EXCEPT !.nodes = T]
<1>1. CronNodes(s, ping, late, gone) = t
  BY Zenon DEF CronNodes
<1>2. Same(s, a)
  BY DEF Same, Sound, Shaped, Core
<1> HIDE DEF a
<1>3. Fine(s, a)
  BY Zenon, <1>2, SameFine
<1>4. Fine(a, b)
  BY Zenon, <1>3, FineSound, PingOneFine, FineRefl
<1>5. Table(T, s.currentEpoch)
  BY Zenon, SuspectTable DEF Sound
<1> HIDE DEF b, T
<1>6. Fine(s, b)
  BY Zenon, <1>3, <1>4, FineTrans
<1>7. Sound(b) /\ s.currentEpoch <= b.currentEpoch /\ b.currentEpoch \in Nat /\ s.currentEpoch \in Nat
  BY Zenon, <1>6 DEF Fine, Quiet, Sound
<1>8. Table(T, b.currentEpoch)
  BY Zenon, <1>5, <1>7, TableLater
<1>9. Fine(b, t)
  BY Zenon, <1>7, <1>8, NodesFine
<1> HIDE DEF t
<1> QED
  BY Zenon, <1>1, <1>6, <1>9, FineTrans

\* The part of the timer that is for slaves.
LEMMA CronSlaveFine ==
  ASSUME NEW s, Sound(s), NEW target, NEW ripe PROVE Fine(s, CronSlave(s, target, ripe))
<1> DEFINE a == clusterHandleManualFailover(s)
           b == clusterHandleSlaveFailover(a)
           c == clusterHandleSlaveMigration(b, target, ripe)
<1>1. CronSlave(s, target, ripe) = s \/ CronSlave(s, target, ripe) = CronMigration(s, b, target, ripe)
  BY Zenon DEF CronSlave
<1>2. Fine(s, a)
  BY Zenon, ManualFine
<1> HIDE DEF a
<1>3. Fine(a, b)
  BY Zenon, <1>2, FineSound, FailoverFine
<1> HIDE DEF b
<1>4. Fine(b, c)
  BY Zenon, <1>3, FineSound, MigrationFine
<1>5. CronMigration(s, b, target, ripe) = b \/ CronMigration(s, b, target, ripe) = c
  BY Zenon DEF CronMigration
<1> HIDE DEF c
<1> QED
  BY Zenon, <1>1, <1>2, <1>3, <1>4, <1>5, FineTrans, FineTrans3, FineRefl

\* The timer gives no vote.
LEMMA CronFine ==
  ASSUME NEW s, Sound(s), NEW ping, NEW late, NEW gone, NEW over, NEW target, NEW ripe
  PROVE  Fine(s, clusterCron(s, ping, late, gone, over, target, ripe))
<1> DEFINE a == CronNodes(s, ping, late, gone)
           b == manualFailoverCheckTimeout(a, over)
           c == CronSlave(b, target, ripe)
           t == CronState(c, \E n \in late : s.nodes[n].health = "ok")
<1>1. clusterCron(s, ping, late, gone, over, target, ripe) = t
  BY Zenon DEF clusterCron
<1>2. Fine(s, a)
  BY Zenon, CronNodesFine
<1> HIDE DEF a
<1>3. Fine(a, b)
  BY Zenon, <1>2, FineSound, ResetFine, FineRefl DEF manualFailoverCheckTimeout
<1> HIDE DEF b
<1>4. Fine(b, c)
  BY Zenon, <1>3, FineSound, CronSlaveFine
<1> HIDE DEF c
<1>5. Fine(c, t)
  BY Zenon, <1>4, FineSound, StateFine, FineRefl DEF CronState
<1> HIDE DEF t
<1> QED
  BY Zenon, <1>1, <1>2, <1>3, <1>4, <1>5, FineTrans4

\* Before a node sleeps, a vote that it gave is in its file: what is still to be saved is
\* saved, unless the failover of the node itself saved it.
LEMMA SleepFine ==
  ASSUME NEW s, Sound(s), NEW t, t = clusterBeforeSleep(s)
  PROVE  /\ Sound(t) /\ t.name = s.name /\ t.lastVoteEpoch = s.lastVoteEpoch /\ Acks(t) = Acks(s)
         /\ s.file.lastVoteEpoch <= t.file.lastVoteEpoch
         /\ "save" \in s.todo => t.file.lastVoteEpoch = t.lastVoteEpoch
<1> DEFINE a == DueFailover(s)
           b == DueState(a)
           c == DueSave(b)
<1>1. t = [c EXCEPT !.todo = {}]
  BY Zenon DEF clusterBeforeSleep
<1>2. Fine(s, a)
  BY Zenon, FailoverFine, FineRefl DEF DueFailover
<1> HIDE DEF a
<1>3. Fine(a, b)
  BY Zenon, <1>2, FineSound, StateFine, FineRefl DEF DueState
<1> HIDE DEF b
<1>4. Fine(s, b)
  BY Zenon, <1>2, <1>3, FineTrans
<1>5. c = IF "save" \in b.todo THEN clusterSaveConfig(b) ELSE b
  BY Zenon DEF DueSave
<1> HIDE DEF c
<1>6. Sound(b)
  BY Zenon, <1>4, FineSound
<1>7. Fine(b, c)
  BY Zenon, <1>5, <1>6, SaveFine, FineRefl
<1>8. Sound(c)
  BY Zenon, <1>7, FineSound
<1>9. "save" \in b.todo => c.file.lastVoteEpoch = b.lastVoteEpoch
  <2> DEFINE f == clusterGenNodesDescription(b)
  <2>1. f.lastVoteEpoch = b.lastVoteEpoch
    BY DEF clusterGenNodesDescription
  <2> HIDE DEF f
  <2>2. clusterSaveConfig(b).file = f
    BY <1>6 DEF clusterSaveConfig, f, Sound, Shaped, Core
  <2> QED
    BY Zenon, <1>5, <2>1, <2>2
<1>10. /\ DOMAIN t = DOMAIN c /\ t.name = c.name /\ t.currentEpoch = c.currentEpoch
       /\ t.lastVoteEpoch = c.lastVoteEpoch /\ t.auth_epoch = c.auth_epoch /\ t.nodes = c.nodes
       /\ t.slots = c.slots /\ t.file = c.file /\ t.out = c.out
  BY <1>1, <1>8 DEF Sound, Shaped, Core
<1>11. Sound(t)
  BY <1>8, <1>10 DEF Sound, Shaped
<1>12. Fine(s, c)
  BY Zenon, <1>4, <1>7, FineTrans
<1>13. Acks(t) = Acks(s) /\ t.name = s.name /\ t.lastVoteEpoch = s.lastVoteEpoch
  BY ZenonT(60), <1>10, <1>12 DEF Fine, Quiet, Acks
<1>14. s.file.lastVoteEpoch <= t.file.lastVoteEpoch
  <2>1. /\ s.file.lastVoteEpoch \in Nat /\ s.file.lastVoteEpoch <= s.lastVoteEpoch
        /\ t.file = c.file /\ c.lastVoteEpoch = s.lastVoteEpoch
        /\ c.file.lastVoteEpoch = c.lastVoteEpoch \/ c.file.lastVoteEpoch = s.file.lastVoteEpoch
    BY ZenonT(60), <1>10, <1>12 DEF Fine, Quiet, Sound, Saved
  <2> QED
    BY <2>1
<1>15. "save" \in s.todo => t.file.lastVoteEpoch = t.lastVoteEpoch
  BY <1>4, <1>5, <1>7, <1>9, <1>10 DEF Fine, Quiet
<1> QED
  BY Zenon, <1>11, <1>13, <1>14, <1>15

-----------------------------------------------------------------------------
(* Start, restart and commands. *)

\* A process that starts knows its last vote.
LEMMA LoadSound ==
  ASSUME NEW name \in Node, NEW f, Saved(f), NEW keys, NEW offset,
         NEW t, t = clusterLoadConfig(name, f, keys, offset)
  PROVE  Sound(t) /\ t.name = name /\ t.file = f /\ t.out = {} /\ t.lastVoteEpoch = f.lastVoteEpoch
<1> DEFINE raw == [name |-> name, currentEpoch |-> f.currentEpoch,
              lastVoteEpoch |-> f.lastVoteEpoch, ok |-> FALSE, size |-> 1,
              boot |-> TRUE, minority |-> FALSE,
              nodes |-> f.nodes, slots |-> f.slots, importing |-> f.importing,
              migrating |-> f.migrating, handshake |-> {}, meet |-> {}, blacklist |-> {},
              orphaned |-> {}, stage |-> "none", auth_count |-> 0, auth_sent |-> FALSE,
              auth_epoch |-> 0, mf_end |-> FALSE, mf_can_start |-> FALSE, mf_slave |-> NULL,
              mf_master_offset |-> 0, todo |-> {}, out |-> {}, file |-> f,
              keys |-> keys, offset |-> offset, late |-> FALSE, elected |-> {}]
           e == clusterGetMaxEpoch(raw)
           target(n) == \/ Slaves(raw, n) # {}
                        \/ Slots(raw, n) # {} /\ clusterMastersHaveSlaves(raw)
           T(N) == [n \in Node |-> [N[n] EXCEPT !.migrate_to = target(n)]]
<1>1. t = [raw EXCEPT !.currentEpoch = e, !.nodes = T(raw.nodes)]
  BY ZenonT(60) DEF clusterLoadConfig
<1>2. /\ Core \subseteq DOMAIN raw
      /\ raw.name = name /\ raw.currentEpoch = f.currentEpoch /\ raw.lastVoteEpoch = f.lastVoteEpoch
      /\ raw.nodes = f.nodes /\ raw.slots = f.slots /\ raw.auth_epoch = 0 /\ raw.file = f
      /\ raw.out = {}
  BY ZenonT(60) DEF Core
<1> HIDE DEF raw, target
<1>3. Sound(raw)
  BY <1>2 DEF Sound, Shaped, Saved
<1>4. e = f.currentEpoch
  BY Zenon, <1>2, <1>3, MaxEpochIs
<1>5. Table(T(f.nodes), f.currentEpoch)
  <2>1. ASSUME NEW n \in Node PROVE Entry([f.nodes[n] EXCEPT !.migrate_to = target(n)], f.currentEpoch)
    BY SMTT(30), EntryField DEF Saved, Table
  <2> QED
    BY Zenon, <2>1 DEF Table
<1> HIDE DEF e, T
<1>6. /\ Core \subseteq DOMAIN t
      /\ t.name = name /\ t.currentEpoch = f.currentEpoch /\ t.lastVoteEpoch = f.lastVoteEpoch
      /\ t.nodes = T(f.nodes) /\ t.slots = f.slots /\ t.auth_epoch = 0 /\ t.file = f
      /\ t.out = {}
  BY <1>1, <1>2, <1>4 DEF Core
<1>7. Sound(t)
  BY <1>5, <1>6 DEF Sound, Shaped, Saved
<1> QED
  BY Zenon, <1>6, <1>7

\* verifyClusterConfigWithData.
LEMMA VerifyFine == ASSUME NEW s, Sound(s) PROVE Fine(s, verifyClusterConfigWithData(s))
<1> DEFINE odd == {k \in s.keys : s.slots[k] # s.name /\ s.importing[k] = NULL}
           free == {k \in odd : s.slots[k] = NULL}
           a == clusterAddSlots(s, s.name, free)
           v == [k \in Slot |-> IF k \in odd \ free THEN s.slots[k] ELSE a.importing[k]]
           b == [a EXCEPT !.importing = v]
           t == verifyClusterConfigWithData(s)
<1>1. t = s \/ t = clusterSaveConfig(b)
  BY Zenon DEF verifyClusterConfigWithData
<1>2. s.name \in Node
  BY Zenon DEF Sound
<1> HIDE DEF free, t, v
<1>3. Fine(s, a)
  BY Zenon, <1>2, AddSlotsFine
<1> HIDE DEF a
<1>4. Fine(a, b)
  BY SMTT(30), <1>3, FineSound, OtherField DEF Core
<1> HIDE DEF b
<1>5. Fine(b, clusterSaveConfig(b))
  BY Zenon, <1>4, FineSound, SaveFine
<1> QED
  BY Zenon, <1>1, <1>3, <1>4, <1>5, FineTrans3, FineRefl DEF t

\* CLUSTER RESET keeps the epochs and the vote.
LEMMA ResetNodeFine == ASSUME NEW s, Sound(s) PROVE Fine(s, clusterReset(s))
<1> DEFINE i == s.name
           a0 == clusterSetNodeAsMaster(s, i)
           a1 == [a0 EXCEPT !.keys = {}]
           a == IF IsMaster(s, i) THEN s ELSE a1
           b0 == clusterCloseAllSlots(a)
           b1 == resetManualFailover(b0)
           b == clusterDelSlots(b1, Slot)
           Mine(x) == [x EXCEPT !.slaveof = NULL, !.reports = {}, !.migrate_to = FALSE]
           T == [n \in Node |-> IF n # i THEN createClusterNode(FALSE, "master") ELSE Mine(b.nodes[n])]
           c == [b EXCEPT !.handshake = {}, !.meet = {}]
           d == [b EXCEPT !.handshake = {}, !.meet = {}, !.nodes = T]
           t == clusterReset(s)
<1>1. t = clusterDoBeforeSleep(d, {"save", "state", "fsync"})
  BY Zenon DEF clusterReset
<1>2. i \in Node
  BY Zenon DEF Sound
<1> HIDE DEF t
<1>3. Fine(s, a0)
  BY Zenon, <1>2, SetAsMasterFine
<1> HIDE DEF a0
<1>4. Fine(a0, a1)
  BY <1>3, FineSound, OtherField DEF Core
<1> HIDE DEF a1
<1>5. Fine(s, a)
  BY ZenonT(60), <1>3, <1>4, FineTrans, FineRefl
<1> HIDE DEF a
<1>6. Fine(a, b0)
  BY Zenon, <1>5, FineSound, CloseFine
<1> HIDE DEF b0
<1>7. Fine(b0, b1)
  BY Zenon, <1>6, FineSound, ResetFine
<1> HIDE DEF b1
<1>8. Fine(b1, b)
  BY Zenon, <1>7, FineSound, DelSlotsFine
<1> HIDE DEF b
<1>9. Sound(b)
  BY Zenon, <1>8, FineSound
<1>10. Same(b, c)
  BY <1>9 DEF Same, Sound, Shaped, Core
<1>11. Table(T, b.currentEpoch)
  <2>1. b.currentEpoch \in Nat /\ \A n \in Node : Entry(b.nodes[n], b.currentEpoch)
    BY Zenon, <1>9 DEF Sound, Table
  <2>2. ASSUME NEW x, Entry(x, b.currentEpoch) PROVE Entry(Mine(x), b.currentEpoch)
    BY <2>2 DEF Entry
  <2>3. Entry(createClusterNode(FALSE, "master"), b.currentEpoch)
    BY Zenon, <2>1, EntryNew
  <2> HIDE DEF Mine
  <2> QED
    BY Zenon, <2>1, <2>2, <2>3 DEF Table
<1> HIDE DEF T
<1>12. d = [c EXCEPT !.nodes = T]
  OBVIOUS
<1>13. c.currentEpoch = b.currentEpoch
  BY Zenon, <1>10 DEF Same
<1> HIDE DEF c, d
<1>14. Fine(b, c)
  BY Zenon, <1>9, <1>10, SameFine
<1>15. Fine(c, d)
  BY ZenonT(60), <1>11, <1>12, <1>13, <1>14, FineSound, NodesFine
<1>16. Fine(d, clusterDoBeforeSleep(d, {"save", "state", "fsync"}))
  BY Zenon, <1>15, FineSound, DoFine
<1>17. Fine(s, b)
  BY Zenon, <1>5, <1>6, <1>7, <1>8, FineTrans4
<1> QED
  BY Zenon, <1>1, <1>14, <1>15, <1>16, <1>17, FineTrans4 DEF t

\* CLUSTER SETSLOT NODE.
LEMMA SetslotNodeFine ==
  ASSUME NEW s, Sound(s), NEW k, NEW n \in Node PROVE Fine(s, setslotNode(s, k, n))
<1> DEFINE a0 == [s EXCEPT !.migrating[k] = NULL]
           a == IF k \notin s.keys THEN a0 ELSE s
           b0 == clusterBumpConfigEpochWithoutConsensus(a)
           b1 == [b0 EXCEPT !.importing[k] = NULL]
           b == IF n = s.name /\ s.importing[k] # NULL THEN b1 ELSE a
           c == clusterDelSlots(b, {k})
           d == clusterAddSlots(c, n, {k})
           t == setslotNode(s, k, n)
<1>1. t = s \/ t = d
  BY Zenon DEF setslotNode
<1> HIDE DEF t
<1>2. Fine(s, a0)
  BY OtherField DEF Core
<1> HIDE DEF a0
<1>3. Fine(s, a)
  BY Zenon, <1>2, FineRefl
<1> HIDE DEF a
<1>4. Fine(a, b0)
  BY Zenon, <1>3, FineSound, BumpFine
<1> HIDE DEF b0
<1>5. Fine(b0, b1)
  BY <1>4, FineSound, OtherField DEF Core
<1> HIDE DEF b1
<1>6. Fine(s, b)
  BY Zenon, <1>3, <1>4, <1>5, FineTrans3
<1> HIDE DEF b
<1>7. Fine(b, c)
  BY Zenon, <1>6, FineSound, DelSlotsFine
<1> HIDE DEF c
<1>8. Fine(c, d)
  BY Zenon, <1>7, FineSound, AddSlotsFine
<1> HIDE DEF d
<1> QED
  BY Zenon, <1>1, <1>6, <1>7, <1>8, FineTrans3, FineRefl DEF t

\* CLUSTER FAILOVER.
LEMMA ManualFailoverFine ==
  ASSUME NEW s, Sound(s), NEW how \in {"failover", "force", "takeover"}
  PROVE  Fine(s, clusterFailover(s, how))
<1> DEFINE a0 == resetManualFailover(s)
           a == [a0 EXCEPT !.mf_end = TRUE]
           b == clusterBumpConfigEpochWithoutConsensus(a)
           c == clusterFailoverReplaceYourMaster(b)
           d == [a EXCEPT !.mf_can_start = TRUE]
           master == s.nodes[s.name].slaveof
           e == clusterSendMFStart(a, master)
           t == clusterFailover(s, how)
<1>1. t = s \/ t = c \/ t = d \/ t = e
  BY DEF clusterFailover
<1> HIDE DEF t, master
<1>2. Fine(s, a0)
  BY Zenon, ResetFine
<1> HIDE DEF a0
<1>3. Fine(a0, a)
  BY <1>2, FineSound, OtherField DEF Core
<1> HIDE DEF a
<1>4. Fine(a, b)
  BY Zenon, <1>3, FineSound, BumpFine
<1> HIDE DEF b
<1>5. Fine(b, c)
  BY Zenon, <1>4, FineSound, ReplaceFine
<1> HIDE DEF c
<1>6. Fine(a, d)
  BY <1>3, FineSound, OtherField DEF Core
<1> HIDE DEF d
<1>7. Fine(a, e)
  BY Zenon, <1>3, FineSound, MFStartFine
<1> HIDE DEF e
<1> QED
  BY ZenonT(60), <1>1, <1>2, <1>3, <1>4, <1>5, <1>6, <1>7, FineTrans3, FineTrans4, FineRefl DEF t

\* CLUSTER REPLICATE.
LEMMA ReplicateFine ==
  ASSUME NEW s, Sound(s), NEW n \in Node PROVE Fine(s, clusterReplicate(s, n))
<1> DEFINE a == clusterSetMaster(s, n)
<1>1. \/ clusterReplicate(s, n) = s
      \/ clusterReplicate(s, n) = clusterDoBeforeSleep(a, {"save", "state"})
  BY Zenon DEF clusterReplicate
<1>2. Fine(s, a)
  BY Zenon, SetMasterFine
<1> HIDE DEF a
<1>3. Fine(a, clusterDoBeforeSleep(a, {"save", "state"}))
  BY Zenon, <1>2, FineSound, DoFine
<1> QED
  BY Zenon, <1>1, <1>2, <1>3, FineTrans, FineRefl

\* A command that changed something has it saved.
LEMMA ChangedFine ==
  ASSUME NEW s, NEW t, Sound(s), Fine(s, t) PROVE Fine(s, Changed(s, t))
<1>1. Fine(t, clusterDoBeforeSleep(t, {"save", "state"}))
  BY Zenon, FineSound, DoFine
<1> QED
  BY Zenon, <1>1, FineTrans, FineRefl DEF Changed

\* CLUSTER ADDSLOTS, DELSLOTS and FLUSHSLOTS.
LEMMA SlotsCommandFine == ASSUME NEW s, Sound(s), NEW c PROVE Fine(s, slotsCommand(s, c))
<1> DEFINE k == c.slot
           closed == [s EXCEPT !.importing[k] = NULL]
           a == clusterAddSlots(closed, s.name, {k})
           b == clusterDelSlots(closed, {k})
           d == clusterDelSlots(s, Slots(s, s.name))
           u == CASE c.op = "addslots" /\ s.slots[k] = NULL -> a
                  [] c.op = "delslots" /\ s.slots[k] # NULL -> b
                  [] c.op = "flushslots" /\ s.keys = {} -> d
                  [] OTHER -> s
<1>1. slotsCommand(s, c) = Changed(s, u)
  BY Zenon DEF slotsCommand
<1>2. u = a \/ u = b \/ u = d \/ u = s
  BY Zenon
<1> HIDE DEF u
<1>3. s.name \in Node
  BY Zenon DEF Sound
<1>4. Fine(s, closed)
  BY OtherField DEF Core
<1> HIDE DEF closed
<1>5. Fine(closed, a) /\ Fine(closed, b)
  BY Zenon, <1>3, <1>4, FineSound, AddSlotsFine, DelSlotsFine
<1>6. Fine(s, d)
  BY Zenon, DelSlotsFine
<1> HIDE DEF a, b, d
<1>7. Fine(s, u)
  BY Zenon, <1>2, <1>4, <1>5, <1>6, FineTrans, FineRefl
<1> QED
  BY Zenon, <1>1, <1>7, ChangedFine

\* CLUSTER SETSLOT.
LEMMA SetslotFine == ASSUME NEW s, Sound(s), NEW c PROVE Fine(s, setslotCommand(s, c))
<1> DEFINE k == c.slot
           own == s.slots[k] = s.name
           a == [s EXCEPT !.migrating[k] = c.arg]
           b == [s EXCEPT !.importing[k] = c.arg]
           d == [s EXCEPT !.importing[k] = NULL, !.migrating[k] = NULL]
           e == setslotNode(s, k, c.arg)
           u == CASE c.op = "migrating" /\ own -> a
                  [] c.op = "importing" /\ ~own -> b
                  [] c.op = "stable" -> d
                  [] c.op = "node" -> e
                  [] OTHER -> s
<1>1. setslotCommand(s, c) = s \/ (c.arg \in Node /\ setslotCommand(s, c) = Changed(s, u))
  BY Zenon DEF setslotCommand, Known
<1> SUFFICES ASSUME c.arg \in Node PROVE Fine(s, Changed(s, u))
  BY Zenon, <1>1, FineRefl
<1>2. u = a \/ u = b \/ u = d \/ u = e \/ u = s
  BY Zenon
<1> HIDE DEF u, own
<1>3. Same(s, a)
  BY DEF Same, Sound, Shaped, Core
<1>4. Same(s, b)
  BY DEF Same, Sound, Shaped, Core
<1>5. Same(s, d)
  BY DEF Same, Sound, Shaped, Core
<1> HIDE DEF a, b, d
<1>6. Fine(s, a) /\ Fine(s, b) /\ Fine(s, d)
  BY Zenon, <1>3, <1>4, <1>5, SameFine
<1>7. Fine(s, e)
  BY Zenon, SetslotNodeFine
<1> HIDE DEF e
<1>8. Fine(s, u)
  BY Zenon, <1>2, <1>6, <1>7, FineRefl
<1> QED
  BY Zenon, <1>8, ChangedFine

\* CLUSTER FORGET.
LEMMA ForgetFine == ASSUME NEW s, Sound(s), NEW n PROVE Fine(s, clusterForget(s, n))
<1> DEFINE a == clusterDelNode(s, n)
           b == [a EXCEPT !.blacklist = @ \cup {n}]
<1>1. clusterForget(s, n) = s \/ clusterForget(s, n) = Changed(s, b)
  BY Zenon DEF clusterForget
<1>2. Fine(s, a)
  BY Zenon, DelNodeFine
<1> HIDE DEF a
<1>3. Fine(a, b)
  BY SMTT(30), <1>2, FineSound, OtherField DEF Core
<1> HIDE DEF b
<1>4. Fine(s, b)
  BY Zenon, <1>2, <1>3, FineTrans
<1> QED
  BY Zenon, <1>1, <1>4, ChangedFine, FineRefl

\* Names are numbers.
LEMMA NodeNat == ASSUME NEW n \in Node \cup {NULL} PROVE n \in Nat
  BY NodeAssumption DEF NULL

\* CLUSTER SET-CONFIG-EPOCH.
LEMMA SetEpochFine == ASSUME NEW s, Sound(s), NEW e \in Nat PROVE Fine(s, setConfigEpoch(s, e))
<1> DEFINE i == s.name
           f == IF s.currentEpoch < e THEN e ELSE s.currentEpoch
           a == [s EXCEPT !.currentEpoch = f]
           x == [a.nodes[i] EXCEPT !.epoch = e]
           b == [a EXCEPT !.nodes[i] = x]
           u == [s EXCEPT !.nodes[i].epoch = e, !.currentEpoch = f]
<1>1. setConfigEpoch(s, e) = s \/ setConfigEpoch(s, e) = Changed(s, u)
  BY Zenon DEF setConfigEpoch
<1>2. f \in Nat /\ s.currentEpoch <= f /\ e <= f /\ i \in Node
  BY DEF Sound
<1> HIDE DEF f
<1>3. u = b
  BY Zenon DEF Sound, Shaped, Core
<1> HIDE DEF u
<1>4. Fine(s, a)
  BY Zenon, <1>2, EpochFine
<1>5. a.currentEpoch = f
  BY DEF Sound, Shaped, Core
<1> HIDE DEF a
<1>6. Entry(a.nodes[i], f)
  BY Zenon, <1>2, <1>4, <1>5, FineSound DEF Sound, Table
<1>7. Entry(x, f)
  BY Zenon, <1>2, <1>6, EntryEpoch
<1> HIDE DEF x
<1>8. Fine(a, b)
  BY Zenon, <1>4, <1>5, <1>7, FineSound, NodeFine
<1> HIDE DEF b
<1>9. Fine(s, u)
  BY Zenon, <1>3, <1>4, <1>8, FineTrans
<1> QED
  BY Zenon, <1>1, <1>9, ChangedFine, FineRefl

\* No command gives a vote or takes one back.
LEMMA CommandFine ==
  ASSUME NEW s, Sound(s), NEW c, c.arg \in Node \cup {NULL} PROVE Fine(s, clusterCommand(s, c))
<1> DEFINE t == clusterCommand(s, c)
<1>1. \/ t = s
      \/ t = clusterStartHandshake(s, {c.arg}) \/ t = slotsCommand(s, c)
      \/ t = setslotCommand(s, c) \/ t = clusterBumpConfigEpochWithoutConsensus(s)
      \/ t = setConfigEpoch(s, c.arg) \/ t = clusterForget(s, c.arg)
      \/ c.arg \in Known(s) /\ t = clusterReplicate(s, c.arg)
      \/ c.op \in {"failover", "force", "takeover"} /\ t = clusterFailover(s, c.op)
      \/ t = clusterReset(s) \/ t = clusterSaveConfig(s)
  BY Zenon DEF clusterCommand
<1> HIDE DEF t
<1>2. c.arg \in Nat
  BY Zenon, NodeNat
<1>3. c.arg \in Known(s) => Fine(s, clusterReplicate(s, c.arg))
  BY Zenon, ReplicateFine DEF Known
<1>4. c.op \in {"failover", "force", "takeover"} => Fine(s, clusterFailover(s, c.op))
  BY Zenon, ManualFailoverFine
<1>5. /\ Fine(s, s) /\ Fine(s, clusterStartHandshake(s, {c.arg})) /\ Fine(s, slotsCommand(s, c))
      /\ Fine(s, setslotCommand(s, c)) /\ Fine(s, clusterBumpConfigEpochWithoutConsensus(s))
      /\ Fine(s, setConfigEpoch(s, c.arg)) /\ Fine(s, clusterForget(s, c.arg))
      /\ Fine(s, clusterReset(s)) /\ Fine(s, clusterSaveConfig(s))
  BY ZenonT(60), <1>2, FineRefl, HandshakeFine, SlotsCommandFine, SetslotFine, BumpFine, SetEpochFine,
     ForgetFine, ResetNodeFine, SaveFine
<1> QED
  BY Zenon, <1>1, <1>3, <1>4, <1>5 DEF t

-----------------------------------------------------------------------------
(* The nodes together. *)

\* A vote that was not sent yet is not in the file, will be written before it is sent,
\* and there is no other.
Waiting(s) ==
  \A a, b \in Acks(s) : /\ a = b /\ a.currentEpoch = s.lastVoteEpoch
                        /\ "save" \in s.todo /\ s.file.lastVoteEpoch < s.lastVoteEpoch

\* A vote that was sent is in the file of the node that gave it.
Recorded(v, S) ==
  /\ v = <<v[1], v[2], v[3]>> /\ v[1] \in Node /\ v[2] \in Nat
  /\ v[2] <= S[v[1]].file.lastVoteEpoch

\* The inductive invariant
IInv ==
  /\ conf \in Configs /\ pc \in Nat \ {0}
  /\ DOMAIN srv = Node
  /\ \A i \in Node : Sound(srv[i]) /\ srv[i].name = i /\ Waiting(srv[i])
  /\ \A i \in Node : awake # i => Acks(srv[i]) = {}
  /\ \A m \in net : Packet(m)
  /\ \A v \in votes : Recorded(v, srv)
  /\ OneVote

\* A function on the nodes has a greatest value: there is no smallest set of nodes on
\* which it has none.
LEMMA MaxOver ==
  ASSUME NEW f, \A n \in Node : f[n] \in Nat, Node # {}
  PROVE  LET M == Max({f[n] : n \in Node}) IN M \in Nat /\ \A n \in Node : f[n] <= M
<1> DEFINE Top(A) == \E n \in A : \A k \in A : f[k] <= f[n]
           Bad == {A \in SUBSET Node : A # {} /\ ~Top(A)}
           S == {f[n] : n \in Node}
           M == CHOOSE x \in S : \A y \in S : y <= x
<1>1. Bad = {}
  <2> SUFFICES ASSUME Bad # {} PROVE FALSE
    BY Zenon
  <2>1. IsWellFoundedOn(StrictSubsetOrdering(Node), SUBSET Node)
    BY Zenon, NodeAssumption, FS_StrictSubsetOrderingWellFounded, FS_FiniteSubsetsOfFinite
  <2>2. PICK A \in Bad : \A B \in Bad : ~(<<B, A>> \in StrictSubsetOrdering(Node))
    <3>1. Bad \subseteq SUBSET Node
      BY Zenon
    <3> HIDE DEF Bad
    <3> QED
      BY Zenon, <2>1, <3>1, WFMin
  <2>3. A \in SUBSET Node /\ A # {} /\ ~Top(A)
    BY Zenon
  <2>4. PICK n \in A : TRUE
    BY Zenon, <2>3
  <2> DEFINE B == A \ {n}
  <2>5. <<B, A>> \in StrictSubsetOrdering(Node)
    BY <2>3, <2>4 DEF StrictSubsetOrdering
  <2>6. B \notin Bad
    BY Zenon, <2>2, <2>5
  <2>7. B = {} \/ Top(B)
    BY Zenon, <2>3, <2>6
  <2>8. \A k \in A : f[k] \in Nat
    BY Zenon, <2>3
  <2>9. CASE B = {}
    BY <2>3, <2>4, <2>8, <2>9
  <2>10. CASE Top(B)
    <3>1. PICK m \in B : \A k \in B : f[k] <= f[m]
      BY Zenon, <2>10
    <3> QED
      BY <2>3, <2>4, <2>8, <3>1
  <2> QED
    BY Zenon, <2>7, <2>9, <2>10
<1>2. Top(Node)
  BY Zenon, <1>1
<1>3. \E x \in S : \A y \in S : y <= x
  BY Zenon, <1>2
<1> HIDE DEF Bad, Top
<1>4. M \in S /\ \A y \in S : y <= M
  BY Zenon, <1>3
<1>5. Max(S) = M
  BY Zenon DEF Max
<1> HIDE DEF M
<1>6. M \in Nat /\ \A n \in Node : f[n] <= M
  BY Zenon, <1>4
<1> HIDE DEF S
<1> QED
  BY Zenon, <1>5, <1>6 DEF S

\* The files of the nodes of a running cluster.
LEMMA FileSaved == ASSUME NEW c \in Config, NEW i \in Node PROVE Saved(File(c, i))
<1> DEFINE M == Max({c.epoch[n] : n \in Node})
           E == IF i \in c.alone THEN c.epoch[i] ELSE M
           X(n) == [createClusterNode(TRUE, IF c.master[n] = NULL THEN "master" ELSE "slave") EXCEPT
                       !.slaveof = c.master[n], !.epoch = c.epoch[n],
                       !.health = IF n = i THEN "ok" ELSE c.health[n]]
           Y(n) == IF n # i /\ (i \in c.alone \/ n \in c.alone)
                   THEN createClusterNode(FALSE, "master") ELSE X(n)
           T == [n \in Node |-> Y(n)]
           K == [k \in Slot |-> IF c.owner[k] # i /\ (i \in c.alone \/ c.owner[k] \in c.alone)
                                THEN NULL ELSE c.owner[k]]
           f == File(c, i)
<1>1. f.currentEpoch = E /\ f.lastVoteEpoch = 0 /\ f.nodes = T /\ f.slots = K
  BY DEF File
<1> HIDE DEF f
<1>2. /\ \A n \in Node : c.epoch[n] \in Nat /\ c.master[n] \in Node \cup {NULL}
      /\ \A k \in Slot : c.owner[k] \in Node \cup {NULL}
  BY DEF Config
<1>3. M \in Nat /\ \A n \in Node : c.epoch[n] <= M
  <2> DEFINE g == c.epoch
  <2>1. \A n \in Node : g[n] \in Nat
    BY Zenon, <1>2
  <2> QED
    BY Zenon, <2>1, MaxOver
<1> HIDE DEF M
<1>4. E \in Nat /\ 0 <= E
  BY <1>2, <1>3
<1>5. ASSUME NEW n \in Node PROVE Entry(Y(n), E)
  <2>1. Entry(createClusterNode(FALSE, "master"), E)
    BY Zenon, <1>4, EntryNew
  <2>2. X(n).epoch = c.epoch[n] /\ X(n).slaveof = c.master[n] /\ {"epoch", "slaveof"} \subseteq DOMAIN X(n)
    BY DEF createClusterNode
  <2> HIDE DEF X
  <2>3. ~(n # i /\ (i \in c.alone \/ n \in c.alone)) => c.epoch[n] <= E
    BY <1>2, <1>3
  <2>4. ~(n # i /\ (i \in c.alone \/ n \in c.alone)) => Entry(X(n), E)
    BY Zenon, <1>2, <2>2, <2>3 DEF Entry
  <2> QED
    BY Zenon, <2>1, <2>4
<1> HIDE DEF Y
<1>6. Table(T, E)
  BY Zenon, <1>5 DEF Table
<1>7. K \in SlotMap
  BY <1>2 DEF SlotMap
<1> HIDE DEF E, T, K
<1>8. 0 \in Nat
  OBVIOUS
<1> QED
  <2>1. f.currentEpoch \in Nat /\ f.lastVoteEpoch \in Nat
    BY Zenon, <1>1, <1>4, <1>8
  <2>2. f.lastVoteEpoch <= f.currentEpoch
    BY <1>1, <1>4
  <2>3. Table(f.nodes, f.currentEpoch)
    BY Zenon, <1>1, <1>6
  <2>4. f.slots \in SlotMap
    BY Zenon, <1>1, <1>7
  <2> QED
    BY Zenon, <2>1, <2>2, <2>3, <2>4 DEF Saved, f

\* A node of a running cluster.
LEMMA RunningSound ==
  ASSUME NEW c \in Config, NEW i \in Node, NEW t, t = Running(c, i)
  PROVE  Sound(t) /\ t.name = i /\ Acks(t) = {}
<1> DEFINE keys == {k \in c.keys : c.owner[k] \in {i, c.master[i]}}
           f == File(c, i)
           a == clusterLoadConfig(i, f, keys, 1)
           b == [a EXCEPT !.boot = FALSE]
<1>1. t = clusterUpdateState(b)
  BY Zenon DEF Running
<1>2. Saved(f) /\ a = clusterLoadConfig(i, f, keys, 1)
  BY Zenon, FileSaved
<1> HIDE DEF keys, f, a
<1>3. Sound(a) /\ a.name = i /\ a.out = {}
  BY SMT, <1>2, LoadSound
<1>4. Fine(a, b)
  BY <1>3, OtherField DEF Core
<1> HIDE DEF b
<1>5. Fine(b, t)
  BY Zenon, <1>1, <1>4, FineSound, StateFine
<1>6. Fine(a, t)
  BY Zenon, <1>3, <1>4, <1>5, FineTrans
<1>7. Acks(a) = {}
  BY Zenon, <1>3 DEF Acks
<1> QED
  BY Zenon, <1>3, <1>6, <1>7 DEF Fine, Quiet

\* The invariant holds at the start.
LEMMA InitInv == Init => IInv
<1> SUFFICES ASSUME Init PROVE IInv
  OBVIOUS
<1>1. conf \in Configs /\ conf \in Config /\ pc = 1 /\ net = {} /\ votes = {}
  BY Zenon, ConfigAssumption DEF Init
<1>2. srv = [i \in Node |-> Running(conf, i)]
  BY Zenon DEF Init
<1>3. DOMAIN srv = Node /\ \A i \in Node : srv[i] = Running(conf, i)
  BY Zenon, <1>2
<1>4. ASSUME NEW i \in Node PROVE Sound(srv[i]) /\ srv[i].name = i /\ Acks(srv[i]) = {}
  BY Zenon, <1>1, <1>3, RunningSound
<1>5. \A i \in Node : Waiting(srv[i])
  BY Zenon, <1>4 DEF Waiting
<1>6. OneVote
  BY Zenon, <1>1 DEF OneVote
<1>7. pc \in Nat \ {0}
  BY <1>1
<1> QED
  BY Zenon, <1>1, <1>3, <1>4, <1>5, <1>6, <1>7 DEF IInv

\* What is in the file is not forgotten.
LEMMA FileGrows ==
  ASSUME NEW s, NEW t, Sound(s), Fine(s, t) \/ Voted(s, t)
  PROVE  Sound(t) /\ t.name = s.name /\ s.file.lastVoteEpoch <= t.file.lastVoteEpoch
<1>1. Sound(t) /\ t.name = s.name
  BY Zenon DEF Fine, Quiet, Voted
<1>2. /\ s.file.lastVoteEpoch \in Nat /\ s.file.lastVoteEpoch <= s.lastVoteEpoch
      /\ t.file.lastVoteEpoch \in Nat
  BY Zenon, <1>1 DEF Sound, Saved
<1>3. s.file.lastVoteEpoch <= t.file.lastVoteEpoch
  BY <1>2 DEF Fine, Quiet, Voted
<1> QED
  BY Zenon, <1>1, <1>3

\* A node that had no vote to send has one at most.
LEMMA StillWaiting ==
  ASSUME NEW s, NEW t, Sound(s), Acks(s) = {}, Fine(s, t) \/ Voted(s, t) PROVE Waiting(t)
<1>1. CASE Fine(s, t)
  <2>1. Acks(t) = {}
    BY Zenon, <1>1 DEF Fine, Quiet
  <2> QED
    BY Zenon, <2>1 DEF Waiting
<1>2. CASE Voted(s, t)
  <2>1. PICK a : Acks(t) = Acks(s) \cup {a} /\ a.currentEpoch = t.lastVoteEpoch
    BY Zenon, <1>2 DEF Voted
  <2>2. Acks(t) = {a}
    BY Zenon, <2>1
  <2>3. "save" \in t.todo
    BY Zenon, <1>2 DEF Voted
  <2>4. t.file.lastVoteEpoch < t.lastVoteEpoch
    <3>1. /\ t.file.lastVoteEpoch \in Nat /\ t.lastVoteEpoch \in Nat /\ s.lastVoteEpoch \in Nat
          /\ s.lastVoteEpoch < t.lastVoteEpoch /\ t.file.lastVoteEpoch <= s.lastVoteEpoch
      BY Zenon, <1>2 DEF Voted, Sound, Saved
    <3> QED
      BY <3>1
  <2> QED
    BY Zenon, <2>1, <2>2, <2>3, <2>4 DEF Waiting
<1> QED
  BY Zenon, <1>1, <1>2

\* A vote stays recorded while the epochs in the files grow.
LEMMA RecordedLater ==
  ASSUME NEW v, NEW S, NEW R, Recorded(v, S), \A i \in Node : Sound(S[i]) /\ Sound(R[i]),
         \A i \in Node : S[i].file.lastVoteEpoch <= R[i].file.lastVoteEpoch
  PROVE  Recorded(v, R)
<1> DEFINE i == v[1]
           e == v[2]
           f == S[i].file.lastVoteEpoch
           g == R[i].file.lastVoteEpoch
<1>1. i \in Node /\ e \in Nat /\ e <= f /\ f <= g
  BY Zenon DEF Recorded
<1>2. f \in Nat /\ g \in Nat
  BY Zenon, <1>1 DEF Sound, Saved
<1> HIDE DEF e, f, g
<1>3. e <= g
  BY <1>1, <1>2
<1> QED
  BY Zenon, <1>3 DEF Recorded, e, g

\* A step that handles an event: every node is left as a handler leaves it.
LEMMA Step ==
  ASSUME IInv, awake = NULL, DOMAIN srv' = Node,
         \A i \in Node : Fine(srv[i], srv'[i]) \/ Voted(srv[i], srv'[i]),
         \A i \in Node : awake' # i => Acks(srv'[i]) = {},
         votes' = votes, conf' = conf, pc' \in Nat \ {0}, net' \subseteq net
  PROVE  IInv'
<1>1. /\ conf \in Configs /\ \A m \in net : Packet(m)
      /\ \A v \in votes : Recorded(v, srv)
      /\ \A i \in Node : Sound(srv[i]) /\ srv[i].name = i
  BY Zenon DEF IInv
<1>2. \A i \in Node : Acks(srv[i]) = {}
  <2>1. ASSUME NEW i \in Node PROVE awake # i
    BY NodeAssumption DEF NULL
  <2> QED
    BY Zenon, <2>1 DEF IInv
<1>3. ASSUME NEW i \in Node
      PROVE  /\ Sound(srv'[i]) /\ srv'[i].name = i
             /\ srv[i].file.lastVoteEpoch <= srv'[i].file.lastVoteEpoch
  BY Zenon, <1>1, FileGrows
<1>4. \A i \in Node : Waiting(srv'[i])
  BY Zenon, <1>1, <1>2, StillWaiting
<1>5. \A v \in votes : Recorded(v, srv')
  BY ZenonT(60), <1>1, <1>3, RecordedLater
<1>6. OneVote'
  BY Zenon DEF IInv, OneVote
<1>7. \A m \in net' : Packet(m)
  BY Zenon, <1>1
<1> QED
  BY Zenon, <1>1, <1>3, <1>4, <1>5, <1>6, <1>7 DEF IInv

\* One node handles an event.
LEMMA StepOf ==
  ASSUME IInv, awake = NULL, NEW i \in Node, NEW t, Fine(srv[i], t) \/ Voted(srv[i], t),
         srv' = [srv EXCEPT ![i] = t], awake' = i \/ Acks(t) = {},
         votes' = votes, conf' = conf, pc' \in Nat \ {0}, net' \subseteq net
  PROVE  IInv'
<1>1. DOMAIN srv = Node /\ \A j \in Node : Sound(srv[j])
  BY Zenon DEF IInv
<1>2. \A j \in Node : Acks(srv[j]) = {}
  <2>1. ASSUME NEW j \in Node PROVE awake # j
    BY NodeAssumption DEF NULL
  <2> QED
    BY Zenon, <2>1 DEF IInv
<1>3. DOMAIN srv' = Node /\ srv'[i] = t /\ \A j \in Node \ {i} : srv'[j] = srv[j]
  BY Zenon, <1>1
<1>4. \A j \in Node : Fine(srv[j], srv'[j]) \/ Voted(srv[j], srv'[j])
  BY Zenon, <1>1, <1>3, FineRefl
<1>5. \A j \in Node : awake' # j => Acks(srv'[j]) = {}
  BY Zenon, <1>2, <1>3
<1> QED
  BY Zenon, <1>3, <1>4, <1>5, Step

\* One node changes and nothing is sent.
LEMMA QuietStep ==
  ASSUME IInv, awake = NULL, NEW i \in Node, NEW t, Fine(srv[i], t),
         srv' = [srv EXCEPT ![i] = t], awake' = awake,
         votes' = votes, conf' = conf, pc' = pc, net' = net
  PROVE  IInv'
<1>1. Acks(srv[i]) = {} /\ pc \in Nat \ {0}
  <2>1. awake # i
    BY NodeAssumption DEF NULL
  <2> QED
    BY Zenon, <2>1 DEF IInv
<1>2. Acks(t) = {}
  BY Zenon, <1>1 DEF Fine, Quiet
<1>3. net' \subseteq net /\ pc' \in Nat \ {0}
  BY Zenon, <1>1
<1> QED
  BY Zenon, <1>2, <1>3, StepOf

\* One node handles an event and is about to sleep.
LEMMA HandledStep ==
  ASSUME IInv, awake = NULL, NEW i \in Node, NEW t, Fine(srv[i], t) \/ Voted(srv[i], t),
         Handled(i, t), pc' \in Nat \ {0}, net' \subseteq net
  PROVE  IInv'
<1>1. /\ srv' = [srv EXCEPT ![i] = t] /\ conf' = conf /\ votes' = votes
      /\ awake' = IF t.todo = {} /\ t.out = {} THEN NULL ELSE i
  BY Zenon DEF Handled
<1>2. awake' = i \/ Acks(t) = {}
  BY Zenon, <1>1 DEF Acks
<1> QED
  BY Zenon, <1>1, <1>2, StepOf

\* A packet is read.
LEMMA ReadStep == ASSUME IInv, NEW i \in Node, clusterReadHandler(i) PROVE IInv'
<1>1. PICK m \in net : \E long, soon \in BOOLEAN :
         Handled(i, clusterProcessPacket(srv[i], m, long, soon)) /\ net' = net \ {m}
  BY Zenon DEF clusterReadHandler
<1>2. PICK long \in BOOLEAN, soon \in BOOLEAN :
         Handled(i, clusterProcessPacket(srv[i], m, long, soon)) /\ net' = net \ {m}
  BY Zenon, <1>1
<1> DEFINE t == clusterProcessPacket(srv[i], m, long, soon)
<1>3. awake = NULL /\ pc' = pc
  BY Zenon DEF clusterReadHandler, Ready
<1>4. Sound(srv[i]) /\ Packet(m) /\ pc \in Nat \ {0}
  BY Zenon DEF IInv
<1>5. Fine(srv[i], t) \/ Voted(srv[i], t)
  BY Zenon, <1>4, PacketFine
<1>6. Handled(i, t) /\ net' \subseteq net
  BY Zenon, <1>2
<1> HIDE DEF t
<1> QED
  BY Zenon, <1>3, <1>4, <1>5, <1>6, HandledStep

\* The three forms of the timer.
LEMMA CronStep ==
  ASSUME IInv, NEW i \in Node, PingCron(i) \/ LateCron(i) \/ Cron(i) PROVE IInv'
<1>1. awake = NULL /\ net' = net /\ pc' = pc
  BY Zenon DEF PingCron, LateCron, Cron, Ready
<1>2. Sound(srv[i]) /\ pc \in Nat \ {0}
  BY Zenon DEF IInv
<1>3. \E t : Fine(srv[i], t) /\ Handled(i, t)
  <2>1. CASE PingCron(i)
    BY Zenon, <1>2, <2>1, CronFine DEF PingCron
  <2>2. CASE LateCron(i)
    BY Zenon, <1>2, <2>2, CronFine DEF LateCron
  <2>3. CASE Cron(i)
    <3>1. \E over, ripe \in BOOLEAN, target \in Orphaned(srv[i]) \cup {NULL},
             gone \in SUBSET srv[i].handshake :
             Handled(i, clusterCron(srv[i], NULL, {}, gone, over, target, ripe))
      BY Zenon, <2>3 DEF Cron
    <3> QED
      BY Zenon, <1>2, <3>1, CronFine
  <2> QED
    BY Zenon, <2>1, <2>2, <2>3
<1>4. net' \subseteq net /\ pc' \in Nat \ {0}
  BY Zenon, <1>1, <1>2
<1> QED
  BY Zenon, <1>1, <1>3, <1>4, HandledStep

\* A packet with a vote leaves only after the vote is in the file.
LEMMA beforeSleepStep == ASSUME IInv, NEW i \in Node, beforeSleep(i) PROVE IInv'
<1> DEFINE s == srv[i]
           t == clusterBeforeSleep(s)
           u == [t EXCEPT !.out = {}]
<1>1. /\ awake = i /\ awake' = NULL /\ conf' = conf /\ pc' = pc
      /\ srv' = [srv EXCEPT ![i] = u]
      /\ net' = net \cup {m \in t.out : m.to \in up}
      /\ votes' = votes \cup {<<i, m.currentEpoch, m.to>> : m \in Acks(t)}
  BY Zenon DEF beforeSleep, Asleep, Acks
<1>2. /\ DOMAIN srv = Node /\ \A j \in Node : Sound(srv[j]) /\ srv[j].name = j
      /\ Waiting(s) /\ conf \in Configs /\ pc \in Nat \ {0} /\ OneVote
      /\ \A m \in net : Packet(m)
      /\ \A v \in votes : Recorded(v, srv)
  BY Zenon DEF IInv
<1>3. /\ Sound(t) /\ t.name = s.name /\ t.lastVoteEpoch = s.lastVoteEpoch /\ Acks(t) = Acks(s)
      /\ s.file.lastVoteEpoch <= t.file.lastVoteEpoch
      /\ "save" \in s.todo => t.file.lastVoteEpoch = t.lastVoteEpoch
  BY Zenon, <1>2, SleepFine
<1> HIDE DEF t
<1>4. /\ DOMAIN u = DOMAIN t /\ u.name = t.name /\ u.currentEpoch = t.currentEpoch
      /\ u.lastVoteEpoch = t.lastVoteEpoch /\ u.auth_epoch = t.auth_epoch /\ u.nodes = t.nodes
      /\ u.slots = t.slots /\ u.file = t.file /\ u.out = {}
  BY <1>3 DEF Sound, Shaped, Core
<1> HIDE DEF u
<1>5. Sound(u)
  BY Zenon, <1>3, <1>4 DEF Sound, Shaped
<1>6. Acks(u) = {}
  BY Zenon, <1>4 DEF Acks
<1>7. DOMAIN srv' = Node /\ srv'[i] = u /\ \A j \in Node \ {i} : srv'[j] = srv[j]
  BY Zenon, <1>1, <1>2
<1>8. /\ \A j \in Node : Sound(srv[j]) /\ Sound(srv'[j]) /\ srv'[j].name = j
      /\ \A j \in Node : Acks(srv'[j]) = {}
  <2>1. \A j \in Node \ {i} : Acks(srv[j]) = {}
    BY Zenon, <1>1 DEF IInv
  <2> QED
    BY ZenonT(60), <1>2, <1>3, <1>4, <1>5, <1>6, <1>7, <2>1
<1>9. \A j \in Node : srv[j].file.lastVoteEpoch <= srv'[j].file.lastVoteEpoch
  <2>1. \A j \in Node : srv[j].file.lastVoteEpoch \in Nat
    BY Zenon, <1>2 DEF Sound, Saved
  <2>2. \A e \in Nat : e <= e
    OBVIOUS
  <2> QED
    BY Zenon, <1>3, <1>4, <1>7, <2>1, <2>2
<1>10. \A v \in votes : Recorded(v, srv')
  BY ZenonT(60), <1>2, <1>8, <1>9, RecordedLater
<1>11. ASSUME NEW a \in Acks(t)
       PROVE  /\ a.currentEpoch = s.lastVoteEpoch /\ u.file.lastVoteEpoch = s.lastVoteEpoch
              /\ s.file.lastVoteEpoch < s.lastVoteEpoch /\ \A b \in Acks(t) : b = a
  BY Zenon, <1>2, <1>3, <1>4, <1>11 DEF Waiting
<1>12. s.lastVoteEpoch \in Nat /\ s.file.lastVoteEpoch \in Nat /\ s.lastVoteEpoch <= s.lastVoteEpoch
  BY <1>2 DEF Sound, Saved
<1>13. ASSUME NEW a \in Acks(t) PROVE Recorded(<<i, a.currentEpoch, a.to>>, srv')
  <2>1. a.currentEpoch = s.lastVoteEpoch /\ u.file.lastVoteEpoch = s.lastVoteEpoch
    BY Zenon, <1>11
  <2> DEFINE v == <<i, a.currentEpoch, a.to>>
  <2>2. v[1] = i /\ v[2] = a.currentEpoch /\ v[3] = a.to
    OBVIOUS
  <2>3. v = <<v[1], v[2], v[3]>>
    BY Zenon, <2>2
  <2> HIDE DEF v
  <2>4. Recorded(v, srv')
    BY Zenon, <1>7, <1>12, <2>1, <2>2, <2>3 DEF Recorded
  <2> QED
    BY Zenon, <2>4 DEF v
<1>14. \A v \in votes' : Recorded(v, srv')
  BY Zenon, <1>1, <1>10, <1>13
<1>15. OneVote'
  <2> DEFINE V == {<<i, m.currentEpoch, m.to>> : m \in Acks(t)}
  <2>1. ASSUME NEW v \in V, NEW w \in V PROVE v = w
    <3>1. PICK a \in Acks(t) : v = <<i, a.currentEpoch, a.to>>
      BY Zenon
    <3>2. PICK b \in Acks(t) : w = <<i, b.currentEpoch, b.to>>
      BY Zenon
    <3> QED
      BY Zenon, <1>11, <3>1, <3>2
  <2>2. ASSUME NEW v \in V, NEW w \in votes PROVE ~(v[1] = w[1] /\ v[2] = w[2])
    <3>1. PICK a \in Acks(t) : v = <<i, a.currentEpoch, a.to>>
      BY Zenon
    <3>2. v[1] = i /\ v[2] = s.lastVoteEpoch /\ s.file.lastVoteEpoch < s.lastVoteEpoch
      BY <1>11, <3>1
    <3>3. w[2] \in Nat /\ w[2] <= srv[w[1]].file.lastVoteEpoch
      BY Zenon, <1>2 DEF Recorded
    <3>4. w[1] = i => w[2] <= s.file.lastVoteEpoch
      BY Zenon, <3>3
    <3> HIDE DEF s
    <3>5. w[1] = i => w[2] # s.lastVoteEpoch
      BY SMTT(30), <1>12, <3>2, <3>3, <3>4
    <3> QED
      BY Zenon, <3>2, <3>5
  <2>3. votes' = votes \cup V
    BY Zenon, <1>1
  <2> HIDE DEF V
  <2> QED
    BY Zenon, <1>2, <2>1, <2>2, <2>3 DEF OneVote
<1>16. \A m \in net' : Packet(m)
  BY Zenon, <1>1, <1>2, <1>3 DEF Sound
<1>17. \A j \in Node : Waiting(srv'[j])
  BY Zenon, <1>8 DEF Waiting
<1> QED
  BY Zenon, <1>1, <1>2, <1>7, <1>8, <1>14, <1>15, <1>16, <1>17 DEF IInv

\* Steps that change only what has no part in elections.
LEMMA TickStep == ASSUME IInv, NEW i \in Node, Tick(i) PROVE IInv'
<1> DEFINE next == [none |-> "none", delay |-> "open", open |-> "expired", expired |-> "none"]
           v == next[srv[i].stage]
           t == [srv[i] EXCEPT !.stage = v]
<1>1. /\ awake = NULL /\ srv' = [srv EXCEPT ![i] = t] /\ awake' = awake /\ conf' = conf
      /\ votes' = votes /\ pc' = pc /\ net' = net
  BY Zenon DEF Tick, Ready
<1>2. Sound(srv[i]) /\ pc \in Nat \ {0}
  BY Zenon DEF IInv
<1> HIDE DEF v
<1>3. Fine(srv[i], t)
  BY <1>2, OtherField DEF Core
<1> HIDE DEF t
<1> QED
  BY Zenon, <1>1, <1>2, <1>3, QuietStep

\* A report or an entry of the blacklist gets old.
LEMMA ExpireStep == ASSUME IInv, NEW i \in Node, Expire(i) PROVE IInv'
<1>1. /\ awake = NULL /\ awake' = awake /\ conf' = conf /\ votes' = votes /\ pc' = pc /\ net' = net
  BY Zenon DEF Expire, Ready
<1>2. Sound(srv[i]) /\ pc \in Nat \ {0}
  BY Zenon DEF IInv
<1>3. \E t : Fine(srv[i], t) /\ srv' = [srv EXCEPT ![i] = t]
  <2>1. ASSUME NEW n, NEW x, srv' = [srv EXCEPT ![i].nodes[n].reports = @ \ {x}]
        PROVE  \E t : Fine(srv[i], t) /\ srv' = [srv EXCEPT ![i] = t]
    <3> DEFINE v == srv[i].nodes[n].reports \ {x}
               t == [srv[i] EXCEPT !.nodes[n].reports = v]
    <3>1. srv' = [srv EXCEPT ![i] = t]
      BY Zenon, <2>1
    <3> HIDE DEF v
    <3>2. Fine(srv[i], t)
      BY Zenon, <1>2, FlagFine
    <3> HIDE DEF t
    <3> QED
      BY Zenon, <3>1, <3>2
  <2>2. ASSUME NEW n, srv' = [srv EXCEPT ![i].blacklist = @ \ {n}]
        PROVE  \E t : Fine(srv[i], t) /\ srv' = [srv EXCEPT ![i] = t]
    <3> DEFINE v == srv[i].blacklist \ {n}
               t == [srv[i] EXCEPT !.blacklist = v]
    <3>1. srv' = [srv EXCEPT ![i] = t]
      BY Zenon, <2>2
    <3> HIDE DEF v
    <3>2. Fine(srv[i], t)
      BY <1>2, OtherField DEF Core
    <3> HIDE DEF t
    <3> QED
      BY Zenon, <3>1, <3>2
  <2>3. \/ \E n, x : srv' = [srv EXCEPT ![i].nodes[n].reports = @ \ {x}]
        \/ \E n : srv' = [srv EXCEPT ![i].blacklist = @ \ {n}]
    BY Zenon DEF Expire
  <2> QED
    BY Zenon, <2>1, <2>2, <2>3
<1> QED
  BY Zenon, <1>1, <1>2, <1>3, QuietStep

\* The delays after a start end.
LEMMA SettleStep == ASSUME IInv, NEW i \in Node, Settle(i) PROVE IInv'
<1> DEFINE t == [srv[i] EXCEPT !.boot = FALSE, !.minority = FALSE]
<1>1. /\ awake = NULL /\ srv' = [srv EXCEPT ![i].boot = FALSE, ![i].minority = FALSE]
      /\ awake' = awake /\ conf' = conf /\ votes' = votes /\ pc' = pc /\ net' = net
  BY Zenon DEF Settle, Ready
<1>2. DOMAIN srv = Node /\ Sound(srv[i]) /\ pc \in Nat \ {0}
  BY Zenon DEF IInv
<1>3. srv' = [srv EXCEPT ![i] = t]
  BY Zenon, <1>1, <1>2
<1>4. Same(srv[i], t)
  BY <1>2 DEF Same, Sound, Shaped, Core
<1> HIDE DEF t
<1>5. Fine(srv[i], t)
  BY Zenon, <1>2, <1>4, SameFine
<1> QED
  BY Zenon, <1>1, <1>2, <1>3, <1>5, QuietStep

\* A client writes.
LEMMA WriteStep == ASSUME IInv, NEW i \in Node, Write(i) PROVE IInv'
<1> DEFINE v == srv[i].offset + 1
           t == [srv[i] EXCEPT !.offset = v]
<1>1. /\ awake = NULL /\ srv' = [srv EXCEPT ![i] = t] /\ awake' = awake /\ conf' = conf
      /\ votes' = votes /\ pc' = pc /\ net' = net
  BY Zenon DEF Write, Ready
<1>2. Sound(srv[i]) /\ pc \in Nat \ {0}
  BY Zenon DEF IInv
<1> HIDE DEF v
<1>3. Fine(srv[i], t)
  BY <1>2, OtherField DEF Core
<1> HIDE DEF t
<1> QED
  BY Zenon, <1>1, <1>2, <1>3, QuietStep

\* A slave gets a write.
LEMMA ReplicateStep == ASSUME IInv, NEW i \in Node, Replicate(i) PROVE IInv'
<1> DEFINE m == srv[i].nodes[i].slaveof
           o == srv[m].offset
           K == srv[m].keys
           t == [srv[i] EXCEPT !.offset = o, !.keys = K]
<1>1. /\ awake = NULL /\ srv' = [srv EXCEPT ![i].offset = o, ![i].keys = K]
      /\ awake' = awake /\ conf' = conf /\ votes' = votes /\ pc' = pc /\ net' = net
  BY Zenon DEF Replicate, Ready
<1>2. DOMAIN srv = Node /\ Sound(srv[i]) /\ pc \in Nat \ {0}
  BY Zenon DEF IInv
<1> HIDE DEF o, K
<1>3. srv' = [srv EXCEPT ![i] = t]
  BY Zenon, <1>1, <1>2
<1>4. Same(srv[i], t)
  BY SMTT(30), <1>2 DEF Same, Sound, Shaped, Core
<1> HIDE DEF t
<1>5. Fine(srv[i], t)
  BY Zenon, <1>2, <1>4, SameFine
<1> QED
  BY Zenon, <1>1, <1>2, <1>3, <1>5, QuietStep

\* A process starts.
LEMMA RestartStep == ASSUME IInv, NEW i \in Node, Restart(i) PROVE IInv'
<1> DEFINE t == verifyClusterConfigWithData(srv[i])
<1>1. /\ awake = NULL /\ srv' = [srv EXCEPT ![i] = t] /\ awake' = awake /\ conf' = conf
      /\ votes' = votes /\ pc' = pc /\ net' = net
  BY Zenon DEF Restart
<1>2. Sound(srv[i]) /\ pc \in Nat \ {0}
  BY Zenon DEF IInv
<1>3. Fine(srv[i], t)
  BY Zenon, <1>2, VerifyFine
<1> HIDE DEF t
<1> QED
  BY Zenon, <1>1, <1>2, <1>3, QuietStep

\* A crash: a vote that was sent is in the file, one that was not is forgotten with the
\* packet.
LEMMA CrashStep == ASSUME IInv, NEW i \in Node, Crash(i) PROVE IInv'
<1> DEFINE s == srv[i]
           f == s.file
           K == s.keys
           o == s.offset
           a == clusterLoadConfig(i, f, K, o)
           el == s.elected
           t == [a EXCEPT !.elected = el]
<1>1. /\ awake \in {NULL, i} /\ srv' = [srv EXCEPT ![i] = t]
      /\ awake' = NULL /\ conf' = conf /\ votes' = votes /\ net' \subseteq net
      /\ pc' = pc \/ pc' = Len(conf.script) + 1
  BY Zenon DEF Crash
<1>2. /\ DOMAIN srv = Node /\ \A j \in Node : Sound(srv[j]) /\ srv[j].name = j
      /\ conf \in Configs /\ pc \in Nat \ {0} /\ OneVote
      /\ \A m \in net : Packet(m)
      /\ \A v \in votes : Recorded(v, srv)
  BY Zenon DEF IInv
<1>3. \A j \in Node \ {i} : Acks(srv[j]) = {}
  <2>1. ASSUME NEW j \in Node \ {i} PROVE awake # j
    BY <1>1, NodeAssumption DEF NULL
  <2> QED
    BY Zenon, <2>1 DEF IInv
<1>4. Saved(f) /\ a = clusterLoadConfig(i, f, K, o)
  BY Zenon, <1>2 DEF Sound
<1> HIDE DEF f, K, o, a, el
<1>5. Sound(a) /\ a.name = i /\ a.file = f /\ a.out = {}
  BY SMT, <1>4, LoadSound
<1>6. Same(a, t)
  BY <1>5 DEF Same, Sound, Shaped, Core
<1> HIDE DEF t
<1>7. Fine(a, t)
  BY Zenon, <1>5, <1>6, SameFine
<1>8. Sound(t) /\ t.name = i /\ t.file = s.file /\ Acks(t) = {}
  BY Zenon, <1>5, <1>6, <1>7, FineSound DEF Same, Acks, f
<1>9. DOMAIN srv' = Node /\ srv'[i] = t /\ \A j \in Node \ {i} : srv'[j] = srv[j]
  BY Zenon, <1>1, <1>2
<1>10. /\ \A j \in Node : Sound(srv[j]) /\ Sound(srv'[j]) /\ srv'[j].name = j
       /\ \A j \in Node : Acks(srv'[j]) = {}
       /\ \A j \in Node : srv'[j].file = srv[j].file
  BY ZenonT(60), <1>2, <1>3, <1>8, <1>9
<1>11. \A v \in votes' : Recorded(v, srv')
  BY Zenon, <1>1, <1>2, <1>10 DEF Recorded
<1>12. OneVote' /\ \A m \in net' : Packet(m)
  BY Zenon, <1>1, <1>2 DEF OneVote
<1>13. \A j \in Node : Waiting(srv'[j])
  BY Zenon, <1>10 DEF Waiting
<1>14. pc' \in Nat \ {0}
  <2>1. conf.script \in Seq([node : Node, op : STRING, slot : Slot, arg : Node \cup {NULL}])
    BY Zenon, <1>2, ConfigAssumption DEF Config
  <2>2. Len(conf.script) \in Nat
    BY <2>1
  <2> QED
    BY <1>1, <1>2, <2>2
<1> QED
  BY Zenon, <1>1, <1>2, <1>9, <1>10, <1>11, <1>12, <1>13, <1>14 DEF IInv

\* A command of the administrator, or a key that moves.
LEMMA AdminStep == ASSUME IInv, Admin PROVE IInv'
<1> DEFINE c == conf.script[pc]
           i == c.node
<1>1. /\ pc <= Len(conf.script) /\ awake = NULL /\ net' = net
      /\ \/ migrateCommand(c)
         \/ Handled(i, clusterCommand(srv[i], c)) /\ pc' = pc + 1
  BY Zenon DEF Admin, Ready
<1>2. /\ conf \in Config /\ pc \in Nat \ {0} /\ DOMAIN srv = Node
      /\ \A j \in Node : Sound(srv[j])
  BY Zenon, ConfigAssumption DEF IInv
<1>3. conf.script \in Seq([node : Node, op : STRING, slot : Slot, arg : Node \cup {NULL}])
  BY Zenon, <1>2 DEF Config
<1>4. pc \in 1..Len(conf.script) /\ Len(conf.script) \in Nat
  BY <1>1, <1>2, <1>3
<1>5. c \in [node : Node, op : STRING, slot : Slot, arg : Node \cup {NULL}]
  <2>1. ASSUME NEW S, NEW q \in Seq(S), NEW n \in 1..Len(q) PROVE q[n] \in S
    OBVIOUS
  <2> QED
    BY Zenon, <1>3, <1>4, <2>1
<1>6. i \in Node /\ c.arg \in Node \cup {NULL}
  BY <1>5
<1>7. pc + 1 \in Nat \ {0} /\ Len(conf.script) + 1 \in Nat \ {0}
  BY <1>2, <1>4
<1> HIDE DEF c
<1>8. CASE Handled(i, clusterCommand(srv[i], c)) /\ pc' = pc + 1
  <2> DEFINE t == clusterCommand(srv[i], c)
  <2>1. Fine(srv[i], t)
    BY Zenon, <1>2, <1>6, CommandFine
  <2>2. Handled(i, t)
    BY Zenon, <1>8
  <2>3. pc' \in Nat \ {0} /\ net' \subseteq net
    BY Zenon, <1>1, <1>7, <1>8
  <2> HIDE DEF t
  <2> QED
    BY Zenon, <1>1, <1>6, <2>1, <2>2, <2>3, HandledStep
<1>9. CASE migrateCommand(c)
  <2> DEFINE j == c.arg
             k == c.slot
             A == srv[i].keys \ {k}
             one == [srv EXCEPT ![i].keys = A]
  <2>1. /\ conf' = conf /\ votes' = votes /\ awake' = awake
        /\ pc' = pc + 1 \/ pc' = Len(conf.script) + 1
        /\ \/ srv' = [srv EXCEPT ![i].keys = @ \ {k}, ![j].keys = @ \cup {k}]
           \/ srv' = [srv EXCEPT ![j].keys = @ \cup {k}]
           \/ srv' = srv
    BY Zenon, <1>9 DEF migrateCommand
  <2>2. DOMAIN srv' = Node /\ \A n \in Node : \E K : srv'[n] = srv[n] \/ srv'[n] = [srv[n] EXCEPT !.keys = K]
    <3>1. CASE srv' = srv
      BY Zenon, <1>2, <3>1
    <3>2. ASSUME NEW S, DOMAIN S = Node, NEW n, NEW K
          PROVE  LET R == [S EXCEPT ![n].keys = K]
                 IN DOMAIN R = Node /\ \A x \in Node : R[x] = S[x] \/ R[x] = [S[x] EXCEPT !.keys = K]
      BY <3>2
    <3>3. CASE srv' = [srv EXCEPT ![j].keys = @ \cup {k}]
      <4> DEFINE K == srv[j].keys \cup {k}
      <4>1. srv' = [srv EXCEPT ![j].keys = K]
        BY Zenon, <3>3
      <4> HIDE DEF K
      <4> QED
        BY Zenon, <1>2, <3>2, <4>1
    <3>4. CASE srv' = [srv EXCEPT ![i].keys = @ \ {k}, ![j].keys = @ \cup {k}]
      <4> DEFINE K == one[j].keys \cup {k}
      <4>1. srv' = [one EXCEPT ![j].keys = K]
        BY Zenon, <3>4
      <4>2. DOMAIN one = Node /\ \A x \in Node : one[x] = srv[x] \/ one[x] = [srv[x] EXCEPT !.keys = A]
        BY Zenon, <1>2, <3>2
      <4> HIDE DEF K, one, A
      <4>3. DOMAIN srv' = Node /\ \A x \in Node : srv'[x] = one[x] \/ srv'[x] = [one[x] EXCEPT !.keys = K]
        BY Zenon, <3>2, <4>1, <4>2
      <4>4. ASSUME NEW x PROVE [[srv[x] EXCEPT !.keys = A] EXCEPT !.keys = K] = [srv[x] EXCEPT !.keys = K]
        BY Zenon
      <4> QED
        BY Zenon, <4>2, <4>3, <4>4
    <3> QED
      BY Zenon, <2>1, <3>1, <3>3, <3>4
  <2>3. ASSUME NEW n \in Node PROVE Fine(srv[n], srv'[n])
    <3>1. PICK K : srv'[n] = srv[n] \/ srv'[n] = [srv[n] EXCEPT !.keys = K]
      BY Zenon, <2>2
    <3>2. Fine(srv[n], [srv[n] EXCEPT !.keys = K])
      BY <1>2, OtherField DEF Core
    <3> QED
      BY Zenon, <1>2, <3>1, <3>2, FineRefl
  <2>4. \A n \in Node : awake' # n => Acks(srv'[n]) = {}
    <3>1. ASSUME NEW n \in Node PROVE awake # n
      BY <1>1, NodeAssumption DEF NULL
    <3> QED
      BY Zenon, <2>3, <3>1 DEF IInv, Fine, Quiet
  <2>5. net' \subseteq net /\ pc' \in Nat \ {0}
    BY Zenon, <1>1, <1>7, <2>1
  <2> QED
    BY Zenon, <1>1, <2>1, <2>2, <2>3, <2>4, <2>5, Step
<1> QED
  BY Zenon, <1>1, <1>8, <1>9

-----------------------------------------------------------------------------
(* The invariant is inductive. *)

\* Every step keeps the invariant.
LEMMA NextInv == IInv /\ [Next]_vars => IInv'
<1> SUFFICES ASSUME IInv, [Next]_vars PROVE IInv'
  BY Zenon
<1>1. CASE UNCHANGED vars
  BY Zenon, <1>1 DEF vars, IInv, OneVote
<1>2. CASE Admin
  BY Zenon, <1>2, AdminStep
<1>3. ASSUME NEW i \in Node,
             \/ clusterReadHandler(i) \/ PingCron(i) \/ LateCron(i) \/ Cron(i) \/ beforeSleep(i)
             \/ Tick(i) \/ Expire(i) \/ Settle(i) \/ Crash(i) \/ Restart(i)
             \/ Write(i) \/ Replicate(i)
      PROVE  IInv'
  BY ZenonT(60), <1>3, ReadStep, CronStep, beforeSleepStep, TickStep, ExpireStep, SettleStep, CrashStep,
     RestartStep, WriteStep, ReplicateStep
<1> QED
  BY Zenon, <1>1, <1>2, <1>3 DEF Next

\* The invariant holds always.
LEMMA Inductive == Spec => []IInv
<1>1. Init => IInv
  BY InitInv
<1>2. IInv /\ [Next]_vars => IInv'
  BY NextInv
<1> QED
  BY <1>1, <1>2, PTL DEF Spec

\* A master votes once in an epoch, whatever packets are lost, repeated or late, whatever
\* commands are given to it, and also when it crashes after it has voted and starts again
\* (clusterSendFailoverAuthIfNeeded, clusterBeforeSleep, clusterLoadConfig).
THEOREM ClusterOneVote == Spec => []OneVote
<1>1. IInv => OneVote
  BY Zenon DEF IInv
<1> QED
  BY <1>1, Inductive, PTL

\* No node knows of a configuration that is newer than its own epoch, has voted in an
\* epoch that it has not reached, or tells of one.
THEOREM ClusterEpochsBounded == Spec => []EpochsBounded
<1>1. IInv => EpochsBounded
  <2> SUFFICES ASSUME IInv PROVE EpochsBounded
    BY Zenon
  <2>1. /\ \A i \in Node : Sound(srv[i])
        /\ \A m \in net : Packet(m)
    BY Zenon DEF IInv
  <2> QED
    BY Zenon, <2>1 DEF EpochsBounded, Sound, Table, Entry, Packet
<1> QED
  BY <1>1, Inductive, PTL

=============================================================================
