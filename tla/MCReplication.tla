--------------------------- MODULE MCReplication ---------------------------
(***************************************************************************)
(* Model checking instances of Replication, with what it promises about    *)
(* the datasets of the instances: an id and an offset name one state of    *)
(* one history, and a slave that is fed is on the way to the dataset of    *)
(* its master.                                                             *)
(***************************************************************************)
EXTENDS Replication, SequencesExt

\* n has the dataset its id and offset stand for (not so after a full
\* resynchronisation began and before it ended).
HasHistory(n) == masterhost[n] = NULL \/ master[n] # NULL \/ cached_master[n] # NULL

\* An id names one history: of two instances with the same replication id
\* the one with the smaller offset has a prefix of the other's dataset.
SameHistory ==
  \A m, n \in Node :
    (/\ replid[m] = replid[n] /\ HasHistory(m) /\ HasHistory(n)
     /\ master_repl_offset[m] <= master_repl_offset[n]) => IsPrefix(data[m], data[n])

\* The second id is only honoured as far as the histories agree: an instance
\* that could continue with it has a prefix of our dataset.
SecondHistory ==
  \A m, n \in Node :
    (/\ replid2[m] = replid[n] /\ repl_backlog[m] # NULL /\ HasHistory(n)
     /\ master_repl_offset[n] < second_replid_offset[m]) => IsPrefix(data[n], data[m])

\* What s will have once it has applied everything in flight to it.
InFlight(s) == SelectSeq(link[s].chan, InStream)
Expected(s) == FoldLeft(Execute, Reached(s), InFlight(s)).data

\* A slave that is fed by its master, possibly chained, is on the way to the
\* master's dataset: nothing lost, nothing twice, every write in the database
\* it was made in, whatever resynchronisation, promotion or restart happened.
FeedIsComplete ==
  \A m, s \in Node :
    (Attached(m, s) /\ slaves[m][s].st = "online" /\ repl_state[s] = "CONNECTED") =>
       /\ master_repl_offset[s] + Len(master[s].mstate.queue) + Len(InFlight(s)) = master_repl_offset[m]
       /\ Expected(s) = data[m]

-----------------------------------------------------------------------------

Symmetry == Permutations(Node)

Times(n, S) == [k \in S |-> n]
Only(f) == f @@ [k \in Event |-> 0]

(***************************************************************************)
(* A reachable state to start from: up gives every instance its master, all *)
(* have synchronised, nothing was written and nothing is on its way.        *)
(***************************************************************************)
Settled(up) ==
  LET id  == Cardinality(Node) + 1
      top(n) == up[n] = NULL
  IN
  /\ masterhost = up
  /\ repl_state = [n \in Node |-> IF top(n) THEN "NONE" ELSE "CONNECTED"]
  /\ replid = [n \in Node |-> id]
  /\ replid2 = [n \in Node |-> NoId]
  /\ second_replid_offset = [n \in Node |-> -1]
  /\ master_repl_offset = [n \in Node |-> 0]
  /\ repl_backlog = [n \in Node |-> createReplicationBacklog(0)]
  /\ slaveseldb = [n \in Node |-> -1]
  /\ data = [n \in Node |-> <<>>]
  /\ master = [n \in Node |-> IF top(n) THEN NULL
                              ELSE [id |-> id, off |-> 0, db |-> 0, mstate |-> NoTxn]]
  /\ cached_master = [n \in Node |-> NULL]
  /\ initial = [n \in Node |-> IF top(n) THEN [id |-> NoId, off |-> -1]
                               ELSE [id |-> id, off |-> 0]]
  /\ slaves = [n \in Node |-> [s \in Node |-> IF up[s] = n
                                              THEN [NoClient EXCEPT !.st = "online"]
                                              ELSE NoClient]]
  /\ link = [n \in Node |-> IF top(n) THEN NoLink ELSE [NoLink EXCEPT !.st = "open"]]
  /\ rdb_child = [n \in Node |-> NULL]
  /\ rdb_file = [n \in Node |-> [EmptyRdb EXCEPT !.replid = id, !.db = 0]]
  /\ nextId = id + 1
  /\ nextWrite = 1
  /\ used = [k \in Event |-> 0]

\* A master and its slaves; a chain of three instances.
Star  == \E m \in Node : Settled([n \in Node |-> IF n = m THEN NULL ELSE m])
Chain == \E m, s, t \in Node : Cardinality({m, s, t}) = 3 /\ Settled(m :> NULL @@ s :> m @@ t :> s)
\* The administrator configures no ring: following the masters from any
\* instance ends at one that has none.
NoRing ==
  LET top[k \in 0..Cardinality(Node), n \in Node \cup {NULL}] ==
        IF n = NULL THEN TRUE ELSE k > 0 /\ top[k - 1, masterhost[n]]
  IN \A n \in Node : top[Cardinality(Node), n]

-----------------------------------------------------------------------------
(***************************************************************************)
(* A run covers several scenarios.  A scenario says how often each event   *)
(* may happen; Budget is the upper bound of all scenarios of the run, and  *)
(* the constraint keeps to the states within one of them.                  *)
(***************************************************************************)
Within(scenarios) == \E s \in scenarios : \A k \in Event : used[k] <= s[k]

Most(scenarios) ==
  [k \in Event |-> LET n == {s[k] : s \in scenarios} IN CHOOSE m \in n : \A i \in n : i <= m]

\* Two instances: resynchronisations after lost links, with transactions and two
\* databases, the client of the master cached or not; restarts from an RDB file;
\* failing saves and loads, backlogs resized or freed.
PairScenarios ==
  {Only(Times(1, {"multi", "ping", "loss", "kick"}) @@ Times(2, {"write"})),
   Only(Times(1, {"multi", "loss", "uncached", "restart", "noone"})),
   Only(Times(1, {"bgsave", "restart", "noone"}) @@ Times(2, {"write"})),
   Only(Times(1, {"bgsave", "forkfail", "savefail", "loadfail", "kick", "resize",
                  "ttl", "noone", "write"}))}

PairBudget == Most(PairScenarios)

PairConstraint == Within(PairScenarios)

PairSpec == Star /\ [][Next]_vars

\* Three instances: role changes in a chain; a master in the middle that loses
\* its own master without caching it; first synchronisations of two slaves at
\* once, sharing a save.
TrioScenarios ==
  {Only(Times(1, {"noone", "loss", "slaveof"}) @@ Times(2, {"write"})),
   Only(Times(1, {"uncached", "loss", "noone", "write"}) @@ Times(2, {"kick"})),
   Only(Times(1, {"savefail", "aofrw"}) @@ Times(2, {"slaveof", "write"}))}

TrioBudget == Most(TrioScenarios)

TrioConstraint == Within(TrioScenarios) /\ NoRing

TrioSpec == (Init \/ Chain) /\ [][Next]_vars

\* A chain of three: faults and a promotion after which everything must settle
\* again
LiveBudget == Only(Times(1, {"noone", "write", "kick", "forkfail", "savefail", "loadfail",
                             "aofrw", "uncached"}))

LiveSpec == Chain /\ [][Next]_vars /\ Fairness

=============================================================================
