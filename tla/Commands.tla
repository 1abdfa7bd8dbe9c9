------------------------------ MODULE Commands ------------------------------
(***************************************************************************)
(* The clients of a master and what they leave behind between two          *)
(* commands: transactions and watched keys (multi.c), list operations that *)
(* block (t_list.c, blocked.c), WAIT (replication.c).                      *)
(*                                                                         *)
(* The server is one thread.  EXEC and the service of blocked clients      *)
(* after a command take several steps of the model, one for each command   *)
(* or client; no other step is possible until they are done.               *)
(***************************************************************************)
EXTENDS Integers, Sequences, FiniteSets

CONSTANTS
  DB,       \* the databases
  Name,     \* the names of keys
  STR,      \* a value that is not a list
  NULL,
  Client,   \* connections
  Slave,    \* slaves that are online
  Configs   \* bounds: what may happen in a behaviour

(***************************************************************************)
(* The commands that change keys, as functions on a dataset: the list      *)
(* commands (t_list.c) and the generic ones (db.c, expire.c).  A key is a  *)
(* database and a name; its value is a list, STR or, when there is no such *)
(* key, the empty list: Redis deletes a list with its last element.        *)
(***************************************************************************)
Key == DB \X Name

NoKey == <<>>

IsList(v) == v # STR /\ v # NoKey

End == {"head", "tail"}

listTypePush(v, e, where) == IF where = "head" THEN <<e>> \o v ELSE Append(v, e)

listTypePop(v, where) == IF where = "head" THEN v[1] ELSE v[Len(v)]

Popped(v, where) ==
  IF where = "head" THEN SubSeq(v, 2, Len(v)) ELSE SubSeq(v, 1, Len(v) - 1)

-----------------------------------------------------------------------------
(***************************************************************************)
(* The effect of a command on a dataset: the new dataset; the keys that    *)
(* were signalled as modified; the lists that were added with dbAdd() or   *)
(* found by SWAPDB; whether the dataset changed, in which case the command  *)
(* is propagated; the element the reply carries, or NULL.                   *)
(***************************************************************************)
Nothing(d) ==
  [db |-> d, touched |-> {}, added |-> {}, dirty |-> FALSE, elem |-> NULL]

Changed(d, touched, added) ==
  [db |-> d, touched |-> touched, added |-> added, dirty |-> TRUE, elem |-> NULL]

pushGenericCommand(d, k, e, where) ==
  IF d[k] = STR THEN Nothing(d)
  ELSE Changed([d EXCEPT ![k] = listTypePush(@, e, where)], {k},
               IF d[k] = NoKey THEN {k} ELSE {})

popGenericCommand(d, k, where) ==
  IF ~IsList(d[k]) THEN Nothing(d)
  ELSE [Changed([d EXCEPT ![k] = Popped(@, where)], {k}, {})
          EXCEPT !.elem = listTypePop(d[k], where)]

rpoplpushCommand(d, src, dst) ==
  LET e == listTypePop(d[src], "tail")
      p == [d EXCEPT ![src] = Popped(@, "tail")]
  IN IF ~IsList(d[src]) \/ d[dst] = STR THEN Nothing(d)
     ELSE [Changed([p EXCEPT ![dst] = listTypePush(@, e, "head")], {src, dst},
                   IF d[dst] = NoKey THEN {dst} ELSE {})
             EXCEPT !.elem = e]

delGenericCommand(d, k) ==
  IF d[k] = NoKey THEN Nothing(d) ELSE Changed([d EXCEPT ![k] = NoKey], {k}, {})

setKey(d, k) == Changed([d EXCEPT ![k] = STR], {k}, {})

renameGenericCommand(d, src, dst) ==
  IF d[src] = NoKey \/ src = dst THEN Nothing(d)
  ELSE Changed([d EXCEPT ![dst] = d[src], ![src] = NoKey], {src, dst},
               IF IsList(d[src]) THEN {dst} ELSE {})

\* MOVE does not signal the keys as modified
moveCommand(d, k, to) ==
  LET dst == <<to, k[2]>> IN
  IF k[1] = to \/ d[k] = NoKey \/ d[dst] # NoKey THEN Nothing(d)
  ELSE Changed([d EXCEPT ![dst] = d[k], ![k] = NoKey], {},
               IF IsList(d[k]) THEN {dst} ELSE {})

\* Mutant: SWAPDB does not look for lists with blocked clients
MutantNoScan(d, i, j) ==
  LET to(x) == IF x = i THEN j ELSE IF x = j THEN i ELSE x
  IN Changed([k \in Key |-> d[<<to(k[1]), k[2]>>]], {}, {})

\* Clients, and what they wait for or watch, stay with their database
dbSwapDatabases(d, i, j) ==
  LET to(x) == IF x = i THEN j ELSE IF x = j THEN i ELSE x
      s == [k \in Key |-> d[<<to(k[1]), k[2]>>]]
  IN IF i = j THEN Changed(d, {}, {})
     ELSE Changed(s, {}, {k \in Key : k[1] \in {i, j} /\ IsList(s[k])})

\* Every key of the databases S is deleted
emptyDb(d, S) ==
  Changed([k \in Key |-> IF k[1] \in S THEN NoKey ELSE d[k]],
          {k \in Key : k[1] \in S /\ d[k] # NoKey}, {})

flushdbCommand(d, i) ==
  IF \A k \in Key : k[1] = i => d[k] = NoKey THEN Nothing(d) ELSE emptyDb(d, {i})

expireGenericCommand(d, k) ==
  IF d[k] = NoKey THEN Nothing(d) ELSE Changed(d, {k}, {})

Effect(d, cmd) ==
  CASE cmd.op = "push"      -> pushGenericCommand(d, cmd.key, cmd.elem, cmd.where)
    [] cmd.op = "pop"       -> popGenericCommand(d, cmd.key, cmd.where)
    [] cmd.op = "rpoplpush" -> rpoplpushCommand(d, cmd.key, cmd.to)
    [] cmd.op = "del"       -> delGenericCommand(d, cmd.key)
    [] cmd.op = "set"       -> setKey(d, cmd.key)
    [] cmd.op = "rename"    -> renameGenericCommand(d, cmd.key, cmd.to)
    [] cmd.op = "move"      -> moveCommand(d, cmd.key, cmd.to[1])
    [] cmd.op = "swapdb"    -> dbSwapDatabases(d, cmd.key[1], cmd.to[1])
    [] cmd.op = "flushdb"   -> flushdbCommand(d, cmd.key[1])
    [] cmd.op = "flushall"  -> emptyDb(d, DB)
    [] cmd.op = "expire"    -> expireGenericCommand(d, cmd.key)
    [] OTHER                -> Nothing(d)

-----------------------------------------------------------------------------
\* What is bounded.  "flush" stands for FLUSHDB and FLUSHALL, "read" for commands
\* that change nothing, "slaveof" for SLAVEOF followed by SLAVEOF NO ONE
Event == {"push", "pop", "rpoplpush", "del", "set", "rename", "move", "swapdb", "flush",
          "expire", "read", "bpop", "brpoplpush", "watch", "multi", "wait", "ack",
          "error", "timeout", "close", "slaveof"}

\* clients: how many may be connected; keys, ends: what commands are about; max: how
\* often an event may happen
Config == [clients : Nat, keys : SUBSET Key, ends : SUBSET End, max : [Event -> Nat]]

ASSUME ConfigAssumption == Configs # {} /\ \A c \in Configs : c \in Config
ASSUME ClientAssumption == NULL \notin Client \cup Key

VARIABLES
  conf,           \* the bounds of this behaviour
  used,           \* how often each event has happened
  db, ttl,        \* the dataset; the keys that have an expire
  replica,        \* the dataset that the propagated commands rebuild
  inmulti,        \* the propagated stream is between a MULTI and its EXEC
  offset,         \* server.master_repl_offset, in commands
  clients,        \* server.clients
  flags,          \* c->flags
  queue,          \* c->mstate
  watched,        \* c->watched_keys
  watched_keys,   \* db->watched_keys: the clients that watch a key
  exec,           \* the transaction that is being executed
  blocked,        \* c->bpop, or NULL without CLIENT_BLOCKED
  blocking_keys,  \* db->blocking_keys: the clients that block on a key
  ready_keys,     \* server.ready_keys
  serving,        \* the key whose clients are being served
  unblocked,      \* server.unblocked_clients
  waiting,        \* server.clients_waiting_acks
  woff,           \* c->woff
  acks,           \* slave->repl_ack_off
  getack,         \* server.get_ack_from_slaves
  got,            \* history: the elements that a client popped
  seen,           \* history: the values of the watched keys at the time of WATCH
  silent,         \* history: the watched keys that MOVE or SWAPDB changed since WATCH
  last,           \* history: the offset of the last write made by, or for, a client
  wrote,          \* history: what last was when the last command of the client ended,
                  \*   before a WAIT that blocks
  answer          \* history: the answer to the last WAIT of a client, with its time

data   == <<db, ttl, replica, inmulti, offset>>
txn    == <<queue, watched, watched_keys, seen, silent>>
block  == <<blocked, blocking_keys, waiting, unblocked>>
wait   == <<woff, acks, getack, last, wrote, answer>>
vars   == <<conf, used, data, clients, flags, txn, exec, block, ready_keys, serving,
            wait, got>>

-----------------------------------------------------------------------------
(* Helpers *)

Range(s) == {s[i] : i \in DOMAIN s}

\* listDelNode(l, listSearchKey(l, x))
Without(s, x) ==
  IF x \notin Range(s) THEN s
  ELSE LET i == CHOOSE j \in DOMAIN s : s[j] = x
       IN [j \in 1 .. Len(s) - 1 |-> IF j < i THEN s[j] ELSE s[j + 1]]

Happens(k) == used[k] < conf.max[k] /\ used' = [used EXCEPT ![k] = @ + 1]

\* The commands on keys; the element that is pushed is new.  BLPOP and BRPOP
\* may name a second key
Command(op, key, to, where) ==
  [op |-> op, key |-> key, to |-> to, where |-> where, elem |-> used["push"] + 1]

EventOf(op) ==
  CASE op \in {"flushdb", "flushall"} -> "flush"
    [] op \in {"get", "ping"} -> "read"
    [] OTHER -> op

Commands ==
  LET K == conf.keys
      Pairs == {p \in K \X K : p[1][1] = p[2][1]}   \* two keys of a database
      Of(ops) == {op \in ops : used[EventOf(op)] < conf.max[EventOf(op)]}
  IN
  UNION {{Command(op, k, k, w) : op \in Of({"push", "pop"}), k \in K, w \in conf.ends},
         {Command(op, p[1], p[2], w) : op \in Of({"bpop"}), p \in Pairs, w \in conf.ends},
         {Command(op, p[1], p[2], "tail") : op \in Of({"rpoplpush", "brpoplpush", "rename"}),
                                            p \in Pairs},
         {Command(op, k, j, "tail") : op \in Of({"move", "swapdb"}), k \in K, j \in K},
         {Command(op, k, k, "tail") : op \in Of({"del", "set", "expire", "get", "ping",
                                                 "flushdb", "flushall"}), k \in K}}

\* The end of processCommand() for a command that was not queued
Ended(c) ==
  /\ woff' = [woff EXCEPT ![c] = offset']
  /\ wrote' = [wrote EXCEPT ![c] = last'[c]]

\* Nothing is executing
Idle == exec = NULL /\ serving = NULL /\ ready_keys = <<>>

\* The input of the client is processed
Reads(c) ==
  Idle /\ c \in clients /\ blocked[c] = NULL /\ "CLOSE" \notin flags[c]

-----------------------------------------------------------------------------
(* Watched keys and ready keys *)

\* Mutant: a flush does not touch watched keys
MutantNoFlush(cmd, touched) ==
  IF cmd.op \in {"flushdb", "flushall"} THEN {} ELSE UNION {watched_keys[k] : k \in touched}

\* touchWatchedKey() for each key, touchWatchedKeysOnFlush() for a flush
Dirty(cmd, touched) ==
  IF cmd.op \in {"flushdb", "flushall"}
  THEN {c \in clients : watched[c] \cap touched # {}}
  ELSE UNION {watched_keys[k] : k \in touched}

\* The order in which SWAPDB finds several keys is that of its hash tables
signalListAsReady(added) ==
  LET new == {k \in added : blocking_keys[k] # <<>> /\ k \notin Range(ready_keys)}
  IN \E p \in [1 .. Cardinality(new) -> new] :
       /\ Range(p) = new
       /\ ready_keys' = ready_keys \o p

unwatchAllKeys(c) ==
  /\ watched_keys' = [k \in Key |-> watched_keys[k] \ {c}]
  /\ watched' = [watched EXCEPT ![c] = {}]
  /\ seen' = [seen EXCEPT ![c] = [k \in {} |-> NoKey]]
  /\ silent' = [silent EXCEPT ![c] = {}]

-----------------------------------------------------------------------------
(* WAIT: the slaves that acknowledged what the client knows of its writes *)

replicationCountAcksByOffset(off) == Cardinality({s \in Slave : acks[s] >= off})

\* The answers after c is told this number, at its n-th WAIT
Answered(c, n) ==
  [answer EXCEPT ![c] = <<n, replicationCountAcksByOffset(woff[c])>>]

-----------------------------------------------------------------------------
(* call() *)

\* The keys with an expire after the command
Ttl(cmd, d) ==
  LET to(x) == IF x = cmd.key[1] THEN cmd.to[1] ELSE IF x = cmd.to[1] THEN cmd.key[1] ELSE x
      dst == IF cmd.op = "move" THEN <<cmd.to[1], cmd.key[2]>> ELSE cmd.to
      t == CASE cmd.op = "set"    -> ttl \ {cmd.key}
             [] cmd.op = "expire" -> ttl \cup {cmd.key}
             [] cmd.op \in {"rename", "move"} /\ d # db ->
                  (ttl \ {cmd.key, dst}) \cup IF cmd.key \in ttl THEN {dst} ELSE {}
             [] cmd.op = "swapdb" -> {k \in Key : <<to(k[1]), k[2]>> \in ttl}
             [] OTHER             -> ttl
  IN {k \in t : d[k] # NoKey}

\* What a blocking command amounts to: a pop from the first key that exists, if
\* it is a list; otherwise, when no key exists, it blocks
Resolved(cmd) ==
  LET keys == IF cmd.op = "bpop" THEN <<cmd.key, cmd.to>> ELSE <<cmd.key>>
      found == {i \in DOMAIN keys : db[keys[i]] # NoKey}
      first == CHOOSE i \in found : \A j \in found : i <= j
  IN CASE cmd.op = "bpop" /\ found = {} -> [cmd EXCEPT !.op = "block"]
       [] cmd.op = "bpop" /\ found # {} -> [cmd EXCEPT !.op = "pop", !.key = keys[first]]
       [] cmd.op = "brpoplpush" ->
            [cmd EXCEPT !.op = IF found = {} THEN "block" ELSE "rpoplpush"]
       [] OTHER -> cmd

\* The command is executed and, if it changed something, propagated; multi says
\* that MULTI is propagated before it
Call(c, cmd, multi) ==
  LET r == Resolved(cmd)
      e == Effect(db, r)
      dirty == Dirty(r, e.touched)
  IN
  /\ db' = e.db
  /\ ttl' = Ttl(r, e.db)
  /\ signalListAsReady(e.added)
  /\ flags' = [x \in Client |-> IF x \in dirty THEN flags[x] \cup {"DIRTY_CAS"} ELSE flags[x]]
  /\ replica' = IF e.dirty THEN Effect(replica, r).db ELSE replica
  /\ inmulti' = (inmulti \/ multi)
  /\ offset' = offset + (IF multi THEN 1 ELSE 0) + (IF e.dirty THEN 1 ELSE 0)
  /\ last' = IF e.dirty THEN [last EXCEPT ![c] = offset'] ELSE last
  /\ silent' = IF r.op \notin {"move", "swapdb"} THEN silent
               ELSE [x \in Client |-> silent[x] \cup {k \in watched[x] : e.db[k] # db[k]}]
  /\ got' = IF r.op = "pop" /\ e.elem # NULL
            THEN [got EXCEPT ![c] = @ \cup {e.elem}] ELSE got

call(c, cmd) ==
  /\ Reads(c) /\ "MULTI" \notin flags[c]
  /\ Resolved(cmd).op # "block"
  /\ Happens(EventOf(cmd.op))
  /\ Call(c, cmd, FALSE)
  /\ Ended(c)
  /\ UNCHANGED <<conf, clients, queue, watched, watched_keys, seen, exec, block, serving,
                 acks, getack, answer>>

-----------------------------------------------------------------------------
(* Transactions: multi.c *)

multiCommand(c) ==
  /\ Reads(c) /\ "MULTI" \notin flags[c]
  /\ Happens("multi")
  /\ flags' = [flags EXCEPT ![c] = @ \cup {"MULTI"}]
  /\ UNCHANGED <<conf, data, clients, txn, exec, block, ready_keys, serving,
                 acks, getack, last, answer, got>>
  /\ Ended(c)

queueMultiCommand(c, cmd) ==
  /\ Reads(c) /\ "MULTI" \in flags[c]
  /\ Happens(EventOf(cmd.op))
  /\ queue' = [queue EXCEPT ![c] = Append(@, cmd)]
  /\ UNCHANGED <<conf, data, clients, flags, watched, watched_keys, seen, silent, exec,
                 block, ready_keys, serving, wait, got>>

\* A command that cannot be queued
flagTransaction(c) ==
  /\ Reads(c) /\ "MULTI" \in flags[c]
  /\ Happens("error")
  /\ flags' = [flags EXCEPT ![c] = @ \cup {"DIRTY_EXEC"}]
  /\ UNCHANGED <<conf, data, clients, txn, exec, block, ready_keys, serving, wait, got>>

discardTransaction(c) ==
  /\ queue' = [queue EXCEPT ![c] = <<>>]
  /\ flags' = [flags EXCEPT ![c] = @ \ {"MULTI", "DIRTY_CAS", "DIRTY_EXEC"}]
  /\ unwatchAllKeys(c)

\* DISCARD, and an EXEC that is refused
discardCommand(c) ==
  /\ Reads(c) /\ "MULTI" \in flags[c]
  /\ discardTransaction(c)
  /\ UNCHANGED <<conf, used, data, clients, exec, block, ready_keys, serving,
                 acks, getack, last, answer, got>>
  /\ Ended(c)

\* EXEC: the keys are unwatched, then the commands run one after the other
execCommand(c) ==
  /\ Reads(c) /\ "MULTI" \in flags[c]
  /\ flags[c] \cap {"DIRTY_CAS", "DIRTY_EXEC"} = {}
  /\ unwatchAllKeys(c)
  /\ exec' = [client |-> c, next |-> 1, base |-> db]
  /\ UNCHANGED <<conf, used, data, clients, flags, queue, block, ready_keys, serving,
                 wait, got>>

\* Mutant: MULTI is not propagated
MutantNoMulti ==
  /\ exec # NULL /\ exec.next <= Len(queue[exec.client])
  /\ Call(exec.client, queue[exec.client][exec.next], FALSE)
  /\ exec' = [exec EXCEPT !.next = @ + 1]
  /\ UNCHANGED <<conf, used, clients, queue, watched, watched_keys, seen, block, serving,
                 woff, acks, getack, wrote, answer>>

\* MULTI is propagated before the first command that is not read only
ExecStep ==
  /\ exec # NULL /\ exec.next <= Len(queue[exec.client])
  /\ LET cmd == queue[exec.client][exec.next]
     IN /\ Call(exec.client, cmd, ~inmulti /\ cmd.op # "get")
        /\ answer' = IF cmd.op = "wait" THEN Answered(exec.client, used["wait"]) ELSE answer
  /\ exec' = [exec EXCEPT !.next = @ + 1]
  /\ UNCHANGED <<conf, used, clients, queue, watched, watched_keys, seen, block, serving,
                 woff, acks, getack, wrote>>

ExecEnd ==
  /\ exec # NULL /\ exec.next > Len(queue[exec.client])
  /\ discardTransaction(exec.client)
  /\ inmulti' = FALSE
  /\ offset' = offset + IF inmulti THEN 1 ELSE 0
  /\ last' = [last EXCEPT ![exec.client] = IF inmulti THEN offset' ELSE @]
  /\ Ended(exec.client)
  /\ exec' = NULL
  /\ UNCHANGED <<conf, used, db, ttl, replica, clients, block, ready_keys, serving,
                 acks, getack, answer, got>>

watchCommand(c, k) ==
  /\ Reads(c) /\ "MULTI" \notin flags[c]
  /\ k \notin watched[c]
  /\ Happens("watch")
  /\ watched' = [watched EXCEPT ![c] = @ \cup {k}]
  /\ watched_keys' = [watched_keys EXCEPT ![k] = @ \cup {c}]
  /\ seen' = [seen EXCEPT ![c] = [x \in watched[c] \cup {k} |-> IF x = k THEN db[k] ELSE @[x]]]
  /\ UNCHANGED silent
  /\ UNCHANGED <<conf, data, clients, flags, queue, exec, block, ready_keys, serving,
                 acks, getack, last, answer, got>>
  /\ Ended(c)

unwatchCommand(c) ==
  /\ Reads(c) /\ "MULTI" \notin flags[c]
  /\ watched[c] # {}
  /\ unwatchAllKeys(c)
  /\ flags' = [flags EXCEPT ![c] = @ \ {"DIRTY_CAS"}]
  /\ UNCHANGED <<conf, used, data, clients, queue, exec, block, ready_keys, serving,
                 acks, getack, last, answer, got>>
  /\ Ended(c)

-----------------------------------------------------------------------------
(* Clients that block: blocked.c, t_list.c *)

\* The clients of each key after c blocks on keys
listAddNodeTail(c, keys) ==
  [k \in Key |-> IF k \in keys THEN Append(blocking_keys[k], c) ELSE blocking_keys[k]]

\* since orders the clients by the time they blocked
blockForKeys(c, cmd) ==
  LET keys == IF cmd.op = "bpop" THEN {cmd.key, cmd.to} ELSE {cmd.key} IN
  /\ Reads(c) /\ "MULTI" \notin flags[c]
  /\ Resolved(cmd).op = "block"
  /\ Happens(cmd.op)
  /\ blocked' = [blocked EXCEPT ![c] =
       [type |-> "list", keys |-> keys, where |-> cmd.where,
        target |-> IF cmd.op = "bpop" THEN NULL ELSE cmd.to,
        since |-> used["bpop"] + used["brpoplpush"]]]
  /\ blocking_keys' = listAddNodeTail(c, keys)
  /\ UNCHANGED <<conf, data, clients, flags, txn, exec, waiting, unblocked, ready_keys,
                 serving, acks, getack, last, answer, got>>
  /\ Ended(c)

unblockClient(c) ==
  /\ blocked' = [blocked EXCEPT ![c] = NULL]
  /\ blocking_keys' = [k \in Key |-> Without(blocking_keys[k], c)]
  /\ waiting' = Without(waiting, c)
  /\ unblocked' = unblocked \cup {c}

(***************************************************************************)
(* handleClientsBlockedOnLists(): the keys in turn, a key's clients in the *)
(* order they blocked.  A list that becomes empty is deleted at the end.   *)
(***************************************************************************)
ServeKey ==
  /\ exec = NULL /\ serving = NULL /\ ready_keys # <<>>
  /\ ready_keys' = Tail(ready_keys)
  /\ serving' = IF IsList(db[Head(ready_keys)]) THEN Head(ready_keys) ELSE NULL
  /\ UNCHANGED <<conf, used, data, clients, flags, txn, exec, block, wait, got>>

\* The client receives an element.  With a target that is not a list the element
\* goes back; the client is unblocked all the same
serveClientBlockedOnList ==
  LET k == serving
      c == Head(blocking_keys[k])
      b == blocked[c]
      e == listTypePop(db[k], b.where)
      popped(d) == [d EXCEPT ![k] = Popped(@, b.where)]
      pushed(d) == [popped(d) EXCEPT ![b.target] = listTypePush(@, e, "head")]
      fails == b.target # NULL /\ db[b.target] = STR
      new == b.target # NULL /\ b.target # k /\ db[b.target] = NoKey
      touched == IF b.target = NULL \/ fails THEN {} ELSE watched_keys[b.target]
  IN
  /\ serving # NULL /\ blocking_keys[k] # <<>> /\ IsList(db[k])
  /\ unblockClient(c)
  /\ IF fails THEN UNCHANGED <<db, replica, offset, last>>
     ELSE /\ db' = IF b.target = NULL THEN popped(db) ELSE pushed(db)
          /\ replica' = IF b.target = NULL THEN popped(replica) ELSE pushed(replica)
          /\ offset' = offset + IF b.target = NULL THEN 1 ELSE 2
          /\ last' = [last EXCEPT ![c] = offset']
  /\ flags' = [x \in Client |-> IF x \in touched THEN flags[x] \cup {"DIRTY_CAS"} ELSE flags[x]]
  /\ got' = IF b.target = NULL THEN [got EXCEPT ![c] = @ \cup {e}] ELSE got
  /\ ready_keys' =
       IF new /\ blocking_keys'[b.target] # <<>> /\ b.target \notin Range(ready_keys)
       THEN Append(ready_keys, b.target) ELSE ready_keys
  /\ UNCHANGED <<conf, used, ttl, inmulti, clients, txn, exec, serving, woff, acks, getack,
                 wrote, answer>>

ServeEnd ==
  /\ serving # NULL
  /\ blocking_keys[serving] = <<>> \/ ~IsList(db[serving])
  /\ serving' = NULL
  /\ ttl' = IF db[serving] = NoKey THEN ttl \ {serving} ELSE ttl
  /\ UNCHANGED <<conf, used, db, replica, inmulti, offset, clients, flags, txn, exec, block,
                 ready_keys, wait, got>>

\* clientsCronHandleTimeout(): the time a blocked client gave is over
Timeout(c) ==
  /\ Idle /\ blocked[c] # NULL
  /\ Happens("timeout")
  /\ answer' = IF blocked[c].type = "list" THEN answer
               ELSE [answer EXCEPT ![c] = <<used["wait"], replicationCountAcksByOffset(blocked[c].off)>>]
  /\ unblockClient(c)
  /\ UNCHANGED <<conf, data, clients, flags, txn, exec, ready_keys, serving,
                 woff, acks, getack, last, wrote, got>>

\* The instance becomes a slave
disconnectAllBlockedClients ==
  LET S == {c \in Client : blocked[c] # NULL} IN
  /\ Idle /\ Happens("slaveof")
  /\ blocked' = [c \in Client |-> NULL]
  /\ blocking_keys' = [k \in Key |-> <<>>]
  /\ waiting' = <<>>
  /\ unblocked' = unblocked \cup S
  /\ flags' = [c \in Client |-> IF c \in S THEN flags[c] \cup {"CLOSE"} ELSE flags[c]]
  /\ UNCHANGED <<conf, data, clients, txn, exec, ready_keys, serving, wait, got>>

\* Mutant: a client that was just unblocked stays in the list
MutantStaysUnblocked(c) ==
  /\ blocked' = [blocked EXCEPT ![c] = NULL]
  /\ blocking_keys' = [k \in Key |-> Without(blocking_keys[k], c)]
  /\ waiting' = Without(waiting, c)
  /\ UNCHANGED unblocked

\* The lists of clients that block or have just been unblocked
unlinkBlocked(c) ==
  /\ blocked' = [blocked EXCEPT ![c] = NULL]
  /\ blocking_keys' = [k \in Key |-> Without(blocking_keys[k], c)]
  /\ waiting' = Without(waiting, c)
  /\ unblocked' = unblocked \ {c}

\* The connection is lost, or closed after the last reply
freeClient(c) ==
  /\ Idle /\ c \in clients
  /\ IF "CLOSE" \in flags[c] THEN UNCHANGED used ELSE Happens("close")
  /\ unlinkBlocked(c)
  /\ clients' = clients \ {c}
  /\ queue' = [queue EXCEPT ![c] = <<>>]
  /\ flags' = [flags EXCEPT ![c] = {}]
  /\ unwatchAllKeys(c)
  /\ woff' = [woff EXCEPT ![c] = 0]
  /\ last' = [last EXCEPT ![c] = 0] /\ wrote' = [wrote EXCEPT ![c] = 0]
  /\ answer' = [answer EXCEPT ![c] = NULL]
  /\ UNCHANGED <<conf, data, exec, ready_keys, serving, acks, getack, got>>

createClient(c) ==
  /\ Idle /\ c \notin clients /\ Cardinality(clients) < conf.clients
  /\ clients' = clients \cup {c}
  /\ UNCHANGED <<conf, used, data, flags, txn, exec, block, ready_keys, serving, wait, got>>

\* The keys that can be found expired now: while clients are served, the key that is
\* looked up next.  (A BRPOPLPUSH from a key to itself looks it up again while it
\* holds the list; that the key expires there is left out.)
LookedUp ==
  IF serving # NULL
  THEN IF blocking_keys[serving] = <<>> THEN {}
       ELSE {blocked[Head(blocking_keys[serving])].target} \ {serving}
  ELSE IF exec = NULL /\ ready_keys # <<>> THEN {Head(ready_keys)} ELSE Key

\* activeExpireCycle() and expireIfNeeded(), the latter also inside EXEC and while
\* clients are served; watched keys are not touched, DEL is propagated.  An expired
\* key does not count as a modified one for the history variables
deleteExpiredKey(k) ==
  /\ k \in ttl \cap LookedUp
  /\ db' = [db EXCEPT ![k] = NoKey]
  /\ ttl' = ttl \ {k}
  /\ replica' = [replica EXCEPT ![k] = NoKey]
  /\ offset' = offset + 1
  /\ seen' = [c \in Client |-> [x \in watched[c] |-> IF x = k THEN NoKey ELSE seen[c][x]]]
  /\ exec' = IF exec = NULL THEN NULL ELSE [exec EXCEPT !.base[k] = NoKey]
  /\ UNCHANGED <<conf, used, inmulti, clients, flags, queue, watched, watched_keys, silent,
                 block, ready_keys, serving, wait, got>>

-----------------------------------------------------------------------------
(* WAIT, the acknowledgements of slaves, and the end of an event loop cycle *)

\* In a transaction WAIT answers at once: see ExecStep
waitCommand(c, n) ==
  /\ Reads(c) /\ "MULTI" \notin flags[c]
  /\ Happens("wait")
  /\ IF replicationCountAcksByOffset(woff[c]) >= n
     THEN /\ answer' = Answered(c, used'["wait"])
          /\ wrote' = [wrote EXCEPT ![c] = last[c]]
          /\ UNCHANGED <<blocked, waiting, getack>>
     ELSE /\ blocked' = [blocked EXCEPT ![c] =
                           [type |-> "wait", off |-> woff[c], n |-> n]]
          /\ waiting' = Append(waiting, c)
          /\ getack' = TRUE
          /\ answer' = [answer EXCEPT ![c] = NULL]
          /\ UNCHANGED wrote
  /\ woff' = [woff EXCEPT ![c] = offset]
  /\ UNCHANGED <<conf, data, clients, flags, txn, exec, blocking_keys, unblocked, ready_keys,
                 serving, acks, last, got>>

\* REPLCONF ACK from a slave that has processed the stream up to off
replconfAck(s, off) ==
  /\ Idle /\ off > acks[s] /\ off <= offset
  /\ Happens("ack")
  /\ acks' = [acks EXCEPT ![s] = off]
  /\ UNCHANGED <<conf, data, clients, flags, txn, exec, block, ready_keys, serving,
                 woff, getack, last, wrote, answer, got>>

\* Mutant: the offset is not compared
MutantAnyOffset(p, b) == p.off # 0 /\ p.num > b.n

\* The client is satisfied because one that asked for more was
Covered(p, b) == p.off # 0 /\ p.off > b.off /\ p.num > b.n

\* The answers to the first i clients that wait, with the offset and the number
\* of slaves of the last one that was satisfied
Answers ==
  LET scan[i \in 0 .. Len(waiting)] ==
        IF i = 0 THEN [off |-> 0, num |-> 0, to |-> [c \in Client |-> NULL]]
        ELSE LET p == scan[i - 1]
                 c == waiting[i]
                 n == replicationCountAcksByOffset(blocked[c].off)
             IN IF Covered(p, blocked[c])
                THEN [p EXCEPT !.to[c] = p.num]
                ELSE IF n >= blocked[c].n
                THEN [off |-> blocked[c].off, num |-> n, to |-> [p.to EXCEPT ![c] = n]]
                ELSE p
  IN scan[Len(waiting)].to

\* GETACK is sent, then processClientsWaitingReplicas() and
\* processUnblockedClients()
beforeSleep ==
  LET S == {c \in Client : Answers[c] # NULL} IN
  /\ Idle /\ (getack \/ waiting # <<>> \/ unblocked # {})
  /\ offset' = offset + IF getack THEN 1 ELSE 0
  /\ getack' = FALSE
  /\ blocked' = [c \in Client |-> IF c \in S THEN NULL ELSE blocked[c]]
  /\ answer' = [c \in Client |-> IF c \in S THEN <<used["wait"], Answers[c]>> ELSE answer[c]]
  /\ waiting' = SelectSeq(waiting, LAMBDA c : c \notin S)
  /\ unblocked' = {}
  /\ UNCHANGED <<conf, used, db, ttl, replica, inmulti, clients, flags, txn, exec,
                 blocking_keys, ready_keys, serving, woff, acks, last, wrote, got>>

-----------------------------------------------------------------------------
Init ==
  /\ conf \in Configs
  /\ used = [k \in Event |-> 0]
  /\ db = [k \in Key |-> NoKey] /\ ttl = {} /\ replica = db
  /\ inmulti = FALSE /\ offset = 0
  /\ clients \in {S \in SUBSET Client : Cardinality(S) = conf.clients}
  /\ flags = [c \in Client |-> {}]
  /\ queue = [c \in Client |-> <<>>]
  /\ watched = [c \in Client |-> {}]
  /\ watched_keys = [k \in Key |-> {}]
  /\ exec = NULL
  /\ blocked = [c \in Client |-> NULL]
  /\ blocking_keys = [k \in Key |-> <<>>]
  /\ ready_keys = <<>> /\ serving = NULL /\ unblocked = {} /\ waiting = <<>>
  /\ woff = [c \in Client |-> 0]
  /\ acks = [s \in Slave |-> 0]
  /\ getack = FALSE
  /\ got = [c \in Client |-> {}]
  /\ seen = [c \in Client |-> [k \in {} |-> NoKey]]
  /\ silent = [c \in Client |-> {}]
  /\ last = [c \in Client |-> 0] /\ wrote = [c \in Client |-> 0]
  /\ answer = [c \in Client |-> NULL]

ClientStep(c) ==
  \/ \E cmd \in Commands :
       \/ call(c, cmd)
       \/ queueMultiCommand(c, cmd)
       \/ blockForKeys(c, cmd)
  \/ \E k \in conf.keys : queueMultiCommand(c, Command("wait", k, k, "tail"))
  \/ multiCommand(c)
  \/ flagTransaction(c)
  \/ discardCommand(c)
  \/ execCommand(c)
  \/ \E k \in conf.keys : watchCommand(c, k)
  \/ unwatchCommand(c)
  \/ \E n \in 1 .. Cardinality(Slave) : waitCommand(c, n)
  \/ freeClient(c)
  \/ createClient(c)

ServerStep ==
  \/ ExecStep
  \/ ExecEnd
  \/ ServeKey
  \/ serveClientBlockedOnList
  \/ ServeEnd
  \/ \E c \in Client : Timeout(c)
  \/ disconnectAllBlockedClients
  \/ \E k \in Key : deleteExpiredKey(k)
  \/ \E s \in Slave, off \in 1 .. offset : replconfAck(s, off)
  \/ beforeSleep

Next == (\E c \in Client : ClientStep(c)) \/ ServerStep

Spec == Init /\ [][Next]_vars

-----------------------------------------------------------------------------
(* Properties *)

BPop == [type : {"list"}, keys : SUBSET Key, where : End,
         target : Key \cup {NULL}, since : Nat]
Wait == [type : {"wait"}, off : Nat, n : Nat]

\* The values the variables take.  Only the commands of a transaction can be
\* executing while the server has one, and only one loop runs at a time.
TypeOK ==
  /\ ttl \subseteq {k \in Key : db[k] # NoKey \/ k = serving}
  /\ \A c \in Client :
       /\ flags[c] \subseteq {"MULTI", "DIRTY_CAS", "DIRTY_EXEC", "CLOSE"}
       /\ blocked[c] \in BPop \cup Wait \cup {NULL}
       /\ DOMAIN seen[c] = watched[c]
       /\ silent[c] \subseteq watched[c]
       /\ woff[c] <= offset /\ wrote[c] <= last[c] /\ last[c] <= offset
  /\ exec # NULL => exec.client \in clients /\ serving = NULL
  /\ \A s \in Slave : acks[s] <= offset

\* blockForKeys() and unblockClientWaitingData(): the keys of a client that is
\* blocked and the clients of a key name each other, each once.
BlockedAgree ==
  \A k \in Key :
    /\ \A c \in Client : c \in Range(blocking_keys[k]) <=>
                          blocked[c] # NULL /\ blocked[c].type = "list" /\ k \in blocked[c].keys
    /\ Len(blocking_keys[k]) = Cardinality(Range(blocking_keys[k]))

\* handleClientsBlockedOnLists(): once the server is done with a command no client
\* is blocked on a list that has elements, whichever command filled it, in
\* whatever transaction, and whoever was served before.  During the command the
\* key of such a client is queued or is the one being served.
NoLostWakeup ==
  \A k \in Key :
    IsList(db[k]) /\ blocking_keys[k] # <<>> => k \in Range(ready_keys) \/ k = serving

\* freeClient(): nothing in the server refers to a client that is gone.
NoDanglingClient ==
  \A c \in Client \ clients :
    /\ c \notin unblocked /\ c \notin Range(waiting)
    /\ \A k \in Key : c \notin watched_keys[k] /\ c \notin Range(blocking_keys[k])

\* propagate(): outside MULTI/EXEC the commands that were propagated rebuild the
\* dataset; a transaction that has changed it is between MULTI and EXEC; and
\* every MULTI is closed.
StreamRebuildsData ==
  /\ ~inmulti => replica = db
  /\ exec # NULL /\ db # exec.base => inmulti
  /\ exec = NULL => ~inmulti

\* An element that was pushed is in one list once or was given to one client
\* once: serving a client, undoing it, and moving lists neither duplicate
\* elements nor give one to two clients.
ElementOnce ==
  LET Places == {<<"list", k, i>> : k \in {x \in Key : IsList(db[x])}, i \in 1 .. 4}
      At(p) == IF p[3] <= Len(db[p[2]]) THEN db[p[2]][p[3]] ELSE NULL
  IN /\ \A p, q \in Places : At(p) = At(q) /\ At(p) # NULL => p = q
     /\ \A c \in Client :
          /\ \A p \in Places : At(p) \notin got[c]
          /\ \A x \in Client : x # c => got[x] \cap got[c] = {}

\* EXEC after WATCH (multi.c): the transaction runs only if each key its client
\* watched has the value it had at the time of WATCH, or was changed by MOVE or
\* SWAPDB, which do not call signalModifiedKey(): a client that watches such a key
\* learns nothing.  A key that expired is not counted as changed.
WatchIsolation ==
  [][exec = NULL /\ exec' # NULL =>
       LET c == exec'.client IN
       \A k \in watched[c] : db[k] = seen[c][k] \/ k \in silent[c]]_vars

\* Clients that block on a key are served in the order they blocked.
ServedInOrder ==
  \A k \in Key : \A i, j \in DOMAIN blocking_keys[k] :
    i < j => blocked[blocking_keys[k][i]].since < blocked[blocking_keys[k][j]].since

\* WAIT (replication.c): the number that a client receives is at most the number of
\* slaves that acknowledged what it had written when its last command ended.  Two
\* kinds of writes are later than that and WAIT does not know of them: the one made
\* while a BLPOP or BRPOPLPUSH of the client was served, and those made earlier in
\* the transaction that the WAIT is part of.  c->woff is set by processCommand() only.
WaitIsTrue ==
  [][\A c \in Client : answer'[c] # NULL /\ answer'[c] # answer[c] =>
       answer'[c][2] <= replicationCountAcksByOffset(wrote[c])]_vars

\* The lists of clients are right at any time: a client is in the list of a key
\* if and only if it is blocked on it, the clients of a key are in the order in
\* which they blocked, and no list holds a client that is gone.  Blocked clients
\* get what they wait for: none is left blocked on a list that has elements,
\* and an element is given to one client once.
BlockedClients == BlockedAgree /\ ServedInOrder /\ NoDanglingClient /\ NoLostWakeup /\ ElementOnce
=============================================================================
