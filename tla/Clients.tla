------------------------------ MODULE Clients -------------------------------
(***************************************************************************)
(* The event loop (ae.c) and the connections it serves (networking.c): the *)
(* output buffers, the lists of clients that have something to write, to   *)
(* be closed or to be looked at again, pauses, limits, and what one client *)
(* does to another.  The server is one thread, so a step is a handler; the *)
(* peers send, read and hang up between two sleeps.                        *)
(*                                                                         *)
(* A byte of output is its number among the bytes its client was promised, *)
(* so that a client should receive 1, 2, 3, ...                            *)
(*   s.cl       the clients; st is "new", "live" or "freed"                *)
(*   s.clients, s.pending, s.toclose, s.unblocked    the server's lists    *)
(*   s.ev       for each descriptor what is registered: r and w (readable  *)
(*              and writable), b (AE_BARRIER) and the client id; 0 is the  *)
(*              listening socket                                           *)
(*   s.fired    the events of this iteration still to be handled           *)
(*   s.bad      the clients that were used after they were freed           *)
(***************************************************************************)
EXTENDS Structure, SequencesExt

IsClients == kind = "clients"

NewClient(i) ==
  [st |-> "new", fd |-> 0, fl |-> {}, script |-> conf.scripts[i], in |-> <<>>, hup |-> FALSE, qb |-> <<>>,
   buf |-> <<>>, sent |-> 0, reply |-> <<>>, rbytes |-> 0, n |-> 0, got |-> <<>>, unsynced |-> 0,
   soft |-> 0, until |-> 0, ack |-> FALSE, last |-> 0, ran |-> <<>>]
NoEvents == [r |-> FALSE, w |-> FALSE, b |-> FALSE, id |-> 0]

Set(t, i, c) == [t EXCEPT !.cl[i] = c]
Flag(t, i, f) == [t EXCEPT !.cl[i].fl = @ \cup {f}]
Unflag(t, i, f) == [t EXCEPT !.cl[i].fl = @ \ {f}]
Has(t, i, f) == f \in t.cl[i].fl
IsSlave(t, i) == Has(t, i, "slave")

\* listSearchKey and listDelNode
ListDel(list, i) ==
  LET at == {p \in DOMAIN list : list[p] = i} IN IF at = {} THEN list ELSE RemoveAt(list, Min(at))

-----------------------------------------------------------------------------
(* ae.c: registering for events *)

aeCreateFileEvent(t, fd, r, w, b, i) ==
  [t EXCEPT !.ev[fd] = [r |-> @.r \/ r, w |-> @.w \/ w, b |-> @.b \/ b, id |-> i]]
\* The barrier goes with the writable event.
aeDeleteFileEvent(t, fd, r, w) ==
  [t EXCEPT !.ev[fd] = [@ EXCEPT !.r = @ /\ ~r, !.w = @ /\ ~w, !.b = @ /\ ~w]]

-----------------------------------------------------------------------------
(* Freeing clients *)

\* Mutant: a client that is in the list already is added to it again
MutantUnblock(t, i) ==
  [Unflag(Flag(t, i, "unblocked"), i, "blocked") EXCEPT !.unblocked = Append(@, i)]

unblockClient(t, i) ==
  LET t1 == Unflag(t, i, "blocked")
  IN  IF Has(t, i, "unblocked") THEN t1
      ELSE [Flag(t1, i, "unblocked") EXCEPT !.unblocked = Append(@, i)]

\* Mutant: the list of the clients to write to is forgotten
MutantUnlink(t, i) ==
  LET t1 == [aeDeleteFileEvent(t, t.cl[i].fd, TRUE, TRUE) EXCEPT !.clients = ListDel(@, i), !.cl[i].fd = 0]
  IN  IF Has(t, i, "unblocked") THEN [Unflag(t1, i, "unblocked") EXCEPT !.unblocked = ListDel(@, i)] ELSE t1

unlinkClient(t, i) ==
  LET t1 == [aeDeleteFileEvent(t, t.cl[i].fd, TRUE, TRUE) EXCEPT !.clients = ListDel(@, i), !.cl[i].fd = 0]
      t2 == IF Has(t, i, "pw") THEN [Unflag(t1, i, "pw") EXCEPT !.pending = ListDel(@, i)] ELSE t1
  IN  IF Has(t, i, "unblocked") THEN [Unflag(t2, i, "unblocked") EXCEPT !.unblocked = ListDel(@, i)] ELSE t2

freeClient(t, i) ==
  LET t1 == IF Has(t, i, "blocked") THEN unblockClient(t, i) ELSE t
      t2 == unlinkClient(t1, i)
      t3 == IF Has(t, i, "asap") THEN [t2 EXCEPT !.toclose = ListDel(@, i)] ELSE t2
  IN  [t3 EXCEPT !.cl[i].st = "freed"]

freeClientAsync(t, i) ==
  IF Has(t, i, "asap") THEN t ELSE [Flag(t, i, "asap") EXCEPT !.toclose = Append(@, i)]

freeClientsInAsyncFreeQueue(t) ==
  FoldLeft(LAMBDA x, i : [freeClient(Unflag(x, i, "asap"), i) EXCEPT !.toclose = Tail(@)], t, t.toclose)

-----------------------------------------------------------------------------
(* Output *)

clientHasPendingReplies(c) == c.buf # <<>> \/ c.reply # <<>>
Accepts(t, i) == t.cl[i].st = "live" /\ t.cl[i].fl \cap {"off", "skip"} = {}

\* The client is put in the list of those to write to, once, unless it is a
\* slave that is not to be written to yet.
\* Mutant: the client has to be without output, but may be in the list
MutantPrepare(t, i) ==
  IF clientHasPendingReplies(t.cl[i]) \/ t.cl[i].ack THEN t
  ELSE [Flag(t, i, "pw") EXCEPT !.pending = <<i>> \o @]

prepareClientToWrite(t, i) ==
  IF clientHasPendingReplies(t.cl[i]) \/ Has(t, i, "pw") \/ t.cl[i].ack THEN t
  ELSE [Flag(t, i, "pw") EXCEPT !.pending = <<i>> \o @]

Usage(c) == c.rbytes + conf.item * Len(c.reply)
OverHard(c) == conf.hard > 0 /\ Usage(c) >= conf.hard
OverSoft(c) == conf.softlimit > 0 /\ Usage(c) >= conf.softlimit

\* checkClientOutputBufferLimits: over the hard limit, or over the soft one
\* for longer than allowed.
asyncCloseClientOnOutputBufferLimitReached(t, i) ==
  LET c == t.cl[i]
      late == OverSoft(c) /\ c.soft # 0 /\ t.now - c.soft > conf.softtime
      t1 == [t EXCEPT !.cl[i].soft = IF ~OverSoft(c) THEN 0 ELSE IF @ = 0 THEN t.now ELSE @]
  IN  IF c.rbytes = 0 \/ Has(t, i, "asap") THEN t
      ELSE IF OverHard(c) \/ late THEN freeClientAsync(t1, i) ELSE t1

\* The next k bytes promised to the client.
Promised(c, k) == <<>> \o [j \in 1..k |-> c.n + j]
_addReplyToBuffer(c, k) == [c EXCEPT !.buf = @ \o Promised(c, k), !.n = @ + k]

Hole == <<0>>
_addReplyToList(c, k) ==
  LET glue == c.reply # <<>> /\ Last(c.reply) # Hole /\ Len(Last(c.reply)) + k <= conf.chunk
  IN  [c EXCEPT !.reply = IF glue THEN Front(@) \o <<Last(@) \o Promised(c, k)>> ELSE Append(@, Promised(c, k)),
                !.rbytes = @ + k, !.n = @ + k]

\* Mutant: bytes go to the static buffer while the list holds earlier ones
MutantFits(c, k) == Len(c.buf) + k <= conf.buf

\* There is room in the static buffer and nothing is in the list after it.
Fits(c, k) == c.reply = <<>> /\ Len(c.buf) + k <= conf.buf

addReply(t, i, k) ==
  LET t1 == prepareClientToWrite(t, i)
      c == t1.cl[i]
  IN  IF ~Accepts(t, i) THEN t
      ELSE IF "after" \in c.fl THEN t1
      ELSE IF Fits(c, k) THEN Set(t1, i, _addReplyToBuffer(c, k))
      ELSE asyncCloseClientOnOutputBufferLimitReached(Set(t1, i, _addReplyToList(c, k)), i)

\* The length of a reply that is known at its end only has a node of its own,
\* which takes in the next one when the length is there.
addDeferredMultiBulkLength(t, i) ==
  [prepareClientToWrite(t, i) EXCEPT !.cl[i].reply = Append(@, Hole), !.cl[i].n = @ + 1]
\* Mutant: the bytes of the next node are counted again
MutantSetDeferred(t, i, p, byte) ==
  LET c == t.cl[i]
      glue == Len(c.reply) > p /\ c.reply[p + 1] # Hole
      text == IF glue THEN <<byte>> \o c.reply[p + 1] ELSE <<byte>>
  IN  asyncCloseClientOnOutputBufferLimitReached(
        Set(t, i, [c EXCEPT !.rbytes = @ + Len(text),
                            !.reply = SubSeq(@, 1, p - 1) \o <<text>> \o SubSeq(@, (IF glue THEN p + 2 ELSE p + 1), Len(@))]), i)

setDeferredMultiBulkLength(t, i, p, byte) ==
  LET c == t.cl[i]
      glue == Len(c.reply) > p /\ c.reply[p + 1] # Hole
      text == IF glue THEN <<byte>> \o c.reply[p + 1] ELSE <<byte>>
  IN  asyncCloseClientOnOutputBufferLimitReached(
        Set(t, i, [c EXCEPT !.rbytes = @ + 1,
                            !.reply = SubSeq(@, 1, p - 1) \o <<text>> \o SubSeq(@, (IF glue THEN p + 2 ELSE p + 1), Len(@))]), i)
DeferredReply(t, i, k) ==
  IF ~Accepts(t, i) THEN t
  ELSE LET t1 == addDeferredMultiBulkLength(t, i)
       IN  setDeferredMultiBulkLength(addReply(t1, i, k), i, Len(t1.cl[i].reply), t1.cl[i].n)

\* One byte is accepted by the socket.
\* Mutant: the list is sent from its first byte after the static buffer
MutantSendByte(c) ==
  IF c.buf # <<>>
  THEN IF c.sent + 1 = Len(c.buf) THEN [c EXCEPT !.got = Append(@, c.buf[c.sent + 1]), !.buf = <<>>]
       ELSE [c EXCEPT !.got = Append(@, c.buf[c.sent + 1]), !.sent = @ + 1]
  ELSE IF c.sent + 1 >= Len(c.reply[1])
       THEN [c EXCEPT !.got = Append(@, Last(c.reply[1])), !.reply = Tail(@), !.rbytes = @ - Len(c.reply[1]), !.sent = 0]
       ELSE [c EXCEPT !.got = Append(@, c.reply[1][c.sent + 1]), !.sent = @ + 1]

SendByte(c) ==
  IF c.buf # <<>>
  THEN IF c.sent + 1 = Len(c.buf) THEN [c EXCEPT !.got = Append(@, c.buf[c.sent + 1]), !.buf = <<>>, !.sent = 0]
       ELSE [c EXCEPT !.got = Append(@, c.buf[c.sent + 1]), !.sent = @ + 1]
  ELSE IF c.sent + 1 = Len(c.reply[1])
       THEN [c EXCEPT !.got = Append(@, c.reply[1][c.sent + 1]), !.reply = Tail(@), !.rbytes = @ - Len(c.reply[1]), !.sent = 0]
       ELSE [c EXCEPT !.got = Append(@, c.reply[1][c.sent + 1]), !.sent = @ + 1]
\* Empty nodes are dropped when their turn comes.
DropEmpty(c) ==
  IF c.buf # <<>> \/ c.reply = <<>> \/ c.reply[1] # <<>> THEN c
  ELSE [c EXCEPT !.reply = SelectSeq(@, LAMBDA node : node # <<>>)]
Sends(c, k) ==
  FoldLeft(LAMBDA x, j : IF clientHasPendingReplies(x) THEN DropEmpty(SendByte(x)) ELSE x, DropEmpty(c), [j \in 1..k |-> j])

\* The socket takes up to k bytes; k = -1 is an error.
writeToClient(t, i, k, handler_installed) ==
  LET c == [Sends(t.cl[i], k) EXCEPT !.last = IF k > 0 /\ clientHasPendingReplies(t.cl[i]) THEN t.now ELSE @]
      t1 == Set(t, i, c)
      t2 == IF handler_installed THEN aeDeleteFileEvent(t1, c.fd, FALSE, TRUE) ELSE t1
  IN  IF k = -1 /\ clientHasPendingReplies(t.cl[i]) THEN freeClient(t, i)
      ELSE IF clientHasPendingReplies(c) THEN t1
      ELSE IF "after" \in c.fl THEN freeClient(t2, i) ELSE t2

\* One client of handleClientsWithPendingWrites.
\* Mutant: the writable event is registered only if nothing was written
MutantWritePending(t, i, k) ==
  LET t1 == writeToClient([Unflag(t, i, "pw") EXCEPT !.pending = Tail(@)], i, k, FALSE)
  IN  IF t1.cl[i].st = "live" /\ clientHasPendingReplies(t1.cl[i]) /\ t1.cl[i].got = t.cl[i].got
      THEN aeCreateFileEvent(t1, t1.cl[i].fd, FALSE, TRUE, conf.always, i) ELSE t1

WritePending(t, i, k) ==
  LET t1 == writeToClient([Unflag(t, i, "pw") EXCEPT !.pending = Tail(@)], i, k, FALSE)
  IN  IF t1.cl[i].st = "live" /\ clientHasPendingReplies(t1.cl[i])
      THEN aeCreateFileEvent(t1, t1.cl[i].fd, FALSE, TRUE, conf.always, i) ELSE t1

-----------------------------------------------------------------------------
(* Pauses *)

pauseClients(t, d) ==
  LET end == IF d = 0 THEN 0 ELSE t.now + d
  IN  [t EXCEPT !.paused = TRUE, !.until = IF ~t.paused \/ end > @ THEN end ELSE @]

\* A pause that is over ends: every client that is neither a slave nor blocked
\* is queued for its input to be looked at, also one that is in the queue
\* already (remembered in `twice').
clientsArePaused(t) ==
  IF ~(t.paused /\ t.until < t.now) THEN t
  ELSE FoldLeft(LAMBDA x, i : IF x.cl[i].fl \cap {"slave", "blocked"} # {} THEN x
                              ELSE [Flag(x, i, "unblocked") EXCEPT
                                      !.unblocked = Append(@, i), !.twice = @ \cup ({i} \cap Range(x.unblocked))],
                [t EXCEPT !.paused = FALSE], t.clients)

-----------------------------------------------------------------------------
(* Commands *)

Live(t) == {i \in DOMAIN t.cl : t.cl[i].st = "live"}
Blocked(t) == {i \in Live(t) : Has(t, i, "blocked")}

\* A push replies, and then serves the client that waits; the settings have
\* one client that blocks at most.
Push(t, i) ==
  LET t1 == addReply(t, i, 1)
  IN  FoldLeft(LAMBDA x, j : unblockClient(addReply(x, j, 1), j), t1, SetToSeq(Blocked(t1)))

\* CLIENT KILL
Kill(t, i, j) ==
  IF i = j THEN Flag(addReply(t, i, 1), i, "after")
  ELSE addReply(IF t.cl[j].st = "live" THEN freeClient(t, j) ELSE t, i, 1)

putSlaveOnline(t, i) ==
  aeCreateFileEvent([t EXCEPT !.cl[i].ack = FALSE], t.cl[i].fd, FALSE, TRUE, FALSE, i)

Execute(t, i, cmd) ==
  CASE cmd.op = "get" -> addReply(addReply(t, i, 1), i, cmd.n)
    [] cmd.op = "keys" -> DeferredReply(t, i, cmd.n)
    [] cmd.op = "set" -> FoldLeft(LAMBDA x, j : addReply(x, j, 2), addReply(t, i, 1), SetToSeq({j \in Live(t) : IsSlave(t, j)}))
    [] cmd.op = "publish" -> addReply(addReply(t, cmd.to, cmd.n), i, 1)
    [] cmd.op = "push" -> Push(t, i)
    [] cmd.op = "blpop" -> [Flag(t, i, "blocked") EXCEPT !.cl[i].until = IF cmd.n = 0 THEN 0 ELSE t.now + cmd.n]
    [] cmd.op = "on" -> addReply(Unflag(Unflag(t, i, "skip"), i, "off"), i, 1)
    [] cmd.op = "off" -> Flag(t, i, "off")
    [] cmd.op = "skip" -> IF Has(t, i, "off") THEN t ELSE Flag(t, i, "next")
    [] cmd.op = "kill" -> Kill(t, i, cmd.to)
    [] cmd.op = "pause" -> addReply(pauseClients(t, cmd.n), i, 1)
    [] cmd.op = "host" -> freeClientAsync(t, i)
    [] cmd.op = "ack" -> IF t.cl[i].ack THEN putSlaveOnline(t, i) ELSE t
    [] cmd.op = "quit" -> Flag(addReply(t, i, 1), i, "after")

\* CLIENT REPLY SKIP is for one command, the next.
\* Mutant: the flag for the next command is set, but not for that one only
MutantReset(t, i) ==
  IF Has(t, i, "next") THEN Flag(t, i, "skip") ELSE Unflag(t, i, "skip")
resetClient(t, i) ==
  IF Has(t, i, "next") THEN Flag(Unflag(t, i, "next"), i, "skip") ELSE Unflag(t, i, "skip")

\* What the client was promised by its own command has to wait for the AOF.
Owes(t, t1, i) ==
  IF t1.cl[i].n > t.cl[i].n /\ t.cl[i].unsynced = 0 THEN [t1 EXCEPT !.cl[i].unsynced = t.cl[i].n + 1] ELSE t1

InputStep(t, i) ==
  IF t.cl[i].qb = <<>> THEN t
  ELSE LET t1 == IF IsSlave(t, i) THEN t ELSE clientsArePaused(t)
           cmd == Head(t.cl[i].qb)
           t2 == [t1 EXCEPT !.cl[i].qb = Tail(@), !.cl[i].ran = IF conf.replies THEN Append(@, cmd) ELSE @]
           t3 == Owes(t2, Execute(t2, i, cmd), i)
       IN  IF (t1.paused /\ ~IsSlave(t, i)) \/ t1.cl[i].fl \cap {"blocked", "after", "asap"} # {} THEN t1
           ELSE IF cmd.op = "quit" THEN t3 ELSE resetClient(t3, i)
processInputBuffer(t, i) == FoldLeft(LAMBDA x, j : InputStep(x, i), t, t.cl[i].qb)

-----------------------------------------------------------------------------
(* Handlers *)

\* A client that was freed is used: what happens next is not defined.
UsedFreed(t, i) == [t EXCEPT !.bad = @ \cup {i}]

\* One read takes all the commands there are; without any, the peer has hung
\* up, or there was nothing to read after all.
readQueryFromClient(t, i) ==
  LET c == t.cl[i]
  IN  IF c.st # "live" THEN UsedFreed(t, i)
      ELSE IF c.in # <<>>
      THEN processInputBuffer([t EXCEPT !.cl[i].in = <<>>, !.cl[i].qb = @ \o c.in, !.cl[i].last = t.now], i)
      ELSE IF c.hup THEN freeClient(t, i) ELSE t

sendReplyToClient(t, i, k) ==
  IF t.cl[i].st # "live" THEN UsedFreed(t, i) ELSE writeToClient(t, i, k, TRUE)

\* The new client takes the lowest free descriptor; one too many is closed.
FreeFd(t) == Min({fd \in DOMAIN t.ev \ {0} : \A i \in DOMAIN t.cl : t.cl[i].fd # fd})
Connected(t, i) ==
  [aeCreateFileEvent(t, FreeFd(t), TRUE, FALSE, FALSE, i)
     EXCEPT !.clients = Append(@, i), !.cl[i].st = "live", !.cl[i].fd = FreeFd(t), !.cl[i].last = t.now]
acceptCommonHandler(t, i) ==
  LET t1 == Connected(t, i) IN IF Len(t1.clients) > conf.maxclients THEN freeClient(t1, i) ELSE t1
acceptTcpHandler(t) == FoldLeft(acceptCommonHandler, [t EXCEPT !.backlog = <<>>], t.backlog)

Readable(t, fd, k) == IF fd = 0 THEN acceptTcpHandler(t) ELSE readQueryFromClient(t, t.ev[fd].id)

\* An event that was fired is handled if it is still registered: the read
\* before the write, or after it if there is a barrier.
\* Mutant: that the event is still registered is not looked at
MutantFileEvent(t, e, k) ==
  LET b == t.ev[e.fd].b
      t1 == IF ~b /\ e.r THEN Readable(t, e.fd, k) ELSE t
      t2 == IF e.w THEN sendReplyToClient(t1, t1.ev[e.fd].id, k) ELSE t1
  IN  IF b /\ e.r THEN Readable(t2, e.fd, k) ELSE t2
\* Mutant: the barrier is not looked at
MutantNoBarrier(t, e, k) ==
  LET t1 == IF e.r /\ t.ev[e.fd].r THEN Readable(t, e.fd, k) ELSE t
  IN  IF e.w /\ t1.ev[e.fd].w THEN sendReplyToClient(t1, t1.ev[e.fd].id, k) ELSE t1

FileEvent(t, e, k) ==
  LET b == t.ev[e.fd].b
      t1 == IF ~b /\ e.r /\ t.ev[e.fd].r THEN Readable(t, e.fd, k) ELSE t
      t2 == IF e.w /\ t1.ev[e.fd].w THEN sendReplyToClient(t1, t1.ev[e.fd].id, k) ELSE t1
  IN  IF b /\ e.r /\ t2.ev[e.fd].r THEN Readable(t2, e.fd, k) ELSE t2

\* clientsCronHandleTimeout
HandleTimeout(t, i) ==
  LET c == t.cl[i]
  IN  IF conf.idle > 0 /\ c.fl \cap {"slave", "blocked"} = {} /\ t.now - c.last > conf.idle THEN freeClient(t, i)
      ELSE IF Has(t, i, "blocked") /\ c.until # 0 /\ c.until < t.now THEN unblockClient(addReply(t, i, 1), i)
      ELSE t
clientsCron(t) ==
  FoldLeft(LAMBDA x, j : IF x.clients = <<>> THEN x
                         ELSE HandleTimeout([x EXCEPT !.clients = <<Last(@)>> \o Front(@)], Last(x.clients)), t, t.clients)
serverCron(t, now) == clientsArePaused(freeClientsInAsyncFreeQueue(clientsCron([t EXCEPT !.now = now])))

-----------------------------------------------------------------------------
(* The loop: aeApiPoll, the events it returns, the timer, and beforeSleep, *)
(* which serves the queued clients, writes the AOF and then the replies.   *)

ClientsInit ==
  LET t0 == [cl |-> <<>> \o [i \in DOMAIN conf.scripts |-> NewClient(i)], clients |-> <<>>, pending |-> <<>>, toclose |-> <<>>,
             unblocked |-> <<>>, ev |-> (0 :> [NoEvents EXCEPT !.r = TRUE]) @@ [fd \in 1..conf.fds |-> NoEvents],
             fired |-> <<>>, phase |-> "poll", backlog |-> <<>>, paused |-> FALSE, until |-> 0, now |-> 1,
             bad |-> {}, twice |-> {}]
  IN  FoldLeft(LAMBDA t, i : IF i \in conf.slaves
                             THEN [Flag(Connected(t, i), i, "slave") EXCEPT !.cl[i].ack = TRUE] ELSE Connected(t, i),
               t0, conf.connected)

Ready(t, w) ==
  {[fd |-> fd, r |-> t.ev[fd].r /\ (IF fd = 0 THEN t.backlog # <<>> ELSE t.cl[t.ev[fd].id].in # <<>> \/ t.cl[t.ev[fd].id].hup),
    w |-> fd \in w] : fd \in DOMAIN t.ev}

Send(i) ==
  /\ s.phase = "poll" /\ s.cl[i].st = "live" /\ ~s.cl[i].hup /\ s.cl[i].script # <<>>
  /\ Quiet([s EXCEPT !.cl[i].in = Append(@, Head(s.cl[i].script)), !.cl[i].script = Tail(@)])
PeerCloses(i) ==
  /\ s.phase = "poll" /\ s.cl[i].st = "live" /\ ~s.cl[i].hup /\ i \in conf.closing
  /\ Quiet([s EXCEPT !.cl[i].hup = TRUE])
Connect(i) ==
  /\ s.phase = "poll" /\ s.cl[i].st = "new" /\ i \notin Range(s.backlog)
  /\ Quiet([s EXCEPT !.backlog = Append(@, i)])
aeApiPoll ==
  /\ s.phase = "poll"
  /\ \E w \in SUBSET {fd \in DOMAIN s.ev : s.ev[fd].w} :
       \E fired \in SetToSeqs({e \in Ready(s, w) : e.r \/ e.w}) : Quiet([s EXCEPT !.fired = fired, !.phase = "events"])
HandleEvent ==
  /\ s.phase = "events"
  /\ IF s.fired = <<>> THEN Quiet([s EXCEPT !.phase = "time"])
     ELSE \E k \in conf.takes : Quiet([FileEvent(s, Head(s.fired), k) EXCEPT !.fired = Tail(@)])
TimeEvent ==
  /\ s.phase = "time"
  /\ \/ Quiet([s EXCEPT !.phase = "unblock"])
     \/ \E d \in 0..1 : s.now + d <= conf.maxnow /\ Quiet([serverCron(s, s.now + d) EXCEPT !.phase = "unblock"])
processUnblockedClients ==
  /\ s.phase = "unblock"
  /\ IF s.unblocked = <<>>
     THEN Quiet([s EXCEPT !.phase = "write", !.cl = <<>> \o [i \in DOMAIN @ |-> [@[i] EXCEPT !.unsynced = 0]]])
     ELSE LET i == Head(s.unblocked)
              t == Unflag([s EXCEPT !.unblocked = Tail(@)], i, "unblocked")
          IN  Quiet(IF s.cl[i].st # "live" THEN UsedFreed(t, i)
                    ELSE IF Has(t, i, "blocked") THEN t ELSE processInputBuffer(t, i))
handleClientsWithPendingWrites ==
  /\ s.phase = "write"
  /\ IF s.pending = <<>> THEN Quiet([s EXCEPT !.phase = "poll"])
     ELSE \E k \in conf.takes : Quiet(WritePending(s, Head(s.pending), k))

ClientsNext ==
  /\ IsClients /\ s.bad = {}
  /\ \/ \E i \in DOMAIN s.cl : Send(i) \/ PeerCloses(i) \/ Connect(i)
     \/ aeApiPoll \/ HandleEvent \/ TimeEvent \/ processUnblockedClients \/ handleClientsWithPendingWrites

-----------------------------------------------------------------------------
Numbers(n) == <<>> \o [j \in 1..n |-> j]
Unsent(c) == LET all == c.buf \o FlattenSeq(c.reply) IN SubSeq(all, c.sent + 1, Len(all))

\* A client receives what it was promised, in order, nothing twice and nothing
\* left out, wherever the socket stops taking bytes and whatever is glued,
\* deferred or moved to the list; what it has not received is in its buffers.
OutputInOrder ==
  IsClients => \A i \in DOMAIN s.cl : LET c == s.cl[i] IN
    IF c.st = "live" THEN c.got \o Unsent(c) = Numbers(c.n) ELSE IsPrefix(c.got, Numbers(c.n))

\* The bytes of the list are counted right, so that the limits are about what
\* the client really holds, and a client over the hard limit is to be closed.
ReplyBytesCounted ==
  IsClients => \A i \in Live(s) :
    /\ s.cl[i].rbytes = Len(FlattenSeq(s.cl[i].reply))
    /\ OverHard(s.cl[i]) => Has(s, i, "asap")

\* The lists of the server and the flags of the clients agree, and no list
\* has a client that was freed, but for the queue of unblocked clients: the end
\* of a pause may put a client in it twice, and freeing takes it out once.
ClientLists ==
  IsClients =>
    /\ \A i \in DOMAIN s.cl :
         /\ s.cl[i].st = "live" <=> i \in Range(s.clients)
         /\ Has(s, i, "pw") <=> i \in Range(s.pending)
         /\ Has(s, i, "unblocked") => i \in Range(s.unblocked)
         /\ s.cl[i].st = "live" => (Has(s, i, "asap") <=> i \in Range(s.toclose))
    /\ \A list \in {s.clients, s.pending, s.toclose} : IsInjective(list)
    /\ Range(s.pending) \cup Range(s.toclose) \subseteq Live(s)
    /\ Range(s.unblocked) \subseteq Live(s) \cup s.twice

\* No handler runs for a client that was freed, also when the client is freed
\* by an earlier event of the same iteration and its descriptor given anew,
\* unless the end of a pause had queued it twice.
NoUseAfterFree == IsClients => s.bad \subseteq s.twice

\* A client that has output is in the list of those to write to or waits for
\* its socket, but for a slave that has yet to acknowledge its data set; a
\* client that is to be closed after its reply has a reply to send.
WritesScheduled ==
  IsClients => \A i \in Live(s) :
    /\ clientHasPendingReplies(s.cl[i]) => Has(s, i, "pw") \/ s.ev[s.cl[i].fd].w \/ s.cl[i].ack
    /\ Has(s, i, "after") => clientHasPendingReplies(s.cl[i]) \/ Has(s, i, "pw")

\* When the server goes to sleep no command that it has read is left, except
\* of clients that are blocked, paused or to be closed.
InputServed ==
  IsClients /\ s.phase = "poll" => \A i \in Live(s) :
    s.cl[i].qb # <<>> => \/ s.cl[i].fl \cap {"blocked", "after", "asap"} # {}
                         \/ s.paused /\ ~IsSlave(s, i)

\* With appendfsync always a client does not receive the reply to its own
\* command before the AOF was written and synced.
RepliesAfterSync ==
  IsClients /\ conf.always => \A i \in Live(s) : s.cl[i].unsynced # 0 => Len(s.cl[i].got) < s.cl[i].unsynced

\* CLIENT REPLY: a command is answered unless replies are off at it, or the
\* command before it was a skip.
OffAt(ran, j) ==
  LET at == {p \in 1..j : ran[p].op \in {"on", "off"}} IN at # {} /\ ran[Max(at)].op = "off"
Answered(ran) ==
  {j \in DOMAIN ran : /\ ran[j].op \notin {"off", "skip"}
                      /\ ~OffAt(ran, j)
                      /\ j > 1 /\ ran[j - 1].op = "skip" => ran[j].op = "on"}
RepliesWanted ==
  IsClients /\ conf.replies => \A i \in DOMAIN s.cl :
    s.cl[i].n = FoldSet(LAMBDA j, sum : sum + IF s.cl[i].ran[j].op = "get" THEN 1 + s.cl[i].ran[j].n ELSE 1,
                        0, Answered(s.cl[i].ran))
=============================================================================
