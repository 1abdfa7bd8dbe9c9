------------------------------ MODULE Requests ------------------------------
(***************************************************************************)
(* networking.c, the input side of one connection: the bytes the peer has  *)
(* sent arrive in reads of any size, are parsed as inline or multi bulk    *)
(* requests, and the commands are executed, unless the client is paused or *)
(* blocked.  When the connection is the one with the master, the bytes of  *)
(* the applied commands are passed on to the replicas of this server.      *)
(*                                                                         *)
(* s.todo are the bytes in the socket and s.fed those read so far; qb is   *)
(* the query buffer with reqtype, mbl (multibulklen), bl (bulklen) and     *)
(* argv; done are the commands executed.  conf.reqs is what the peer sends,*)
(* a sequence of [bytes, argv, err]: the request, the command it stands    *)
(* for (empty if none) and the protocol error it is ("none" if none).      *)
(*                                                                         *)
(* A line is split into arguments by sds.c, which also writes a string     *)
(* between quotes (CONFIG REWRITE, MONITOR); a behaviour of kind "quoted"  *)
(* builds a text s of character codes.                                     *)
(***************************************************************************)
EXTENDS Structure, SequencesExt

-----------------------------------------------------------------------------
(* sds.c: quoting *)


IsQuoted == kind = "quoted"
NUL == 0
Quote == 34
Apostrophe == 39
Backslash == 92
SmallX == 120
Spaces == {9, 10, 11, 12, 13, 32}
HexDigits == (48..57) \cup (65..70) \cup (97..102)
hex_digit_to_int(c) == IF c <= 57 THEN c - 48 ELSE IF c <= 70 THEN c - 55 ELSE c - 87
\* \n \r \t \b \a
Escapes == (110 :> 10) @@ (114 :> 13) @@ (116 :> 9) @@ (98 :> 8) @@ (97 :> 7)
Unescaped(c) == IF c \in DOMAIN Escapes THEN Escapes[c] ELSE c

At(line, p) == IF p <= Len(line) THEN line[p] ELSE NUL
Plain(line, p) == At(line, p) \notin {NUL} \cup Spaces
Next1(a, n, text) == [a EXCEPT !.p = @ + n, !.cur = @ \o text]
Enter(a, mode) == [a EXCEPT !.p = @ + 1, !.mode = mode]
Token(line, a) ==
  [a EXCEPT !.p = IF At(line, @) = NUL THEN @ ELSE @ + 1, !.argv = Append(@, a.cur), !.cur = <<>>, !.mode = "blank"]
Unbalanced(a) == [a EXCEPT !.mode = "err"]

InWord(line, a) ==
  CASE At(line, a.p) \in {NUL, 9, 10, 13, 32} -> Token(line, a)
    [] At(line, a.p) = Quote -> Enter(a, "inq")
    [] At(line, a.p) = Apostrophe -> Enter(a, "insq")
    [] OTHER -> Next1(a, 1, <<At(line, a.p)>>)
HexEscape(line, p) == At(line, p) = SmallX /\ At(line, p + 1) \in HexDigits /\ At(line, p + 2) \in HexDigits
InQuotes(line, a) ==
  CASE At(line, a.p) = Backslash /\ HexEscape(line, a.p + 1)
         -> Next1(a, 4, <<hex_digit_to_int(At(line, a.p + 2)) * 16 + hex_digit_to_int(At(line, a.p + 3))>>)
    [] At(line, a.p) = Backslash /\ ~HexEscape(line, a.p + 1) /\ At(line, a.p + 1) # NUL
         -> Next1(a, 2, <<Unescaped(At(line, a.p + 1))>>)
    [] At(line, a.p) = Quote -> IF Plain(line, a.p + 1) THEN Unbalanced(a) ELSE Token(line, a)
    [] At(line, a.p) = NUL -> Unbalanced(a)
    [] OTHER -> Next1(a, 1, <<At(line, a.p)>>)
InApostrophes(line, a) ==
  CASE At(line, a.p) = Backslash /\ At(line, a.p + 1) = Apostrophe -> Next1(a, 2, <<Apostrophe>>)
    [] At(line, a.p) = Apostrophe -> IF Plain(line, a.p + 1) THEN Unbalanced(a) ELSE Token(line, a)
    [] At(line, a.p) = NUL -> Unbalanced(a)
    [] OTHER -> Next1(a, 1, <<At(line, a.p)>>)
SplitStep(line, a) ==
  CASE a.mode = "err" -> a
    [] a.mode = "inq" -> InQuotes(line, a)
    [] a.mode = "insq" -> InApostrophes(line, a)
    [] a.mode = "blank" /\ At(line, a.p) = NUL -> a
    [] a.mode = "blank" /\ At(line, a.p) \in Spaces -> Enter(a, "blank")
    [] OTHER -> InWord(line, [a EXCEPT !.mode = "word"])

\* [mode |-> "err" or "blank", argv |-> the arguments]
sdssplitargs(line) ==
  FoldLeft(LAMBDA a, j : SplitStep(line, a), [p |-> 1, mode |-> "blank", cur |-> <<>>, argv |-> <<>>],
           [j \in 1..(Len(line) + 1) |-> j])

-----------------------------------------------------------------------------
HexDigit(n) == IF n < 10 THEN 48 + n ELSE 87 + n
isprint(c) == c \in 32..126
\* A string between quotes, with escapes for what cannot be printed.
sdscatrepr(text) ==
  LET Repr(c) == CASE c \in {Backslash, Quote} -> <<Backslash, c>>
                   [] \E e \in DOMAIN Escapes : Escapes[e] = c -> <<Backslash, CHOOSE e \in DOMAIN Escapes : Escapes[e] = c>>
                   [] isprint(c) /\ c \notin {Backslash, Quote} -> <<c>>
                   [] OTHER -> <<Backslash, SmallX, HexDigit(c \div 16), HexDigit(c % 16)>>
  IN  <<Quote>> \o FoldLeft(LAMBDA out, c : out \o Repr(c), <<>>, text) \o <<Quote>>

QuotedNext == IsQuoted /\ Len(s) < conf.most /\ \E c \in conf.chars : Quiet(Append(s, c))

-----------------------------------------------------------------------------
(* Numbers and lines *)


IsRequests == kind = "requests"

CR == 13
LF == 10
Star == 42
Dollar == 36
Minus == 45
Digit0 == 48
\* The commands that matter to the connection; any other is a plain one.
MULTI == <<109>>
EXEC == <<101>>
BLPOP == <<98>>

From(text, p) == SubSeq(text, p + 1, Len(text))

\* The first place of ch at or after p, before the end of the C string.
strchr(text, p, ch) ==
  LET at == {q \in p..Len(text) : text[q] = ch /\ \A r \in p..q : text[r] # NUL}
  IN  IF at = {} THEN 0 ELSE Min(at)

\* <<the number>>, or <<>> if the text is not one in the only form accepted.
string2ll(text) ==
  LET neg == Len(text) > 1 /\ text[1] = Minus
      digits == IF neg THEN Tail(text) ELSE text
      value == FoldLeft(LAMBDA v, d : 10 * v + d - Digit0, 0, digits)
  IN  IF /\ digits # <<>>
         /\ \A p \in DOMAIN digits : digits[p] \in Digit0..(Digit0 + 9)
         /\ digits[1] = Digit0 => text = <<Digit0>>
      THEN <<IF neg THEN -value ELSE value>>
      ELSE <<>>

-----------------------------------------------------------------------------
(* Parsing: r.st says how a step of it ends, "ok" with a request in argv,  *)
(* "wait" for more bytes, or "go" on.                                      *)

Closing(r) == r.after \/ r.closed # "no"

\* The error is replied and the connection closed once the reply is sent.
setProtocolError(r, err, p) == [r EXCEPT !.err = err, !.after = TRUE, !.qb = From(@, p), !.st = "wait"]
Waiting(r, err) ==
  IF Len(r.qb) > conf.inlinemax THEN setProtocolError(r, err, 0) ELSE [r EXCEPT !.st = "wait"]

processInlineBuffer(r) ==
  LET nl == strchr(r.qb, 1, LF)
      end == IF nl > 1 /\ r.qb[nl - 1] = CR THEN nl - 2 ELSE nl - 1
      line == sdssplitargs(SubSeq(r.qb, 1, end))
  IN  IF nl = 0 THEN Waiting(r, "too big inline")
      ELSE IF line.mode = "err" THEN setProtocolError(r, "unbalanced quotes", 0)
      ELSE [r EXCEPT !.qb = From(@, nl), !.argv = SelectSeq(line.argv, LAMBDA a : a # <<>>), !.st = "ok"]

\* The first line of a multi bulk request: how many arguments it has.
MultibulkLength(r) ==
  LET nl == strchr(r.qb, 1, CR)
      ll == string2ll(SubSeq(r.qb, 2, nl - 1))
  IN  IF nl = 0 THEN Waiting(r, "too big mbulk count")
      ELSE IF nl > Len(r.qb) - 1 THEN [r EXCEPT !.st = "wait"]
      ELSE IF ll = <<>> \/ (ll # <<>> /\ ll[1] > conf.maxmulti) THEN setProtocolError(r, "invalid multibulk length", 0)
      ELSE IF ll[1] <= 0 THEN [r EXCEPT !.qb = From(@, nl + 1), !.st = "ok"]
      ELSE [r EXCEPT !.mbl = ll[1], !.pos = nl + 1]

\* A long argument is moved to the start of the query buffer.
BulkLength(r) ==
  LET nl == strchr(r.qb, r.pos + 1, CR)
      ll == string2ll(SubSeq(r.qb, r.pos + 2, nl - 1))
  IN  IF nl = 0 THEN Waiting(r, "too big bulk count")
      ELSE IF nl > Len(r.qb) - 1 THEN [r EXCEPT !.st = "wait"]
      ELSE IF r.qb[r.pos + 1] # Dollar THEN setProtocolError(r, "expected $", r.pos)
      ELSE IF ll = <<>> \/ (ll # <<>> /\ (ll[1] < 0 \/ ll[1] > conf.maxbulk))
           THEN setProtocolError(r, "invalid bulk length", r.pos)
      ELSE IF ll[1] >= conf.big THEN [r EXCEPT !.bl = ll[1], !.qb = From(@, nl + 1), !.pos = 0]
      ELSE [r EXCEPT !.bl = ll[1], !.pos = nl + 1]

\* The buffer itself becomes the argument if that is all it holds.
BulkArgument(r) ==
  IF Len(r.qb) - r.pos < r.bl + 2 THEN [r EXCEPT !.st = "wait"]
  ELSE IF r.pos = 0 /\ r.bl >= conf.big /\ Len(r.qb) = r.bl + 2
  THEN [r EXCEPT !.argv = Append(@, SubSeq(r.qb, 1, r.bl)), !.qb = <<>>, !.bl = -1, !.mbl = @ - 1]
  ELSE [r EXCEPT !.argv = Append(@, SubSeq(r.qb, r.pos + 1, r.pos + r.bl)), !.pos = @ + r.bl + 2,
                 !.bl = -1, !.mbl = @ - 1]

MultibulkStep(r) ==
  CASE r.st # "go" \/ r.mbl = 0 -> r
    [] r.st = "go" /\ r.mbl > 0 /\ r.bl = -1 -> BulkLength(r)
    [] OTHER -> BulkArgument(r)
Trimmed(r) == [r EXCEPT !.qb = From(@, r.pos), !.pos = 0, !.st = IF r.st = "go" THEN "ok" ELSE @]

\* A protocol error has trimmed the buffer itself.
Parsed(r) == IF r.err # "none" THEN [r EXCEPT !.pos = 0] ELSE Trimmed(r)
BulkArguments(r) ==
  IF r.st # "go" THEN r ELSE Parsed(FoldLeft(LAMBDA x, j : MultibulkStep(x), r, [j \in 1..(2 * r.mbl) |-> j]))
processMultibulkBuffer(r) == BulkArguments(IF r.mbl = 0 THEN MultibulkLength(r) ELSE r)

resetClient(r) == [r EXCEPT !.argv = <<>>, !.req = "none", !.mbl = 0, !.bl = -1]

\* processCommand; the applied offset does not move inside a transaction.
Applied(r) == IF conf.master /\ ~r.multi THEN [r EXCEPT !.reploff = r.readoff - Len(r.qb)] ELSE r
Executed(r) == Applied([r EXCEPT !.done = Append(@, r.argv), !.blocked = r.argv[1] = BLPOP,
                                 !.multi = (@ \/ r.argv[1] = MULTI) /\ r.argv[1] # EXEC])

Stops(r) == r.qb = <<>> \/ r.paused \/ r.blocked \/ Closing(r) \/ r.st = "wait"
Parse(r) == IF r.req = "inline" THEN processInlineBuffer(r) ELSE processMultibulkBuffer(r)
Process(r) ==
  CASE r.st = "wait" -> r
    [] r.st # "wait" /\ r.argv = <<>> -> resetClient(r)
    [] OTHER -> resetClient(Executed(r))
InputStep(r) ==
  IF Stops(r) THEN r
  ELSE Process(Parse([r EXCEPT !.st = "go", !.req = IF @ # "none" THEN @ ELSE IF r.qb[1] = Star THEN "multi" ELSE "inline"]))
processInputBuffer(r) ==
  [FoldLeft(LAMBDA x, j : InputStep(x), [r EXCEPT !.st = "ok"], conf.reqs) EXCEPT !.st = "ok"]

-----------------------------------------------------------------------------
(* Steps: the read handler, with any number of the bytes there are; a      *)
(* pause that starts, ends, and is found to have ended; the end of a       *)
(* blocking command; the queue of the clients whose input is looked at     *)
(* again before the server sleeps.                                         *)

FlattenBytes(reqs) == FoldLeft(LAMBDA out, q : out \o q.bytes, <<>>, reqs)
RequestsInit ==
  [todo |-> FlattenBytes(conf.reqs), fed |-> <<>>, hup |-> FALSE, closed |-> "no", after |-> FALSE, err |-> "none",
   qb |-> <<>>, pos |-> 0, st |-> "ok", req |-> "none", mbl |-> 0, bl |-> -1, argv |-> <<>>, done |-> <<>>,
   multi |-> FALSE, blocked |-> FALSE, paused |-> FALSE, over |-> FALSE, queued |-> FALSE,
   readoff |-> 0, reploff |-> 0, pend |-> <<>>, fwd |-> <<>>, resumed |-> 0]

\* How much is read at once: not more than what a long argument still needs.
readlen(r) ==
  IF r.req = "multi" /\ r.mbl # 0 /\ r.bl # -1 /\ r.bl >= conf.big
  THEN Min({conf.iobuf, r.bl + 2 - Len(r.qb)}) ELSE conf.iobuf

\* clientsArePaused: a pause that is over ends here and the client is queued.
clientsArePaused(r) ==
  IF r.paused /\ r.over THEN [r EXCEPT !.paused = FALSE, !.over = FALSE, !.queued = @ \/ ~r.blocked] ELSE r

replicationFeedSlavesFromMasterStream(r, applied) ==
  IF applied = 0 THEN r ELSE [r EXCEPT !.fwd = @ \o SubSeq(r.pend, 1, applied), !.pend = From(@, applied)]

freeClient(r, why) == [r EXCEPT !.closed = why]
Fed(r, n, bytes) ==
  [r EXCEPT !.todo = From(@, n), !.fed = @ \o bytes, !.qb = @ \o bytes,
            !.pend = IF conf.master THEN @ \o bytes ELSE @, !.readoff = IF conf.master THEN @ + n ELSE @]
Forward(r, before) == IF conf.master THEN replicationFeedSlavesFromMasterStream(r, r.reploff - before) ELSE r
InputRead(r) ==
  IF Len(r.qb) > conf.maxquery THEN freeClient(r, "querybuf")
  ELSE Forward(processInputBuffer(clientsArePaused(r)), r.reploff)
readQueryFromClient(r, n) == IF n = 0 THEN freeClient(r, "eof") ELSE InputRead(Fed(r, n, SubSeq(r.todo, 1, n)))

Read ==
  /\ s.closed = "no"
  /\ s.todo # <<>> \/ s.hup
  /\ \E n \in 0..Min({readlen(s), Len(s.todo)}) :
       /\ n = 0 <=> readlen(s) = 0 \/ s.todo = <<>>
       /\ Quiet(readQueryFromClient(s, n))
Hangup == conf.hangup /\ ~s.hup /\ Quiet([s EXCEPT !.hup = TRUE])
pauseClients == conf.pause /\ ~s.paused /\ Quiet([s EXCEPT !.paused = TRUE])
PauseOver == s.paused /\ ~s.over /\ Quiet([s EXCEPT !.over = TRUE])
PauseEnds == s.paused /\ s.over /\ Quiet(clientsArePaused(s))
unblockClient == s.blocked /\ s.closed = "no" /\ Quiet([s EXCEPT !.blocked = FALSE, !.queued = TRUE])
\* The input is looked at again by processInputBuffer, not by the read handler:
\* what it applies of a master's stream is not passed on (counted in `resumed').
processUnblockedClients ==
  /\ s.queued /\ s.closed = "no"
  /\ LET r == processInputBuffer(clientsArePaused([s EXCEPT !.queued = FALSE]))
     IN  Quiet(IF s.blocked \/ s.qb = <<>> THEN [s EXCEPT !.queued = FALSE]
               ELSE [r EXCEPT !.resumed = @ + r.reploff - s.reploff])

RequestsNext ==
  /\ IsRequests
  /\ Read \/ Hangup \/ pauseClients \/ PauseOver \/ PauseEnds \/ unblockClient \/ processUnblockedClients

-----------------------------------------------------------------------------
\* The requests of which every byte was read.
Arrived == {k \in 0..Len(conf.reqs) : Len(FlattenBytes(SubSeq(conf.reqs, 1, k))) <= Len(s.fed)}
Commands(k) == SelectSeq([j \in 1..k |-> conf.reqs[j].argv], LAMBDA a : a # <<>>)

\* However the bytes are cut into reads, the commands executed are those of
\* the requests that arrived, each once and in order, and none that did not:
\* all of them, if nothing holds the client back.
RequestsInOrder ==
  IsRequests =>
    /\ IsPrefix(s.done, Commands(Max(Arrived)))
    /\ ~(s.paused \/ s.blocked \/ s.queued \/ Closing(s)) => s.done = Commands(Max(Arrived))

\* A protocol error is found for a request that has one, and only then; no
\* command after it is executed.
ErrorsFound ==
  IsRequests =>
    /\ s.err # "none" => \E k \in DOMAIN conf.reqs : conf.reqs[k].err = s.err /\ s.done = Commands(k - 1)
    /\ ~(s.paused \/ s.blocked \/ s.queued \/ Closing(s)) =>
         \A k \in Arrived \ {0} : conf.reqs[k].err = "none"

\* The buffer holds all of the long argument that is being read, and nothing
\* else, so that there is no room for the next read.
ArgumentHeld == s.req = "multi" /\ s.bl >= conf.big /\ Len(s.qb) = s.bl + 2

\* A connection is closed as one that the peer closed only if the peer did, or
\* if a pause kept the server from parsing a long argument that had arrived:
\* the next read is of no bytes, and is taken for the end of the connection.
ClosedByPeer ==
  IsRequests /\ s.closed = "eof" => (s.hup /\ s.todo = <<>>) \/ (conf.pause /\ ArgumentHeld)

\* The replicas of this server are sent a prefix of the stream of the master:
\* the part that was applied, up to the end of a command and never inside a
\* transaction, and the rest is kept to be sent.  When the link was paused they
\* are behind from then on, by what was applied as the pause ended, and what
\* they have may end anywhere; it is still a prefix of the stream.
StreamForwarded ==
  IsRequests /\ conf.master =>
    /\ s.fwd \o s.pend = s.fed
    /\ Len(s.fwd) + s.resumed = s.reploff
    /\ s.resumed # 0 => conf.pause
    /\ s.resumed = 0 => \E k \in Arrived : s.fwd = FlattenBytes(SubSeq(conf.reqs, 1, k)) /\ IsPrefix(Commands(k), s.done)

\* What sdscatrepr writes, sdssplitargs reads back as one argument, the same
\* string: quotes, escapes and bytes that cannot be printed included.
QuotedReadBack == IsQuoted => LET a == sdssplitargs(sdscatrepr(s)) IN a.mode = "blank" /\ a.argv = <<s>>
=============================================================================
