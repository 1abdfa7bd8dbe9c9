-------------------------------- MODULE Aof --------------------------------
(***************************************************************************)
(* The append only file of one server (aof.c and the parts of server.c     *)
(* that drive it): the buffer the commands are appended to, the write and  *)
(* the fsync policies, the background rewrite with the pipe that carries   *)
(* the differences to the child, the switch to the rewritten file, turning *)
(* the log on and off at run time, SHUTDOWN, a crash and the loading of    *)
(* the file at restart.                                                    *)
(*                                                                         *)
(* A command is two bytes, its first and its second half, so that a short  *)
(* write, a truncation or a power failure can cut it.  The i-th write of   *)
(* the history appends the number i to its database: a write that is lost, *)
(* executed twice, reordered or executed in another database shows in the  *)
(* data.                                                                   *)
(***************************************************************************)
EXTENDS Integers, Sequences, SequencesExt, FiniteSets

CONSTANTS
  DB,      \* the databases, 0 .. dbnum-1
  NULL,    \* "no child", "no half command"
  Configs  \* the configurations a server may have been started with

\* A configuration: the settings of redis.conf, whether the log is on at start,
\* and bounds on the writes, the seconds, the failing write(2) calls on the log,
\* the failing forks, children, renames and saves, the kills and power failures,
\* the rewrites, and the CONFIG SET appendonly and SHUTDOWN commands.
Config ==
  [fsync : {"no", "everysec", "always"}, noFsyncOnRewrite : BOOLEAN,
   loadTruncated : BOOLEAN, preamble : BOOLEAN, start : {"on", "off"},
   writes : Nat, time : Nat, errors : Nat, fails : Nat, crashes : Nat,
   rewrites : Nat, toggles : Nat]

ASSUME DBAssumption == DB = 0 .. Cardinality(DB) - 1 /\ DB # {}
ASSUME ConfigAssumption == Configs # {} /\ \A c \in Configs : c \in Config

VARIABLES
  conf,       \* the configuration of this server
  srv,        \* the fields of struct server about the log, and the file
  child,      \* the rewriting child and its pipes, or NULL
  rwbuf,      \* server.aof_rewrite_buf_blocks
  rdb,        \* server.rdb_child_pid # -1
  scheduled,  \* server.aof_rewrite_scheduled
  bgstatus,   \* server.aof_lastbgrewrite_status
  cron,       \* where serverCron() is; "idle" outside of it
  now,        \* server.unixtime
  data,       \* the dataset
  hist,       \* history: the database of each write that is in the dataset
  pending,    \* history: the writes whose replies have not been sent
  acked,      \* history: the writes that have been replied to
  used        \* how much of each bound has been used

vars == <<conf, srv, child, rwbuf, rdb, scheduled, bgstatus, cron, now, data,
          hist, pending, acked, used>>

hists == <<data, hist, pending>>

-----------------------------------------------------------------------------
(* Commands and bytes *)

NoDb == -1

Select(d) == [op |-> "select", arg |-> d]

Push(v) == [op |-> "push", arg |-> v]

Multi == [op |-> "multi", arg |-> 0]

Exec == [op |-> "exec", arg |-> 0]

Bytes(cmds) ==
  [i \in 1 .. 2 * Len(cmds) |-> [cmd |-> cmds[(i + 1) \div 2], half |-> (i + 1) % 2]]

\* The client of the loader: what has been executed, the selected database,
\* whether it is inside MULTI, the command of which only the first half has
\* been read, whether the format is broken, the offset after the last command.
FreshClient ==
  [data |-> [d \in DB |-> <<>>], db |-> 0, multi |-> FALSE, part |-> NULL,
   bad |-> FALSE, valid |-> 0, read |-> 0]

\* cmd->proc(fakeClient): a command after MULTI is executed at once
Call(c, cmd) ==
  CASE cmd.op = "select"   -> [c EXCEPT !.db = cmd.arg]
    [] cmd.op = "push"     -> [c EXCEPT !.data[c.db] = Append(@, cmd.arg)]
    [] cmd.op = "multi"    -> [c EXCEPT !.multi = TRUE]
    [] cmd.op = "exec"     -> [c EXCEPT !.multi = FALSE]
    [] cmd.op = "snapshot" -> [c EXCEPT !.data = cmd.arg.data, !.db = cmd.arg.db]

ReadByte(c, b) ==
  LET r == [c EXCEPT !.read = @ + 1] IN
  IF c.bad THEN c
  ELSE IF b.half = 0 /\ c.part = NULL THEN [r EXCEPT !.part = b.cmd]
  ELSE IF b.half = 1 /\ c.part = b.cmd
       THEN Call([r EXCEPT !.part = NULL, !.valid = r.read], b.cmd)
  ELSE [r EXCEPT !.bad = TRUE]

Replay(bytes) == FoldLeft(ReadByte, FreshClient, bytes)

Count(d) == FoldLeft(LAMBDA n, i : n + Len(d[i - 1]), 0,
                     [i \in 1 .. Cardinality(DB) |-> i])

\* The dataset the history stands for
Project(h) ==
  [d \in DB |-> SelectSeq([i \in 1 .. Len(h) |-> i], LAMBDA i : h[i] = d)]

\* What the child writes first: every key, database by database, or an RDB
\* preamble after which the loading client is still in database 0
SnapshotOf(d) ==
  LET full == {i \in DB : d[i] # <<>>} IN
  [op |-> "snapshot",
   arg |-> [data |-> d,
            db |-> IF conf.preamble \/ full = {} THEN 0
                   ELSE CHOOSE i \in full : \A j \in full : j <= i]]

Shorter(m, n) == IF m < n THEN m ELSE n

-----------------------------------------------------------------------------
(* Appending, writing and syncing *)

Up == srv.run = "up" /\ cron = "idle"

Use(b, n) == /\ used[b] < n
             /\ used' = [used EXCEPT ![b] = @ + 1]

FeedBytes(sel, d, cmds) ==
  Bytes((IF sel = d THEN <<>> ELSE <<Select(d)>>) \o cmds)

\* propagate() and feedAppendOnlyFile(): the commands of one call
feedAppendOnlyFile(d, cmds) ==
  LET b == FeedBytes(srv.sel, d, cmds) IN
  IF srv.state = "off" THEN UNCHANGED <<srv, rwbuf>>
  ELSE /\ srv' = [srv EXCEPT !.sel = d,
                             !.buf = IF srv.state = "on" THEN @ \o b ELSE @]
       /\ rwbuf' = IF child # NULL THEN rwbuf \o b ELSE rwbuf

\* Mutant: with "always" as with "everysec" one fsync a second is enough
FlushSyncLazy(a, syncing) ==
  IF now > a.lastsync
  THEN [a EXCEPT !.synced = Len(a.file), !.lastsync = now] ELSE a

\* The fsync at the end of flushAppendOnlyFile()
FlushSync(a, syncing) ==
  IF conf.noFsyncOnRewrite /\ (child # NULL \/ rdb) THEN a
  ELSE IF conf.fsync = "always" THEN [a EXCEPT !.synced = Len(a.file), !.lastsync = now]
  ELSE IF conf.fsync = "everysec" /\ now > a.lastsync
       THEN [a EXCEPT !.jobs = IF syncing THEN @ ELSE Append(@, Len(a.file)),
                      !.lastsync = now]
  ELSE a

Written(a, syncing) ==
  FlushSync([a EXCEPT !.post = 0, !.status = "ok", !.file = @ \o a.buf,
                      !.size = @ + Len(a.buf), !.buf = <<>>], syncing)

\* ftruncate(fd, size): a longer size fills the file with zeros
Truncate(file, size) ==
  [i \in 1 .. size |-> IF i <= Len(file) THEN file[i]
                       ELSE [cmd |-> NULL, half |-> 1]]

\* The error handling, once the file is `file` and n bytes of the buffer stay
\* written
WriteError(a, file, n) ==
  LET b == [a EXCEPT !.post = 0, !.file = file,
                     !.synced = Shorter(@, Len(file)), !.errors = @ + 1]
  IN IF conf.fsync = "always" THEN [b EXCEPT !.run = "exit"]
     ELSE [b EXCEPT !.status = "err", !.size = @ + n,
                    !.buf = SubSeq(@, n + 1, Len(@))]

\* write(2) fails, or is short and ftruncate(2) succeeds or fails; with the log
\* off there is no file descriptor to write to
WriteErrors(a) ==
  IF a.state = "off"
  THEN {[WriteError(a, a.file, 0) EXCEPT !.errors = a.errors]}
  ELSE IF a.errors = conf.errors THEN {}
  ELSE {WriteError(a, a.file, 0), WriteError(a, Truncate(a.file, a.size), 0)}
         \cup {WriteError(a, a.file \o SubSeq(a.buf, 1, n), n) :
                 n \in 1 .. Len(a.buf) - 1}

\* flushAppendOnlyFile(force): the states it can leave a in
flushAppendOnlyFile(a, force) ==
  LET syncing == conf.fsync = "everysec" /\ a.jobs # <<>> IN
  IF a.buf = <<>> THEN {a}
  ELSE IF syncing /\ ~force /\ a.post = 0 THEN {[a EXCEPT !.post = now]}
  ELSE IF syncing /\ ~force /\ now - a.post < 2 THEN {a}
  ELSE WriteErrors(a) \cup (IF a.state = "off" THEN {} ELSE {Written(a, syncing)})

\* A write command: executed, propagated; the reply waits in the client's
\* output buffer.  Writes are refused while the log cannot be written.
Write(d) ==
  LET v == Len(hist) + 1 IN
  /\ Up /\ srv.status = "ok"
  /\ Len(hist) < conf.writes
  /\ data' = [data EXCEPT ![d] = Append(@, v)]
  /\ hist' = Append(hist, d)
  /\ pending' = pending \cup {v}
  /\ feedAppendOnlyFile(d, <<Push(v)>>)
  /\ UNCHANGED <<child, rdb, scheduled, bgstatus, cron, now, acked, used>>

\* EXEC of a transaction of two writes, queued before: EXEC is no write command
\* and is not refused after a write error
execCommand(d) ==
  LET v == Len(hist) + 1 IN
  /\ Up
  /\ Len(hist) + 1 < conf.writes
  /\ data' = [data EXCEPT ![d] = @ \o <<v, v + 1>>]
  /\ hist' = hist \o <<d, d>>
  /\ pending' = pending \cup {v, v + 1}
  /\ feedAppendOnlyFile(d, <<Multi, Push(v), Push(v + 1), Exec>>)
  /\ UNCHANGED <<child, rdb, scheduled, bgstatus, cron, now, acked, used>>

\* The log is written, then the pending replies are sent
beforeSleep ==
  /\ Up
  /\ srv' \in flushAppendOnlyFile(srv, FALSE)
  /\ IF srv'.run = "up" THEN acked' = acked \cup pending /\ pending' = {}
     ELSE UNCHANGED <<acked, pending>>
  /\ UNCHANGED <<child, rwbuf, rdb, scheduled, bgstatus, cron, now, data, hist,
                 used>>

\* A background thread runs the next BIO_AOF_FSYNC job.  What was in the file
\* when the job was created is synced, what was written since may be; a job on
\* the descriptor of a replaced file (0) syncs nothing of this one.
BioFsync ==
  /\ srv.run = "up" /\ srv.jobs # <<>>
  /\ \E n \in srv.synced .. Len(srv.file) :
       /\ n >= Shorter(Head(srv.jobs), Len(srv.file))
       /\ Head(srv.jobs) = 0 => n = srv.synced
       /\ srv' = [srv EXCEPT !.synced = n, !.jobs = Tail(@)]
  /\ UNCHANGED <<child, rwbuf, rdb, scheduled, bgstatus, cron, now, hists,
                 acked, used>>

-----------------------------------------------------------------------------
(* The background rewrite *)

ChildRunning == child # NULL /\ child.pc \in {"rewrite", "asked"}

\* The pipes, the fork; the next command fed will be preceded by a SELECT
Forked(a) ==
  /\ child' = [pc |-> "rewrite", snap |-> SnapshotOf(data), diff |-> <<>>,
               pipe |-> <<>>, stop |-> FALSE]
  /\ srv' = [a EXCEPT !.sel = NoDb]
  /\ scheduled' = FALSE

\* rewriteAppendOnlyFileBackground() with no other child: it forks or it fails
rewriteAppendOnlyFileBackground(a) ==
  \/ /\ Forked(a)
     /\ used' = [used EXCEPT !.rewrites = @ + 1]
  \/ srv' = a /\ Use("fails", conf.fails) /\ UNCHANGED <<child, scheduled>>

bgrewriteaofCommand ==
  /\ Up /\ child = NULL
  /\ \/ /\ rdb /\ ~scheduled
        /\ scheduled' = TRUE
        /\ UNCHANGED <<srv, child, used>>
     \/ /\ ~rdb /\ used.rewrites < conf.rewrites
        /\ rewriteAppendOnlyFileBackground(srv)
  /\ UNCHANGED <<rwbuf, rdb, bgstatus, cron, now, hists, acked>>

\* The pipe is writable: it takes some more of the rewrite buffer
aofChildWriteDiffData ==
  /\ Up /\ ChildRunning
  /\ ~child.stop /\ rwbuf # <<>>
  /\ \E n \in 1 .. Len(rwbuf) :
       /\ child' = [child EXCEPT !.pipe = @ \o SubSeq(rwbuf, 1, n)]
       /\ rwbuf' = SubSeq(rwbuf, n + 1, Len(rwbuf))
  /\ UNCHANGED <<srv, rdb, scheduled, bgstatus, cron, now, hists, acked, used>>

\* The child empties the pipe from time to time
aofReadDiffFromParent ==
  /\ srv.run = "up" /\ ChildRunning /\ child.pc = "rewrite"
  /\ child.pipe # <<>>
  /\ child' = [child EXCEPT !.diff = @ \o child.pipe, !.pipe = <<>>]
  /\ UNCHANGED <<srv, rwbuf, rdb, scheduled, bgstatus, cron, now, hists, acked, used>>

\* The child has written the dataset and asks the parent to stop
ChildAsks ==
  /\ srv.run = "up" /\ ChildRunning /\ child.pc = "rewrite"
  /\ child' = [child EXCEPT !.pc = "asked"]
  /\ UNCHANGED <<srv, rwbuf, rdb, scheduled, bgstatus, cron, now, hists, acked, used>>

\* The parent stops sending and acknowledges
aofChildPipeReadable ==
  /\ Up /\ ChildRunning /\ child.pc = "asked"
  /\ ~child.stop
  /\ child' = [child EXCEPT !.stop = TRUE]
  /\ UNCHANGED <<srv, rwbuf, rdb, scheduled, bgstatus, cron, now, hists, acked, used>>

\* The child has the acknowledgement: it reads the final diff, writes and syncs
\* the file and exits with success
ChildFinish ==
  /\ srv.run = "up" /\ ChildRunning
  /\ child.pc = "asked" /\ child.stop
  /\ child' = [child EXCEPT !.pc = "done", !.diff = @ \o child.pipe, !.pipe = <<>>]
  /\ UNCHANGED <<srv, rwbuf, rdb, scheduled, bgstatus, cron, now, hists, acked, used>>

\* The child exits with an error (a write failed, no acknowledgement in time)
\* or is killed by a signal
ChildFails ==
  /\ srv.run = "up" /\ ChildRunning
  /\ Use("fails", conf.fails)
  /\ \E pc \in {"failed", "signal"} : child' = [child EXCEPT !.pc = pc]
  /\ UNCHANGED <<srv, rwbuf, rdb, scheduled, bgstatus, cron, now, hists, acked>>

\* BGSAVE, or a save by serverCron: a child that writes an RDB file
rdbSaveBackground ==
  /\ Up /\ child = NULL /\ ~rdb
  /\ rdb' = TRUE
  /\ Use("rewrites", conf.rewrites)
  /\ UNCHANGED <<srv, child, rwbuf, scheduled, bgstatus, cron, now, hists,
                 acked>>

-----------------------------------------------------------------------------
(* serverCron(): the clock and a scheduled rewrite; wait3(); the two retries  *)
(* of a flush.  Other threads and processes run between these steps.          *)

CronStart ==
  /\ Up
  /\ cron' = "reap"
  /\ now' \in {now, Shorter(now + 1, conf.time)}
  /\ IF scheduled /\ ~rdb /\ child = NULL
     THEN rewriteAppendOnlyFileBackground(srv)
     ELSE UNCHANGED <<srv, child, scheduled, used>>
  /\ UNCHANGED <<rwbuf, rdb, bgstatus, hists, acked>>

\* No child has ended
CronNoChild ==
  /\ srv.run = "up" /\ cron = "reap"
  /\ child = NULL \/ ChildRunning
  /\ cron' = "flush"
  /\ UNCHANGED <<srv, child, rwbuf, rdb, scheduled, bgstatus, now, hists, acked, used>>

\* The RDB child has ended
CronRdbDone ==
  /\ srv.run = "up" /\ cron = "reap" /\ rdb
  /\ rdb' = FALSE
  /\ cron' = "flush"
  /\ UNCHANGED <<srv, child, rwbuf, scheduled, bgstatus, now, hists, acked, used>>

\* The log has grown enough for an automatic rewrite
CronAutoRewrite ==
  /\ srv.run = "up" /\ cron = "reap"
  /\ srv.state = "on" /\ srv.size > 0 /\ ~rdb /\ child = NULL
  /\ used.rewrites < conf.rewrites
  /\ rewriteAppendOnlyFileBackground(srv)
  /\ cron' = "flush"
  /\ UNCHANGED <<rwbuf, rdb, bgstatus, now, hists, acked>>

\* Mutant: a failed first rewrite is not scheduled again
DoneCleanupOnce(a) ==
  /\ srv' = a
  /\ child' = NULL
  /\ rwbuf' = <<>>
  /\ UNCHANGED scheduled
  /\ cron' = "flush"

\* The end of backgroundRewriteDoneHandler()
DoneCleanup(a) ==
  /\ srv' = a
  /\ child' = NULL
  /\ rwbuf' = <<>>
  /\ scheduled' = (scheduled \/ a.state = "wait")
  /\ cron' = "flush"

\* The child succeeded: the rest of the differences is written to its file,
\* which is then renamed.  The child has synced what it wrote itself.
RewriteRename ==
  /\ srv.run = "up" /\ cron = "reap"
  /\ child # NULL /\ child.pc = "done"
  /\ LET own == Bytes(<<child.snap>>) \o child.diff IN
     srv' = [srv EXCEPT !.file = own \o rwbuf, !.synced = Len(own),
                        !.jobs = [i \in DOMAIN @ |-> 0]]
  /\ cron' = "switch"
  /\ UNCHANGED <<child, rwbuf, rdb, scheduled, bgstatus, now, hists, acked, used>>

\* Mutant: the regular buffer is written to the new file again
SwitchedTwice(a) ==
  IF a.state = "off" THEN a
  ELSE [a EXCEPT !.state = "on", !.sel = NoDb, !.size = Len(a.file)]

\* The new descriptor replaces the old one and is synced as the policy says
Switched(a) ==
  IF a.state = "off" THEN a
  ELSE [a EXCEPT !.state = "on", !.sel = NoDb, !.size = Len(a.file), !.buf = <<>>,
                 !.synced = IF conf.fsync = "always" THEN Len(a.file) ELSE @,
                 !.jobs = IF conf.fsync = "everysec" THEN Append(@, Len(a.file)) ELSE @]

RewriteSwitch ==
  /\ srv.run = "up" /\ cron = "switch"
  /\ DoneCleanup(Switched(srv))
  /\ bgstatus' = "ok"
  /\ UNCHANGED <<rdb, now, hists, acked, used>>

\* The temporary file cannot be opened, completed or renamed
RewriteNoRename ==
  /\ srv.run = "up" /\ cron = "reap"
  /\ child # NULL /\ child.pc = "done"
  /\ Use("fails", conf.fails)
  /\ DoneCleanup(srv)
  /\ UNCHANGED <<rdb, bgstatus, now, hists, acked>>

\* The child failed.  Its exit code or signal decides the status: the test for
\* SIGUSR1 is made where the child was not killed by a signal.
RewriteFailed ==
  /\ srv.run = "up" /\ cron = "reap"
  /\ child # NULL /\ child.pc \in {"failed", "signal", "SIGUSR1"}
  /\ DoneCleanup(srv)
  /\ bgstatus' = "err"
  /\ UNCHANGED <<rdb, now, hists, acked, used>>

\* Mutant: a postponed flush is left to the next write
CronFlushNever ==
  /\ srv.run = "up" /\ cron = "flush"
  /\ cron' = "idle"
  /\ UNCHANGED <<srv, child, rwbuf, rdb, scheduled, bgstatus, now, hists, acked, used>>

\* A postponed flush is tried again, and so is, about every second, one that
\* failed
CronFlush ==
  /\ srv.run = "up" /\ cron = "flush"
  /\ \E a \in IF srv.post # 0 THEN flushAppendOnlyFile(srv, FALSE) ELSE {srv} :
       srv' \in {a} \cup (IF a.run = "up" /\ a.status = "err"
                          THEN flushAppendOnlyFile(a, FALSE) ELSE {})
  /\ cron' = "idle"
  /\ UNCHANGED <<child, rwbuf, rdb, scheduled, bgstatus, now, hists, acked, used>>

-----------------------------------------------------------------------------
(* Switching the log on and off, SHUTDOWN *)

\* Behind an RDB child the rewrite is scheduled; a rewrite that was going on
\* with the log off is killed, and a new one started
startAppendOnly ==
  /\ Up /\ srv.state = "off"
  /\ used.toggles < conf.toggles
  /\ LET a == [srv EXCEPT !.state = "wait", !.lastsync = now]
         u == [used EXCEPT !.toggles = @ + 1]
     IN \/ /\ rdb
           /\ scheduled' = TRUE
           /\ srv' = a /\ used' = u
           /\ UNCHANGED <<child, rwbuf>>
        \/ /\ ~rdb
           /\ Forked(a) /\ used' = u
           /\ rwbuf' = IF child # NULL THEN <<>> ELSE rwbuf
        \/ /\ ~rdb /\ used.fails < conf.fails
           /\ child' = NULL
           /\ rwbuf' = IF child # NULL THEN <<>> ELSE rwbuf
           /\ used' = [u EXCEPT !.fails = @ + 1]
           /\ UNCHANGED <<srv, scheduled>>
  /\ UNCHANGED <<rdb, bgstatus, cron, now, hists, acked>>

\* The buffer is written and synced, the file closed, the child killed
stopAppendOnly ==
  /\ Up /\ srv.state # "off"
  /\ Use("toggles", conf.toggles)
  /\ \E a \in flushAppendOnlyFile(srv, TRUE) :
       IF a.run # "up" THEN srv' = a /\ UNCHANGED <<child, rwbuf>>
       ELSE /\ srv' = [a EXCEPT !.synced = Len(a.file), !.state = "off",
                                !.sel = NoDb, !.jobs = [i \in DOMAIN @ |-> 0]]
            /\ child' = NULL
            /\ rwbuf' = IF child # NULL THEN <<>> ELSE rwbuf
  /\ UNCHANGED <<rdb, scheduled, bgstatus, cron, now, hists, acked>>

\* SHUTDOWN: the children get SIGUSR1, the log is written and synced; then the
\* server exits, or goes on if the final RDB file cannot be saved
prepareForShutdown ==
  /\ Up
  /\ used.toggles < conf.toggles
  /\ ~(srv.state = "wait" /\ child # NULL)
  /\ child' = IF srv.state # "off" /\ ChildRunning
              THEN [child EXCEPT !.pc = "SIGUSR1"] ELSE child
  /\ \E a \in IF srv.state = "off" THEN {srv} ELSE flushAppendOnlyFile(srv, TRUE),
        saved \in BOOLEAN :
       LET b == [a EXCEPT !.synced = IF srv.state = "off" THEN @ ELSE Len(a.file)]
       IN /\ srv' = IF a.run # "up" THEN a
                    ELSE IF saved THEN [b EXCEPT !.run = "shutdown"] ELSE b
          /\ saved \/ used.fails < conf.fails
          /\ used' = [used EXCEPT !.toggles = @ + 1,
                                  !.fails = IF saved THEN @ ELSE @ + 1]
  /\ UNCHANGED <<rwbuf, rdb, scheduled, bgstatus, cron, now, hists, acked>>

-----------------------------------------------------------------------------
(* Crash and restart *)

\* What a dead process leaves: the file, and whether the log is configured
Dead(a, why, file) ==
  [a EXCEPT !.run = why, !.file = file, !.synced = Shorter(@, Len(file)),
            !.buf = <<>>, !.sel = NoDb, !.post = 0, !.status = "ok",
            !.jobs = <<>>, !.size = 0, !.lastsync = 0]

Dies(why, file) ==
  /\ srv' = Dead(srv, why, file)
  /\ child' = NULL /\ rwbuf' = <<>> /\ rdb' = FALSE /\ scheduled' = FALSE
  /\ bgstatus' = "ok" /\ cron' = "idle"
  /\ Use("crashes", conf.crashes)
  /\ UNCHANGED <<now, hists, acked>>

\* The process is killed: what was written stays
Killed == srv.run = "up" /\ Dies("killed", srv.file)

\* The machine loses its power: any part of what was not synced may be lost
PowerFailure ==
  \E n \in srv.synced .. Len(srv.file) :
    /\ srv.run = "up" \/ n < Len(srv.file)
    /\ Dies("power", SubSeq(srv.file, 1, n))

\* loadAppendOnlyFile() refuses a broken command, and an unfinished command or
\* transaction at the end unless aof-load-truncated is set
Loads(c) ==
  /\ ~c.bad
  /\ c.part # NULL \/ c.multi => conf.loadTruncated

\* The unfinished command at the end is cut off; an unfinished transaction is
\* not
LoadedFile(file, c) == SubSeq(file, 1, c.valid)

\* A server that had its log on starts again and loads it
Restart ==
  LET c == Replay(srv.file)
      f == LoadedFile(srv.file, c)
  IN
  /\ srv.run # "up" /\ srv.state = "on"
  /\ Loads(c)
  /\ data' = c.data
  /\ hist' = SubSeq(hist, 1, Count(c.data))
  /\ acked' = {v \in acked : v <= Count(c.data)} /\ pending' = {}
  /\ srv' = [Dead(srv, "up", f) EXCEPT !.size = Len(f), !.lastsync = now]
  /\ child' = NULL /\ rwbuf' = <<>> /\ rdb' = FALSE /\ scheduled' = FALSE
  /\ bgstatus' = "ok"
  /\ UNCHANGED <<cron, now, used>>

-----------------------------------------------------------------------------
(* Specification *)

\* initServer() with an empty log, or with the log off
Init ==
  /\ conf \in Configs
  /\ srv \in [run : {"up"}, state : {conf.start}, buf : {<<>>}, sel : {NoDb},
              file : {<<>>}, synced : {0}, size : {0}, post : {0},
              status : {"ok"}, lastsync : {1}, jobs : {<<>>}, errors : {0}]
  /\ child = NULL /\ rwbuf = <<>> /\ rdb = FALSE /\ scheduled = FALSE
  /\ bgstatus = "ok" /\ cron = "idle" /\ now = 1
  /\ data = [d \in DB |-> <<>>] /\ hist = <<>>
  /\ pending = {} /\ acked = {}
  /\ used = [b \in {"fails", "crashes", "rewrites", "toggles"} |-> 0]

ChildSteps ==
  aofReadDiffFromParent \/ ChildAsks \/ ChildFinish \/ ChildFails

CronSteps ==
  \/ CronStart \/ CronNoChild \/ CronRdbDone \/ CronAutoRewrite
  \/ RewriteRename \/ RewriteSwitch \/ RewriteNoRename \/ RewriteFailed
  \/ CronFlush

Next ==
  /\ \/ \E d \in DB : Write(d) \/ execCommand(d)
     \/ beforeSleep \/ BioFsync
     \/ bgrewriteaofCommand \/ aofChildWriteDiffData \/ aofChildPipeReadable
     \/ rdbSaveBackground
     \/ ChildSteps \/ CronSteps
     \/ startAppendOnly \/ stopAppendOnly \/ prepareForShutdown
     \/ Killed \/ PowerFailure \/ Restart
  /\ UNCHANGED conf

Spec == Init /\ [][Next]_vars

\* The event loop turns, its timer event fires, children and threads run, and a
\* saving child ends
Fairness ==
  /\ SF_vars(beforeSleep /\ UNCHANGED conf)
  /\ SF_vars(aofChildPipeReadable /\ UNCHANGED conf)
  /\ SF_vars(CronRdbDone /\ UNCHANGED conf)
  /\ WF_vars(CronSteps /\ UNCHANGED conf)
  /\ WF_vars(BioFsync /\ UNCHANGED conf)
  /\ WF_vars(ChildAsks /\ UNCHANGED conf)
  /\ WF_vars(ChildFinish /\ UNCHANGED conf)

-----------------------------------------------------------------------------
(* Properties *)

\* Types of the fields of struct server that aof.c works with.
TypeOK ==
  /\ srv.run \in {"up", "exit", "shutdown", "killed", "power"}
  /\ srv.state \in {"on", "wait", "off"}
  /\ srv.sel \in DB \cup {NoDb}
  /\ srv.synced \in 0 .. Len(srv.file)
  /\ srv.size \in Nat /\ srv.post \in 0 .. conf.time /\ srv.lastsync \in 0 .. conf.time
  /\ srv.status \in {"ok", "err"}
  /\ srv.errors \in 0 .. conf.errors
  /\ Len(srv.jobs) <= 2
  /\ child # NULL => child.pc \in {"rewrite", "asked", "done", "failed",
                                   "signal", "SIGUSR1"}
  /\ cron \in {"idle", "reap", "switch", "flush"}
  /\ now \in 1 .. conf.time
  /\ acked \cup pending \subseteq 1 .. Len(hist)
  /\ data = Project(hist)

\* While the log is on, the file followed by the buffer rebuilds exactly the
\* dataset: feedAppendOnlyFile(), short and failed writes, the switch to a
\* rewritten file and the truncation at loading lose, repeat or misplace nothing.
LogRebuildsData ==
  srv.run \in {"up", "shutdown"} /\ srv.state = "on" =>
    LET c == Replay(IF cron = "switch" THEN srv.file ELSE srv.file \o srv.buf)
    IN ~c.bad /\ c.part = NULL /\ c.data = data

\* While a child rewrites the log, its snapshot followed by the differences it
\* has read, those in the pipe and those still buffered rebuild the dataset.
RewriteRebuildsData ==
  srv.run = "up" /\ srv.state # "off" /\ child # NULL /\ cron # "switch" =>
    LET c == Replay(Bytes(<<child.snap>>) \o child.diff \o child.pipe \o rwbuf)
    IN ~c.bad /\ c.part = NULL /\ c.data = data

\* The file a running or dead server leaves can always be loaded: nothing is
\* ever appended behind a command that was cut.
FileLoads ==
  srv.state = "on" => ~Replay(srv.file).bad

\* A flush is not postponed for more than two seconds: serverCron() tries again
\* at each call, and past that the write is done behind the fsync.
PostponedTwoSeconds ==
  srv.run = "up" /\ srv.post # 0 =>
    now - srv.post <= IF cron = "idle" THEN 1 ELSE 2

\* With appendfsync always "on acknowledged write data is synced on disk": what
\* is synced holds every write that was replied to.  It is so as long as no
\* rewritten log replaces the file: between the rename and the fsync of the new
\* one, which a kill can make long, acknowledged writes are in no synced file.
AckedIsDurable ==
  conf.fsync = "always" /\ used.rewrites = 0 /\ srv.run = "up" /\ srv.state = "on" =>
    \A v \in acked : v <= Count(Replay(SubSeq(srv.file, 1, srv.synced)).data)

\* A log that was switched on starts to be written: the first rewrite is
\* scheduled behind a save, and again after a failure, until it is done.
FirstRewriteDone ==
  srv.state = "wait" ~> srv.state # "wait" \/ srv.run # "up"

\* The server's data can be rebuilt at any time from what is on disk and in its
\* buffers, and from the log a rewrite is making; and the file can be loaded.
LogsRebuildData == LogRebuildsData /\ RewriteRebuildsData /\ FileLoads

=============================================================================
