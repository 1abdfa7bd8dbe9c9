------------------------------- MODULE MCAof -------------------------------
(***************************************************************************)
(* Instances of Aof for TLC.                                               *)
(***************************************************************************)
EXTENDS Aof, TLC

MCDB == 0 .. 1

FairSpec == Spec /\ Fairness

\* A server with the default settings, to which nothing happens
Quiet ==
  [fsync |-> "everysec", noFsyncOnRewrite |-> FALSE, loadTruncated |-> TRUE,
   preamble |-> FALSE, start |-> "on", writes |-> 2, time |-> 1, errors |-> 0,
   fails |-> 0, crashes |-> 0, rewrites |-> 0, toggles |-> 0]

\* Write errors and slow fsyncs without rewrites; and with a crash
Flush == [Quiet EXCEPT !.writes = 3, !.time = 4, !.errors = 1]
FlushCrash == [Quiet EXCEPT !.time = 4, !.errors = 1, !.crashes = 1]

\* The same with every write synced
Always == [Quiet EXCEPT !.fsync = "always", !.writes = 3, !.time = 2, !.errors = 1,
                        !.crashes = 2]

\* Two rewrites, one of which may fail
Rewrite == [Quiet EXCEPT !.fsync = "always", !.noFsyncOnRewrite = TRUE, !.fails = 1,
                         !.rewrites = 2]

\* The log switched on and off around a rewrite; and with write errors
Toggle == [Quiet EXCEPT !.fsync = "no", !.preamble = TRUE, !.start = "off",
                        !.rewrites = 1, !.toggles = 2]
ToggleErrors == [Toggle EXCEPT !.writes = 1, !.errors = 1]

\* The log switched on, with failures
SwitchOn == [Quiet EXCEPT !.fsync = "no", !.start = "off", !.writes = 1, !.fails = 2,
                          !.rewrites = 2, !.toggles = 1]

Scenarios == {Flush, FlushCrash, Always, Rewrite, Toggle, ToggleErrors, SwitchOn}

=============================================================================
