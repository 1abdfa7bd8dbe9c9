-------------------------------- MODULE Bio --------------------------------
(***************************************************************************)
(* The background I/O system of bio.c: one thread per operation type, one  *)
(* FIFO job list, one mutex and two condition variables per type.          *)
(*                                                                         *)
(* A caller is any thread that calls the bio API (in Redis the main thread *)
(* and threads holding the module lock).  The step taken under a mutex is  *)
(* one action, acquiring the mutex is another, so that every interleaving  *)
(* at the lock and at the two pthread_cond_wait() calls is explored.  A    *)
(* job is opaque here; module LazyFree gives BIO_LAZY_FREE jobs a meaning. *)
(* bioKillThreads(), only used by the crash handler, is left out.          *)
(***************************************************************************)
EXTENDS Naturals, Sequences

CONSTANTS
  Ops,       \* BIO_CLOSE_FILE, BIO_AOF_FSYNC, BIO_LAZY_FREE
  Callers,   \* threads calling the API
  Job,       \* opaque jobs
  MaxJobs    \* bound: jobs created per type

ASSUME CallersAssumption == {"bio", "free"} \cap Callers = {}
ASSUME MaxJobsAssumption == MaxJobs \in Nat

VARIABLES
  bio_mutex,    \* [Ops -> holder of the mutex, "free" when nobody]
  bio_jobs,     \* [Ops -> list of jobs, head processed first]
  bio_pending,  \* [Ops -> counter read by bioPendingJobsOfType]
  bioPc,        \* [Ops -> control point of the background thread]
  job,          \* [Ops -> local variable 'job' of the background thread]
  callPc,       \* [Callers -> control point of the API call in progress]
  callOp,       \* [Callers -> 'type' argument of that call]
  callJob,      \* [Callers -> job handed to bioCreateBackgroundJob]
  callVal,      \* [Callers -> value returned by the last query]
  created,      \* history: [Ops -> jobs in the order they were appended]
  executed      \* history: [Ops -> jobs in the order they were run]

bioVars  == <<bioPc, job, executed>>
callVars == <<callPc, callOp, callJob, callVal, created>>
queue    == <<bio_jobs, bio_pending>>
vars     == <<bio_mutex, queue, bioVars, callVars>>

BioPcs == {"start", "loop", "wait_newjob", "wakeup", "process",
           "broadcast", "relock", "delete"}
CallPcs == {"idle", "create_lock", "create", "pending_lock", "pending_read",
            "step_lock", "step_read", "wait_step", "step_wakeup", "step_reread"}

TypeOK ==
  /\ bio_mutex \in [Ops -> Callers \cup {"bio", "free"}]
  /\ bio_jobs \in [Ops -> Seq(Job)]
  /\ bio_pending \in [Ops -> Nat]
  /\ bioPc \in [Ops -> BioPcs]
  /\ job \in [Ops -> Job]
  /\ callPc \in [Callers -> CallPcs]
  /\ callOp \in [Callers -> Ops]
  /\ callJob \in [Callers -> Job]
  /\ callVal \in [Callers -> Nat]
  /\ created \in [Ops -> Seq(Job)]
  /\ executed \in [Ops -> Seq(Job)]

(***************************************************************************)
(* bioInit: empty lists, unlocked mutexes, the threads spawned.            *)
(***************************************************************************)
Init ==
  /\ bio_mutex = [t \in Ops |-> "free"]
  /\ bio_jobs = [t \in Ops |-> <<>>]
  /\ bio_pending = [t \in Ops |-> 0]
  /\ bioPc = [t \in Ops |-> "start"]
  /\ job \in [Ops -> Job]                       \* uninitialised local
  /\ callPc = [c \in Callers |-> "idle"]
  /\ callOp \in [Callers -> Ops]
  /\ callJob \in [Callers -> Job]
  /\ callVal = [c \in Callers |-> 0]
  /\ created = [t \in Ops |-> <<>>]
  /\ executed = [t \in Ops |-> <<>>]

-----------------------------------------------------------------------------
(* Mutex and control-point helpers.                                        *)

Lock(t, who)   == bio_mutex[t] = "free" /\ bio_mutex' = [bio_mutex EXCEPT ![t] = who]
Unlock(t)      == bio_mutex' = [bio_mutex EXCEPT ![t] = "free"]
BioGoto(t, from, to) == bioPc[t] = from /\ bioPc' = [bioPc EXCEPT ![t] = to]
CallGoto(c, from, to) == callPc[c] = from /\ callPc' = [callPc EXCEPT ![c] = to]

(***************************************************************************)
(* The background thread of type t: bioProcessBackgroundJobs().            *)
(***************************************************************************)

\* First acquisition, re-acquisition inside pthread_cond_wait() after a
\* wake-up, and re-acquisition after a job.
BioLock(t) ==
  /\ \/ BioGoto(t, "start", "loop")
     \/ BioGoto(t, "wakeup", "loop")
     \/ BioGoto(t, "relock", "delete")
  /\ Lock(t, "bio")
  /\ UNCHANGED <<queue, job, executed, callVars>>

\* The list is empty: wait on bio_newjob_cond, releasing the mutex.
BioWait(t) ==
  /\ BioGoto(t, "loop", "wait_newjob")
  /\ bio_jobs[t] = <<>>
  /\ Unlock(t)
  /\ UNCHANGED <<queue, job, executed, callVars>>

\* Mutant: the job stops counting as pending when it is taken.
BioTakeUncounted(t) ==
  /\ BioGoto(t, "loop", "process")
  /\ bio_jobs[t] # <<>>
  /\ job' = [job EXCEPT ![t] = Head(bio_jobs[t])]
  /\ bio_pending' = [bio_pending EXCEPT ![t] = @ - 1]
  /\ Unlock(t)
  /\ UNCHANGED <<bio_jobs, executed, callVars>>

\* Take the first job; its node stays in the list while it is processed.
BioTake(t) ==
  /\ BioGoto(t, "loop", "process")
  /\ bio_jobs[t] # <<>>
  /\ job' = [job EXCEPT ![t] = Head(bio_jobs[t])]
  /\ Unlock(t)
  /\ UNCHANGED <<queue, executed, callVars>>

\* Run the job and free the job structure, without the mutex.
BioProcess(t) ==
  /\ BioGoto(t, "process", "broadcast")
  /\ executed' = [executed EXCEPT ![t] = Append(@, job[t])]
  /\ UNCHANGED <<bio_mutex, queue, job, callVars>>

\* Wake every thread blocked in bioWaitStepOfType(), without the mutex.
BioBroadcast(t) ==
  /\ BioGoto(t, "broadcast", "relock")
  /\ callPc' = [c \in Callers |-> IF callPc[c] = "wait_step" /\ callOp[c] = t
                                  THEN "step_wakeup" ELSE callPc[c]]
  /\ UNCHANGED <<bio_mutex, queue, job, executed, callOp, callJob, callVal, created>>

\* With the mutex again: unlink the node and decrement the counter.
BioDelete(t) ==
  /\ BioGoto(t, "delete", "loop")
  /\ bio_jobs' = [bio_jobs EXCEPT ![t] = Tail(@)]
  /\ bio_pending' = [bio_pending EXCEPT ![t] = @ - 1]
  /\ UNCHANGED <<bio_mutex, job, executed, callVars>>

\* POSIX lets pthread_cond_wait() return without a signal.
BioSpuriousWakeup(t) ==
  /\ BioGoto(t, "wait_newjob", "wakeup")
  /\ UNCHANGED <<bio_mutex, queue, job, executed, callVars>>

(***************************************************************************)
(* The API, called from thread c.                                          *)
(***************************************************************************)

\* A call starts: its arguments are chosen, the mutex is not yet held.
CallStart(c, t, j) ==
  /\ \/ CallGoto(c, "idle", "create_lock") /\ Len(created[t]) < MaxJobs
     \/ CallGoto(c, "idle", "pending_lock")
     \/ CallGoto(c, "idle", "step_lock")
  /\ callOp' = [callOp EXCEPT ![c] = t]
  /\ callJob' = [callJob EXCEPT ![c] = j]
  /\ UNCHANGED <<bio_mutex, queue, bioVars, callVal, created>>

\* pthread_mutex_lock() of a call, or the one inside pthread_cond_wait().
CallLock(c) ==
  /\ \/ CallGoto(c, "create_lock", "create")
     \/ CallGoto(c, "pending_lock", "pending_read")
     \/ CallGoto(c, "step_lock", "step_read")
     \/ CallGoto(c, "step_wakeup", "step_reread")
  /\ Lock(callOp[c], c)
  /\ UNCHANGED <<queue, bioVars, callOp, callJob, callVal, created>>

\* Mutants of the body of bioCreateBackgroundJob(): no signal, and the job
\* added at the head of the list.
CreateBackgroundJobSilent(c) ==
  LET t == callOp[c] IN
  /\ CallGoto(c, "create", "idle")
  /\ bio_jobs' = [bio_jobs EXCEPT ![t] = Append(@, callJob[c])]
  /\ bio_pending' = [bio_pending EXCEPT ![t] = @ + 1]
  /\ Unlock(t)
  /\ created' = [created EXCEPT ![t] = Append(@, callJob[c])]
  /\ UNCHANGED <<bioPc, job, executed, callOp, callJob, callVal>>

CreateBackgroundJobAtHead(c) ==
  LET t == callOp[c] IN
  /\ CallGoto(c, "create", "idle")
  /\ bio_jobs' = [bio_jobs EXCEPT ![t] = <<callJob[c]>> \o @]
  /\ bio_pending' = [bio_pending EXCEPT ![t] = @ + 1]
  /\ bioPc' = [bioPc EXCEPT ![t] = IF @ = "wait_newjob" THEN "wakeup" ELSE @]
  /\ Unlock(t)
  /\ created' = [created EXCEPT ![t] = Append(@, callJob[c])]
  /\ UNCHANGED <<job, executed, callOp, callJob, callVal>>

\* bioCreateBackgroundJob(): append, count, signal, unlock.
CreateBackgroundJob(c) ==
  LET t == callOp[c] IN
  /\ CallGoto(c, "create", "idle")
  /\ bio_jobs' = [bio_jobs EXCEPT ![t] = Append(@, callJob[c])]
  /\ bio_pending' = [bio_pending EXCEPT ![t] = @ + 1]
  /\ bioPc' = [bioPc EXCEPT ![t] = IF @ = "wait_newjob" THEN "wakeup" ELSE @]
  /\ Unlock(t)
  /\ created' = [created EXCEPT ![t] = Append(@, callJob[c])]
  /\ UNCHANGED <<job, executed, callOp, callJob, callVal>>

\* bioPendingJobsOfType(), and the last read of bioWaitStepOfType().
ReadPending(c) ==
  /\ \/ CallGoto(c, "pending_read", "idle")
     \/ CallGoto(c, "step_reread", "idle")
  /\ callVal' = [callVal EXCEPT ![c] = bio_pending[callOp[c]]]
  /\ Unlock(callOp[c])
  /\ UNCHANGED <<queue, bioVars, callOp, callJob, created>>

\* bioWaitStepOfType(): return at once when nothing is pending, otherwise
\* wait on bio_step_cond, releasing the mutex.
WaitStep(c) ==
  /\ IF bio_pending[callOp[c]] = 0
     THEN CallGoto(c, "step_read", "idle")
     ELSE CallGoto(c, "step_read", "wait_step")
  /\ callVal' = [callVal EXCEPT ![c] = bio_pending[callOp[c]]]
  /\ Unlock(callOp[c])
  /\ UNCHANGED <<queue, bioVars, callOp, callJob, created>>

CallSpuriousWakeup(c) ==
  /\ CallGoto(c, "wait_step", "step_wakeup")
  /\ UNCHANGED <<bio_mutex, queue, bioVars, callOp, callJob, callVal, created>>

BioThread(t) == \/ BioLock(t) \/ BioWait(t) \/ BioTake(t) \/ BioProcess(t)
                \/ BioBroadcast(t) \/ BioDelete(t)

CallStep(c) == CallLock(c) \/ CreateBackgroundJob(c) \/ ReadPending(c) \/ WaitStep(c)

Next ==
  \/ \E t \in Ops : BioThread(t) \/ BioSpuriousWakeup(t)
  \/ \E c \in Callers : CallStep(c) \/ CallSpuriousWakeup(c)
  \/ \E c \in Callers, t \in Ops, j \in Job : CallStart(c, t, j)

Spec == Init /\ [][Next]_vars

\* Threads that can run do run: the kernel schedules every runnable thread.
\* Nothing obliges a caller to start a call or a wait to end spuriously.
Fairness ==
  /\ \A t \in Ops : SF_vars(BioLock(t)) /\ WF_vars(BioThread(t))
  /\ \A c \in Callers : SF_vars(CallLock(c)) /\ WF_vars(CallStep(c))

FairSpec == Spec /\ Fairness

-----------------------------------------------------------------------------
(* Properties.                                                             *)

\* The bio thread is past the job it took and has not unlinked it yet.
Done(t) == bioPc[t] \in {"broadcast", "relock", "delete"}

\* Jobs appended and not yet run.
Unrun(t) == IF Done(t) THEN Tail(bio_jobs[t]) ELSE bio_jobs[t]

\* A mutex has exactly the holder whose control point is in the critical
\* section (lines 138-142, 171-184, 212-215, 221-223, 239-245).
HoldersAgree ==
  \A t \in Ops :
    /\ bio_mutex[t] = "bio" <=> bioPc[t] \in {"loop", "delete"}
    /\ \A c \in Callers :
         bio_mutex[t] = c <=> /\ callOp[c] = t
                              /\ callPc[c] \in {"create", "pending_read",
                                                "step_read", "step_reread"}

\* Every job is run exactly once and in the order it was created: what has
\* been run, followed by what is still to run, is what was created.
ExactlyOnceInOrder ==
  \A t \in Ops : created[t] = executed[t] \o Unrun(t)

\* bio_pending counts a job until it has been run completely, so the main
\* thread that sees 0 ("wait that there are no longer jobs of this type")
\* may touch what the job touches: no job of the type is queued or running.
PendingZeroIsQuiescent ==
  \A t \in Ops : bio_pending[t] = 0 =>
     /\ executed[t] = created[t]
     /\ bioPc[t] \in {"start", "loop", "wait_newjob", "wakeup"}

\* No wake-up is lost: while a job is queued the background thread never
\* sleeps on bio_newjob_cond.
NoSleepWithWork ==
  \A t \in Ops : bio_jobs[t] # <<>> => bioPc[t] # "wait_newjob"

\* Every created job is eventually run.
EveryJobRuns ==
  \A t \in Ops : \A n \in 1..MaxJobs :
     (Len(created[t]) = n) ~> (Len(executed[t]) >= n)

=============================================================================
