----------------------------- MODULE BioProofs -----------------------------
(***************************************************************************)
(* Safety of the background job queues for any number of operation types,  *)
(* callers and jobs.                                                       *)
(***************************************************************************)
EXTENDS Bio, TLAPS

(***************************************************************************)
(* The inductive invariant: besides the properties themselves, the counter *)
(* is the length of the list, and from taking a job to unlinking it the    *)
(* job is the head of the list.                                            *)
(***************************************************************************)
PendingIsLength == \A t \in Ops : bio_pending[t] = Len(bio_jobs[t])

TakenIsHead ==
  \A t \in Ops : bioPc[t] = "process" \/ Done(t) =>
     bio_jobs[t] # <<>> /\ job[t] = Head(bio_jobs[t])

BioInv ==
  /\ TypeOK
  /\ HoldersAgree
  /\ PendingIsLength
  /\ TakenIsHead
  /\ ExactlyOnceInOrder
  /\ NoSleepWithWork

-----------------------------------------------------------------------------
(* Facts about sequences used below.                                       *)

\* Appending to the unrun jobs appends to what was created.
LEMMA ConcatAppend ==
  \A e, u \in Seq(Job), x \in Job : Append(e \o u, x) = e \o Append(u, x)
<1> TAKE e, u \in Seq(Job), x \in Job
<1> QED OBVIOUS

\* Running the first unrun job moves it across the concatenation.
LEMMA ConcatShift ==
  \A e, u \in Seq(Job) : u # <<>> => e \o u = Append(e, Head(u)) \o Tail(u)
<1> TAKE e, u \in Seq(Job)
<1> QED OBVIOUS

\* Unlinking the node of a job that has been run leaves the same unrun jobs;
\* appending behind a non-empty list leaves its head alone.
LEMMA AppendFacts ==
  ASSUME NEW S, NEW u \in Seq(S), NEW x \in S
  PROVE  /\ Append(u, x) \in Seq(S)
         /\ Append(u, x) # <<>>
         /\ Len(Append(u, x)) = Len(u) + 1
         /\ u # <<>> => /\ Head(Append(u, x)) = Head(u)
                        /\ Tail(Append(u, x)) = Append(Tail(u), x)
                        /\ Tail(u) \in Seq(S)
                        /\ Len(Tail(u)) = Len(u) - 1
                        /\ Head(u) \in S
OBVIOUS

-----------------------------------------------------------------------------

\* bioInit() establishes the invariant.
LEMMA BioInit == Init => BioInv
  BY CallersAssumption DEF Init, BioInv, TypeOK, HoldersAgree, PendingIsLength,
     TakenIsHead, ExactlyOnceInOrder, NoSleepWithWork, Unrun, Done, BioPcs, CallPcs

\* Every step of the background threads and of the API preserves it.
LEMMA BioStep == BioInv /\ [Next]_vars => BioInv'
<1> SUFFICES ASSUME BioInv, [Next]_vars PROVE BioInv'
  OBVIOUS
<1> USE CallersAssumption DEF BioInv
<1>1. ASSUME NEW t \in Ops, BioLock(t) PROVE BioInv'
  <2>1. TypeOK'
    BY Zenon, <1>1 DEF BioLock, TypeOK, Lock, BioGoto, queue, callVars, BioPcs, CallPcs
  <2>2. HoldersAgree'
    BY <1>1
    DEF BioLock, HoldersAgree, Lock, BioGoto, queue, callVars, TypeOK, BioPcs, CallPcs
  <2>3. PendingIsLength'
    BY <1>1 DEF BioLock, PendingIsLength, Lock, BioGoto, queue, callVars, TypeOK
  <2>4. TakenIsHead'
    BY <1>1 DEF BioLock, TakenIsHead, Lock, BioGoto, queue, callVars, TypeOK, Done
  <2>5. ExactlyOnceInOrder'
    BY Zenon, <1>1
    DEF BioLock, ExactlyOnceInOrder, Lock, BioGoto, queue, callVars, TypeOK,
        Unrun, Done, TakenIsHead
  <2>6. NoSleepWithWork'
    BY <1>1 DEF BioLock, NoSleepWithWork, Lock, BioGoto, queue, callVars, TypeOK
  <2> QED BY <2>1, <2>2, <2>3, <2>4, <2>5, <2>6
<1>2. ASSUME NEW t \in Ops, BioWait(t) PROVE BioInv'
  <2>1. TypeOK'
    BY <1>2 DEF BioWait, TypeOK, Unlock, BioGoto, queue, callVars, BioPcs, CallPcs
  <2>2. HoldersAgree'
    BY <1>2
    DEF BioWait, HoldersAgree, Unlock, BioGoto, queue, callVars, TypeOK, BioPcs, CallPcs
  <2>3. PendingIsLength'
    BY <1>2 DEF BioWait, PendingIsLength, Unlock, BioGoto, queue, callVars, TypeOK
  <2>4. TakenIsHead'
    BY <1>2 DEF BioWait, TakenIsHead, Unlock, BioGoto, queue, callVars, TypeOK, Done
  <2>5. ExactlyOnceInOrder'
    BY Zenon, <1>2
    DEF BioWait, ExactlyOnceInOrder, Unlock, BioGoto, queue, callVars, TypeOK,
        Unrun, Done, TakenIsHead
  <2>6. NoSleepWithWork'
    BY <1>2 DEF BioWait, NoSleepWithWork, Unlock, BioGoto, queue, callVars, TypeOK
  <2> QED BY <2>1, <2>2, <2>3, <2>4, <2>5, <2>6
<1>3. ASSUME NEW t \in Ops, BioTake(t) PROVE BioInv'
  <2>1. TypeOK'
    BY <1>3 DEF BioTake, TypeOK, Unlock, BioGoto, queue, callVars, BioPcs, CallPcs
  <2>2. HoldersAgree'
    BY <1>3
    DEF BioTake, HoldersAgree, Unlock, BioGoto, queue, callVars, TypeOK, BioPcs, CallPcs
  <2>3. PendingIsLength'
    BY <1>3 DEF BioTake, PendingIsLength, Unlock, BioGoto, queue, callVars, TypeOK
  <2>4. TakenIsHead'
    BY <1>3 DEF BioTake, TakenIsHead, Unlock, BioGoto, queue, callVars, TypeOK, Done
  <2>5. ExactlyOnceInOrder'
    BY Zenon, <1>3
    DEF BioTake, ExactlyOnceInOrder, Unlock, BioGoto, queue, callVars, TypeOK,
        Unrun, Done, TakenIsHead
  <2>6. NoSleepWithWork'
    BY <1>3 DEF BioTake, NoSleepWithWork, Unlock, BioGoto, queue, callVars, TypeOK
  <2> QED BY <2>1, <2>2, <2>3, <2>4, <2>5, <2>6
<1>4. ASSUME NEW t \in Ops, BioProcess(t) PROVE BioInv'
  <2>1. TypeOK'
    BY <1>4, ConcatShift
    DEF BioProcess, TypeOK, BioGoto, queue, callVars, BioPcs, CallPcs
  <2>2. HoldersAgree'
    BY <1>4
    DEF BioProcess, HoldersAgree, BioGoto, queue, callVars, TypeOK, BioPcs, CallPcs
  <2>3. PendingIsLength'
    BY <1>4, ConcatShift
    DEF BioProcess, PendingIsLength, BioGoto, queue, callVars, TypeOK
  <2>4. TakenIsHead'
    BY <1>4, ConcatShift
    DEF BioProcess, TakenIsHead, BioGoto, queue, callVars, TypeOK, Done
  <2>5. ExactlyOnceInOrder'
    <3> SUFFICES ASSUME NEW u \in Ops PROVE (created[u] = executed[u] \o Unrun(u))'
      BY DEF ExactlyOnceInOrder
    <3>1. CASE u = t
      <4>1. /\ bio_jobs[t] \in Seq(Job) /\ bio_jobs[t] # <<>> /\ executed[t] \in Seq(Job)
            /\ job[t] = Head(bio_jobs[t])
            /\ created[t] = executed[t] \o bio_jobs[t]
        BY Zenon, <1>4
        DEF BioProcess, BioGoto, TypeOK, TakenIsHead, ExactlyOnceInOrder, Unrun, Done
      <4>2. created[t] = Append(executed[t], job[t]) \o Tail(bio_jobs[t])
        BY Zenon, <4>1, ConcatShift
      <4>3. executed'[t] = Append(executed[t], job[t]) /\ created'[t] = created[t]
        BY <1>4 DEF BioProcess, callVars, TypeOK
      <4>4. Unrun(t)' = Tail(bio_jobs[t])
        BY <1>4 DEF BioProcess, BioGoto, queue, Unrun, Done, TypeOK
      <4> QED BY <3>1, <4>2, <4>3, <4>4
    <3>2. CASE u # t
      BY Zenon, <1>4, <3>2 DEF BioProcess, BioGoto, queue, callVars, TypeOK, ExactlyOnceInOrder,
         Unrun, Done
    <3> QED BY <3>1, <3>2
  <2>6. NoSleepWithWork'
    BY <1>4, ConcatShift
    DEF BioProcess, NoSleepWithWork, BioGoto, queue, callVars, TypeOK
  <2> QED BY <2>1, <2>2, <2>3, <2>4, <2>5, <2>6
<1>5. ASSUME NEW t \in Ops, BioBroadcast(t) PROVE BioInv'
  <2>1. TypeOK'
    BY <1>5 DEF BioBroadcast, TypeOK, BioGoto, queue, BioPcs, CallPcs
  <2>2. HoldersAgree'
    BY <1>5 DEF BioBroadcast, HoldersAgree, BioGoto, queue, TypeOK, BioPcs, CallPcs
  <2>3. PendingIsLength'
    BY <1>5 DEF BioBroadcast, PendingIsLength, BioGoto, queue, TypeOK
  <2>4. TakenIsHead'
    BY <1>5 DEF BioBroadcast, TakenIsHead, BioGoto, queue, TypeOK, Done
  <2>5. ExactlyOnceInOrder'
    BY Zenon, <1>5
    DEF BioBroadcast, ExactlyOnceInOrder, BioGoto, queue, TypeOK,
        Unrun, Done, TakenIsHead
  <2>6. NoSleepWithWork'
    BY <1>5 DEF BioBroadcast, NoSleepWithWork, BioGoto, queue, TypeOK
  <2> QED BY <2>1, <2>2, <2>3, <2>4, <2>5, <2>6
<1>6. ASSUME NEW t \in Ops, BioDelete(t) PROVE BioInv'
  <2>0. /\ bio_jobs[t] \in Seq(Job) /\ Tail(bio_jobs[t]) \in Seq(Job)
        /\ Len(Tail(bio_jobs[t])) = Len(bio_jobs[t]) - 1
        /\ bio_pending[t] = Len(bio_jobs[t]) /\ bio_pending[t] - 1 \in Nat
    BY <1>6 DEF BioDelete, BioGoto, TypeOK, TakenIsHead, PendingIsLength, Done
  <2>1. TypeOK'
    BY <1>6, <2>0 DEF BioDelete, BioGoto, callVars, TypeOK, BioPcs
  <2>2. HoldersAgree'
    BY <1>6 DEF BioDelete, HoldersAgree, BioGoto, callVars, TypeOK, BioPcs, CallPcs
  <2>3. PendingIsLength'
    BY <1>6, <2>0 DEF BioDelete, PendingIsLength, TypeOK
  <2>4. TakenIsHead'
    BY <1>6, AppendFacts
    DEF BioDelete, TakenIsHead, BioGoto, callVars, TypeOK, Done, HoldersAgree
  <2>5. ExactlyOnceInOrder'
    BY Zenon, <1>6, AppendFacts
    DEF BioDelete, ExactlyOnceInOrder, BioGoto, callVars, TypeOK,
        Unrun, Done, TakenIsHead
  <2>6. NoSleepWithWork'
    BY <1>6, AppendFacts
    DEF BioDelete, NoSleepWithWork, BioGoto, callVars, TypeOK
  <2> QED BY <2>1, <2>2, <2>3, <2>4, <2>5, <2>6
<1>7. ASSUME NEW t \in Ops, BioSpuriousWakeup(t) PROVE BioInv'
  <2>1. TypeOK'
    BY <1>7 DEF BioSpuriousWakeup, TypeOK, BioGoto, queue, callVars, BioPcs, CallPcs
  <2>2. HoldersAgree'
    BY <1>7
    DEF BioSpuriousWakeup, HoldersAgree, BioGoto, queue, callVars, TypeOK, BioPcs, CallPcs
  <2>3. PendingIsLength'
    BY <1>7 DEF BioSpuriousWakeup, PendingIsLength, BioGoto, queue, callVars, TypeOK
  <2>4. TakenIsHead'
    BY <1>7 DEF BioSpuriousWakeup, TakenIsHead, BioGoto, queue, callVars, TypeOK, Done
  <2>5. ExactlyOnceInOrder'
    BY Zenon, <1>7
    DEF BioSpuriousWakeup, ExactlyOnceInOrder, BioGoto, queue, callVars, TypeOK,
        Unrun, Done, TakenIsHead
  <2>6. NoSleepWithWork'
    BY <1>7 DEF BioSpuriousWakeup, NoSleepWithWork, BioGoto, queue, callVars, TypeOK
  <2> QED BY <2>1, <2>2, <2>3, <2>4, <2>5, <2>6
<1>8. ASSUME NEW c \in Callers, CallLock(c) PROVE BioInv'
  <2>1. TypeOK'
    BY Zenon, <1>8 DEF CallLock, TypeOK, Lock, CallGoto, queue, bioVars, BioPcs, CallPcs
  <2>2. HoldersAgree'
    BY <1>8
    DEF CallLock, HoldersAgree, Lock, CallGoto, queue, bioVars, TypeOK, BioPcs, CallPcs
  <2>3. PendingIsLength'
    BY <1>8 DEF CallLock, PendingIsLength, Lock, CallGoto, queue, bioVars, TypeOK
  <2>4. TakenIsHead'
    BY <1>8 DEF CallLock, TakenIsHead, Lock, CallGoto, queue, bioVars, TypeOK, Done
  <2>5. ExactlyOnceInOrder'
    BY Zenon, <1>8
    DEF CallLock, ExactlyOnceInOrder, Lock, CallGoto, queue, bioVars, TypeOK,
        Unrun, Done, TakenIsHead
  <2>6. NoSleepWithWork'
    BY <1>8 DEF CallLock, NoSleepWithWork, Lock, CallGoto, queue, bioVars, TypeOK
  <2> QED BY <2>1, <2>2, <2>3, <2>4, <2>5, <2>6
<1>9. ASSUME NEW c \in Callers, CreateBackgroundJob(c) PROVE BioInv'
  <2>1. TypeOK'
    BY SMTT(60), <1>9, AppendFacts, ConcatAppend
    DEF CreateBackgroundJob, TypeOK, Unlock, CallGoto, BioPcs, CallPcs
  <2>2. HoldersAgree'
    BY SMTT(60), <1>9
    DEF CreateBackgroundJob, HoldersAgree, Unlock, CallGoto, TypeOK, BioPcs, CallPcs
  <2>3. PendingIsLength'
    BY <1>9, AppendFacts, ConcatAppend
    DEF CreateBackgroundJob, PendingIsLength, Unlock, CallGoto, TypeOK
  <2>4. TakenIsHead'
    <3> SUFFICES ASSUME NEW t \in Ops, (bioPc[t] = "process" \/ Done(t))'
                 PROVE  (bio_jobs[t] # <<>> /\ job[t] = Head(bio_jobs[t]))'
      BY DEF TakenIsHead
    <3>1. bio_jobs[t] \in Seq(Job) /\ bio_jobs[t] # <<>> /\ job[t] = Head(bio_jobs[t])
      BY <1>9 DEF CreateBackgroundJob, TypeOK, TakenIsHead, Done
    <3>2. /\ callJob[c] \in Job /\ job' = job
          /\ bio_jobs'[t] = bio_jobs[t] \/ bio_jobs'[t] = Append(bio_jobs[t], callJob[c])
      BY <1>9 DEF CreateBackgroundJob, TypeOK
    <3> QED BY <3>1, <3>2, AppendFacts
  <2>5. ExactlyOnceInOrder'
    <3> SUFFICES ASSUME NEW t \in Ops PROVE (created[t] = executed[t] \o Unrun(t))'
      BY DEF ExactlyOnceInOrder
    <3>1. Done(t)' <=> Done(t)
      BY <1>9 DEF CreateBackgroundJob, TypeOK, Done
    <3>2. CASE callOp[c] = t
      <4>1. /\ executed[t] \in Seq(Job) /\ bio_jobs[t] \in Seq(Job) /\ callJob[c] \in Job
            /\ executed' = executed
            /\ bio_jobs'[t] = Append(bio_jobs[t], callJob[c])
            /\ created'[t] = Append(created[t], callJob[c])
            /\ created[t] = executed[t] \o Unrun(t)
        BY SMTT(60), <1>9, <3>2 DEF CreateBackgroundJob, TypeOK, ExactlyOnceInOrder
      <4>2. Done(t) => bio_jobs[t] # <<>>
        BY DEF TakenIsHead
      <4>3. Unrun(t) \in Seq(Job) /\ Unrun(t)' = Append(Unrun(t), callJob[c])
        BY <3>1, <4>1, <4>2, AppendFacts DEF Unrun
      <4>4. Append(executed[t] \o Unrun(t), callJob[c])
              = executed[t] \o Append(Unrun(t), callJob[c])
        <5>1. /\ executed[t] \in Seq(Job)
              /\ Unrun(t) \in Seq(Job)
              /\ callJob[c] \in Job
          BY <4>1, <4>3
        <5> QED BY ONLY Zenon, <5>1, ConcatAppend
      <4> QED BY <4>1, <4>3, <4>4
    <3>3. CASE callOp[c] # t
      BY Zenon, <1>9, <3>1, <3>3 DEF CreateBackgroundJob, TypeOK, ExactlyOnceInOrder, Unrun
    <3> QED BY <3>2, <3>3
  <2>6. NoSleepWithWork'
    BY <1>9, AppendFacts, ConcatAppend
    DEF CreateBackgroundJob, NoSleepWithWork, Unlock, CallGoto, TypeOK
  <2> QED BY <2>1, <2>2, <2>3, <2>4, <2>5, <2>6
<1>10. ASSUME NEW c \in Callers, ReadPending(c) PROVE BioInv'
  <2>1. TypeOK'
    BY Zenon, <1>10 DEF ReadPending, TypeOK, Unlock, CallGoto, queue, bioVars, BioPcs, CallPcs
  <2>2. HoldersAgree'
    BY <1>10
    DEF ReadPending, HoldersAgree, Unlock, CallGoto, queue, bioVars, TypeOK, BioPcs, CallPcs
  <2>3. PendingIsLength'
    BY <1>10 DEF ReadPending, PendingIsLength, Unlock, CallGoto, queue, bioVars, TypeOK
  <2>4. TakenIsHead'
    BY <1>10 DEF ReadPending, TakenIsHead, Unlock, CallGoto, queue, bioVars, TypeOK, Done
  <2>5. ExactlyOnceInOrder'
    BY Zenon, <1>10
    DEF ReadPending, ExactlyOnceInOrder, Unlock, CallGoto, queue, bioVars, TypeOK,
        Unrun, Done, TakenIsHead
  <2>6. NoSleepWithWork'
    BY <1>10 DEF ReadPending, NoSleepWithWork, Unlock, CallGoto, queue, bioVars, TypeOK
  <2> QED BY <2>1, <2>2, <2>3, <2>4, <2>5, <2>6
<1>11. ASSUME NEW c \in Callers, WaitStep(c) PROVE BioInv'
  <2>1. TypeOK'
    BY Zenon, <1>11 DEF WaitStep, TypeOK, Unlock, CallGoto, queue, bioVars, BioPcs, CallPcs
  <2>2. HoldersAgree'
    BY SMTT(60), <1>11
    DEF WaitStep, HoldersAgree, Unlock, CallGoto, queue, bioVars, TypeOK, BioPcs, CallPcs
  <2>3. PendingIsLength'
    BY <1>11 DEF WaitStep, PendingIsLength, Unlock, CallGoto, queue, bioVars, TypeOK
  <2>4. TakenIsHead'
    BY <1>11 DEF WaitStep, TakenIsHead, Unlock, CallGoto, queue, bioVars, TypeOK, Done
  <2>5. ExactlyOnceInOrder'
    BY Zenon, <1>11
    DEF WaitStep, ExactlyOnceInOrder, Unlock, CallGoto, queue, bioVars, TypeOK,
        Unrun, Done, TakenIsHead
  <2>6. NoSleepWithWork'
    BY <1>11 DEF WaitStep, NoSleepWithWork, Unlock, CallGoto, queue, bioVars, TypeOK
  <2> QED BY <2>1, <2>2, <2>3, <2>4, <2>5, <2>6
<1>12. ASSUME NEW c \in Callers, CallSpuriousWakeup(c) PROVE BioInv'
  <2>1. TypeOK'
    BY <1>12 DEF CallSpuriousWakeup, TypeOK, CallGoto, queue, bioVars, BioPcs, CallPcs
  <2>2. HoldersAgree'
    BY <1>12
    DEF CallSpuriousWakeup, HoldersAgree, CallGoto, queue, bioVars, TypeOK, BioPcs, CallPcs
  <2>3. PendingIsLength'
    BY <1>12 DEF CallSpuriousWakeup, PendingIsLength, CallGoto, queue, bioVars, TypeOK
  <2>4. TakenIsHead'
    BY <1>12 DEF CallSpuriousWakeup, TakenIsHead, CallGoto, queue, bioVars, TypeOK, Done
  <2>5. ExactlyOnceInOrder'
    BY Zenon, <1>12
    DEF CallSpuriousWakeup, ExactlyOnceInOrder, CallGoto, queue, bioVars, TypeOK,
        Unrun, Done, TakenIsHead
  <2>6. NoSleepWithWork'
    BY <1>12 DEF CallSpuriousWakeup, NoSleepWithWork, CallGoto, queue, bioVars, TypeOK
  <2> QED BY <2>1, <2>2, <2>3, <2>4, <2>5, <2>6
<1>13. ASSUME NEW c \in Callers, NEW t \in Ops, NEW j \in Job, CallStart(c, t, j) PROVE BioInv'
  <2>1. TypeOK'
    BY Zenon, <1>13 DEF CallStart, TypeOK, CallGoto, queue, bioVars, BioPcs, CallPcs
  <2>2. HoldersAgree'
    BY SMTT(60), <1>13
    DEF CallStart, HoldersAgree, CallGoto, queue, bioVars, TypeOK, BioPcs, CallPcs
  <2>3. PendingIsLength'
    BY <1>13 DEF CallStart, PendingIsLength, CallGoto, queue, bioVars, TypeOK
  <2>4. TakenIsHead'
    BY SMTT(60), <1>13 DEF CallStart, TakenIsHead, CallGoto, queue, bioVars, TypeOK, Done
  <2>5. ExactlyOnceInOrder'
    BY Zenon, <1>13
    DEF CallStart, ExactlyOnceInOrder, CallGoto, queue, bioVars, TypeOK,
        Unrun, Done, TakenIsHead
  <2>6. NoSleepWithWork'
    BY <1>13 DEF CallStart, NoSleepWithWork, CallGoto, queue, bioVars, TypeOK
  <2> QED BY <2>1, <2>2, <2>3, <2>4, <2>5, <2>6
<1>14. CASE UNCHANGED vars
  <2>1. TypeOK'
    BY <1>14 DEF TypeOK, vars, queue, bioVars, callVars
  <2>2. HoldersAgree'
    BY <1>14 DEF HoldersAgree, vars, queue, bioVars, callVars
  <2>3. PendingIsLength'
    BY <1>14 DEF PendingIsLength, vars, queue, bioVars, callVars
  <2>4. TakenIsHead'
    BY <1>14 DEF TakenIsHead, vars, queue, bioVars, callVars, Done
  <2>5. ExactlyOnceInOrder'
    BY Zenon, <1>14 DEF ExactlyOnceInOrder, vars, queue, bioVars, callVars, Unrun, Done
  <2>6. NoSleepWithWork'
    BY <1>14 DEF NoSleepWithWork, vars, queue, bioVars, callVars
  <2> QED BY <2>1, <2>2, <2>3, <2>4, <2>5, <2>6
<1> QED
  BY <1>1, <1>2, <1>3, <1>4, <1>5, <1>6, <1>7, <1>8, <1>9, <1>10, <1>11, <1>12, <1>13, <1>14
     DEF Next, BioThread, CallStep

-----------------------------------------------------------------------------

LEMMA BioInvariance == Spec => []BioInv
  BY BioInit, BioStep, PTL DEF Spec

\* The variables keep their types: in particular bio_pending, an unsigned
\* counter in the code, never goes below zero.
THEOREM BioTypeCorrect == Spec => []TypeOK
<1> BioInv => TypeOK BY DEF BioInv
<1> QED BY BioInvariance, PTL

\* At most one thread is between lock and unlock of a mutex.
THEOREM BioMutualExclusion == Spec => []HoldersAgree
<1> BioInv => HoldersAgree BY DEF BioInv
<1> QED BY BioInvariance, PTL

\* Jobs are run exactly once, in creation order.
THEOREM BioExactlyOnceInOrder == Spec => []ExactlyOnceInOrder
<1> BioInv => ExactlyOnceInOrder BY DEF BioInv
<1> QED BY BioInvariance, PTL

\* A background thread is never asleep while its list holds a job.
THEOREM BioNoSleepWithWork == Spec => []NoSleepWithWork
<1> BioInv => NoSleepWithWork BY DEF BioInv
<1> QED BY BioInvariance, PTL

\* bioPendingJobsOfType() = 0 means that every job created has been run.
THEOREM BioPendingZeroIsQuiescent == Spec => []PendingZeroIsQuiescent
<1>1. BioInv => PendingZeroIsQuiescent
  <2> SUFFICES ASSUME BioInv, NEW t \in Ops, bio_pending[t] = 0
               PROVE  /\ executed[t] = created[t]
                      /\ bioPc[t] \in {"start", "loop", "wait_newjob", "wakeup"}
    BY DEF PendingZeroIsQuiescent
  <2>1. bio_jobs[t] = <<>>
    BY DEF BioInv, TypeOK, PendingIsLength
  <2>2. bioPc[t] \in {"start", "loop", "wait_newjob", "wakeup"}
    BY <2>1 DEF BioInv, TypeOK, BioPcs, TakenIsHead, Done
  <2>3. created[t] = executed[t] \o <<>>
    BY Zenon, <2>1, <2>2 DEF BioInv, ExactlyOnceInOrder, Unrun, Done
  <2> QED BY <2>2, <2>3 DEF BioInv, TypeOK
<1> QED BY <1>1, BioInvariance, PTL
=============================================================================
