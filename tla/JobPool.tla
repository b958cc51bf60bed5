------------------------------- MODULE JobPool -------------------------------
(***************************************************************************)
(* The job pool of thread/src/jobpool.c: a fixed set of workers that pop   *)
(* jobs from the message queue of MsgQueue, whose state and actions this   *)
(* module composes with the loop of the workers and with the two calls of  *)
(* the owner, ct_jobpool_create and ct_jobpool_destroy.                    *)
(*                                                                         *)
(* Items are the jobs, Consumers the units.  A job is submitted once, by a *)
(* thread of its own or from inside the job Parent[i].                     *)
(***************************************************************************)
EXTENDS MsgQueue

CONSTANT Parent  \* the job that submits a job, NoItem: a thread of the application

ASSUME ParentAssumption == Parent \in [Items -> Items \union {NoItem}]

VARIABLES owner,     \* "creating", "open", "joining" or "freed"
          units,     \* regular_list_: the workers to join, in order of creation
          wpc,       \* where each worker stands in m_worker_thread
          job,       \* the job a worker runs
          finished   \* jobs whose routine has returned (history)

poolVars == <<owner, units, wpc, job, finished>>
vars == <<mqVars, poolVars>>

(***************************************************************************)
(* wpc[w]:  "none"     no thread                                           *)
(*          "try"      about to call, or in, ct_msgqueue_try_pop           *)
(*          "pop"      about to call, or in, ct_msgqueue_pop               *)
(*          "running"  executes job[w]                                     *)
(*          "exited"   thread ended, not joined                            *)
(***************************************************************************)

\* ct_jobpool_create, up to its loop.
Init ==
  /\ MqInit
  /\ owner = "creating"
  /\ units = <<>>
  /\ wpc = [w \in Consumers |-> "none"]
  /\ job = [w \in Consumers |-> NoItem]
  /\ finished = {}

-----------------------------------------------------------------------------
(* ct_jobpool_create *)

CreateUnit(w) ==
  /\ owner = "creating" /\ wpc[w] = "none"
  /\ units' = Append(units, w)
  /\ wpc' = [wpc EXCEPT ![w] = "try"]
  /\ owner' = IF Len(units) + 1 = Cardinality(Consumers) THEN "open" ELSE "creating"
  /\ UNCHANGED <<mqVars, job, finished>>

CreateFails_Free ==
  /\ owner = "creating"
  /\ CloseQueue
  /\ owner' = "freed"
  /\ UNCHANGED <<units, wpc, job, finished>>

\* No memory for the unit, or no thread: the units created so far are destroyed.
CreateFails ==
  /\ owner = "creating"
  /\ CloseQueue
  /\ owner' = "joining"
  /\ UNCHANGED <<units, wpc, job, finished>>

-----------------------------------------------------------------------------
(* ct_jobpool_submit, ct_jobpool_try_submit, ct_jobpool_submit_for *)

Calling(i) == pc[i] # "out"

\* An application thread has the handle once create has returned and keeps to the
\* contract of ct_jobpool_destroy; a job submits while it runs, one call at a time.
MayCall(i) ==
  IF Parent[i] = NoItem
  THEN owner = "open"
  ELSE /\ \E w \in Consumers : wpc[w] = "running" /\ job[w] = Parent[i]
       /\ \A k \in Items : Parent[k] = Parent[i] => ~Calling(k)

Submit(i, mode) == MayCall(i) /\ Call(i, mode) /\ UNCHANGED poolVars

ResumeSubmit(i) == Proceed(i) /\ UNCHANGED poolVars

-----------------------------------------------------------------------------
(* m_worker_thread *)

\* What w does with the result of its pop, if the pop has returned.
UseResult(w) ==
  /\ \/ pc'[w] # "out" /\ UNCHANGED <<wpc, job>>
     \/ /\ pc'[w] = "out" /\ result'[w] = "0"
        /\ wpc' = [wpc EXCEPT ![w] = "running"]
        /\ job' = [job EXCEPT ![w] = all[head]]
     \/ /\ pc'[w] = "out" /\ result'[w] # "0"
        /\ wpc' = [wpc EXCEPT ![w] = IF @ = "try" THEN "pop" ELSE "exited"]
        /\ UNCHANGED job
  /\ UNCHANGED <<owner, units, finished>>

TryPop(w) == wpc[w] = "try" /\ Call(w, "try") /\ UseResult(w)

Pop(w) == wpc[w] = "pop" /\ Call(w, "forever") /\ UseResult(w)

ResumePop(w) == Proceed(w) /\ UseResult(w)

FinishJob(w) ==
  /\ wpc[w] = "running"
  /\ \A i \in Items : Parent[i] = job[w] => ~Calling(i)
  /\ finished' = finished \union {job[w]}
  /\ job' = [job EXCEPT ![w] = NoItem]
  /\ wpc' = [wpc EXCEPT ![w] = "try"]
  /\ UNCHANGED <<mqVars, owner, units>>

WorkerStep(w) == TryPop(w) \/ Pop(w) \/ ResumePop(w) \/ FinishJob(w)

-----------------------------------------------------------------------------
(* ct_jobpool_destroy.  "The caller must ensure that no other thread is     *)
(* submitting concurrently."  Jobs that still run may submit.               *)

BeginDestroy ==
  /\ owner = "open"
  /\ \A i \in Items : Parent[i] = NoItem => ~Calling(i)
  /\ CloseQueue
  /\ owner' = "joining"
  /\ UNCHANGED <<units, wpc, job, finished>>

JoinUnit_NoWait ==
  /\ owner = "joining" /\ units # <<>>
  /\ units' = Tail(units)
  /\ UNCHANGED <<mqVars, owner, wpc, job, finished>>

\* Join the first unit of the list and free it.
JoinUnit ==
  /\ owner = "joining" /\ units # <<>>
  /\ wpc[Head(units)] = "exited"
  /\ wpc' = [wpc EXCEPT ![Head(units)] = "none"]
  /\ units' = Tail(units)
  /\ UNCHANGED <<mqVars, owner, job, finished>>

\* ct_msgqueue_destroy and the frees.
Free ==
  /\ owner = "joining" /\ units = <<>>
  /\ CloseQueue
  /\ owner' = "freed"
  /\ UNCHANGED <<units, wpc, job, finished>>

OwnerStep == (\E w \in Consumers : CreateUnit(w)) \/ CreateFails \/ BeginDestroy

-----------------------------------------------------------------------------
\* A wait ends without a signal.
WaitEnds(t) ==
  /\ TimesOut(t) \/ SpuriousWakeup(t)
  /\ UNCHANGED poolVars

Terminated == owner = "freed" /\ UNCHANGED vars

Next ==
  \/ OwnerStep \/ JoinUnit \/ Free
  \/ \E i \in Items : ResumeSubmit(i) \/ \E mode \in Modes : Submit(i, mode)
  \/ \E w \in Consumers : WorkerStep(w)
  \/ \E t \in Threads : WaitEnds(t)
  \/ Terminated

Spec == Init /\ [][Next]_vars

\* A submit_for that is cut into slices ends with a slice after which the deadline has
\* passed.
LastSlice(i) == pc[i] = "expired" /\ Return(i, "ETIMEDOUT") /\ UNCHANGED poolVars

\* Threads that can run do, jobs end, and so do timeouts.
Fairness ==
  /\ \A w \in Consumers : WF_vars(WorkerStep(w))
  /\ \A i \in Items : /\ WF_vars(ResumeSubmit(i))
                      /\ WF_vars(TimesOut(i) /\ UNCHANGED poolVars)
                      /\ SF_vars(LastSlice(i))
  /\ WF_vars(JoinUnit) /\ WF_vars(Free)

FairSpec == Spec /\ Fairness

-----------------------------------------------------------------------------
(* Safety. *)

\* The queue and its storage are freed only when no worker and no submitter is inside
\* the queue or will come back to it - after a destroy, and after a create that failed
\* when some workers were already waiting for jobs.
FreedQueueUnused ==
  owner = "freed" =>
    /\ \A w \in Consumers : wpc[w] = "none"
    /\ \A t \in Threads : ~Calling(t)

-----------------------------------------------------------------------------
(* The abstract service. *)

Running == {job[w] : w \in {v \in Consumers : wpc[v] = "running"}}

Service == INSTANCE TaskService
             WITH Tasks <- Items, Discards <- TRUE,
                  pending <- IF is_shut THEN <<>> ELSE Contents,
                  running <- Running, open <- ~is_shut,
                  released <- (owner = "freed")

\* jobpool.h: jobs start once and in order, none starts after the close ("Jobs still
\* queued but not yet started are discarded"), and the pool is freed when the running
\* ones have finished.
ImplementsDiscardingService == Service!Spec

-----------------------------------------------------------------------------
(* Liveness. *)

\* A queued job runs to its end, unless the pool is closed first.
QueuedJobFinishes ==
  \A i \in Items : (result[i] = "0") ~> (i \in finished \/ is_shut)

\* A destroy returns, and so does a create that fails, even when jobs are blocked in a
\* submit to their own full pool.
DestroyReturns == (owner = "joining") ~> (owner = "freed")
=============================================================================
