------------------------------- MODULE TaskQueue -------------------------------
(***************************************************************************)
(* submit_all (distributed/queue.py): a pipeline hands a staging task per  *)
(* evidence file to worker processes and takes the results.                *)
(*                                                                         *)
(*  in this process   submit -> inline                -> staged | failed   *)
(*  process pool      submit -> filling <-> handling                       *)
(*                           -> closing               -> staged | failed   *)
(*  Redis queue       submit -> polling               -> staged | failed   *)
(*                                                                         *)
(*  task   none -> queued -> running -> returned -> handled                *)
(*                                   -> raised                             *)
(***************************************************************************)
EXTENDS ProgressReporter

CONSTANT Files    \* evidence files found by the scan

VARIABLES
    plan,       \* what the ingest was asked for and found; never changes
    stage,      \* pipeline |-> where it is
    workers,    \* pipeline |-> its share of the worker budget
    args,       \* pipeline |-> the files it hands to its queue
    future,     \* file |-> its task
    busy,       \* files a process is parsing
    completed,  \* pipeline |-> what wait() returned and is not handled yet
    broken,     \* pipelines whose process pool has lost a process
    raising,    \* pipelines whose pool is being closed by an exception
    result      \* file |-> what the parser accepted and what it reported

queueVars == <<args, future, busy, completed, broken, raising, result>>

NoResult == [status |-> "none", records |-> 0]

(* A file has two records; a parser may accept both, one or none.          *)
Parsed == {[status |-> "ok", records |-> 2],
           [status |-> "partial", records |-> 1],
           [status |-> "failed", records |-> 0]}

Waiting(p) == {f \in args[p] : future[f] = "none"}
Pending(p) == {f \in args[p] : future[f] \in {"queued", "running", "returned", "raised"}} \ completed[p]
Inline(p)  == workers[p] = 1 \/ Cardinality(args[p]) = 1

Move(p, to) == stage' = [stage EXCEPT ![p] = to]

SubmitAll(p) ==
    /\ stage[p] = "submit"
    /\ IF args[p] = {} THEN Move(p, "staged") /\ UNCHANGED future
       ELSE IF plan.distributed
            THEN /\ future' = [f \in Files |-> IF f \in args[p] THEN "queued" ELSE future[f]]
                 /\ Move(p, "polling")
            ELSE Move(p, IF Inline(p) THEN "inline" ELSE "filling") /\ UNCHANGED future
    /\ UNCHANGED <<progress, plan, workers, args, busy, completed, broken, raising, result>>

-----------------------------------------------------------------------------
(* Without a pool: one task after the other in the calling thread.         *)
RunInline(p) ==
    /\ stage[p] = "inline"
    /\ \A f \in args[p] : future[f] \in {"none", "handled"}
    /\ \E f \in Waiting(p) :
         /\ future' = [future EXCEPT ![f] = "running"]
         /\ busy' = busy \cup {f}
    /\ UNCHANGED <<progress, plan, stage, workers, args, completed, broken, raising, result>>

(* Mutant: the failure of a distributed task is not looked at.             *)
CollectReturned(p) ==
    /\ stage[p] \in {"inline", "polling"}
    /\ \E f \in args[p] :
         /\ future[f] = "returned"
         /\ future' = [future EXCEPT ![f] = "handled"]
         /\ OnResult(p, result[f].status)
    /\ UNCHANGED <<stage, plan, workers, args, busy, completed, broken, raising, result>>

(* A result of a task of this thread, or one the polling loop finds; the   *)
(* first failure is raised, whatever has become of the other tasks.        *)
Collect(p) ==
    /\ stage[p] \in {"inline", "polling"}
    /\ \E f \in args[p] :
         \/ /\ future[f] = "returned"
            /\ future' = [future EXCEPT ![f] = "handled"]
            /\ OnResult(p, result[f].status)
            /\ UNCHANGED stage
         \/ /\ future[f] = "raised"
            /\ Move(p, "failed")
            /\ UNCHANGED <<future, progress>>
    /\ UNCHANGED <<plan, workers, args, busy, completed, broken, raising, result>>

AllCollected(p) ==
    /\ stage[p] \in {"inline", "polling"}
    /\ \A f \in args[p] : future[f] = "handled"
    /\ Move(p, "staged")
    /\ UNCHANGED <<progress, plan, workers, queueVars>>

-----------------------------------------------------------------------------
(* With a pool: at most two tasks per worker are pending.                  *)
RoomToFill(p) == Waiting(p) # {} /\ Cardinality(Pending(p)) < 2 * workers[p]

Fill(p) ==
    /\ stage[p] = "filling"
    /\ RoomToFill(p)
    /\ \E f \in Waiting(p) : future' = [future EXCEPT ![f] = "queued"]
    /\ p \notin broken
    /\ UNCHANGED <<progress, plan, stage, workers, args, busy, completed, broken, raising, result>>

(* pool.submit raises BrokenProcessPool.                                   *)
FillBroken(p) ==
    /\ stage[p] = "filling"
    /\ RoomToFill(p)
    /\ p \in broken
    /\ raising' = raising \cup {p}
    /\ Move(p, "closing")
    /\ UNCHANGED <<progress, plan, workers, args, future, busy, completed, broken, result>>

(* wait(pending, FIRST_COMPLETED)                                          *)
Wait(p) ==
    /\ stage[p] = "filling"
    /\ ~RoomToFill(p)
    /\ LET ready == {f \in Pending(p) : future[f] \in {"returned", "raised"}}
       IN  ready # {} /\ completed' = [completed EXCEPT ![p] = ready]
    /\ Move(p, "handling")
    /\ UNCHANGED <<progress, plan, workers, args, future, busy, broken, raising, result>>

Handle(p) ==
    /\ stage[p] = "handling"
    /\ \E f \in completed[p] :
         \/ /\ future[f] = "returned"
            /\ future' = [future EXCEPT ![f] = "handled"]
            /\ completed' = [completed EXCEPT ![p] = @ \ {f}]
            /\ OnResult(p, result[f].status)
            /\ UNCHANGED <<stage, raising>>
         \/ /\ future[f] = "raised"
            /\ raising' = raising \cup {p}
            /\ Move(p, "closing")
            /\ UNCHANGED <<future, completed, progress>>
    /\ UNCHANGED <<plan, workers, args, busy, broken, result>>

Refill(p) ==
    /\ stage[p] = "handling"
    /\ completed[p] = {}
    /\ Move(p, "filling")
    /\ UNCHANGED <<progress, plan, workers, queueVars>>

Exhausted(p) ==
    /\ stage[p] = "filling"
    /\ Waiting(p) = {} /\ Pending(p) = {}
    /\ Move(p, "closing")
    /\ UNCHANGED <<progress, plan, workers, queueVars>>

(* The pool is left when its last task has ended and its processes have    *)
(* gone, with an exception too: tasks that were submitted are not called   *)
(* off (ProcessPoolExecutor.__exit__).                                     *)
Close(p) ==
    /\ stage[p] = "closing"
    /\ \A f \in args[p] : future[f] \notin {"queued", "running"}
    /\ busy \cap args[p] = {}
    /\ Move(p, IF p \in raising THEN "failed" ELSE "staged")
    /\ UNCHANGED <<progress, plan, workers, queueVars>>

-----------------------------------------------------------------------------
(* Worker processes.  A pool has as many as it was given; those that take  *)
(* tasks from Redis are not counted.                                       *)
HasWorker(p) == plan.distributed \/ Cardinality(busy \cap args[p]) < workers[p]

StartTask(p) ==
    /\ HasWorker(p)
    /\ \E f \in args[p] :
         /\ future[f] = "queued"
         /\ future' = [future EXCEPT ![f] = "running"]
         /\ busy' = busy \cup {f}
    /\ UNCHANGED <<progress, plan, stage, workers, args, completed, broken, raising, result>>

(* stage_file, stage_aux_file: a report, or an exception for evidence that *)
(* changed, storage that failed or a coordinator that has gone.            *)
EndTask(p) ==
    /\ \E f \in args[p] :
         /\ future[f] = "running"
         /\ \/ /\ future' = [future EXCEPT ![f] = "returned"]
               /\ \E r \in Parsed : result' = [result EXCEPT ![f] = r]
            \/ future' = [future EXCEPT ![f] = "raised"] /\ UNCHANGED result
         /\ busy' = busy \ {f}
    /\ UNCHANGED <<progress, plan, stage, workers, args, completed, broken, raising>>

(* A process of a pool is killed: all pending tasks fail at once, and the  *)
(* other processes are then terminated.                                    *)
PoolBreaks(p) ==
    /\ stage[p] \in {"filling", "handling", "closing"}
    /\ p \notin broken
    /\ broken' = broken \cup {p}
    /\ \E dead \in SUBSET (busy \cap args[p]) : Cardinality(dead) <= 1 /\ busy' = busy \ dead
    /\ future' = [f \in Files |->
         IF f \in args[p] /\ future[f] \in {"queued", "running"} THEN "raised" ELSE future[f]]
    /\ UNCHANGED <<progress, plan, stage, workers, args, completed, raising, result>>

Terminated(p) ==
    /\ p \in broken
    /\ \E f \in busy \cap args[p] : busy' = busy \ {f}
    /\ UNCHANGED <<progress, plan, stage, workers, args, future, completed, broken, raising, result>>
================================================================================
