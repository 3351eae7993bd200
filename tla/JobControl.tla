------------------------------ MODULE JobControl ------------------------------
(***************************************************************************)
(* One background ingest job (ingest/job_control.py, ingest/jobs.py,       *)
(* Case.ingest_background, the background child of the ingest command).    *)
(*                                                                         *)
(*   parent   idle -> published -> spawned -> returned  (or failed, dead)  *)
(*   child    absent -> starting -> entered -> working -> committed        *)
(*            -> finished -> gone,   working .. finished -> failing -> gone *)
(*   client   a process that polls the job or cancels it:                  *)
(*            idle -> read [-> doubt -> judge -> write] -> idle            *)
(*            ... -> request -> again -> read ... -> target -> kill        *)
(*            -> verdict -> idle,  or refused: the client has ended        *)
(*                                                                         *)
(* Jobs share no file, so one job stands for all.                          *)
(***************************************************************************)
EXTENDS Naturals, FiniteSets

CONSTANTS
    Clients,      \* processes that call job_status or cancel_job
    Fragile,      \* those of them that may die in a call
    Denied,       \* those of them that may be refused to kill a process
    Workers,      \* local worker processes of the job
    GraceHolds    \* a child registers within the 60 s it is given

ASSUME JobAssumption == Fragile \cup Denied \subseteq Clients /\ GraceHolds \in BOOLEAN

VARIABLES
    doc,        \* jobs/<id>.json: its phase, and whether it names the process
    identity,   \* jobs/.identities/<id>.json exists
    cancel,     \* jobs/.cancel/<id>.json exists
    committed,  \* case.json has a run of this job
    parent,     \* the caller of ingest_background
    child,      \* the detached process
    frozen,     \* the child is suspended
    worker,     \* worker |-> its process
    pc,         \* client |-> where its call is
    goal,       \* client |-> why it reads the status
    copy,       \* client |-> the status it holds
    fresh,      \* client |-> "updated_at" is still what it read
    victims,    \* client |-> the workers it is about to kill
    answer      \* client |-> what cancel_job returned

fileVars    == <<doc, identity, cancel, committed, fresh>>
processVars == <<parent, child, frozen, worker>>
clientVars  == <<pc, goal, copy, victims, answer>>
vars == <<fileVars, processVars, clientVars>>

Terminal == {"done", "failed", "interrupted", "cancelled"}     \* TERMINAL_PHASES
NoDoc    == [phase |-> "none", owner |-> FALSE]
Alive    == child \notin {"absent", "gone"}

(* write_job_status, atomic_json: the document is replaced as a whole.     *)
WriteDoc(phase, owner) ==
    /\ doc' = [phase |-> phase, owner |-> owner]
    /\ fresh' = [c \in Clients |-> FALSE]

(* The same where an OSError is survived.                                  *)
TryWriteDoc(phase) == WriteDoc(phase, TRUE) \/ UNCHANGED <<doc, fresh>>

Init ==
    /\ doc = NoDoc
    /\ identity = FALSE
    /\ cancel = FALSE
    /\ committed = FALSE
    /\ parent = "idle"
    /\ child = "absent"
    /\ frozen = FALSE
    /\ worker = [w \in Workers |-> "none"]
    /\ pc = [c \in Clients |-> "idle"]
    /\ goal = [c \in Clients |-> "poll"]
    /\ copy = [c \in Clients |-> NoDoc]
    /\ fresh = [c \in Clients |-> FALSE]
    /\ victims = [c \in Clients |-> {}]
    /\ answer = [c \in Clients |-> "none"]

-----------------------------------------------------------------------------
(* The parent: status first, then the process, then its identity.          *)
PublishJob ==
    /\ parent = "idle"
    /\ WriteDoc("running", FALSE)
    /\ parent' = "published"
    /\ UNCHANGED <<identity, cancel, committed, child, frozen, worker, clientVars>>

Spawn ==
    /\ parent = "published"
    /\ parent' = "spawned"
    /\ child' = "starting"
    /\ UNCHANGED <<fileVars, frozen, worker, clientVars>>

SpawnFails ==
    /\ parent = "published"
    /\ WriteDoc("failed", FALSE)
    /\ parent' = "failed"
    /\ UNCHANGED <<identity, cancel, committed, child, frozen, worker, clientVars>>

(* register_spawned_process; an OSError is only logged.                    *)
Register ==
    /\ parent = "spawned"
    /\ identity' \in {Alive, FALSE}
    /\ parent' = "returned"
    /\ UNCHANGED <<doc, cancel, committed, fresh, child, frozen, worker, clientVars>>

ParentDies ==
    /\ parent \in {"published", "spawned"}
    /\ parent' = "dead"
    /\ UNCHANGED <<fileVars, child, frozen, worker, clientVars>>

-----------------------------------------------------------------------------
(* The child.  At(label) holds when it is there and not suspended.         *)
At(label) == child = label /\ ~frozen

(* JobHeartbeat.__enter__: identity first, then the cancel request.        *)
Enter ==
    /\ At("starting")
    /\ WriteDoc("running", TRUE)
    /\ child' = "entered"
    /\ UNCHANGED <<identity, cancel, committed, parent, frozen, worker, clientVars>>

HeedCancel ==
    /\ At("entered")
    /\ cancel
    /\ TryWriteDoc("cancelled")
    /\ child' = "gone"
    /\ UNCHANGED <<identity, cancel, committed, parent, frozen, worker, clientVars>>

(* Mutant: the request is not looked for.                                  *)
ProceedUnasked ==
    /\ At("entered")
    /\ child' = "working"
    /\ UNCHANGED <<fileVars, parent, frozen, worker, clientVars>>

Proceed ==
    /\ At("entered")
    /\ ~cancel
    /\ child' = "working"
    /\ UNCHANGED <<fileVars, parent, frozen, worker, clientVars>>

(* JobHeartbeat._run, and update with the progress of the ingest.          *)
Beat ==
    /\ At("working") \/ At("committed")
    /\ WriteDoc("running", TRUE)
    /\ UNCHANGED <<identity, cancel, committed, processVars, clientVars>>

Commit ==
    /\ At("working")
    /\ \A w \in Workers : worker[w] \in {"none", "gone"}
    /\ committed' = TRUE
    /\ child' = "committed"
    /\ UNCHANGED <<doc, identity, cancel, fresh, parent, frozen, worker, clientVars>>

(* progress.finish(), then the explicit final update.                      *)
ReportDone ==
    /\ At("committed")
    /\ TryWriteDoc("done")
    /\ child' = "finished"
    /\ UNCHANGED <<identity, cancel, committed, parent, frozen, worker, clientVars>>

FinalUpdate ==
    /\ At("finished")
    /\ WriteDoc("done", TRUE)
    /\ child' = "gone"
    /\ UNCHANGED <<identity, cancel, committed, parent, frozen, worker, clientVars>>

(* An exception; "no supported log files found" is reported before it.     *)
Raise ==
    /\ \/ (At("committed") \/ At("finished")) /\ UNCHANGED <<doc, fresh>>
       \/ At("working") /\ TryWriteDoc("failed")
    /\ child' = "failing"
    /\ UNCHANGED <<identity, cancel, committed, parent, frozen, worker, clientVars>>

(* JobHeartbeat.__exit__ with an exception.                                *)
(* Mutant: an exception is a failure, committed or not.                    *)
ExitFailed ==
    /\ At("failing")
    /\ TryWriteDoc("failed")
    /\ child' = "gone"
    /\ UNCHANGED <<identity, cancel, committed, parent, frozen, worker, clientVars>>

Exit ==
    /\ At("failing")
    /\ TryWriteDoc(IF committed THEN "done" ELSE "failed")
    /\ child' = "gone"
    /\ UNCHANGED <<identity, cancel, committed, parent, frozen, worker, clientVars>>

(* The process is killed from outside, or cannot write its first status.   *)
ChildDies ==
    /\ Alive
    /\ child' = "gone"
    /\ frozen' = FALSE
    /\ UNCHANGED <<fileVars, parent, worker, clientVars>>

(* Workers: a task starts only under a living coordinator.                 *)
StartWorker(w) ==
    /\ At("working")
    /\ worker[w] = "none"
    /\ worker' = [worker EXCEPT ![w] = "born"]
    /\ UNCHANGED <<fileVars, parent, child, frozen, clientVars>>

LeaseWorker(w) ==
    /\ worker[w] = "born"
    /\ worker' = [worker EXCEPT ![w] = IF Alive THEN "leased" ELSE "gone"]
    /\ UNCHANGED <<fileVars, parent, child, frozen, clientVars>>

EndWorker(w) ==
    /\ worker[w] = "leased"
    /\ worker' = [worker EXCEPT ![w] = "gone"]
    /\ UNCHANGED <<fileVars, parent, child, frozen, clientVars>>
=============================================================================
