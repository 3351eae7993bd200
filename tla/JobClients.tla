------------------------------ MODULE JobClients ------------------------------
(***************************************************************************)
(* Those who look at a background job: read_job_status with its            *)
(* reconciliation of jobs whose process is gone, and cancel_job            *)
(* (ingest/job_control.py), against the job itself.                        *)
(***************************************************************************)
EXTENDS JobControl

Step(c, label) == pc' = [pc EXCEPT ![c] = label]

(* Where the caller goes on when read_job_status returns.                  *)
Return(c) ==
    Step(c, CASE goal[c] = "poll" -> "idle"
              [] goal[c] = "ask"  -> "request"
              [] goal[c] = "kill" -> "target")

-----------------------------------------------------------------------------
(* read_job_status: a document is there, it is read, ...                   *)
Ask(c, purpose) ==
    /\ pc[c] = "idle"
    /\ doc # NoDoc
    /\ goal' = [goal EXCEPT ![c] = purpose]
    /\ copy' = [copy EXCEPT ![c] = doc]
    /\ fresh' = [fresh EXCEPT ![c] = TRUE]
    /\ answer' = [answer EXCEPT ![c] = "none"]
    /\ Step(c, "read")
    /\ UNCHANGED <<doc, identity, cancel, committed, processVars, victims>>

(* ... completed with the identity the parent registered.                  *)
Merged(c) == [copy[c] EXCEPT !.owner = @ \/ identity]

(* owned_process: the recorded process, and no other, still runs.          *)
Owned(status) == status.owner /\ Alive

(* A status without an identity is left alone for 60 seconds.              *)
InGrace == GraceHolds /\ (parent = "published" \/ child = "starting")

(* A status to be returned as it is; without an identity, either may be.   *)
(* Mutant: a job without an identity is never settled by another process.  *)
LeaveAlone(c) ==
    LET status == Merged(c) IN status.phase \in Terminal \/ Owned(status) \/ ~status.owner

Settled(c) ==
    LET status == Merged(c) IN
    \/ status.phase \in Terminal
    \/ Owned(status)
    \/ ~status.owner /\ InGrace

ReadStatus(c) ==
    /\ pc[c] = "read"
    /\ copy' = [copy EXCEPT ![c] = Merged(c)]
    /\ IF Settled(c) THEN Return(c)
       ELSE \/ Step(c, "doubt")
            \/ ~Merged(c).owner /\ Return(c)
    /\ UNCHANGED <<fileVars, processVars, goal, victims, answer>>

(* "Re-read before persisting": a later document wins.                     *)
(* Mutant: it is not read again.                                           *)
RereadSkipped(c) ==
    /\ pc[c] = "doubt"
    /\ Step(c, "judge")
    /\ UNCHANGED <<fileVars, processVars, goal, copy, victims, answer>>

Reread(c) ==
    /\ pc[c] = "doubt"
    /\ \/ fresh[c] /\ Step(c, "judge") /\ UNCHANGED copy
       \/ ~fresh[c] /\ Return(c) /\ copy' = [copy EXCEPT ![c] = doc]
    /\ UNCHANGED <<fileVars, processVars, goal, victims, answer>>

Outcome == IF committed THEN "done" ELSE IF cancel THEN "cancelled" ELSE "interrupted"

Judge(c) ==
    /\ pc[c] = "judge"
    /\ copy' = [copy EXCEPT ![c].phase = Outcome]
    /\ Step(c, "write")
    /\ UNCHANGED <<fileVars, processVars, goal, victims, answer>>

WriteOutcome(c) ==
    /\ pc[c] = "write"
    /\ WriteDoc(copy[c].phase, copy[c].owner)
    /\ Return(c)
    /\ UNCHANGED <<identity, cancel, committed, processVars, goal, copy, victims, answer>>

-----------------------------------------------------------------------------
(* cancel_job: the request is published, then the status read once more.   *)
Request(c) ==
    /\ pc[c] = "request"
    /\ IF copy[c].phase = "done"
       THEN Step(c, "idle") /\ UNCHANGED cancel
       ELSE Step(c, "again") /\ cancel' = TRUE
    /\ UNCHANGED <<doc, identity, committed, fresh, processVars, goal, copy, victims, answer>>

ReadAgain(c) ==
    /\ pc[c] = "again"
    /\ goal' = [goal EXCEPT ![c] = "kill"]
    /\ copy' = [copy EXCEPT ![c] = doc]
    /\ fresh' = [fresh EXCEPT ![c] = TRUE]
    /\ Step(c, "read")
    /\ UNCHANGED <<doc, identity, cancel, committed, processVars, victims, answer>>

(* _live_children: workers known by their leases.                          *)
Leased == {w \in Workers : worker[w] = "leased"}

(* The child is frozen, then its processes are listed.                     *)
(* Mutant: only the leases are looked at.                                  *)
LeasedOnly == Leased

Descendants == {w \in Workers : worker[w] \in {"born", "leased"}}

Freeze(c) ==
    /\ pc[c] = "target"
    /\ Owned(copy[c])
    /\ frozen' = TRUE
    /\ victims' = [victims EXCEPT ![c] = Descendants]
    /\ Step(c, "kill")
    /\ UNCHANGED <<fileVars, parent, child, worker, goal, copy, answer>>

(* The coordinator is gone and workers are left; or nobody is.             *)
TargetOrphans(c) ==
    /\ pc[c] = "target"
    /\ ~Owned(copy[c])
    /\ Leased # {}
    /\ victims' = [victims EXCEPT ![c] = Leased]
    /\ Step(c, "kill")
    /\ UNCHANGED <<fileVars, processVars, goal, copy, answer>>

NoTarget(c) ==
    /\ pc[c] = "target"
    /\ ~Owned(copy[c])
    /\ Leased = {}
    /\ answer' = [answer EXCEPT ![c] = IF copy[c].phase \in Terminal THEN @ ELSE "cancelling"]
    /\ Step(c, "idle")
    /\ UNCHANGED <<fileVars, processVars, goal, copy, victims>>

Kill(c) ==
    /\ pc[c] = "kill"
    /\ worker' = [w \in Workers |-> IF w \in victims[c] THEN "gone" ELSE worker[w]]
    /\ \/ copy[c].owner /\ child' = "gone" /\ frozen' = FALSE
       \/ ~copy[c].owner /\ UNCHANGED <<child, frozen>>
    /\ Step(c, "verdict")
    /\ UNCHANGED <<fileVars, parent, goal, copy, victims, answer>>

(* The kill of a worker is refused: the child is resumed, and the error    *)
(* ends the client.                                                        *)
(* Mutant: it is left suspended.                                           *)
LeaveFrozen(c) ==
    /\ c \in Denied
    /\ pc[c] = "kill"
    /\ Step(c, "refused")
    /\ UNCHANGED <<fileVars, processVars, goal, copy, victims, answer>>

Resume(c) ==
    /\ c \in Denied
    /\ pc[c] = "kill"
    /\ frozen' = (frozen /\ ~Owned(copy[c]))
    /\ Step(c, "refused")
    /\ UNCHANGED <<fileVars, parent, child, worker, goal, copy, victims, answer>>

Verdict(c) ==
    /\ pc[c] = "verdict"
    /\ LET phase == IF committed THEN "done" ELSE "cancelled" IN
         /\ WriteDoc(phase, copy[c].owner)
         /\ answer' = [answer EXCEPT ![c] = phase]
    /\ Step(c, "idle")
    /\ UNCHANGED <<identity, cancel, committed, processVars, goal, copy, victims>>

(* A write fails, or a killed process has not gone after 10 seconds.       *)
ClientRaises(c) ==
    /\ pc[c] \in {"write", "request", "verdict"}
    /\ Step(c, "idle")
    /\ UNCHANGED <<fileVars, processVars, goal, copy, victims, answer>>

ClientDies(c) ==
    /\ c \in Fragile
    /\ pc[c] \notin {"idle", "refused", "dead"}
    /\ Step(c, "dead")
    /\ UNCHANGED <<fileVars, processVars, goal, copy, victims, answer>>

-----------------------------------------------------------------------------
ChildStep ==
    \/ Enter \/ HeedCancel \/ Proceed \/ Commit \/ ReportDone \/ FinalUpdate \/ Exit
    \/ \E w \in Workers : LeaseWorker(w) \/ EndWorker(w)

PollStep(c) == ReadStatus(c) \/ Reread(c) \/ Judge(c) \/ WriteOutcome(c)

CancelStep(c) ==
    \/ Request(c) \/ ReadAgain(c) \/ Freeze(c) \/ TargetOrphans(c) \/ NoTarget(c)
    \/ Kill(c) \/ Verdict(c)

Next ==
    \/ PublishJob \/ Spawn \/ SpawnFails \/ Register \/ ParentDies
    \/ ChildStep \/ Beat \/ Raise \/ ChildDies
    \/ \E w \in Workers : StartWorker(w)
    \/ \E c \in Clients :
         \/ \E purpose \in {"poll", "ask"} : Ask(c, purpose)
         \/ PollStep(c) \/ CancelStep(c)
         \/ Resume(c) \/ ClientRaises(c) \/ ClientDies(c)

Spec == Init /\ [][Next]_vars

(* A client that called goes on with its call, and "--watch" polls until   *)
(* the phase is terminal; the disk does not refuse every write of a client,*)
(* nor does the status stay too young to be judged.  Nothing is assumed of *)
(* the job itself.                                                         *)
Fairness ==
    \A c \in Clients :
        /\ WF_vars(Ask(c, "poll"))
        /\ WF_vars(PollStep(c) \/ CancelStep(c))
        /\ SF_vars(ReadStatus(c) /\ pc'[c] = "doubt")
        /\ SF_vars(WriteOutcome(c))

FairSpec == Spec /\ Fairness

-----------------------------------------------------------------------------
(* An answer to a cancel request is kept: after a call said that the job   *)
(* is cancelled, or about to be as there was no process to stop, the job   *)
(* does not commit any more.                                               *)
CancelIsFinal ==
    [][(\E c \in Clients : answer[c] \in {"cancelling", "cancelled"})
            => committed' = committed]_vars

(* When a job is reported as cancelled by the one who killed it, none of   *)
(* its workers is at work, not even one that was starting.                 *)
NoWorkerAfterCancel ==
    \A c \in Clients : answer[c] = "cancelled" => \A w \in Workers : worker[w] # "leased"

(* So it is as long as no other cancellation was refused a kill: two that  *)
(* meet suspend and list the job each on its own, and agree.               *)
CancelStopsWorkers == (\A c \in Clients : pc[c] # "refused") => NoWorkerAfterCancel

(* The status never contradicts the catalog: "done" only of a committed    *)
(* job, and once the process is gone another terminal phase only of one    *)
(* that is not.                                                            *)
StatusTellsOutcome ==
    /\ doc.phase = "done" => committed
    /\ child = "gone" /\ doc.phase \in Terminal \ {"done"} => ~committed

(* "a verified dead local process becomes interrupted", the Python API     *)
(* guide says: no living job is called interrupted, as long as a child     *)
(* registers within the 60 seconds it is given.                            *)
InterruptedIsDead == doc.phase = "interrupted" => ~Alive

Gone(c) == pc[c] \in {"refused", "dead"}

(* A job whose process is gone does not look as if it ran for ever, while  *)
(* there is anyone to look.                                                *)
JobSettles == child = "gone" ~> doc.phase \in Terminal \/ \A c \in Clients : Gone(c)

(* A job is suspended only while a cancellation is about to kill it, or    *)
(* was when its process died: none that is refused or overtaken leaves it. *)
FrozenIsReleased == frozen => \E c \in Clients : pc[c] \in {"kill", "dead"}
-----------------------------------------------------------------------------
(* Why they hold: what is known at every point of the job and of a call.   *)
Phases == Terminal \cup {"none", "running"}

Status == [phase : Phases, owner : BOOLEAN]

TypeOK ==
    /\ doc \in Status
    /\ identity \in BOOLEAN /\ cancel \in BOOLEAN /\ committed \in BOOLEAN
    /\ parent \in {"idle", "published", "spawned", "returned", "failed", "dead"}
    /\ child \in {"absent", "starting", "entered", "working", "committed", "finished",
                  "failing", "gone"}
    /\ frozen \in BOOLEAN
    /\ worker \in [Workers -> {"none", "born", "leased", "gone"}]
    /\ pc \in [Clients -> {"idle", "read", "doubt", "judge", "write", "request", "again",
                           "target", "kill", "verdict", "refused", "dead"}]
    /\ goal \in [Clients -> {"poll", "ask", "kill"}]
    /\ copy \in [Clients -> Status]
    /\ fresh \in [Clients -> BOOLEAN]
    /\ victims \in [Clients -> SUBSET Workers]
    /\ answer \in [Clients -> {"none", "cancelling"} \cup Terminal]

(* No process of the job runs, nor will one.                               *)
Dead == child = "gone" \/ (child = "absent" /\ parent \in {"failed", "dead"})

(* The job has not begun to work, and finds a request if it ever gets there.*)
Stopped == child = "gone" \/ (cancel /\ child \in {"absent", "starting", "entered"})

(* Parent and child: what there is before the other has gone on.           *)
ProcessInv ==
    /\ parent = "idle" => doc = NoDoc /\ \A c \in Clients : pc[c] = "idle"
    /\ parent \in {"idle", "published", "failed"} => child = "absent"
    /\ parent \in {"spawned", "returned"} => child # "absent"
    /\ identity \/ doc.owner => child # "absent"
    /\ frozen => Alive
    /\ child \in {"absent", "starting", "entered"} => \A w \in Workers : worker[w] = "none"
    /\ child \in {"absent", "starting", "entered", "working"} => ~committed
    /\ child \in {"committed", "finished"} => committed

(* The document while the child lives is the one it, or its parent, wrote. *)
DocInv ==
    /\ parent = "published" \/ child = "starting" => doc = [phase |-> "running", owner |-> FALSE]
    /\ child \in {"entered", "working", "committed"} => doc = [phase |-> "running", owner |-> TRUE]
    /\ child \in {"finished", "failing"} => doc.owner /\ doc.phase \in {"running", "done", "failed"}
    /\ doc.phase = "done" => committed
    /\ committed => doc.phase \in {"running", "done"}

(* What a client that read the status knows.                               *)
ReadInv ==
    \A c \in Clients :
        /\ copy[c].owner => child # "absent"
        /\ copy[c].phase = "done" => committed
        /\ pc[c] = "read" /\ fresh[c] => copy[c] = doc
        /\ pc[c] = "doubt" /\ fresh[c] => Dead
        /\ pc[c] \in {"judge", "write"} => Dead
        /\ pc[c] = "write" => copy[c].phase \in Terminal /\ (committed => copy[c].phase = "done")

(* A client that reads in order to kill asked for it first: a job it finds *)
(* without a process cannot start to work any more.                        *)
CancelInv ==
    \A c \in Clients :
        /\ pc[c] \in {"target", "kill", "verdict"} => goal[c] = "kill"
        /\ pc[c] \in {"request", "again"} => goal[c] = "ask"
        /\ pc[c] \in {"again", "target", "kill", "verdict"} => cancel
        /\ goal[c] = "kill" /\ pc[c] \in {"read", "doubt", "judge", "write"} => cancel
        /\ goal[c] = "kill" /\ pc[c] \in {"read", "doubt", "judge", "write", "target"}
               /\ ~copy[c].owner => Stopped
        /\ pc[c] = "kill" /\ ~copy[c].owner => child = "gone"
        /\ pc[c] = "verdict" => child = "gone"
        /\ answer[c] \in {"cancelling", "cancelled"} => Stopped
        /\ answer[c] = "cancelled" => child = "gone"

(* Whom a cancellation has in hand, as long as none was refused.           *)
NoneRefused == \A c \in Clients : pc[c] # "refused"

KillInv ==
    NoneRefused =>
        \A c \in Clients, w \in Workers :
            /\ pc[c] = "kill" =>
                  /\ frozen \/ child = "gone"
                  /\ worker[w] = "leased" => w \in victims[c]
                  /\ worker[w] = "born" => w \in victims[c] \/ child = "gone"
            /\ pc[c] = "verdict" \/ answer[c] = "cancelled" => worker[w] # "leased"

JobInv ==
    TypeOK /\ ProcessInv /\ DocInv /\ ReadInv /\ CancelInv /\ KillInv /\ FrozenIsReleased
===============================================================================
