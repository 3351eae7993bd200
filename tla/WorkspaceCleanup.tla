--------------------------- MODULE WorkspaceCleanup ---------------------------
(***************************************************************************)
(* cleanup_uncommitted (ingest/transactions.py): the files of workspaces   *)
(* whose transaction neither committed nor is still at work are removed.   *)
(* It holds the lock of the case all the way through.                      *)
(*                                                                         *)
(*  idle -> sweeping <-> deleting,  sweeping -> leaving -> idle            *)
(***************************************************************************)
EXTENDS IngestTransaction

(* Workspaces whose id neither ingest_runs nor maintenance_runs names.     *)
Uncommitted == {t \in Txns : phase[t] # "none"} \ meta.runs

SweepLock(c) ==
    /\ pc[c] = "idle"
    /\ TakeCaseLock(c)
    /\ todo' = [todo EXCEPT ![c] = Uncommitted]
    /\ Goto(c, "sweeping")
    /\ UNCHANGED <<meta, fileVars, txnVars, leaseVars, target, doomed>>

(* Whether the sweep, holding the lock of the workspace, may empty it.     *)
(* Mutant: a half-cleaned workspace is passed over.                        *)
RemovableOnce(c, t) ==
    /\ phase[t] \in {"running", "failed"}
    /\ SameHost(t, c)
    /\ ~ActiveWorkers(c, t)

Removable(c, t) ==
    /\ phase[t] \notin {"none", "empty"}       \* it has a state.json
    /\ SameHost(t, c)
    /\ ~ActiveWorkers(c, t)

(* The workspace is locked by its transaction or by another sweep, or it   *)
(* must be left alone.                                                     *)
PassOver(c) ==
    /\ pc[c] = "sweeping"
    /\ \E t \in todo[c] :
         /\ wsLock[t] # NoOne \/ ~Removable(c, t)
         /\ todo' = [todo EXCEPT ![c] = @ \ {t}]
    /\ UNCHANGED <<caseVars, pc, fileVars, txnVars, leaseVars, target, doomed>>

(* active_workers and the write of "cleaning" happen under the activity    *)
(* lock that every worker takes to start: one step.                        *)
Claim(c) ==
    /\ pc[c] = "sweeping"
    /\ \E t \in todo[c] :
         /\ wsLock[t] = NoOne
         /\ Removable(c, t)
         /\ wsLock' = [wsLock EXCEPT ![t] = c]
         /\ phase' = [phase EXCEPT ![t] = "cleaning"]
         /\ target' = [target EXCEPT ![c] = t]
         /\ todo' = [todo EXCEPT ![c] = @ \ {t}]
    /\ Goto(c, "deleting")
    /\ UNCHANGED <<caseVars, fileVars, scan, worker, group, leaseVars, doomed>>

DeleteOutput(c) ==
    /\ pc[c] = "deleting"
    /\ \E f \in Output(target[c]) : disk' = disk \ {f}
    /\ UNCHANGED <<caseVars, pc, rows, content, txnVars, leaseVars, sweepVars>>

MarkCleaned(c) ==
    /\ pc[c] = "deleting"
    /\ Output(target[c]) = {}
    /\ phase' = [phase EXCEPT ![target[c]] = "cleaned"]
    /\ wsLock' = [wsLock EXCEPT ![target[c]] = NoOne]
    /\ target' = [target EXCEPT ![c] = NoOne]
    /\ Goto(c, "sweeping")
    /\ UNCHANGED <<caseVars, fileVars, scan, worker, group, leaseVars, todo, doomed>>

SweepDone(c) ==
    /\ pc[c] = "sweeping"
    /\ todo[c] = {}
    /\ Goto(c, "leaving")
    /\ UNCHANGED <<caseVars, fileVars, txnVars, leaseVars, sweepVars>>

(* Either cleanup function returns: the lock of the case is let go.        *)
Leave(c) ==
    /\ pc[c] = "leaving"
    /\ FreeCaseLock(c)
    /\ Goto(c, "idle")
    /\ UNCHANGED <<meta, fileVars, txnVars, leaseVars, sweepVars>>

(* Whatever an actor holds when it stops: its locks go, in any case.       *)
DropLocks(a) ==
    /\ FreeCaseLock(a)
    /\ wsLock' = [t \in Txns |-> IF wsLock[t] = a THEN NoOne ELSE wsLock[t]]
    /\ todo'   = IF a \in Cleaners THEN [todo EXCEPT ![a] = {}] ELSE todo
    /\ target' = IF a \in Cleaners THEN [target EXCEPT ![a] = NoOne] ELSE target
    /\ doomed' = IF a \in Cleaners THEN [doomed EXCEPT ![a] = {}] ELSE doomed

(* An OSError, a lost lock or a storage mismatch ends either call early.   *)
CleanerRaises(c) ==
    /\ pc[c] \in {"leases", "unlinking", "forgetting", "sweeping", "deleting"}
    /\ DropLocks(c)
    /\ Goto(c, "idle")
    /\ UNCHANGED <<meta, fileVars, phase, scan, worker, group, leaseVars>>
===============================================================================
