------------------------------ MODULE Compaction ------------------------------
(***************************************************************************)
(* compact_case (ingest/compaction.py): small files of the catalog are     *)
(* rewritten as one file and retired.  A compaction reads through a CaseDB *)
(* and writes through an IngestTransaction with an empty scan.             *)
(*                                                                         *)
(*  idle -> capturing -> open -> created -> running -> merged -> validated *)
(*       -> locked -> owned -> published -> unlocked -> done               *)
(***************************************************************************)
EXTENDS IngestTransaction, Snapshots

(* _plan_groups: the small files of one partition, two at least.  Which    *)
(* files are small and share a partition is left open; the groups of one   *)
(* call are disjoint and are published together, so one stands for all.    *)
Groups(files) == {g \in SUBSET files : \E x, y \in g : x # y}

Plan(t) ==
    /\ pc[t] = "open"
    /\ \E g \in Groups(snap[t]) : group' = [group EXCEPT ![t] = g]
    /\ phase' = [phase EXCEPT ![t] = "empty"]
    /\ Goto(t, "created")
    /\ UNCHANGED <<caseVars, fileVars, wsLock, scan, worker, leaseVars, sweepVars>>

NothingToMerge(t) ==
    /\ pc[t] = "open"
    /\ leased' = leased \ {t}
    /\ Goto(t, "done")
    /\ UNCHANGED <<caseVars, fileVars, txnVars, snap, sweepVars>>

(* _write_group: every row of the group, into one new file.                *)
WriteGroup(t) ==
    /\ pc[t] = "running"
    /\ group[t] \subseteq disk
    /\ disk' = disk \cup {<<t, Merged>>}
    /\ rows' = [rows EXCEPT ![<<t, Merged>>] = RowsIn(group[t])]
    /\ Goto(t, "merged")
    /\ UNCHANGED <<caseVars, content, txnVars, leaseVars, sweepVars>>

(* The inputs are still the files that were read, the output is complete.  *)
ValidateMerged(t) ==
    /\ pc[t] = "merged"
    /\ group[t] \subseteq disk
    /\ Output(t) = {<<t, Merged>>}
    /\ Goto(t, "validated")
    /\ UNCHANGED <<caseVars, fileVars, txnVars, leaseVars, sweepVars>>

CheckSnapshot(t) ==
    /\ pc[t] = "locked"
    /\ seen[t].catalog = snap[t]
    /\ Owned(t)
    /\ Goto(t, "owned")
    /\ UNCHANGED <<caseVars, fileVars, txnVars, leaseVars, sweepVars>>

(* Mutant: the inputs stay in the catalog.                                 *)
InputsKept(t) ==
    [seen[t] EXCEPT !.catalog = snap[t] \cup Output(t),
                    !.retired = @ \cup group[t],
                    !.runs = @ \cup {t}]

CompactedMeta(t) ==
    [seen[t] EXCEPT !.catalog = (snap[t] \ group[t]) \cup Output(t),
                    !.retired = @ \cup group[t],
                    !.runs = @ \cup {t}]

PublishMerged(t) ==
    /\ pc[t] = "owned"
    /\ meta' = CompactedMeta(t)
    /\ Goto(t, "published")
    /\ UNCHANGED <<caseLock, seen, fileVars, txnVars, leaseVars, sweepVars>>

(* "case catalog changed during compaction", an input that is gone, a      *)
(* lock that was lost.                                                     *)
MustStop(t) ==
    \/ pc[t] \in {"running", "merged"} /\ ~(group[t] \subseteq disk)
    \/ pc[t] = "locked" /\ (seen[t].catalog # snap[t] \/ ~Owned(t))

StopMerging(t) == MustStop(t) /\ Fail(t)
===============================================================================
