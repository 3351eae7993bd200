------------------------------ MODULE Snapshots ------------------------------
(***************************************************************************)
(* Reader leases and the reclamation of retired files                      *)
(* (ingest/snapshots.py, and the part of CaseDB that opens and closes).    *)
(*                                                                         *)
(*  holder   idle -> capturing -> open -> idle                             *)
(*  cleaner  idle -> leases -> unlinking -> forgetting -> idle             *)
(***************************************************************************)
EXTENDS CaseState

(* capture_snapshot: the catalog is read under the lock ...                *)
Capture(h) ==
    /\ pc[h] = "idle"
    /\ TakeCaseLock(h)
    /\ snap' = [snap EXCEPT ![h] = meta.catalog]
    /\ Goto(h, "capturing")
    /\ UNCHANGED <<meta, fileVars, txnVars, leased, sweepVars>>

(* ... and the lease written before the lock is let go.                    *)
WriteLease(h) ==
    /\ pc[h] = "capturing"
    /\ leased' = leased \cup {h}
    /\ FreeCaseLock(h)
    /\ Goto(h, "open")
    /\ UNCHANGED <<meta, fileVars, txnVars, snap, sweepVars>>

(* atomic_json fails: no lease, no connection.                             *)
CaptureFails(h) ==
    /\ pc[h] = "capturing"
    /\ FreeCaseLock(h)
    /\ Goto(h, "idle")
    /\ UNCHANGED <<meta, fileVars, txnVars, leaseVars, sweepVars>>

(* release_snapshot: the connection is closed, then the lease unlinked.    *)
Close(r) ==
    /\ pc[r] = "open"
    /\ leased' = leased \ {r}
    /\ Goto(r, "idle")
    /\ UNCHANGED <<caseVars, fileVars, txnVars, snap, sweepVars>>

-----------------------------------------------------------------------------
(* cleanup_retired.                                                        *)
RetireLock(c) ==
    /\ pc[c] = "idle"
    /\ TakeCaseLock(c)
    /\ Goto(c, "leases")
    /\ UNCHANGED <<meta, fileVars, txnVars, leaseVars, sweepVars>>

(* The leases are read one after the other: those of dead readers are      *)
(* unlinked, and one of another host ends the call with nothing removed.   *)
(* Mutants: every lease is taken for a dead one; only compactions count.   *)
EveryLease   == leased
CompactionsProtected == UNION {snap[h] : h \in leased \cap Compactions}

Expired      == {h \in leased : ~Alive(h)}
Protected    == UNION {snap[h] : h \in leased \ Expired}
ForeignLease(c) == \E h \in leased : ~SameHost(h, c)

ReadLeases(c) ==
    /\ pc[c] = "leases"
    /\ ~ForeignLease(c)
    /\ leased' = leased \ Expired
    /\ doomed' = [doomed EXCEPT ![c] = seen[c].retired \ (seen[c].catalog \cup Protected)]
    /\ Goto(c, "unlinking")
    /\ UNCHANGED <<caseVars, fileVars, txnVars, snap, todo, target>>

(* Leases of dead readers met before the foreign one are gone all the same. *)
KeepRetired(c) ==
    /\ pc[c] = "leases"
    /\ ForeignLease(c)
    /\ \E gone \in SUBSET {h \in Expired : SameHost(h, c)} : leased' = leased \ gone
    /\ FreeCaseLock(c)
    /\ Goto(c, "idle")
    /\ UNCHANGED <<meta, fileVars, txnVars, snap, sweepVars>>

UnlinkRetired(c) ==
    /\ pc[c] = "unlinking"
    /\ \E f \in doomed[c] \cap disk : disk' = disk \ {f}
    /\ UNCHANGED <<caseVars, pc, rows, content, txnVars, leaseVars, sweepVars>>

CheckRetired(c) ==
    /\ pc[c] = "unlinking"
    /\ doomed[c] \cap disk = {}
    /\ Owned(c)
    /\ Goto(c, "forgetting")
    /\ UNCHANGED <<caseVars, fileVars, txnVars, leaseVars, sweepVars>>

ForgetRetired(c) ==
    /\ pc[c] = "forgetting"
    /\ meta' = [seen[c] EXCEPT !.retired = @ \ doomed[c]]
    /\ doomed' = [doomed EXCEPT ![c] = {}]
    /\ Goto(c, "leaving")
    /\ UNCHANGED <<caseLock, seen, fileVars, txnVars, leaseVars, todo, target>>
==============================================================================
