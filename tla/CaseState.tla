------------------------------ MODULE CaseState ------------------------------
(***************************************************************************)
(* The durable state of one case directory and the locks that guard it.    *)
(*                                                                         *)
(*   case.json            the variable meta: catalog, source ledger, runs  *)
(*                        and retired files, replaced as a whole           *)
(*   .ingest/<id>/        one private workspace per transaction: its       *)
(*                        state.json phase, its .case.lock, its Parquet    *)
(*                        files and the leases of its workers              *)
(*   .readers/<id>.json   reader leases                                    *)
(*   .case.lock / Redis   the lock of the case                             *)
(*                                                                         *)
(* The actors are the Case.ingest calls (Ingests), the compact_case calls  *)
(* (Compactions), the CaseDB connections (Readers) and the callers of the  *)
(* two cleanup functions (Cleaners).  Every actor is an operating-system   *)
(* process that may die when it is Mortal.                                 *)
(***************************************************************************)
EXTENDS Naturals, FiniteSets

CONSTANTS
    Ingests,       \* transactions opened by Case.ingest
    Compactions,   \* transactions opened by compact_case
    Readers,       \* CaseDB connections
    Cleaners,      \* processes that call cleanup_uncommitted / cleanup_retired
    Sources,       \* evidence files: one identity key of the ledger each
    Contents,      \* what an evidence file may hold: its SHA-256
    Merged,        \* the part of a workspace that holds compaction output
    NoOne,         \* no holder of a lock
    Remote,        \* actors and workers that run on the other host
    Mortal,        \* actors and workers whose process may die
    Lapsing        \* actors that may lose a RedisCaseLock; {} with flock

Txns    == Ingests \cup Compactions
Holders == Readers \cup Compactions     \* those who hold a lease on a snapshot
Actors  == Txns \cup Readers \cup Cleaners

ASSUME ActorsAssumption ==
    /\ Ingests \cap Compactions = {}
    /\ Txns \cap Readers = {}
    /\ Txns \cap Cleaners = {}
    /\ Readers \cap Cleaners = {}
    /\ NoOne \notin Actors
    /\ Merged \notin Sources

SameHost(a, b) == (a \in Remote) = (b \in Remote)

(***************************************************************************)
(* A Parquet file is named by its workspace and the part of it: the source *)
(* it was converted from, or Merged.  A row is abstracted to the import    *)
(* that produced it; a file holds a set of rows.                           *)
(***************************************************************************)
File  == Txns \X (Sources \cup {Merged})
Row   == Ingests \X Sources \X Contents
Entry == [source : Sources, sha256 : Contents, transaction_id : Ingests]
Meta  == [catalog : SUBSET File, retired : SUBSET File,
          source_ledger : SUBSET Entry, runs : SUBSET Txns]
EmptyMeta == [catalog |-> {}, retired |-> {}, source_ledger |-> {}, runs |-> {}]

VARIABLES
    meta,      \* case.json
    caseLock,  \* who owns the lock of the case, as the lock service sees it
    seen,      \* actor |-> its copy of case.json, read under the lock
    pc,        \* actor |-> where its process is
    disk,      \* the Parquet files that exist
    rows,      \* file |-> the rows written to it
    content,   \* source |-> what the evidence file holds now
    phase,     \* transaction |-> "phase" of its state.json
    wsLock,    \* transaction |-> who holds the lock of its workspace
    scan,      \* ingest |-> the sources left after filter_committed
    worker,    \* ingest |-> source |-> state of the staging task
    group,     \* compaction |-> the small files it merges
    leased,    \* the holders whose lease file exists
    snap,      \* holder |-> the catalog it captured
    todo,      \* cleaner |-> workspaces cleanup_uncommitted still has to visit
    target,    \* cleaner |-> the workspace it is removing
    doomed     \* cleaner |-> files cleanup_retired decided to unlink

caseVars   == <<meta, caseLock, seen>>
fileVars   == <<disk, rows, content>>
txnVars    == <<phase, wsLock, scan, worker, group>>
leaseVars  == <<leased, snap>>
sweepVars  == <<todo, target, doomed>>
vars == <<caseVars, pc, fileVars, txnVars, leaseVars, sweepVars>>

Alive(a) == pc[a] # "dead"

(* Parquet files of workspace t that exist: catalog_files(workspace). *)
Output(t) == {f \in disk : f[1] = t}

RowsIn(files) == UNION {rows[f] : f \in files}

(***************************************************************************)
(* Locks.  Taking the lock of the case and reading case.json under it is   *)
(* one step: a lease that lapsed in between is caught by assert_owned like *)
(* one that lapses after the read.                                         *)
(***************************************************************************)
TakeCaseLock(a) ==
    /\ caseLock = NoOne
    /\ caseLock' = a
    /\ seen' = [seen EXCEPT ![a] = meta]

Owned(a) == caseLock = a       \* assert_owned

(* Mutants: the lock freed without asking who owns it; never freed.        *)
FreeUnasked(a) ==
    /\ caseLock' = NoOne
    /\ seen' = [seen EXCEPT ![a] = EmptyMeta]
KeepCaseLock(a) ==
    /\ caseLock' = caseLock
    /\ seen' = [seen EXCEPT ![a] = EmptyMeta]

FreeCaseLock(a) ==
    /\ caseLock' = IF caseLock = a THEN NoOne ELSE caseLock
    /\ seen' = [seen EXCEPT ![a] = EmptyMeta]

(* The lease of RedisCaseLock lapses: renewal failed, or the process was   *)
(* paused past the TTL.  The holder does not notice until assert_owned.    *)
LockLapses ==
    /\ caseLock \in Lapsing
    /\ caseLock' = NoOne
    /\ UNCHANGED <<meta, seen, pc, fileVars, txnVars, leaseVars, sweepVars>>

Goto(a, label) == pc' = [pc EXCEPT ![a] = label]
==============================================================================
