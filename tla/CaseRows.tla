------------------------------- MODULE CaseRows -------------------------------
(***************************************************************************)
(* The second inductive invariant of CaseCatalog: what the Parquet files   *)
(* hold and how the ledger records it.  It rests on CaseInvariant, which   *)
(* says who may touch which file, and carries the properties about rows:   *)
(* the catalog and the ledger agree, nothing is imported twice, and what a *)
(* query sees is an abstract sequence of atomic imports.                   *)
(***************************************************************************)
EXTENDS CaseInvariant

(* Labels between the validation of the output and the commit.             *)
Validated == {"validated", "locked", "owned"}

(* Staging tasks are submitted for scanned sources by a running ingest,    *)
(* and none is left when the ingest passed its validation.                 *)
StagingInv ==
    \A t \in Ingests :
        /\ phase[t] \in {"none", "empty"} => \A s \in Sources : worker[t][s] = "idle"
        /\ \A s \in Sources : worker[t][s] # "idle" => s \in scan[t]
        /\ pc[t] \in Validated \/ t \in meta.runs =>
             \A s \in scan[t] : worker[t][s] \in {"ok", "failed"}

(* A file of an ingest holds the one import of its source; a compaction    *)
(* writes no file but the merged one.                                      *)
OutputInv ==
    \A f \in disk :
        \/ /\ f[1] \in Ingests /\ f[2] \in Sources
           /\ \E x \in Contents : rows[f] = {<<f[1], f[2], x>>}
        \/ f[1] \in Compactions /\ f[2] = Merged

(* The merged file holds the rows of the group until it replaces it.       *)
MergeInv ==
    \A t \in Compactions :
        /\ pc[t] \in Validated \cup {"merged"} => rows[<<t, Merged>>] = RowsIn(group[t])
        /\ pc[t] \in Validated => Output(t) = {<<t, Merged>>}

(* What the check under the lock found is still so at the commit.          *)
CheckedInv == \A t \in Ingests : pc[t] = "owned" => ~Duplicate(t)

(* The ledger names recorded ingests and tells the rows of the catalog,    *)
(* each of which is in one file and was imported once.                     *)
LedgerInv ==
    /\ \A e \in meta.source_ledger : e.transaction_id \in meta.runs
    /\ CatalogMatchesLedger
    /\ OneImportPerContent
    /\ NoRowTwice

(* An open connection is protected by its lease.                           *)
OpenInv == \A r \in Readers : pc[r] = "open" => r \in leased

RowsInv ==
    /\ StagingInv
    /\ OutputInv
    /\ MergeInv
    /\ CheckedInv
    /\ LedgerInv
    /\ OpenInv

(* Both invariants: what every step of the case keeps.                     *)
CatalogInv == CaseInv /\ RowsInv
================================================================================
