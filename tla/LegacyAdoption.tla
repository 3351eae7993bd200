--------------------------- MODULE LegacyAdoption ---------------------------
(***************************************************************************)
(* A case written before case.json had a catalog (adopt_legacy and         *)
(* catalog_files in ingest/transactions.py, compact_case): its files are   *)
(* those of the physical lake, and nobody knows which evidence they came   *)
(* from until an ingest has indexed their provenance.  A compaction may    *)
(* come first and publish a catalog; ingestion stays blocked by the flag   *)
(* legacy_provenance_pending.                                              *)
(*                                                                         *)
(*  ingest      idle -> checked -> scanning -> scanned -> leaving          *)
(*              -> adopted -> filtered -> done,  raising -> failed         *)
(*  compaction  idle -> open -> merged -> closing -> idle                  *)
(*                                                                         *)
(* A stretch under the lock of the case is one step; the steps within are  *)
(* those of CaseCatalog.                                                   *)
(***************************************************************************)
EXTENDS Naturals, FiniteSets

CONSTANTS
    Ingests,        \* Case.ingest calls
    Compactions,    \* compact_case calls
    LegacyFiles,    \* the files of the physical lake
    Sources,        \* evidence files, each with one content
    Nameless,       \* sources whose legacy rows have no path, host or digest
    Provenance,     \* legacy file |-> the sources it has rows of
    Mortal          \* actors whose process may die

ASSUME AdoptionAssumption ==
    /\ Nameless \subseteq Sources
    /\ Mortal \subseteq Ingests \cup Compactions
    /\ Provenance \in [LegacyFiles -> SUBSET Sources]
    /\ Ingests \cap Compactions = {}
    /\ (Ingests \cup Compactions) \cap LegacyFiles = {}

Actors == Ingests \cup Compactions
Legacy == "legacy"
Row    == (Ingests \cup {Legacy}) \X Sources

(* A transaction has one file, named by it.                                *)
File    == LegacyFiles \cup Actors
Managed == Actors                     \* files under .ingest

VARIABLES
    meta,      \* case.json
    disk,      \* the Parquet files that exist
    rows,      \* file |-> its rows
    pc,        \* actor |-> where its process is
    copy,      \* ingest |-> case.json as adopt_legacy read it
    snap,      \* actor |-> the files it captured
    leased,    \* the actors whose lease file exists
    found,     \* ingest |-> the ledger it has computed
    batch      \* actor |-> sources staged, or files merged

vars == <<meta, disk, rows, pc, copy, snap, leased, found, batch>>

Unpublished ==
    [published |-> FALSE, pending |-> FALSE, catalog |-> {}, legacy_ledger |-> {},
     source_ledger |-> {}, retired |-> {}]

(* catalog_files: the catalog, or else the physical lake.                  *)
Files(m) == IF m.published THEN m.catalog ELSE LegacyFiles

RowsIn(files) == UNION {rows[f] : f \in files}
SourcesIn(some) == {r[2] : r \in some}

Goto(a, label) == pc' = [pc EXCEPT ![a] = label]

Init ==
    /\ meta = Unpublished
    /\ disk = LegacyFiles
    /\ rows = [f \in File |-> IF f \in LegacyFiles THEN {Legacy} \X Provenance[f] ELSE {}]
    /\ pc = [a \in Actors |-> "idle"]
    /\ copy = [i \in Ingests |-> Unpublished]
    /\ snap = [a \in Actors |-> {}]
    /\ leased = {}
    /\ found = [i \in Ingests |-> {}]
    /\ batch = [a \in Actors |-> {}]

-----------------------------------------------------------------------------
(* adopt_legacy.  Mutant: a catalog is enough.                             *)
AdoptedByCatalog(m) == m.published

Adopted(m) == m.published /\ ~m.pending

NothingToAdopt(m) == Adopted(m) \/ (~m.pending /\ Files(m) = {})

CheckAdoption(i) ==
    /\ pc[i] = "idle"
    /\ IF NothingToAdopt(meta)
       THEN Goto(i, "adopted") /\ UNCHANGED copy
       ELSE Goto(i, "checked") /\ copy' = [copy EXCEPT ![i] = meta]
    /\ UNCHANGED <<meta, disk, rows, snap, leased, found, batch>>

(* capture_snapshot: lease and file list under the lock.                   *)
CaptureForScan(i) ==
    /\ pc[i] = "checked"
    /\ snap' = [snap EXCEPT ![i] = Files(meta)]
    /\ leased' = leased \cup {i}
    /\ Goto(i, IF Files(meta) = {} /\ ~copy[i].pending THEN "leaving" ELSE "scanning")
    /\ UNCHANGED <<meta, disk, rows, copy, found, batch>>

(* Every row with a path, a host and a digest goes into the ledger.        *)
ScanProvenance(i) ==
    /\ pc[i] = "scanning"
    /\ snap[i] \subseteq disk
    /\ found' = [found EXCEPT ![i] = SourcesIn(RowsIn(snap[i])) \ Nameless]
    /\ Goto(i, "scanned")
    /\ UNCHANGED <<meta, disk, rows, copy, snap, leased, batch>>

(* "legacy lake lacks provenance columns", or a file cannot be read.       *)
ScanRaises(i) ==
    /\ pc[i] = "scanning"
    /\ Goto(i, "raising")
    /\ UNCHANGED <<meta, disk, rows, copy, snap, leased, found, batch>>

(* "legacy case changed during adoption".                                  *)
Changed(i) == meta # copy[i] \/ Files(meta) # snap[i]

(* Ledger, catalog and the end of the flag in one replacement.             *)
PublishAdoption(i) ==
    /\ pc[i] = "scanned"
    /\ ~Adopted(meta)
    /\ ~Changed(i)
    /\ meta' = [meta EXCEPT !.published = TRUE, !.pending = FALSE,
                            !.catalog = snap[i], !.legacy_ledger = found[i]]
    /\ Goto(i, "leaving")
    /\ UNCHANGED <<disk, rows, copy, snap, leased, found, batch>>

(* Another ingest adopted the case meanwhile, or it is not the one scanned. *)
AdoptionOvertaken(i) ==
    /\ pc[i] = "scanned"
    /\ \/ Adopted(meta) /\ Goto(i, "leaving")
       \/ ~Adopted(meta) /\ Changed(i) /\ Goto(i, "raising")
    /\ UNCHANGED <<meta, disk, rows, copy, snap, leased, found, batch>>

(* The "finally" clause.                                                   *)
EndAdoption(i) ==
    /\ pc[i] \in {"leaving", "raising"}
    /\ leased' = leased \ {i}
    /\ copy' = [copy EXCEPT ![i] = Unpublished]
    /\ snap' = [snap EXCEPT ![i] = {}]
    /\ found' = [found EXCEPT ![i] = {}]
    /\ Goto(i, IF pc[i] = "leaving" THEN "adopted" ELSE "failed")
    /\ UNCHANGED <<meta, disk, rows, batch>>

-----------------------------------------------------------------------------
(* filter_committed: of all the evidence, what neither ledger knows is     *)
(* staged.                                                                 *)
Filter(i) ==
    /\ pc[i] = "adopted"
    /\ batch' = [batch EXCEPT ![i] = Sources \ (meta.source_ledger \cup meta.legacy_ledger)]
    /\ Goto(i, "filtered")
    /\ UNCHANGED <<meta, disk, rows, copy, snap, leased, found>>

(* IngestTransaction.commit.                                               *)
Commit(i) ==
    /\ pc[i] = "filtered"
    /\ batch[i] \cap meta.source_ledger = {}
    /\ disk' = disk \cup {i}
    /\ rows' = [rows EXCEPT ![i] = {i} \X batch[i]]
    /\ meta' = [meta EXCEPT !.published = TRUE, !.catalog = Files(meta) \cup {i},
                            !.source_ledger = @ \cup batch[i]]
    /\ Goto(i, "done")
    /\ UNCHANGED <<copy, snap, leased, found, batch>>

CommitRaises(i) ==
    /\ pc[i] = "filtered"
    /\ Goto(i, "failed")
    /\ UNCHANGED <<meta, disk, rows, copy, snap, leased, found, batch>>

-----------------------------------------------------------------------------
(* compact_case: snapshot and lease, one merged file, publication.         *)
OpenCompaction(k) ==
    /\ pc[k] = "idle"
    /\ k \notin disk
    /\ snap' = [snap EXCEPT ![k] = Files(meta)]
    /\ leased' = leased \cup {k}
    /\ Goto(k, "open")
    /\ UNCHANGED <<meta, disk, rows, copy, found, batch>>

Merge(k) ==
    /\ pc[k] = "open"
    /\ \E group \in SUBSET snap[k] :
         /\ \E f, g \in group : f # g
         /\ group \subseteq disk
         /\ batch' = [batch EXCEPT ![k] = group]
         /\ rows' = [rows EXCEPT ![k] = RowsIn(group)]
    /\ disk' = disk \cup {k}
    /\ Goto(k, "merged")
    /\ UNCHANGED <<meta, copy, snap, leased, found>>

(* Mutant: the first catalog of an old case is like any other.             *)
MergedUnflagged(k) ==
    [meta EXCEPT !.published = TRUE,
                 !.catalog = (snap[k] \ batch[k]) \cup {k},
                 !.retired = @ \cup batch[k]]

MergedMeta(k) ==
    [meta EXCEPT !.published = TRUE,
                 !.pending = @ \/ ~meta.published,
                 !.catalog = (snap[k] \ batch[k]) \cup {k},
                 !.retired = @ \cup batch[k]]

PublishMerge(k) ==
    /\ pc[k] = "merged"
    /\ Files(meta) = snap[k]
    /\ meta' = MergedMeta(k)
    /\ Goto(k, "closing")
    /\ UNCHANGED <<disk, rows, copy, snap, leased, found, batch>>

(* Nothing to merge, a changed catalog, any other error; the end of all.   *)
CompactionRaises(k) ==
    /\ pc[k] \in {"open", "merged"}
    /\ Goto(k, "closing")
    /\ UNCHANGED <<meta, disk, rows, copy, snap, leased, found, batch>>

CloseCompaction(k) ==
    /\ pc[k] = "closing"
    /\ leased' = leased \ {k}
    /\ snap' = [snap EXCEPT ![k] = {}]
    /\ batch' = [batch EXCEPT ![k] = {}]
    /\ Goto(k, "idle")
    /\ UNCHANGED <<meta, disk, rows, copy, found>>

(* cleanup_retired: managed files no live process has leased.              *)
(* Mutant: an adoption is not taken for a reader.                          *)
ProtectedByCompactions ==
    UNION {snap[a] : a \in {b \in leased \cap Compactions : pc[b] # "dead"}}

Protected == UNION {snap[a] : a \in {b \in leased : pc[b] # "dead"}}

Reclaim ==
    LET gone == (meta.retired \cap Managed) \ (meta.catalog \cup Protected) IN
    /\ gone # {} \/ \E a \in leased : pc[a] = "dead"
    /\ disk' = disk \ gone
    /\ meta' = [meta EXCEPT !.retired = @ \ gone]
    /\ leased' = {a \in leased : pc[a] # "dead"}
    /\ UNCHANGED <<rows, pc, copy, snap, found, batch>>

Dies(a) ==
    /\ a \in Mortal
    /\ pc[a] \notin {"idle", "done", "failed", "dead"}
    /\ Goto(a, "dead")
    /\ UNCHANGED <<meta, disk, rows, copy, snap, leased, found, batch>>

Next ==
    \/ \E i \in Ingests :
         \/ CheckAdoption(i) \/ CaptureForScan(i) \/ ScanProvenance(i) \/ ScanRaises(i)
         \/ PublishAdoption(i) \/ AdoptionOvertaken(i) \/ EndAdoption(i)
         \/ Filter(i) \/ Commit(i) \/ CommitRaises(i)
    \/ \E k \in Compactions :
         \/ OpenCompaction(k) \/ Merge(k) \/ PublishMerge(k)
         \/ CompactionRaises(k) \/ CloseCompaction(k)
    \/ Reclaim
    \/ \E a \in Actors : Dies(a)

Spec == Init /\ [][Next]_vars

-----------------------------------------------------------------------------
(* The provenance that an ingest can know of.                              *)
LegacySources == SourcesIn(UNION {{Legacy} \X Provenance[f] : f \in LegacyFiles}) \ Nameless

(* Whichever comes first, compaction or ingest, and whoever dies half-way: *)
(* no ingest decides what to import before the ledger of the old sources   *)
(* is complete, and once it is, it stays so.                               *)
LedgerBeforeImport ==
    /\ Adopted(meta) => LegacySources \subseteq meta.legacy_ledger
    /\ \A i \in Ingests : pc[i] \in {"adopted", "filtered", "done"} => NothingToAdopt(meta)

Visible == RowsIn(Files(meta))

(* What queries see changes only by imports of evidence that is not there: *)
(* adoption, compaction and reclamation neither lose nor repeat a row.     *)
ImportsOnce ==
    [][\/ Visible' = Visible
       \/ /\ Visible \subseteq Visible'
          /\ SourcesIn(Visible' \ Visible) \cap (SourcesIn(Visible) \ Nameless) = {}]_vars

(* The files of the case, and those an adoption is scanning, exist; old    *)
(* files outside .ingest are never deleted.                                *)
ScannedOnDisk ==
    /\ Files(meta) \cup LegacyFiles \subseteq disk
    /\ \A i \in Ingests : pc[i] \in {"scanning", "scanned"} => snap[i] \subseteq disk

-----------------------------------------------------------------------------
(* The inductive invariant behind these properties.                        *)
Labels == {"idle", "checked", "scanning", "scanned", "leaving", "adopted", "filtered", "done",
           "raising", "failed", "open", "merged", "closing", "dead"}
Meta == [published : BOOLEAN, pending : BOOLEAN, catalog : SUBSET File,
         legacy_ledger : SUBSET Sources, source_ledger : SUBSET Sources, retired : SUBSET File]

(* Every variable keeps its type.                                          *)
TypeOK ==
    /\ meta \in Meta
    /\ disk \in SUBSET File
    /\ rows \in [File -> SUBSET Row]
    /\ pc \in [Actors -> Labels]
    /\ copy \in [Ingests -> Meta]
    /\ snap \in [Actors -> SUBSET File]
    /\ leased \in SUBSET Actors
    /\ found \in [Ingests -> SUBSET Sources]
    /\ \A i \in Ingests : batch[i] \in SUBSET Sources
    /\ \A k \in Compactions : batch[k] \in SUBSET File
    /\ DOMAIN batch = Actors

(* A transaction writes its file while nobody can name it.                 *)
FreshInv ==
    /\ \A i \in Ingests : i \in disk => pc[i] = "done"
    /\ \A k \in Compactions : pc[k] = "open" => k \notin disk

(* Files somebody may still read, or delete, exist.                        *)
Reading == {"scanning", "scanned", "open", "merged"}
DiskInv ==
    /\ Files(meta) \cup LegacyFiles \cup meta.retired \subseteq disk
    /\ \A a \in Actors : pc[a] \in Reading => a \in leased /\ snap[a] \subseteq disk

(* A merged file holds the rows of what it will replace, and is not yet    *)
(* part of the case.                                                       *)
MergeInv ==
    \A k \in Compactions : pc[k] = "merged" =>
        /\ k \in disk \ (Files(meta) \cup meta.retired)
        /\ batch[k] \subseteq snap[k]
        /\ batch[k] # {}
        /\ rows[k] = RowsIn(batch[k])

(* Every old row stays visible; the sources of the others are in the       *)
(* ledger.                                                                 *)
LegacyRows == UNION {{Legacy} \X Provenance[f] : f \in LegacyFiles}
VisibleInv ==
    /\ LegacyRows \subseteq Visible
    /\ \A r \in Visible : r \in LegacyRows \/ r[2] \in meta.source_ledger

(* What a scan reads and finds, and what its caller goes on with.          *)
ScanInv ==
    /\ meta.pending => Files(meta) # {}
    /\ \A i \in Ingests :
         /\ pc[i] = "scanning" => LegacyRows \subseteq RowsIn(snap[i])
         /\ pc[i] = "scanned" => LegacySources \subseteq found[i]
         /\ pc[i] = "leaving" => NothingToAdopt(meta)
         /\ pc[i] = "filtered" => batch[i] \cap LegacySources = {}

AdoptionInv ==
    /\ TypeOK
    /\ FreshInv
    /\ DiskInv
    /\ MergeInv
    /\ VisibleInv
    /\ ScanInv
    /\ LedgerBeforeImport
=============================================================================
