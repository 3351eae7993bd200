-------------------------- MODULE LegacyAdoptionProofs --------------------------
(***************************************************************************)
(* The adoption of an old case, for any number of ingests and compactions, *)
(* of old files and sources, whichever processes die: the ledger of old    *)
(* evidence is complete before anything is imported beside it, files that  *)
(* are being read stay, and imports are the only change a query can see.   *)
(***************************************************************************)
EXTENDS LegacyAdoption, TLAPS

USE AdoptionAssumption DEF Actors, File, Managed, Goto

-----------------------------------------------------------------------------
(* Rows of files are rows, and their sources sources.                      *)
LEMMA RowsInType ==
    ASSUME TypeOK, NEW files \in SUBSET File
    PROVE  RowsIn(files) \in SUBSET Row /\ SourcesIn(RowsIn(files)) \in SUBSET Sources
<1>1. RowsIn(files) \in SUBSET Row
  BY DEF TypeOK, RowsIn
<1> QED BY <1>1 DEF SourcesIn, Row

(* The files of the case are files.                                        *)
LEMMA FilesType ==
    ASSUME TypeOK
    PROVE  Files(meta) \in SUBSET File
BY DEF TypeOK, Files, Meta

(* What the old rows tell of sources, told without the rows.               *)
LEMMA LegacySourcesScanned ==
    ASSUME NEW some, LegacyRows \subseteq some
    PROVE  LegacySources \subseteq SourcesIn(some) \ Nameless
BY DEF LegacyRows, LegacySources, SourcesIn

(* A legacy row whose source has provenance names a legacy source.         *)
LEMMA LegacyRowNamed ==
    ASSUME NEW r \in LegacyRows, r[2] \notin Nameless
    PROVE  r[2] \in LegacySources
BY DEF LegacyRows, LegacySources, SourcesIn

-----------------------------------------------------------------------------
(* Steps of one actor that change neither case.json nor a file: what is    *)
(* left is the position of the actor and what it has in hand.              *)
LEMMA SameCase ==
    ASSUME AdoptionInv, UNCHANGED <<meta, disk, rows>>
    PROVE  /\ VisibleInv'
           /\ (Adopted(meta) => LegacySources \subseteq meta.legacy_ledger)'
           /\ (Files(meta) \cup LegacyFiles \cup meta.retired \subseteq disk)'
           /\ (meta.pending => Files(meta) # {})'
           /\ (NothingToAdopt(meta)' <=> NothingToAdopt(meta))
<1>1. VisibleInv'
  BY DEF AdoptionInv, VisibleInv, Visible, RowsIn, Files, LegacyRows
<1>2. (Adopted(meta) => LegacySources \subseteq meta.legacy_ledger)'
  BY DEF AdoptionInv, LedgerBeforeImport, Adopted, LegacySources, SourcesIn
<1> QED BY <1>1, <1>2
        DEF AdoptionInv, DiskInv, ScanInv, NothingToAdopt, Adopted, Files, RowsIn

(* An ingest looks at case.json: it goes on only where there is nothing to adopt. *)
LEMMA CheckAdoptionStep ==
    ASSUME AdoptionInv, NEW i \in Ingests, CheckAdoption(i)
    PROVE  AdoptionInv'
<1>1. TypeOK'
  BY DEF AdoptionInv, TypeOK, Labels, CheckAdoption
<1>2. FreshInv' /\ DiskInv' /\ MergeInv'
  BY DEF AdoptionInv, TypeOK, FreshInv, DiskInv, MergeInv, Reading, RowsIn,
     Files, CheckAdoption
<1>3. ScanInv' /\ LedgerBeforeImport'
  BY DEF AdoptionInv, TypeOK, ScanInv, LedgerBeforeImport, LegacySources,
     SourcesIn, RowsIn, LegacyRows, NothingToAdopt, Adopted, Files,
     CheckAdoption
<1> QED BY <1>1, <1>2, <1>3, SameCase DEF AdoptionInv, CheckAdoption

(* The snapshot of a scan shows every old row; an empty one has none to show. *)
LEMMA CaptureForScanStep ==
    ASSUME AdoptionInv, NEW i \in Ingests, CaptureForScan(i)
    PROVE  AdoptionInv'
<1>1. TypeOK'
  BY FilesType, RowsInType DEF AdoptionInv, TypeOK, Labels, CaptureForScan
<1>2. FreshInv' /\ DiskInv' /\ MergeInv'
  BY DEF AdoptionInv, TypeOK, FreshInv, DiskInv, MergeInv, Reading, RowsIn,
     Files, CaptureForScan
<1>3. ScanInv' /\ LedgerBeforeImport'
  <2>1. LegacyRows \subseteq RowsIn(Files(meta))
    BY DEF AdoptionInv, VisibleInv, Visible
  <2>2. ASSUME NEW j \in Ingests
        PROVE  /\ pc'[j] = "scanning" => LegacyRows \subseteq RowsIn(snap[j])'
               /\ pc'[j] = "scanned" => LegacySources \subseteq found'[j]
               /\ pc'[j] = "leaving" => NothingToAdopt(meta)
               /\ pc'[j] = "filtered" => batch'[j] \cap LegacySources = {}
    <3>1. CASE j = i
      <4>1. snap'[i] = Files(meta) /\ rows' = rows /\ pc'[i] \in {"scanning", "leaving"}
        BY DEF AdoptionInv, TypeOK, CaptureForScan
      <4>2. pc'[i] = "leaving" => Files(meta) = {}
        BY DEF AdoptionInv, TypeOK, CaptureForScan
      <4> QED BY <2>1, <3>1, <4>1, <4>2 DEF AdoptionInv, ScanInv, NothingToAdopt, RowsIn
    <3>2. CASE j # i
      BY <3>2 DEF AdoptionInv, TypeOK, ScanInv, CaptureForScan, RowsIn
    <3> QED BY <3>1, <3>2
  <2>3. LedgerBeforeImport'
    BY DEF AdoptionInv, TypeOK, LedgerBeforeImport, LegacySources, SourcesIn, NothingToAdopt,
       Adopted, Files, CaptureForScan
  <2> QED BY <2>2, <2>3, SameCase DEF ScanInv, CaptureForScan
<1> QED BY <1>1, <1>2, <1>3, SameCase DEF AdoptionInv, CaptureForScan

(* The scan finds every old source that has a name.                        *)
LEMMA ScanProvenanceStep ==
    ASSUME AdoptionInv, NEW i \in Ingests, ScanProvenance(i)
    PROVE  AdoptionInv'
<1>1. TypeOK'
  BY FilesType, RowsInType DEF AdoptionInv, TypeOK, Labels, ScanProvenance
<1>2. FreshInv' /\ DiskInv' /\ MergeInv'
  BY DEF AdoptionInv, TypeOK, FreshInv, DiskInv, MergeInv, Reading, RowsIn,
     Files, ScanProvenance
<1>3. ScanInv' /\ LedgerBeforeImport'
  BY DEF AdoptionInv, TypeOK, ScanInv, LedgerBeforeImport, LegacySources,
     SourcesIn, RowsIn, LegacyRows, NothingToAdopt, Adopted, Files,
     ScanProvenance
<1> QED BY <1>1, <1>2, <1>3, SameCase DEF AdoptionInv, ScanProvenance

(* A scan that fails imports nothing.                                      *)
LEMMA ScanRaisesStep ==
    ASSUME AdoptionInv, NEW i \in Ingests, ScanRaises(i)
    PROVE  AdoptionInv'
<1>1. TypeOK'
  BY DEF AdoptionInv, TypeOK, Labels, ScanRaises
<1>2. FreshInv' /\ DiskInv' /\ MergeInv'
  BY DEF AdoptionInv, TypeOK, FreshInv, DiskInv, MergeInv, Reading, RowsIn,
     Files, ScanRaises
<1>3. ScanInv' /\ LedgerBeforeImport'
  BY DEF AdoptionInv, TypeOK, ScanInv, LedgerBeforeImport, LegacySources,
     SourcesIn, RowsIn, LegacyRows, NothingToAdopt, Adopted, Files, ScanRaises
<1> QED BY <1>1, <1>2, <1>3, SameCase DEF AdoptionInv, ScanRaises

(* Another ingest has adopted the case, or this one gives up.              *)
LEMMA AdoptionOvertakenStep ==
    ASSUME AdoptionInv, NEW i \in Ingests, AdoptionOvertaken(i)
    PROVE  AdoptionInv'
<1>1. TypeOK'
  BY DEF AdoptionInv, TypeOK, Labels, AdoptionOvertaken
<1>2. FreshInv' /\ DiskInv' /\ MergeInv'
  BY DEF AdoptionInv, TypeOK, FreshInv, DiskInv, MergeInv, Reading, RowsIn,
     Files, AdoptionOvertaken
<1>3. ScanInv' /\ LedgerBeforeImport'
  BY DEF AdoptionInv, TypeOK, ScanInv, LedgerBeforeImport, LegacySources,
     SourcesIn, RowsIn, LegacyRows, NothingToAdopt, Adopted, Files,
     AdoptionOvertaken
<1> QED BY <1>1, <1>2, <1>3, SameCase DEF AdoptionInv, AdoptionOvertaken

(* The lease is dropped when the scan is over.                             *)
LEMMA EndAdoptionStep ==
    ASSUME AdoptionInv, NEW i \in Ingests, EndAdoption(i)
    PROVE  AdoptionInv'
<1>1. TypeOK'
  BY DEF AdoptionInv, TypeOK, Labels, Unpublished, Meta, EndAdoption
<1>2. FreshInv' /\ DiskInv' /\ MergeInv'
  BY DEF AdoptionInv, TypeOK, FreshInv, DiskInv, MergeInv, Reading, RowsIn,
     Files, EndAdoption
<1>3. ScanInv' /\ LedgerBeforeImport'
  BY DEF AdoptionInv, TypeOK, ScanInv, LedgerBeforeImport, LegacySources,
     SourcesIn, RowsIn, LegacyRows, NothingToAdopt, Adopted, Files, EndAdoption
<1> QED BY <1>1, <1>2, <1>3, SameCase DEF AdoptionInv, EndAdoption

(* What an ingest stages is none of the old evidence.                      *)
LEMMA FilterStep ==
    ASSUME AdoptionInv, NEW i \in Ingests, Filter(i)
    PROVE  AdoptionInv'
<1>1. TypeOK'
  BY FilesType, RowsInType DEF AdoptionInv, TypeOK, Labels, Filter
<1>2. FreshInv' /\ DiskInv' /\ MergeInv'
  BY DEF AdoptionInv, TypeOK, FreshInv, DiskInv, MergeInv, Reading, RowsIn,
     Files, Filter
<1>3. ScanInv' /\ LedgerBeforeImport'
  BY DEF AdoptionInv, TypeOK, ScanInv, LedgerBeforeImport, LegacySources,
     SourcesIn, RowsIn, LegacyRows, NothingToAdopt, Adopted, Files, Filter
<1> QED BY <1>1, <1>2, <1>3, SameCase DEF AdoptionInv, Filter

(* A commit that fails changes nothing.                                    *)
LEMMA CommitRaisesStep ==
    ASSUME AdoptionInv, NEW i \in Ingests, CommitRaises(i)
    PROVE  AdoptionInv'
<1>1. TypeOK'
  BY DEF AdoptionInv, TypeOK, Labels, CommitRaises
<1>2. FreshInv' /\ DiskInv' /\ MergeInv'
  BY DEF AdoptionInv, TypeOK, FreshInv, DiskInv, MergeInv, Reading, RowsIn,
     Files, CommitRaises
<1>3. ScanInv' /\ LedgerBeforeImport'
  BY DEF AdoptionInv, TypeOK, ScanInv, LedgerBeforeImport, LegacySources,
     SourcesIn, RowsIn, LegacyRows, NothingToAdopt, Adopted, Files, CommitRaises
<1> QED BY <1>1, <1>2, <1>3, SameCase DEF AdoptionInv, CommitRaises

(* A compaction leases the files of the case.                              *)
LEMMA OpenCompactionStep ==
    ASSUME AdoptionInv, NEW k \in Compactions, OpenCompaction(k)
    PROVE  AdoptionInv'
<1>1. TypeOK'
  BY FilesType, RowsInType DEF AdoptionInv, TypeOK, Labels, OpenCompaction
<1>2. FreshInv' /\ DiskInv' /\ MergeInv'
  BY DEF AdoptionInv, TypeOK, FreshInv, DiskInv, MergeInv, Reading, RowsIn,
     Files, OpenCompaction
<1>3. ScanInv' /\ LedgerBeforeImport'
  BY DEF AdoptionInv, TypeOK, ScanInv, LedgerBeforeImport, LegacySources,
     SourcesIn, RowsIn, LegacyRows, NothingToAdopt, Adopted, Files,
     OpenCompaction
<1> QED BY <1>1, <1>2, <1>3, SameCase DEF AdoptionInv, OpenCompaction

(* A compaction that gives up keeps its file out of the case.              *)
LEMMA CompactionRaisesStep ==
    ASSUME AdoptionInv, NEW k \in Compactions, CompactionRaises(k)
    PROVE  AdoptionInv'
<1>1. TypeOK'
  BY DEF AdoptionInv, TypeOK, Labels, CompactionRaises
<1>2. FreshInv' /\ DiskInv' /\ MergeInv'
  BY DEF AdoptionInv, TypeOK, FreshInv, DiskInv, MergeInv, Reading, RowsIn,
     Files, CompactionRaises
<1>3. ScanInv' /\ LedgerBeforeImport'
  BY DEF AdoptionInv, TypeOK, ScanInv, LedgerBeforeImport, LegacySources,
     SourcesIn, RowsIn, LegacyRows, NothingToAdopt, Adopted, Files,
     CompactionRaises
<1> QED BY <1>1, <1>2, <1>3, SameCase DEF AdoptionInv, CompactionRaises

(* Its lease goes last.                                                    *)
LEMMA CloseCompactionStep ==
    ASSUME AdoptionInv, NEW k \in Compactions, CloseCompaction(k)
    PROVE  AdoptionInv'
<1>1. TypeOK'
  BY DEF AdoptionInv, TypeOK, Labels, CloseCompaction
<1>2. FreshInv' /\ DiskInv' /\ MergeInv'
  BY DEF AdoptionInv, TypeOK, FreshInv, DiskInv, MergeInv, Reading, RowsIn,
     Files, CloseCompaction
<1>3. ScanInv' /\ LedgerBeforeImport'
  BY DEF AdoptionInv, TypeOK, ScanInv, LedgerBeforeImport, LegacySources,
     SourcesIn, RowsIn, LegacyRows, NothingToAdopt, Adopted, Files,
     CloseCompaction
<1> QED BY <1>1, <1>2, <1>3, SameCase DEF AdoptionInv, CloseCompaction

(* A process that dies reads no more.                                      *)
LEMMA DiesStep ==
    ASSUME AdoptionInv, NEW a \in Actors, Dies(a)
    PROVE  AdoptionInv'
<1>1. TypeOK'
  BY DEF AdoptionInv, TypeOK, Labels, Dies
<1>2. FreshInv' /\ DiskInv' /\ MergeInv'
  BY DEF AdoptionInv, TypeOK, FreshInv, DiskInv, MergeInv, Reading, RowsIn,
     Files, Dies
<1>3. ScanInv' /\ LedgerBeforeImport'
  BY DEF AdoptionInv, TypeOK, ScanInv, LedgerBeforeImport, LegacySources,
     SourcesIn, RowsIn, LegacyRows, NothingToAdopt, Adopted, Files, Dies
<1> QED BY <1>1, <1>2, <1>3, SameCase DEF AdoptionInv, Dies

-----------------------------------------------------------------------------
(* Where the rows of files on disk stay, a query sees what the files of    *)
(* the case now are.                                                       *)
LEMMA DiskRowsKept ==
    ASSUME AdoptionInv, NEW files \in SUBSET disk, \A f \in disk : rows'[f] = rows[f]
    PROVE  UNION {rows'[f] : f \in files} = RowsIn(files)
BY DEF RowsIn

(* One file more.                                                          *)
Gathered(held, files) == UNION {held[f] : f \in files}

(* ... adds its rows to those that were gathered.                          *)
LEMMA OneFileMore ==
    ASSUME NEW held, NEW files, NEW file
    PROVE  Gathered(held, files \cup {file}) = Gathered(held, files) \cup held[file]
BY DEF Gathered

(* The old rows are gathered from the constants alone.                     *)
LEMMA LegacyConstant == LegacyRows' = LegacyRows /\ LegacySources' = LegacySources
BY DEF LegacyRows, LegacySources, SourcesIn

(* Adoption publishes the files the case already had, with a ledger that   *)
(* knows them.                                                             *)
LEMMA PublishAdoptionStep ==
    ASSUME AdoptionInv, NEW i \in Ingests, PublishAdoption(i)
    PROVE  AdoptionInv' /\ Visible' = Visible
<1>1. /\ pc[i] = "scanned" /\ Files(meta) = snap[i] /\ ~Adopted(meta)
      /\ meta' = [meta EXCEPT !.published = TRUE, !.pending = FALSE,
                              !.catalog = snap[i], !.legacy_ledger = found[i]]
      /\ pc' = [pc EXCEPT ![i] = "leaving"]
      /\ UNCHANGED <<disk, rows, copy, snap, leased, found, batch>>
  BY DEF PublishAdoption, Changed
<1>2. meta \in Meta /\ snap[i] \in SUBSET File /\ found[i] \in SUBSET Sources
  BY DEF AdoptionInv, TypeOK
<1>3. /\ meta' \in Meta /\ Files(meta') = Files(meta) /\ Adopted(meta')
      /\ meta'.legacy_ledger = found[i] /\ meta'.source_ledger = meta.source_ledger
      /\ meta'.retired = meta.retired /\ ~meta'.pending
  BY <1>1, <1>2 DEF Meta, Files, Adopted
<1>4. Visible' = Visible
  BY <1>1, <1>3 DEF Visible, RowsIn, Files
<1>5. TypeOK'
  BY <1>1, <1>3 DEF AdoptionInv, TypeOK, Labels
<1>6. FreshInv' /\ DiskInv' /\ MergeInv'
  BY <1>1, <1>3 DEF AdoptionInv, TypeOK, FreshInv, DiskInv, MergeInv, Reading, RowsIn
<1>7. VisibleInv'
  BY <1>3, <1>4, LegacyConstant DEF AdoptionInv, VisibleInv
<1>8. ScanInv'
  BY <1>1, <1>3, LegacyConstant DEF AdoptionInv, TypeOK, ScanInv, NothingToAdopt, RowsIn
<1>9. LedgerBeforeImport'
  BY <1>1, <1>3, LegacyConstant
     DEF AdoptionInv, TypeOK, ScanInv, LedgerBeforeImport, NothingToAdopt
<1> QED BY <1>4, <1>5, <1>6, <1>7, <1>8, <1>9 DEF AdoptionInv

(* An import adds its own file, of evidence that no ledger knew.           *)
LEMMA CommitStep ==
    ASSUME AdoptionInv, NEW i \in Ingests, Commit(i)
    PROVE  /\ AdoptionInv'
           /\ Visible \subseteq Visible'
           /\ SourcesIn(Visible' \ Visible) \cap (SourcesIn(Visible) \ Nameless) = {}
<1>1. /\ pc[i] = "filtered" /\ batch[i] \cap meta.source_ledger = {}
      /\ disk' = disk \cup {i}
      /\ rows' = [rows EXCEPT ![i] = {i} \X batch[i]]
      /\ meta' = [meta EXCEPT !.published = TRUE, !.catalog = Files(meta) \cup {i},
                              !.source_ledger = @ \cup batch[i]]
      /\ pc' = [pc EXCEPT ![i] = "done"]
      /\ UNCHANGED <<copy, snap, leased, found, batch>>
  BY DEF Commit
<1>2. /\ meta \in Meta /\ Files(meta) \in SUBSET File /\ batch[i] \in SUBSET Sources
      /\ rows \in [File -> SUBSET Row] /\ pc \in [Actors -> Labels] /\ disk \subseteq File
  BY FilesType DEF AdoptionInv, TypeOK
<1>3. i \notin disk /\ Files(meta) \subseteq disk
  BY <1>1 DEF AdoptionInv, FreshInv, DiskInv
<1>4. \A f \in disk : rows'[f] = rows[f]
  BY <1>1, <1>2, <1>3
<1>5. /\ meta' \in Meta /\ Files(meta') = Files(meta) \cup {i} /\ meta'.published
      /\ meta'.legacy_ledger = meta.legacy_ledger /\ meta'.source_ledger = meta.source_ledger \cup batch[i]
      /\ meta'.retired = meta.retired /\ meta'.pending = meta.pending
  BY <1>1, <1>2 DEF Meta, Files
<1>6. Visible' = Visible \cup ({i} \X batch[i])
  <2>1. Visible' = Gathered(rows', Files(meta) \cup {i})
    BY <1>5 DEF Visible, RowsIn, Files, Gathered
  <2>2. Gathered(rows', Files(meta)) = Visible
    BY <1>3, <1>4, DiskRowsKept DEF Visible, Gathered
  <2>3. rows'[i] = {i} \X batch[i]
    BY <1>1, <1>2
  <2> QED BY <2>1, <2>2, <2>3, OneFileMore
<1>7. NothingToAdopt(meta) /\ batch[i] \cap LegacySources = {}
  BY <1>1 DEF AdoptionInv, LedgerBeforeImport, ScanInv
<1>8. LegacySources \subseteq meta.legacy_ledger
  <2>1. CASE Adopted(meta)
    BY <2>1 DEF AdoptionInv, LedgerBeforeImport
  <2>2. CASE Files(meta) = {}
    <3>1. LegacyRows = {}
      BY <2>2 DEF AdoptionInv, VisibleInv, Visible, RowsIn
    <3> QED BY <3>1 DEF LegacySources, LegacyRows, SourcesIn
  <2> QED BY <1>7, <2>1, <2>2 DEF NothingToAdopt
<1>9. TypeOK'
  <2>1. {i} \X batch[i] \in SUBSET Row
    BY <1>2 DEF Row
  <2> QED BY <1>1, <1>2, <1>5, <2>1 DEF AdoptionInv, TypeOK, Labels
<1>10. FreshInv' /\ DiskInv'
  BY <1>1, <1>2, <1>3, <1>5 DEF AdoptionInv, TypeOK, FreshInv, DiskInv, Reading
<1>11. MergeInv'
  <2> SUFFICES ASSUME NEW k \in Compactions, pc'[k] = "merged"
               PROVE  /\ k \in disk' \ (Files(meta') \cup meta'.retired)
                      /\ batch'[k] \subseteq snap'[k]
                      /\ batch'[k] # {}
                      /\ rows'[k] = RowsIn(batch[k])'
    BY DEF MergeInv, Files
  <2>1. pc[k] = "merged" /\ k # i
    BY <1>1, <1>2
  <2>2. batch[k] \subseteq disk
    BY <2>1 DEF AdoptionInv, MergeInv, DiskInv, Reading
  <2>3. RowsIn(batch[k])' = RowsIn(batch[k])
    BY <1>1, <1>4, <2>2, DiskRowsKept DEF RowsIn
  <2>4. rows'[k] = rows[k]
    BY <1>4, <2>1 DEF AdoptionInv, MergeInv
  <2> QED BY <1>1, <1>5, <2>1, <2>3, <2>4 DEF AdoptionInv, MergeInv
<1>12. VisibleInv'
  <2>1. \A r \in {i} \X batch[i] : r[2] \in meta'.source_ledger
    BY <1>5
  <2> QED BY <1>5, <1>6, <2>1, LegacyConstant DEF AdoptionInv, VisibleInv
<1>13. ScanInv'
  <2>1. \A j \in Ingests : pc'[j] = "scanning" => LegacyRows \subseteq RowsIn(snap[j])'
    <3> SUFFICES ASSUME NEW j \in Ingests, pc'[j] = "scanning"
                 PROVE  LegacyRows \subseteq RowsIn(snap[j])'
      OBVIOUS
    <3>1. pc[j] = "scanning" /\ snap[j] \subseteq disk
      BY <1>1, <1>2 DEF AdoptionInv, DiskInv, Reading
    <3>2. RowsIn(snap[j])' = RowsIn(snap[j])
      BY <1>1, <1>4, <3>1, DiskRowsKept DEF RowsIn
    <3> QED BY <3>1, <3>2 DEF AdoptionInv, ScanInv
  <2> QED BY <1>1, <1>2, <1>5, <1>7, <2>1, LegacyConstant
          DEF AdoptionInv, ScanInv, NothingToAdopt, Adopted, Files
<1>14. LedgerBeforeImport'
  BY <1>1, <1>2, <1>5, <1>7, <1>8, LegacyConstant
     DEF AdoptionInv, LedgerBeforeImport, NothingToAdopt, Adopted, Files
<1>15. SourcesIn(Visible' \ Visible) \cap (SourcesIn(Visible) \ Nameless) = {}
  <2>1. SourcesIn(Visible' \ Visible) \subseteq batch[i]
    BY <1>6 DEF SourcesIn
  <2>2. SourcesIn(Visible) \ Nameless \subseteq LegacySources \cup meta.source_ledger
    BY LegacyRowNamed DEF AdoptionInv, VisibleInv, SourcesIn
  <2> QED BY <1>1, <1>7, <2>1, <2>2
<1> QED BY <1>6, <1>9, <1>10, <1>11, <1>12, <1>13, <1>14, <1>15 DEF AdoptionInv

(* A compaction writes its file: no file of the case, nor one that is      *)
(* being read, changes.                                                    *)
LEMMA MergeStep ==
    ASSUME AdoptionInv, NEW k \in Compactions, Merge(k)
    PROVE  AdoptionInv' /\ Visible' = Visible
<1>1. PICK group \in SUBSET snap[k] :
         /\ \E f, g \in group : f # g
         /\ group \subseteq disk
         /\ batch' = [batch EXCEPT ![k] = group]
         /\ rows' = [rows EXCEPT ![k] = RowsIn(group)]
  BY DEF Merge
<1>2. /\ pc[k] = "open" /\ disk' = disk \cup {k} /\ pc' = [pc EXCEPT ![k] = "merged"]
      /\ UNCHANGED <<meta, copy, snap, leased, found>>
  BY DEF Merge
<1>3. /\ Files(meta) \in SUBSET File /\ group \in SUBSET File /\ RowsIn(group) \in SUBSET Row
      /\ rows \in [File -> SUBSET Row] /\ pc \in [Actors -> Labels] /\ disk \subseteq File
      /\ k \in File
  BY FilesType, RowsInType DEF AdoptionInv, TypeOK
<1>4. k \notin disk /\ Files(meta) \subseteq disk /\ meta.retired \subseteq disk
  BY <1>2 DEF AdoptionInv, FreshInv, DiskInv
<1>5. \A f \in disk : rows'[f] = rows[f]
  BY <1>1, <1>3, <1>4
<1>6. Visible' = Visible
  BY <1>2, <1>4, <1>5, DiskRowsKept DEF Visible, RowsIn, Files
<1>7. TypeOK'
  BY <1>1, <1>2, <1>3 DEF AdoptionInv, TypeOK, Labels
<1>8. FreshInv' /\ DiskInv'
  BY <1>2, <1>3 DEF AdoptionInv, FreshInv, DiskInv, Reading, Files
<1>9. MergeInv'
  <2> SUFFICES ASSUME NEW j \in Compactions, pc'[j] = "merged"
               PROVE  /\ j \in disk' \ (Files(meta') \cup meta'.retired)
                      /\ batch'[j] \subseteq snap'[j]
                      /\ batch'[j] # {}
                      /\ rows'[j] = RowsIn(batch[j])'
    BY DEF MergeInv, Files
  <2>1. CASE j = k
    <3>1. batch'[k] = group /\ rows'[k] = RowsIn(group)
      BY <1>1, <1>3 DEF AdoptionInv, TypeOK
    <3>2. RowsIn(batch[k])' = RowsIn(group)
      BY <1>1, <1>5, <3>1, DiskRowsKept DEF RowsIn
    <3> QED BY <1>1, <1>2, <1>4, <2>1, <3>1, <3>2
  <2>2. CASE j # k
    <3>1. pc[j] = "merged" /\ batch'[j] = batch[j] /\ rows'[j] = rows[j]
      BY <1>1, <1>2, <1>3, <2>2 DEF AdoptionInv, TypeOK
    <3>2. batch[j] \subseteq disk
      BY <3>1 DEF AdoptionInv, MergeInv, DiskInv, Reading
    <3>3. RowsIn(batch[j])' = RowsIn(batch[j])
      BY <1>5, <3>1, <3>2, DiskRowsKept DEF RowsIn
    <3> QED BY <1>2, <3>1, <3>3 DEF AdoptionInv, MergeInv
  <2> QED BY <2>1, <2>2
<1>10. VisibleInv'
  BY <1>2, <1>6, LegacyConstant DEF AdoptionInv, VisibleInv
<1>11. ScanInv'
  <2>1. \A i \in Ingests : pc'[i] = "scanning" => LegacyRows \subseteq RowsIn(snap[i])'
    <3> SUFFICES ASSUME NEW i \in Ingests, pc'[i] = "scanning"
                 PROVE  LegacyRows \subseteq RowsIn(snap[i])'
      OBVIOUS
    <3>1. pc[i] = "scanning" /\ snap[i] \subseteq disk
      BY <1>2, <1>3 DEF AdoptionInv, DiskInv, Reading
    <3>2. RowsIn(snap[i])' = RowsIn(snap[i])
      BY <1>2, <1>5, <3>1, DiskRowsKept DEF RowsIn
    <3> QED BY <3>1, <3>2 DEF AdoptionInv, ScanInv
  <2> QED BY <1>1, <1>2, <1>3, <2>1, LegacyConstant
          DEF AdoptionInv, TypeOK, ScanInv, NothingToAdopt, Adopted, Files
<1>12. LedgerBeforeImport'
  BY <1>2, <1>3, LegacyConstant DEF AdoptionInv, LedgerBeforeImport, NothingToAdopt, Adopted, Files
<1> QED BY <1>6, <1>7, <1>8, <1>9, <1>10, <1>11, <1>12 DEF AdoptionInv

(* The group is replaced by a file with the same rows; the first catalog   *)
(* of an old case is flagged, so that nobody takes it for adopted.         *)
LEMMA PublishMergeStep ==
    ASSUME AdoptionInv, NEW k \in Compactions, PublishMerge(k)
    PROVE  AdoptionInv' /\ Visible' = Visible
<1>1. /\ pc[k] = "merged" /\ Files(meta) = snap[k]
      /\ meta' = [meta EXCEPT !.published = TRUE,
                              !.pending = @ \/ ~meta.published,
                              !.catalog = (snap[k] \ batch[k]) \cup {k},
                              !.retired = @ \cup batch[k]]
      /\ pc' = [pc EXCEPT ![k] = "closing"]
      /\ UNCHANGED <<disk, rows, copy, snap, leased, found, batch>>
  BY DEF PublishMerge, MergedMeta
<1>2. /\ meta \in Meta /\ snap[k] \in SUBSET File /\ batch[k] \in SUBSET File
      /\ pc \in [Actors -> Labels] /\ k \in File
  BY DEF AdoptionInv, TypeOK
<1>3. /\ k \in disk /\ batch[k] \subseteq snap[k] /\ batch[k] # {}
      /\ rows[k] = RowsIn(batch[k]) /\ snap[k] \subseteq disk
  BY <1>1 DEF AdoptionInv, MergeInv, DiskInv, Reading
<1>4. /\ meta' \in Meta /\ Files(meta') = (snap[k] \ batch[k]) \cup {k}
      /\ meta'.published /\ (meta'.pending <=> meta.pending \/ ~meta.published)
      /\ meta'.retired = meta.retired \cup batch[k]
      /\ meta'.legacy_ledger = meta.legacy_ledger /\ meta'.source_ledger = meta.source_ledger
  BY <1>1, <1>2 DEF Meta, Files
<1>5. Visible' = Visible
  <2>1. Visible' = RowsIn((snap[k] \ batch[k]) \cup {k})
    BY <1>1, <1>4 DEF Visible, RowsIn, Files
  <2>2. RowsIn((snap[k] \ batch[k]) \cup {k}) = RowsIn(snap[k])
    BY <1>3 DEF RowsIn
  <2> QED BY <1>1, <2>1, <2>2 DEF Visible
<1>6. Adopted(meta') <=> Adopted(meta)
  BY <1>4 DEF Adopted
<1>7. NothingToAdopt(meta) => NothingToAdopt(meta')
  BY <1>1, <1>3, <1>6 DEF NothingToAdopt
<1>8. TypeOK'
  BY <1>1, <1>4 DEF AdoptionInv, TypeOK, Labels
<1>9. FreshInv' /\ DiskInv'
  BY <1>1, <1>2, <1>3, <1>4 DEF AdoptionInv, TypeOK, FreshInv, DiskInv, Reading
<1>10. MergeInv'
  <2> SUFFICES ASSUME NEW j \in Compactions, pc'[j] = "merged"
               PROVE  /\ j \in disk' \ (Files(meta') \cup meta'.retired)
                      /\ batch'[j] \subseteq snap'[j]
                      /\ batch'[j] # {}
                      /\ rows'[j] = RowsIn(batch[j])'
    BY DEF MergeInv, Files
  <2>1. pc[j] = "merged" /\ j # k
    BY <1>1, <1>2
  <2>2. j \notin snap[k]
    BY <1>1, <2>1 DEF AdoptionInv, MergeInv
  <2> QED BY <1>1, <1>3, <1>4, <2>1, <2>2 DEF AdoptionInv, MergeInv, RowsIn
<1>11. VisibleInv'
  BY <1>4, <1>5, LegacyConstant DEF AdoptionInv, VisibleInv
<1>12. ScanInv'
  BY <1>1, <1>2, <1>4, <1>7, LegacyConstant DEF AdoptionInv, ScanInv, RowsIn, NothingToAdopt, Adopted, Files
<1>13. LedgerBeforeImport'
  BY <1>1, <1>2, <1>4, <1>6, <1>7, LegacyConstant
     DEF AdoptionInv, LedgerBeforeImport, NothingToAdopt, Adopted, Files
<1> QED BY <1>5, <1>8, <1>9, <1>10, <1>11, <1>12, <1>13 DEF AdoptionInv

(* What is reclaimed is neither in the catalog nor in a snapshot that a    *)
(* live process has leased.                                                *)
LEMMA ReclaimStep ==
    ASSUME AdoptionInv, Reclaim
    PROVE  AdoptionInv' /\ Visible' = Visible
<1> DEFINE gone == (meta.retired \cap Managed) \ (meta.catalog \cup Protected)
<1>1. /\ disk' = disk \ gone
      /\ meta' = [meta EXCEPT !.retired = @ \ gone]
      /\ leased' = {a \in leased : pc[a] # "dead"}
      /\ UNCHANGED <<rows, pc, copy, snap, found, batch>>
  BY DEF Reclaim
<1>2. meta \in Meta
  BY DEF AdoptionInv, TypeOK
<1>3. gone \cap Files(meta) = {} /\ gone \cap LegacyFiles = {} /\ gone \subseteq meta.retired
  BY DEF Files
<1>4. \A a \in leased : pc[a] # "dead" => gone \cap snap[a] = {}
  BY DEF Protected
<1> HIDE DEF gone
<1>5. /\ meta' \in Meta /\ Files(meta') = Files(meta)
      /\ (Adopted(meta') <=> Adopted(meta)) /\ (NothingToAdopt(meta') <=> NothingToAdopt(meta))
      /\ meta'.pending = meta.pending /\ meta'.retired = meta.retired \ gone
      /\ meta'.legacy_ledger = meta.legacy_ledger /\ meta'.source_ledger = meta.source_ledger
  BY <1>1, <1>2 DEF Meta, Files, Adopted, NothingToAdopt
<1>6. Visible' = Visible
  BY <1>1, <1>5 DEF Visible, RowsIn, Files
<1>7. TypeOK'
  BY <1>1, <1>5 DEF AdoptionInv, TypeOK
<1>8. FreshInv' /\ DiskInv'
  BY <1>1, <1>3, <1>4, <1>5 DEF AdoptionInv, TypeOK, FreshInv, DiskInv, Reading
<1>9. MergeInv'
  BY <1>1, <1>3, <1>5 DEF AdoptionInv, MergeInv, RowsIn, Files
<1>10. VisibleInv'
  BY <1>5, <1>6, LegacyConstant DEF AdoptionInv, VisibleInv
<1>11. ScanInv'
  BY <1>1, <1>5, LegacyConstant DEF AdoptionInv, ScanInv, RowsIn, NothingToAdopt, Adopted, Files
<1>12. LedgerBeforeImport'
  BY <1>1, <1>5, LegacyConstant DEF AdoptionInv, LedgerBeforeImport, NothingToAdopt, Adopted, Files
<1> QED BY <1>6, <1>7, <1>8, <1>9, <1>10, <1>11, <1>12 DEF AdoptionInv

-----------------------------------------------------------------------------
(* The invariant holds in an old case nobody has touched.                  *)
LEMMA InitInv == Init => AdoptionInv
<1> SUFFICES ASSUME Init PROVE AdoptionInv
  OBVIOUS
<1>1. \A f \in LegacyFiles : rows[f] = {Legacy} \X Provenance[f] /\ rows[f] \subseteq Row
  BY DEF Init, Row
<1>2. TypeOK
  BY <1>1 DEF Init, TypeOK, Unpublished, Meta, Labels
<1>3. FreshInv /\ DiskInv /\ MergeInv
  BY DEF Init, Unpublished, FreshInv, DiskInv, MergeInv, Reading, Files
<1>4. Visible = LegacyRows
  BY <1>1 DEF Init, Unpublished, Visible, LegacyRows, Files, RowsIn
<1>5. VisibleInv
  BY <1>4 DEF VisibleInv
<1>6. ScanInv /\ LedgerBeforeImport
  BY DEF Init, Unpublished, ScanInv, LedgerBeforeImport, Adopted
<1> QED BY <1>2, <1>3, <1>5, <1>6 DEF AdoptionInv

(* What a step may do to the rows a query sees.                            *)
OneImport ==
    \/ Visible' = Visible
    \/ /\ Visible \subseteq Visible'
       /\ SourcesIn(Visible' \ Visible) \cap (SourcesIn(Visible) \ Nameless) = {}

(* A step that touches no file of the case shows nothing new.              *)
LEMMA SameVisible == ASSUME UNCHANGED <<meta, rows>> PROVE OneImport
BY DEF OneImport, Visible, RowsIn, Files

(* Every step keeps the invariant.                                         *)
LEMMA NextInv == AdoptionInv /\ [Next]_vars => AdoptionInv' /\ OneImport
<1> SUFFICES ASSUME AdoptionInv, [Next]_vars PROVE AdoptionInv' /\ OneImport
  OBVIOUS
<1>1. ASSUME NEW i \in Ingests, CheckAdoption(i) \/ CaptureForScan(i) \/ ScanProvenance(i) \/ ScanRaises(i)
      PROVE  AdoptionInv' /\ OneImport
  BY <1>1, SameVisible, CheckAdoptionStep, CaptureForScanStep, ScanProvenanceStep, ScanRaisesStep
     DEF CheckAdoption, CaptureForScan, ScanProvenance, ScanRaises
<1>2. ASSUME NEW i \in Ingests, AdoptionOvertaken(i) \/ EndAdoption(i) \/ Filter(i) \/ CommitRaises(i)
      PROVE  AdoptionInv' /\ OneImport
  BY <1>2, SameVisible, AdoptionOvertakenStep, EndAdoptionStep, FilterStep, CommitRaisesStep
     DEF AdoptionOvertaken, EndAdoption, Filter, CommitRaises
<1>3. ASSUME NEW i \in Ingests, PublishAdoption(i) \/ Commit(i)
      PROVE  AdoptionInv' /\ OneImport
  BY <1>3, PublishAdoptionStep, CommitStep DEF OneImport
<1>4. ASSUME NEW k \in Compactions, OpenCompaction(k) \/ CompactionRaises(k) \/ CloseCompaction(k)
      PROVE  AdoptionInv' /\ OneImport
  BY <1>4, SameVisible, OpenCompactionStep, CompactionRaisesStep, CloseCompactionStep
     DEF OpenCompaction, CompactionRaises, CloseCompaction
<1>5. ASSUME NEW k \in Compactions, Merge(k) \/ PublishMerge(k)
      PROVE  AdoptionInv' /\ OneImport
  BY <1>5, MergeStep, PublishMergeStep DEF OneImport
<1>6. ASSUME Reclaim PROVE AdoptionInv' /\ OneImport
  BY <1>6, ReclaimStep DEF OneImport
<1>7. ASSUME NEW a \in Actors, Dies(a) PROVE AdoptionInv' /\ OneImport
  BY <1>7, SameVisible, DiesStep DEF Dies
<1>8. CASE UNCHANGED vars
  <2>1. TypeOK' /\ FreshInv' /\ DiskInv' /\ MergeInv' /\ VisibleInv'
    BY <1>8 DEF AdoptionInv, vars, TypeOK, FreshInv, DiskInv, MergeInv, VisibleInv, Visible, RowsIn,
       Files, LegacyRows
  <2>2. ScanInv' /\ LedgerBeforeImport'
    BY <1>8, LegacyConstant
       DEF AdoptionInv, vars, ScanInv, LedgerBeforeImport, NothingToAdopt, Adopted, Files, RowsIn
  <2> QED BY <1>8, <2>1, <2>2, SameVisible DEF AdoptionInv, vars
<1> QED BY <1>1, <1>2, <1>3, <1>4, <1>5, <1>6, <1>7, <1>8 DEF Next

-----------------------------------------------------------------------------
(* AdoptionInv is an invariant of the adoption.                            *)
THEOREM AdoptionInvariance == Spec => []AdoptionInv
<1>1. Init => AdoptionInv
  BY InitInv
<1>2. AdoptionInv /\ [Next]_vars => AdoptionInv'
  BY NextInv
<1> QED BY <1>1, <1>2, PTL DEF Spec

(* No ingest decides what to import before the ledger of the old evidence  *)
(* is complete, whichever of compaction and ingest comes first.            *)
THEOREM LedgerComesFirst == Spec => []LedgerBeforeImport
<1>1. AdoptionInv => LedgerBeforeImport
  BY DEF AdoptionInv
<1> QED BY <1>1, AdoptionInvariance, PTL

(* The files of the case, and those an adoption scans, are never deleted   *)
(* under it; the old files outside .ingest are never deleted at all.       *)
THEOREM ScannedFilesStay == Spec => []ScannedOnDisk
<1>1. AdoptionInv => ScannedOnDisk
  BY DEF AdoptionInv, DiskInv, ScannedOnDisk, Reading
<1> QED BY <1>1, AdoptionInvariance, PTL

(* What a query sees changes only by the import of evidence that is not    *)
(* there yet.                                                              *)
THEOREM ImportsAreNew == Spec => ImportsOnce
<1>1. AdoptionInv /\ [Next]_vars => [OneImport]_vars
  BY NextInv
<1> QED BY <1>1, AdoptionInvariance, PTL DEF Spec, ImportsOnce, OneImport

================================================================================
