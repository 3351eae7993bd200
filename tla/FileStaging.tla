------------------------------ MODULE FileStaging ------------------------------
(***************************************************************************)
(* One source file in its worker: stage_file (ingest/evtx/stage.py) for an *)
(* event log, stage_aux_file (ingest/logsources/stage.py) for any other,   *)
(* with the native parser (ingest/logsources/native.py) or a Python one.   *)
(* The file may be replaced while it is read, and every write may fail.    *)
(*                                                                         *)
(*  start -> hashing -> ready [-> indexing] -> native | python             *)
(*        native -> python                      (fallback, after an abort) *)
(*        native | python -> closing -> closed -> reported                 *)
(*        any -> failing -> raised                                         *)
(***************************************************************************)
EXTENDS TextSource, ShardWriters

CONSTANTS
    Plans,           \* what may be staged, and with which options: see Plan
    MaxPartitions,   \* the partitions a manifest lists
    MaxAttempts,     \* the records an EVTX iterator is asked for at most
    MaxChanges,      \* how often the analyst replaces the file
    MaxErrors        \* error_count is not counted further than this

(* kind: "text" stands for the kinds that only Python parses, "web" for    *)
(* those the native parser knows, "unsigned" for Registry hives and tasks. *)
(* items: what the parser meets in the file; prepared: the direct          *)
(* conversion has hashed the file before and gave up.                      *)
Plan == [kind : {"evtx", "web", "text", "unsigned", "unknown"}, format : {"arrow", "ndjson"},
         backend : {"python", "auto", "native"}, component : BOOLEAN, prepared : BOOLEAN,
         headers : {"all", "some", "none"}, keepRaw : BOOLEAN, text : Seq(STRING), bytes : FileBytes,
         items : Seq([kind : STRING, size : Nat])]

Decoded(p) == p.kind \in {"web", "text"}

ASSUME StagingAssumption ==
    /\ Plans \subseteq Plan
    /\ \A p \in Plans : p.prepared => Decoded(p)
    /\ \A p \in Plans : Decoded(p) => p.items = Parsed(p.text)
    /\ \A p \in Plans : Len(p.items) < MaxAttempts
    /\ \A p \in Plans : p.kind = "evtx" \/ \A k \in DOMAIN p.items : p.items[k].kind \in {"row", "alien", "reject", "stop"}
    /\ MaxPartitions \in Nat \ {0} /\ MaxAttempts \in Nat /\ MaxChanges \in Nat /\ MaxErrors \in Nat \ {0}

VARIABLES
    plan,        \* never changes
    version,     \* the contents the file has
    pc,
    signature,   \* the contents the checks compare with
    hashed,      \* the contents that file_sha256 is of
    parser,      \* "native" or "python"
    at,          \* the item the parser is at
    attempts,    \* how often the EVTX iterator was asked
    errors,      \* error_count
    cut,         \* the parser gave up before the end of the file
    raw,         \* the items whose raw XML is in the index
    out,         \* the writer, with the files on the disk
    partitions,  \* those of the rows written, or unlisted
    report

scanned == <<plan, version, signature, hashed>>
parsing == <<parser, at, attempts, errors, cut, raw>>
vars == <<plan, version, pc, signature, hashed, parser, at, attempts, errors, cut, raw, out, partitions, report>>

NoReport == [status |-> "none", count |-> 0, errors |-> 0, chunks |-> <<>>, listed |-> {}]
Unlisted == {"unlisted"}
Unhashed == -1
Evtx == plan.kind = "evtx"
Signed == plan.kind # "unsigned"

Init ==
    /\ plan \in Plans
    /\ version = 0 /\ signature = 0 /\ hashed = Unhashed
    /\ pc = "start"
    /\ parser = "python" /\ at = 1 /\ attempts = 0 /\ errors = 0 /\ cut = FALSE /\ raw = {}
    /\ out = NewWriter /\ partitions = {} /\ report = NoReport

Errors(n) == Min({errors + n, MaxErrors})

Over == pc \in {"reported", "raised"}

(* The analyst replaces the file; its size or a time of it then differs.   *)
EvidenceChanges ==
    /\ ~Over /\ version < MaxChanges
    /\ version' = version + 1
    /\ UNCHANGED <<plan, pc, signature, hashed, parsing, out, partitions, report>>

Reported(status, wrong) ==
    /\ pc' = "reported"
    /\ report' = [status |-> status, count |-> out.count, errors |-> wrong, chunks |-> out.chunks, listed |-> partitions]

(***************************************************************************)
(* Hash and encoding.                                                      *)
(***************************************************************************)
Unrecognised ==
    /\ pc = "start" /\ plan.kind = "unknown"
    /\ Reported("unknown", 0)
    /\ UNCHANGED <<scanned, parsing, out, partitions>>

(* A preparation is reused if the file is what it was.                     *)
Reuse ==
    /\ pc = "start" /\ plan.prepared
    /\ IF version = signature THEN pc' = "ready" /\ hashed' = signature ELSE pc' = "raised" /\ UNCHANGED hashed
    /\ UNCHANGED <<plan, version, signature, parsing, out, partitions, report>>

Stat ==
    /\ pc = "start" /\ plan.kind # "unknown" /\ ~plan.prepared
    /\ signature' = version /\ pc' = "hashing"
    /\ UNCHANGED <<plan, version, hashed, parsing, out, partitions, report>>

Unreadable ==
    /\ pc = "hashing"
    /\ Reported("failed", 0)
    /\ UNCHANGED <<scanned, parsing, out, partitions>>

(* A change while the file is hashed is fatal for an event log, and a file *)
(* that failed for a text; hives and tasks are not compared.               *)
HashSource ==
    /\ pc = "hashing"
    /\ IF Signed /\ version # signature
       THEN /\ IF Evtx THEN pc' = "raised" /\ UNCHANGED report ELSE Reported("failed", 0)
            /\ UNCHANGED hashed
       ELSE pc' = "ready" /\ hashed' = version /\ UNCHANGED report
    /\ UNCHANGED <<plan, version, signature, parsing, out, partitions>>

(***************************************************************************)
(* The parser.                                                             *)
(***************************************************************************)
NativeFits ==
    /\ plan.kind = "web" /\ PreparedEncoding(plan.bytes, FALSE) = "utf-8-sig"
    /\ plan.format = "arrow" /\ plan.component

(* Mutant: only event logs are compared with what was hashed.              *)
UnchangedLog == ~Evtx \/ version = signature

Unchanged == ~Signed \/ version = signature

SelectParser ==
    /\ pc = "ready"
    /\ \/ /\ ~Evtx /\ plan.backend = "native" /\ ~NativeFits
          /\ pc' = "raised" /\ UNCHANGED parser
       \/ /\ Evtx \/ plan.backend # "native" \/ NativeFits
          /\ parser' = IF ~Evtx /\ plan.backend # "python" /\ NativeFits THEN "native" ELSE "python"
          /\ pc' = IF Evtx THEN (IF plan.keepRaw THEN "indexing" ELSE "python")
                   ELSE IF Unchanged THEN parser' ELSE "failing"
    /\ UNCHANGED <<scanned, at, attempts, errors, cut, raw, out, partitions, report>>

Row(k) == [at |-> k, version |-> version, size |-> plan.items[k].size]
PartitionOf(row) == IF plan.kind = "web" THEN "web" ELSE ToString(row.size)

Collected(row) ==
    LET all == partitions \cup {PartitionOf(row)}
    IN  IF partitions = Unlisted \/ Cardinality(all) > MaxPartitions THEN Unlisted ELSE all

Good == {"row", "alien"}
TooLarge(k) == plan.items[k].kind \in Good /\ plan.items[k].size > MaxRecord
Stops(k) == plan.items[k].kind = "stop" \/ TooLarge(k)

(* The first pass of an event log, for the raw XML: it goes on after a     *)
(* damaged record, and its errors do not end the import.                   *)
IndexRaw ==
    /\ pc = "indexing"
    /\ \/ pc' = "failing" /\ UNCHANGED <<errors, raw>>
       \/ LET ends == {k \in DOMAIN plan.items : plan.items[k].kind \in {"stop", "stuck"}}
              reached == {k \in DOMAIN plan.items : \A e \in ends : k <= e}
          IN  /\ raw' = {k \in reached : plan.items[k].kind = "row"}
              /\ errors' = Errors(Cardinality({k \in reached : plan.items[k].kind \in {"corrupt", "stop", "stuck"}}))
              /\ pc' = "python"
    /\ UNCHANGED <<scanned, parser, at, attempts, cut, out, partitions, report>>

AtItem(kinds) == pc = "python" /\ at <= Len(plan.items) /\ plan.items[at].kind \in kinds

(* Mutant: only the records found count as attempts.                       *)
AskedForRecord == attempts' = IF Evtx /\ plan.items[at].kind # "stuck" THEN attempts + 1 ELSE attempts

Asked == attempts' = IF Evtx THEN attempts + 1 ELSE attempts
MayAsk == Evtx => attempts < MaxAttempts

WriteRecord ==
    /\ AtItem(Good) /\ ~TooLarge(at) /\ MayAsk /\ Asked
    /\ out' \in WriteRow(plan.format, out, Row(at))
    /\ IF out'.failed THEN pc' = "failing" /\ UNCHANGED <<at, partitions>>
       ELSE at' = at + 1 /\ partitions' = (IF Evtx THEN partitions ELSE Collected(Row(at))) /\ UNCHANGED pc
    /\ errors' = IF Evtx /\ plan.keepRaw /\ at \notin raw THEN Errors(1) ELSE errors
    /\ UNCHANGED <<scanned, parser, cut, raw, report>>

(* A line of another format, a damaged chunk or a record without its       *)
(* envelope is counted; what the EVTX library loses is not.                *)
SkipRecord ==
    /\ AtItem({"reject", "corrupt", "envelope", "lost"}) /\ MayAsk /\ Asked
    /\ at' = at + 1
    /\ errors' = IF plan.items[at].kind = "lost" THEN errors ELSE Errors(1)
    /\ UNCHANGED <<scanned, pc, parser, cut, raw, out, partitions, report>>

(* An iterator that raises and does not advance.                           *)
Stuck ==
    /\ AtItem({"stuck"}) /\ MayAsk /\ Asked
    /\ errors' = Errors(1)
    /\ UNCHANGED <<scanned, pc, parser, at, cut, raw, out, partitions, report>>

GiveUp(ends) ==
    /\ pc' = ends
    /\ cut' = TRUE /\ errors' = IF Evtx THEN Errors(1) ELSE 1

(* The parser raises: a text reader checks the file on its way out, but a  *)
(* row that is too large raises outside of the reader.                     *)
ParserRaises ==
    /\ pc = "python" /\ at <= Len(plan.items)
    /\ Stops(at) \/ ~MayAsk
    /\ IF plan.items[at].kind = "stop" /\ ~Evtx /\ ~Unchanged THEN pc' = "failing" /\ UNCHANGED <<cut, errors>>
       ELSE GiveUp("closing")
    /\ UNCHANGED <<scanned, parser, at, attempts, raw, out, partitions, report>>

EndOfFile ==
    /\ pc = "python" /\ at > Len(plan.items)
    /\ pc' = IF Evtx \/ Unchanged THEN "closing" ELSE "failing"
    /\ UNCHANGED <<scanned, parsing, out, partitions, report>>

(***************************************************************************)
(* The native parser (native/src/lib.rs), through stage_native_batches.    *)
(***************************************************************************)
(* The rows of items at..last, the others among them being rejected lines. *)
RowsTo(last) ==
    FoldLeft(LAMBDA rows, k : IF plan.items[k].kind = "row" THEN Append(rows, Row(k)) ELSE rows,
             <<>>, [i \in 1..last + 1 - at |-> at + i - 1])

Readable(last) == \A k \in at..last : plan.items[k].kind \in {"row", "reject"} /\ ~TooLarge(k)

NativeBatch ==
    /\ pc = "native"
    /\ \E last \in at..Len(plan.items) :
        LET rows == RowsTo(last)
        IN  /\ Readable(last)
            /\ Len(rows) <= 1 \/ SizeOf(rows) <= MaxBatchBytes
            /\ out' \in ArrowWriteBatch(out, rows)
            /\ errors' = Errors(last - at + 1 - Len(rows))
            /\ at' = last + 1
            /\ IF out'.failed THEN pc' = "failing" /\ UNCHANGED partitions
               ELSE partitions' = (IF rows = <<>> THEN partitions ELSE Collected(rows[1])) /\ UNCHANGED pc
    /\ UNCHANGED <<scanned, parser, attempts, cut, raw, report>>

(* A batch, an error count or a close that the adapter does not accept.    *)
ComponentBreaks ==
    /\ pc = "native" /\ pc' = "failing"
    /\ UNCHANGED <<scanned, parsing, out, partitions, report>>

NativeRaises ==
    /\ pc = "native" /\ at <= Len(plan.items) /\ Stops(at)
    /\ IF Unchanged THEN pc' = "closing" /\ cut' = TRUE /\ errors' = 1
       ELSE pc' = "failing" /\ UNCHANGED <<cut, errors>>
    /\ UNCHANGED <<scanned, parser, at, attempts, raw, out, partitions, report>>

NativeEnd ==
    /\ pc = "native" /\ at > Len(plan.items)
    /\ pc' = IF Unchanged THEN "closing" ELSE "failing"
    /\ UNCHANGED <<scanned, parsing, out, partitions, report>>

AtAlien == pc = "native" /\ at <= Len(plan.items) /\ plan.items[at].kind = "alien" /\ ~TooLarge(at)

Unsupported ==
    /\ AtAlien /\ (plan.backend = "native" \/ ~Unchanged)
    /\ pc' = "failing"
    /\ UNCHANGED <<scanned, parsing, out, partitions, report>>

(* The Python parser replays the whole file, if no native shard is left.   *)
Fallback ==
    /\ AtAlien /\ plan.backend = "auto" /\ Unchanged
    /\ \/ /\ out' = [NewWriter EXCEPT !.files = Aborted(out).files]
          /\ pc' = "python" /\ parser' = "python" /\ at' = 1 /\ errors' = 0 /\ partitions' = {}
       \/ /\ out' \in {[o EXCEPT !.failed = TRUE, !.aborted = TRUE, !.rows = <<>>] : o \in DiscardCurrent(out)}
          /\ pc' = "failing" /\ UNCHANGED <<parser, at, errors, partitions>>
    /\ UNCHANGED <<scanned, attempts, cut, raw, report>>

(***************************************************************************)
(* The end.                                                                *)
(***************************************************************************)
Close ==
    /\ pc = "closing"
    /\ out' \in CloseWriter(plan.format, out)
    /\ pc' = IF out'.failed THEN "failing" ELSE "closed"
    /\ UNCHANGED <<scanned, parsing, partitions, report>>

Declared ==
    LET records == Cardinality({k \in DOMAIN plan.items : plan.items[k].kind # "stuck"})
    IN  IF plan.headers = "all" THEN records ELSE Min({1, records})

(* Mutant: fewer records than declared are taken for a damaged header.     *)
MoreThanDeclared == Evtx /\ plan.headers = "all" /\ out.count > Declared

HeaderMismatch ==
    /\ Evtx /\ plan.headers # "none"
    /\ out.count < Declared \/ (plan.headers = "all" /\ out.count # Declared)

Status(wrong) == IF out.count = 0 THEN "failed" ELSE IF wrong > 0 THEN "partial" ELSE "ok"

Report ==
    /\ pc = "closed" /\ (Evtx => Unchanged)
    /\ errors' = IF HeaderMismatch THEN Errors(1) ELSE errors
    /\ Reported(Status(errors'), errors')
    /\ UNCHANGED <<scanned, parser, at, attempts, cut, raw, out, partitions>>

ChangedWhileParsing ==
    /\ pc = "closed" /\ Evtx /\ ~Unchanged
    /\ pc' = "raised"
    /\ UNCHANGED <<scanned, parsing, out, partitions, report>>

(* The writer is closed once more and, unless the file is an event log,    *)
(* the finished shards are unlinked as far as that succeeds.               *)
Unwind ==
    /\ pc = "failing" /\ pc' = "raised"
    /\ \E closed \in CloseWriter(plan.format, out), n \in 0..Len(out.chunks) + 1 :
        out' = IF Evtx THEN closed
               ELSE [closed EXCEPT !.files =
                        [p \in DOMAIN @ \ {closed.chunks[k].path : k \in DOMAIN closed.chunks \cap 1..n} |-> @[p]]]
    /\ UNCHANGED <<scanned, parsing, partitions, report>>

Parse == WriteRecord \/ SkipRecord \/ Stuck \/ ParserRaises \/ EndOfFile
Native == NativeBatch \/ ComponentBreaks \/ NativeRaises \/ NativeEnd \/ Unsupported \/ Fallback
Worker ==
    \/ Unrecognised \/ Reuse \/ Stat \/ Unreadable \/ HashSource \/ SelectParser \/ IndexRaw
    \/ Parse \/ Native \/ Close \/ Report \/ ChangedWhileParsing \/ Unwind

Next == Worker \/ EvidenceChanges
Spec == Init /\ [][Next]_vars

(* The worker is a loop over the file: it does not stop by itself.         *)
FairSpec == Spec /\ WF_vars(Worker)

-----------------------------------------------------------------------------
(* The records of the source that a parser accepts: those before the item  *)
(* it gives up at.                                                         *)
Expected ==
    LET ends == {k \in DOMAIN plan.items : Stops(k) \/ plan.items[k].kind = "stuck"}
    IN  {k \in DOMAIN plan.items : plan.items[k].kind \in Good /\ \A e \in ends : k < e}

Parsing == pc = "reported" /\ hashed # Unhashed
Staged == ReadBack(out.files, report.chunks)

(* A report presents finished shards that hold every record accepted once, *)
(* in the order of the source, whether the rows came from the native       *)
(* parser, from Python or from both in turn; its count and its list of     *)
(* partitions are those of these rows, and no other file is left.          *)
ReportIsFaithful ==
    Parsing =>
        /\ {Staged[k].at : k \in DOMAIN Staged} = Expected
        /\ \A j, k \in DOMAIN Staged : j < k => Staged[j].at < Staged[k].at
        /\ report.count = Len(Staged)
        /\ \A c \in ToSet(report.chunks) : out.files[c.path].whole /\ c.records = Len(out.files[c.path].rows)
        /\ DOMAIN out.files = {c.path : c \in ToSet(report.chunks)}
        /\ ~Evtx => report.listed \in {Unlisted, {PartitionOf(Staged[k]) : k \in DOMAIN Staged}}

(* A file is reported "ok" only if nothing of it is missing: a record that *)
(* the EVTX library loses without a word shows in the count of the chunk   *)
(* headers, when all of them are valid.                                    *)
OkMeansComplete ==
    report.status = "ok" =>
        \A k \in DOMAIN plan.items :
            \/ \E i \in DOMAIN Staged : Staged[i].at = k
            \/ plan.items[k].kind = "lost" /\ plan.headers # "all"

(* The rows come from the contents that file_sha256 was computed of, even  *)
(* if the file is replaced at any moment; a text whose parser gave up and  *)
(* the kinds that are not compared are exceptions.                         *)
HashMatchesRows ==
    Parsing /\ Signed /\ (Evtx \/ parser = "native" \/ ~cut) =>
        \A k \in DOMAIN Staged : Staged[k].version = hashed

(* A shard outgrows its target for a single record only, and so does a     *)
(* slice of shards for a single shard; the slices hold every shard once.   *)
ShardsBounded ==
    pc = "reported" =>
        /\ \A c \in ToSet(report.chunks) : c.size > ChunkBytes => c.records = 1
        /\ \A limit \in 1..2 * ChunkBytes :
            LET batches == StagedBatches(report.chunks, limit)
            IN  /\ FlattenSeq(batches) = report.chunks
                /\ \A k \in DOMAIN batches : SizeOf(batches[k]) <= limit \/ Len(batches[k]) = 1

(* The lines of a text are those of the whole text wherever the reads      *)
(* fall, and it is decoded as it was validated.                            *)
TextReadWhole == Decoded(plan) => LinesAreSplitLines(plan.text) /\ EncodingAgrees(plan.bytes)

(***************************************************************************)
(* Why they do: what is known while the file is read.                      *)
(***************************************************************************)
SourceRow == [at : Nat \ {0}, version : Nat, size : Nat]
Labels == {"start", "hashing", "ready", "indexing", "native", "python", "closing", "closed",
           "failing", "raised", "reported"}
Begun == pc \in {"native", "python", "closing", "closed"} \/ Parsing
Ended == pc \in {"closing", "closed"} \/ Parsing

TypeOK ==
    /\ plan \in Plans /\ version \in Nat /\ signature \in 0..version /\ hashed \in {Unhashed} \cup 0..version
    /\ pc \in Labels /\ parser \in {"native", "python"}
    /\ at \in Nat \ {0} /\ attempts \in Nat /\ errors \in Nat /\ cut \in BOOLEAN

(* Until the parser is chosen nothing has happened to the writer.          *)
IdleInv ==
    pc \in {"start", "hashing", "ready", "indexing"} =>
        out = NewWriter /\ at = 1 /\ attempts = 0 /\ errors = 0 /\ cut = FALSE /\ partitions = {} /\ report = NoReport

(* The hash is that of the signature, which no later comparison moves.     *)
HashInv ==
    /\ pc \in {"start", "hashing"} => hashed = Unhashed
    /\ pc \in {"ready", "indexing"} \/ Begun => hashed # Unhashed
    /\ Signed /\ hashed # Unhashed => signature = hashed
    /\ pc = "indexing" => Evtx /\ parser = "python"
    /\ pc \in {"native", "python"} => parser = pc /\ ~cut
    /\ Begun /\ parser = "native" => plan.kind = "web" /\ plan.format = "arrow"

(* rows are those of the accepted among items first..last, in their order. *)
AreRows(p, rows, first, last, earliest, latest) ==
    /\ {rows[k].at : k \in DOMAIN rows} = {k \in first..last : p.items[k].kind \in Good}
    /\ \A j, k \in DOMAIN rows : j < k => rows[j].at < rows[k].at
    /\ \A k \in DOMAIN rows : rows[k].version \in earliest..latest

(* The writer holds the rows accepted so far.                              *)
RowsInv ==
    Begun =>
        LET rows == AllRows(out)
        IN  /\ IsWriter(out, SourceRow) /\ Consistent(out) /\ out.count = Len(rows)
            /\ plan.format = "ndjson" => out.rows = <<>>
            /\ AreRows(plan, rows, 1, at - 1, hashed, version)
            /\ Evtx \/ partitions = Unlisted \/ partitions = {PartitionOf(rows[k]) : k \in DOMAIN rows}

(* The items passed, and what was counted of them.                         *)
ItemsInv ==
    Begun =>
        /\ at <= Len(plan.items) + 1
        /\ \A k \in 1..at - 1 : ~Stops(k) /\ plan.items[k].kind # "stuck"
        /\ pc = "native" => \A k \in 1..at - 1 : plan.items[k].kind \in {"row", "reject"}
        /\ Evtx /\ (at > Len(plan.items) \/ plan.items[at].kind # "stuck") => attempts = at - 1
        /\ errors = 0 => ~cut /\ \A k \in 1..at - 1 : plan.items[k].kind \in Good \cup {"lost"}

(* At the end the parser has passed every item, or given up at one.        *)
EndInv ==
    Ended =>
        /\ IF cut THEN at <= Len(plan.items) /\ (Stops(at) \/ plan.items[at].kind = "stuck") ELSE at = Len(plan.items) + 1
        /\ Signed /\ ~Evtx /\ (parser = "native" \/ ~cut) =>
             \A k \in DOMAIN AllRows(out) : AllRows(out)[k].version = hashed
        /\ pc \in {"closed", "reported"} => out.live = NoShard /\ out.rows = <<>>

ReportInv ==
    /\ Parsing =>
         /\ report = [status |-> Status(errors), count |-> out.count, errors |-> errors, chunks |-> out.chunks, listed |-> partitions]
         /\ Evtx => \A k \in DOMAIN AllRows(out) : AllRows(out)[k].version = hashed
         /\ errors = 0 => ~HeaderMismatch
    /\ ~Parsing => report.status # "ok" /\ report.chunks = <<>>

StagingInv == TypeOK /\ IdleInv /\ HashInv /\ RowsInv /\ ItemsInv /\ EndInv /\ ReportInv

(* Every file is reported or raises in the end, even if the iterator of    *)
(* the EVTX library raises for ever.                                       *)
StagingEnds == <>Over
================================================================================
