------------------------------ MODULE ShardWriters ------------------------------
(***************************************************************************)
(* The writers a source file is staged with: ArrowStagingWriter            *)
(* (ingest/arrow_staging.py), which buffers rows into batches, and         *)
(* StagingWriter (ingest/staging.py), which writes NDJSON row by row.      *)
(* Both rotate to a new shard rather than let one outgrow ChunkBytes.      *)
(*                                                                         *)
(* A writer is a value and an operation on it yields the set of values it  *)
(* may leave, since every write to the disk may fail; one that failed has  *)
(* raised an OSError.  The files are the writer's field files: the name of *)
(* a shard is its number.                                                  *)
(***************************************************************************)
EXTENDS Integers, SequencesExt, FiniteSetsExt

CONSTANTS
    ChunkBytes,      \* the target of a shard: staging_chunk_bytes
    MaxBatchBytes,   \* the target of an Arrow batch in memory
    MaxRecord        \* the encoded record that is rejected: max_record_bytes

ASSUME WriterAssumption == ChunkBytes \in Nat \ {0} /\ MaxBatchBytes \in Nat \ {0} /\ MaxRecord \in Nat

NoShard == -1
BatchLimit == IF ChunkBytes < MaxBatchBytes THEN ChunkBytes ELSE MaxBatchBytes

(* rows are records with a size; a shard keeps those written to it.        *)
SizeOf(rows) == FoldLeft(LAMBDA sum, r : sum + r.size, 0, rows)

(* Items packed in order into parts that keep to a limit; a larger item is *)
(* a part of its own.                                                      *)
Packed(items, limit) ==
    FoldLeft(LAMBDA parts, item :
                IF parts = <<>> \/ SizeOf(Last(parts)) + item.size > limit
                THEN Append(parts, <<item>>)
                ELSE Append(Front(parts), Append(Last(parts), item)),
             <<>>, items)

NewWriter == [rows |-> <<>>, chunks |-> <<>>, count |-> 0, live |-> NoShard, path |-> 0,
              files |-> <<>>, failed |-> FALSE, aborted |-> FALSE]

Without(files, path) == [p \in DOMAIN files \ {path} |-> files[p]]

(* o, then Op unless an operation before it has failed.                    *)
Then(outcomes, Op(_)) == UNION {IF o.failed THEN {o} ELSE Op(o) : o \in outcomes}

MarkFailed(o) == [o EXCEPT !.failed = TRUE, !.rows = <<>>]

(***************************************************************************)
(* Shards.                                                                 *)
(***************************************************************************)
Closed(o) ==
    LET rows == o.files[o.path].rows
    IN  [o EXCEPT !.live = NoShard, !.files[o.path].whole = TRUE,
                  !.chunks = Append(@, [path |-> o.path, size |-> SizeOf(rows), records |-> Len(rows)])]

ShardPath(o) == Len(o.chunks)

(* The name is chosen before the file is opened.                           *)
OpenShard(o) ==
    LET p == ShardPath(o)
        named == [o EXCEPT !.path = p]
        empty == [rows |-> <<>>, whole |-> FALSE]
    IN  {[named EXCEPT !.live = p, !.files = [x \in DOMAIN @ \cup {p} |-> IF x = p THEN empty ELSE @[x]]],
         MarkFailed([named EXCEPT !.files = Without(@, p)])}

(* Mutant: no shard is ever full.                                          *)
NeverFull(o, rows) == FALSE

Full(o, rows) == o.live # NoShard /\ SizeOf(o.files[o.path].rows) + SizeOf(rows) > ChunkBytes

(* A shard whose end could not be written is no longer written to; the     *)
(* NDJSON writer leaves its stream open.                                   *)
CloseArrow(o) == IF o.live = NoShard THEN {o} ELSE {Closed(o), MarkFailed([o EXCEPT !.live = NoShard])}
CloseNdjson(o) == IF o.live = NoShard THEN {o} ELSE {Closed(o), [o EXCEPT !.failed = TRUE]}

CloseShard(format, o) == IF format = "arrow" THEN CloseArrow(o) ELSE CloseNdjson(o)

Store(format, o, rows) ==
    LET rotated == IF Full(o, rows) THEN CloseShard(format, o) ELSE {o}
        opened == Then(rotated, LAMBDA x : IF x.live = NoShard THEN OpenShard(x) ELSE {x})
    IN  Then(opened, LAMBDA x : {[x EXCEPT !.files[x.path].rows = @ \o rows], MarkFailed(x)})

(***************************************************************************)
(* Arrow.                                                                  *)
(***************************************************************************)
(* Mutant: the buffer is written again with the next batch.                *)
FlushKept(o) == IF o.rows = <<>> THEN {o} ELSE Store("arrow", o, o.rows)

FlushBatch(o) ==
    IF o.rows = <<>> THEN {o}
    ELSE Then(Store("arrow", o, o.rows), LAMBDA x : {[x EXCEPT !.rows = <<>>]})

ArrowWrite(o, row) ==
    LET room == IF o.rows # <<>> /\ SizeOf(o.rows) + row.size > BatchLimit THEN FlushBatch(o) ELSE {o}
        kept == Then(room, LAMBDA x : {[x EXCEPT !.rows = Append(@, row), !.count = @ + 1]})
    IN  Then(kept, LAMBDA x : IF SizeOf(x.rows) >= BatchLimit THEN FlushBatch(x) ELSE {x})

(* write_batch: a batch of the native parser, in slices that keep to the   *)
(* batch limit; rows of the Python parser that wait go first.              *)
Slices(rows) == Packed(rows, BatchLimit)

ArrowWriteBatch(o, rows) ==
    LET parts == Slices(rows)
        after[k \in 0..Len(parts)] ==
            IF k = 0 THEN FlushBatch(o)
            ELSE Then(after[k - 1], LAMBDA x : Store("arrow", [x EXCEPT !.count = @ + Len(parts[k])], parts[k]))
    IN  after[Len(parts)]

(* A shard that was not finished is unlinked, if it can be.                *)
DiscardCurrent(o) ==
    LET closed == [o EXCEPT !.live = NoShard]
    IN  {[closed EXCEPT !.files = Without(@, o.path)], closed}

ArrowClose(o) ==
    LET tried == IF o.failed THEN {o} ELSE Then(FlushBatch(o), CloseArrow)
    IN  IF o.aborted THEN {o} ELSE UNION {IF x.failed THEN DiscardCurrent(x) ELSE {x} : x \in tried}

(* abort, when every file could be unlinked; it raises otherwise.          *)
Aborted(o) ==
    [NewWriter EXCEPT !.failed = TRUE, !.aborted = TRUE,
        !.files = [p \in DOMAIN o.files \ ({o.path} \cup {c.path : c \in ToSet(o.chunks)}) |-> o.files[p]]]

(***************************************************************************)
(* NDJSON.                                                                 *)
(***************************************************************************)
NdjsonWrite(o, row) ==
    Then(Store("ndjson", o, <<row>>), LAMBDA x : {[x EXCEPT !.count = @ + 1]})

(* With a format of staging files, the operations the parsers see.         *)
WriteRow(format, o, row) == IF format = "arrow" THEN ArrowWrite(o, row) ELSE NdjsonWrite(o, row)
CloseWriter(format, o) == IF format = "arrow" THEN ArrowClose(o) ELSE CloseNdjson(o)

(* iter_arrow_batches: the rows of the shards of a manifest, in order.     *)
ReadBack(files, chunks) == FlattenSeq([k \in DOMAIN chunks |-> files[chunks[k].path].rows])

(***************************************************************************)
(* staged_batches: the shards of the manifests, in slices of at most       *)
(* MaxBytes; remove_staged unlinks those of one manifest.                  *)
(***************************************************************************)
StagedBatches(chunks, maxBytes) == Packed(chunks, maxBytes)

(***************************************************************************)
(* What a writer holds that did not fail: the rows of its finished shards, *)
(* of the one that is written, and of its buffer, in this order.           *)
(***************************************************************************)
Shard == [path : Nat, size : Nat, records : Nat]
Writer(R, files) == [rows : Seq(R), chunks : Seq(Shard), count : Nat, live : Nat \cup {NoShard}, path : Nat,
                     files : files, failed : BOOLEAN, aborted : BOOLEAN]
IsWriter(o, R) ==
    /\ o \in Writer(R, {o.files})
    /\ DOMAIN o.files \subseteq Nat /\ o.files \in [DOMAIN o.files -> [rows : Seq(R), whole : BOOLEAN]]

Stored(o) == ReadBack(o.files, o.chunks) \o (IF o.live = NoShard THEN <<>> ELSE o.files[o.live].rows)
AllRows(o) == Stored(o) \o o.rows
Fits(rows, limit) == SizeOf(rows) <= limit \/ Len(rows) = 1

Consistent(o) ==
    /\ ~o.failed /\ ~o.aborted
    /\ DOMAIN o.files = 0..Len(o.chunks) - 1 \cup ({o.live} \ {NoShard})
    /\ o.live # NoShard => o.live = Len(o.chunks) /\ o.path = o.live
    /\ \A k \in DOMAIN o.chunks :
         LET rows == o.files[k - 1].rows
         IN  /\ o.chunks[k] = [path |-> k - 1, size |-> SizeOf(rows), records |-> Len(rows)]
             /\ o.files[k - 1].whole
    /\ \A p \in DOMAIN o.files : Fits(o.files[p].rows, ChunkBytes)
    /\ Fits(o.rows, BatchLimit)
=================================================================================
