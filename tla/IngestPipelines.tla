--------------------------- MODULE IngestPipelines ---------------------------
(***************************************************************************)
(* The work of one ingest in its workspace: Case.ingest (case.py) runs the *)
(* EVTX pipeline (ingest/evtx/orchestrator.py) and the auxiliary one       *)
(* (ingest/logsources/orchestrator.py, direct.py), at once or in turn.     *)
(*                                                                         *)
(*  ingest    scanned -> running -> joined -> committed -> returned        *)
(*                               -> raised                                 *)
(*  pipeline  idle -> begun [-> unknown] -> submit -> (TaskQueue) -> staged *)
(*            [-> direct <-> copying -> publishing,  direct <-> replay]    *)
(*            -> flattening <-> converting -> done | failed                *)
(***************************************************************************)
EXTENDS TaskQueue, FiniteSetsExt

CONSTANTS
    Evtx, Known, Web, Unknown,   \* the files, by what the scan takes them for
    Scans,                       \* the sets of files a scan may find
    Budgets                      \* the worker counts an analyst may ask for

NoFile == "none"

(* The scan takes a file for one thing only.                               *)
ASSUME PipelineAssumption ==
    /\ Files = Evtx \cup Known \cup Web \cup Unknown
    /\ Evtx \cap (Known \cup Web \cup Unknown) = {}
    /\ Known \cap (Web \cup Unknown) = {} /\ Web \cap Unknown = {}
    /\ IsFiniteSet(Files) /\ NoFile \notin Files
    /\ Scans \subseteq SUBSET Files
    /\ Budgets \subseteq Nat \ {0}

VARIABLES
    main,        \* where Case.ingest is
    converter,   \* the pipeline that holds CONVERSION_LOCK, or "nobody"
    current,     \* the file the direct conversion is at
    left,        \* pipeline |-> staged records not converted yet
    batch,       \* pipeline |-> those of the conversion under way
    written      \* file |-> its records in the Parquet files of the workspace

convertVars == <<converter, current, left, batch, written>>
vars == <<plan, main, stage, workers, progress, queueVars, convertVars>>

TableOf(f) == CASE f \in Evtx -> "events" [] f \in Web -> "web_logs" [] OTHER -> "other"

Found(kind) == plan.found \cap kind

(* Direct conversion: local, unless staging is kept or the native parser   *)
(* is missing.                                                             *)
DirectFiles == IF plan.direct THEN Found(Web) ELSE {}
QueuedFiles(p) == IF p = "evtx" THEN Found(Evtx) ELSE Found(Known \cup Web) \ DirectFiles

Concurrent == Found(Evtx) # {} /\ Found(Known \cup Web) # {} /\ plan.budget > 1

(* Mutant: each pipeline takes the whole budget.                           *)
WholeBudget(p) == plan.budget

Share(p) ==
    IF ~Concurrent THEN plan.budget
    ELSE IF p = "evtx" THEN plan.budget \div 2 ELSE plan.budget - plan.budget \div 2

Init ==
    /\ plan \in [found : Scans, skipped : BOOLEAN, budget : Budgets, distributed : BOOLEAN, direct : BOOLEAN]
    /\ plan.direct => ~plan.distributed
    /\ main = "scanned"
    /\ stage = [p \in Pipelines |-> "idle"]
    /\ workers = [p \in Pipelines |-> 0]
    /\ progress = NewProgress
    /\ args = [p \in Pipelines |-> {}]
    /\ future = [f \in Files |-> "none"]
    /\ busy = {}
    /\ completed = [p \in Pipelines |-> {}]
    /\ broken = {}
    /\ raising = {}
    /\ result = [f \in Files |-> NoResult]
    /\ converter = "nobody"
    /\ current = NoFile
    /\ left = [p \in Pipelines |-> {}]
    /\ batch = [p \in Pipelines |-> {}]
    /\ written = [f \in Files |-> 0]

-----------------------------------------------------------------------------
(* Case.ingest.                                                            *)
Begin ==
    /\ main = "scanned"
    /\ SetPhase("staging")
    /\ workers' = [p \in Pipelines |-> Share(p)]
    /\ stage' = [evtx |-> "begun", aux |-> IF Concurrent THEN "begun" ELSE "idle"]
    /\ main' = "running"
    /\ UNCHANGED <<plan, queueVars, convertVars>>

AuxAfterEvtx ==
    /\ main = "running"
    /\ stage["evtx"] = "done" /\ stage["aux"] = "idle"
    /\ Move("aux", "begun")
    /\ UNCHANGED <<plan, main, workers, progress, queueVars, convertVars>>

Join ==
    /\ main = "running"
    /\ \A p \in Pipelines : stage[p] = "done"
    /\ main' = "joined"
    /\ UNCHANGED <<plan, stage, workers, progress, queueVars, convertVars>>

(* The exception of one thread is held back until the other has ended.     *)
Failed ==
    /\ \E p \in Pipelines : stage[p] = "failed"
    /\ \A p \in Pipelines : stage[p] \in {"idle", "done", "failed"}

JoinRaises ==
    /\ main = "running"
    /\ Failed
    /\ main' = "raised"
    /\ UNCHANGED <<plan, stage, workers, progress, queueVars, convertVars>>

NothingFound ==
    /\ main = "joined"
    /\ plan.found = {} /\ ~plan.skipped
    /\ FinishProgress("failed")
    /\ main' = "raised"
    /\ UNCHANGED <<plan, stage, workers, queueVars, convertVars>>

Commit ==
    /\ main = "joined"
    /\ plan.found # {} \/ plan.skipped
    /\ main' \in {"committed", "raised"}
    /\ UNCHANGED <<plan, stage, workers, progress, queueVars, convertVars>>

Finish ==
    /\ main = "committed"
    /\ FinishProgress("done")
    /\ main' = "returned"
    /\ UNCHANGED <<plan, stage, workers, queueVars, convertVars>>

-----------------------------------------------------------------------------
(* Both pipelines: what comes before and after the queue.                  *)
NothingToDo(p) ==
    /\ stage[p] = "begun"
    /\ IF p = "evtx" THEN Found(Evtx) = {} ELSE Found(Files \ Evtx) = {}
    /\ Move(p, "done")
    /\ UNCHANGED <<plan, main, workers, progress, queueVars, convertVars>>

StartStaging(p) ==
    /\ stage[p] = "begun"
    /\ IF p = "evtx" THEN Found(Evtx) # {} ELSE Found(Files \ Evtx) # {}
    /\ SetPhase("staging")
    /\ args' = [args EXCEPT ![p] = QueuedFiles(p)]
    /\ Move(p, IF p = "evtx" THEN "submit" ELSE "unknown")
    /\ UNCHANGED <<plan, main, workers, future, busy, completed, broken, raising, result, convertVars>>

(* Unrecognised files are reported without a task.                         *)
ReportUnknown ==
    /\ stage["aux"] = "unknown"
    /\ \E f \in Found(Unknown) :
         /\ future[f] = "none"
         /\ future' = [future EXCEPT ![f] = "handled"]
         /\ result' = [result EXCEPT ![f].status = "unknown"]
    /\ OnResult("aux", "unknown")
    /\ UNCHANGED <<plan, main, stage, workers, args, busy, completed, broken, raising, convertVars>>

UnknownReported ==
    /\ stage["aux"] = "unknown"
    /\ \A f \in Found(Unknown) : future[f] = "handled"
    /\ Move("aux", "submit")
    /\ UNCHANGED <<plan, main, workers, progress, queueVars, convertVars>>

StagedRecords(p) ==
    UNION {{<<f, i>> : i \in 1 .. result[f].records} : f \in args[p]}

StartDirect ==
    /\ stage["aux"] = "staged"
    /\ DirectFiles # {}
    /\ SetPhase("flattening")
    /\ left' = [left EXCEPT !["aux"] = StagedRecords("aux")]
    /\ Move("aux", "direct")
    /\ UNCHANGED <<plan, main, workers, queueVars, converter, current, batch, written>>

StartFlattening(p) ==
    /\ stage[p] = "staged"
    /\ p = "evtx" \/ DirectFiles = {}
    /\ SetPhase("flattening")
    /\ left' = [left EXCEPT ![p] = StagedRecords(p)]
    /\ Move(p, "flattening")
    /\ UNCHANGED <<plan, main, workers, queueVars, converter, current, batch, written>>

-----------------------------------------------------------------------------
(* direct_web_file, one file after the other in the thread of the pipeline. *)
NextDirect(f, to) ==
    /\ stage["aux"] = "direct"
    /\ f \in DirectFiles /\ future[f] = "none"
    /\ future' = [future EXCEPT ![f] = "running"]
    /\ current' = f
    /\ Move("aux", to)
    /\ UNCHANGED <<plan, main, workers, progress, args, completed, broken, raising, left, batch, written>>

(* prepare_text fails: the file is reported as failed.                     *)
DirectUnreadable(f) ==
    /\ NextDirect(f, "reporting")
    /\ result' = [result EXCEPT ![f].status = "failed"]
    /\ UNCHANGED <<busy, converter>>

(* select_native_parser has no parser for it.                              *)
DirectDeclined(f) ==
    /\ NextDirect(f, "replay")
    /\ busy' = busy \cup {f}
    /\ UNCHANGED <<result, converter>>

DirectOpen(f) ==
    /\ converter = "nobody"
    /\ NextDirect(f, "copying")
    /\ busy' = busy \cup {f}
    /\ converter' = "aux"
    /\ UNCHANGED result

(* _copy_source: records are parsed and copied into a private file; a copy *)
(* that is short of a record raises.                                       *)
DirectCopy ==
    /\ stage["aux"] = "copying"
    /\ \E r \in Parsed, lost \in 0 .. 1 :
         /\ lost <= r.records
         /\ result' = [result EXCEPT ![current] = r]
         /\ Move("aux", IF lost > 0 THEN "failed"
                        ELSE IF r.records = 0 THEN "reporting" ELSE "publishing")
    /\ busy' = busy \ {current}
    /\ converter' = "nobody"
    /\ UNCHANGED <<plan, main, workers, progress, args, future, completed, broken, raising,
                   current, left, batch, written>>

(* UnsupportedInputError, early or late: the private file is removed and   *)
(* the source parsed again from its start.                                 *)
DirectUnsupported ==
    /\ stage["aux"] = "copying"
    /\ converter' = "nobody"
    /\ Move("aux", "replay")
    /\ UNCHANGED <<plan, main, workers, progress, queueVars, current, left, batch, written>>

(* os.link makes the private file part of the workspace.                   *)
DirectPublish ==
    /\ stage["aux"] = "publishing"
    /\ written' = [written EXCEPT ![current] = @ + result[current].records]
    /\ OnTableFlattened(TableOf(current), result[current].records)
    /\ Move("aux", "reporting")
    /\ UNCHANGED <<plan, main, workers, queueVars, converter, current, left, batch>>

(* stage_aux_file, in this thread and with the Python parser.              *)
Replay ==
    /\ stage["aux"] = "replay"
    /\ \E r \in Parsed :
         /\ result' = [result EXCEPT ![current] = r]
         /\ left' = [left EXCEPT !["aux"] = @ \cup {<<current, i>> : i \in 1 .. r.records}]
    /\ busy' = busy \ {current}
    /\ Move("aux", "reporting")
    /\ UNCHANGED <<plan, main, workers, progress, args, future, completed, broken, raising,
                   converter, current, batch, written>>

(* Mutant: a file that was converted is not reported.                      *)
ReportNothing ==
    /\ stage["aux"] = "reporting"
    /\ future' = [future EXCEPT ![current] = "handled"]
    /\ current' = NoFile
    /\ Move("aux", "direct")
    /\ UNCHANGED <<plan, main, workers, progress, args, busy, completed, broken, raising, result,
                   converter, left, batch, written>>

ReportDirect ==
    /\ stage["aux"] = "reporting"
    /\ OnResult("aux", result[current].status)
    /\ future' = [future EXCEPT ![current] = "handled"]
    /\ current' = NoFile
    /\ Move("aux", "direct")
    /\ UNCHANGED <<plan, main, workers, args, busy, completed, broken, raising, result,
                   converter, left, batch, written>>

DirectDone ==
    /\ stage["aux"] = "direct"
    /\ \A f \in DirectFiles : future[f] = "handled"
    /\ SetPhase("flattening")
    /\ Move("aux", "flattening")
    /\ UNCHANGED <<plan, main, workers, queueVars, convertVars>>

-----------------------------------------------------------------------------
(* flatten_case, flatten_table: staged_batches cuts the shards of the      *)
(* staged files into batches, each of one table, and one conversion at a   *)
(* time writes one.  How many shards fit into a batch is left open.        *)
Convert(p) ==
    /\ stage[p] = "flattening"
    /\ converter = "nobody"
    /\ \E b \in (SUBSET left[p]) \ {{}} :
         /\ \A x, y \in b : TableOf(x[1]) = TableOf(y[1])
         /\ batch' = [batch EXCEPT ![p] = b]
    /\ converter' = p
    /\ Move(p, "converting")
    /\ UNCHANGED <<plan, main, workers, progress, queueVars, current, left, written>>

Of(f, records) == {x \in records : x[1] = f}

CopyEnds(p, lost) ==
    /\ stage[p] = "converting"
    /\ written' = [f \in Files |-> written[f] + Cardinality(Of(f, batch[p] \ lost))]
    /\ left' = [left EXCEPT ![p] = @ \ batch[p]]
    /\ batch' = [batch EXCEPT ![p] = {}]
    /\ converter' = "nobody"
    /\ UNCHANGED <<plan, main, workers, queueVars, current>>

(* A COPY writes the rows of its batch, or, for a reason nobody has found, *)
(* one less.                                                               *)
Lost(p) == {{}} \cup {{x} : x \in batch[p]}

Told(p, lost) ==
    \E x \in batch[p] : OnTableFlattened(TableOf(x[1]), Cardinality(batch[p] \ lost))

(* The EVTX pipeline compares each batch, the auxiliary one does not.      *)
FlattenCaseEnds ==
    \E lost \in Lost("evtx") :
        /\ CopyEnds("evtx", lost)
        /\ IF lost = {}
           THEN Told("evtx", lost) /\ Move("evtx", "flattening")
           ELSE Move("evtx", "failed") /\ UNCHANGED progress

FlattenTableEnds ==
    \E lost \in Lost("aux") :
        /\ CopyEnds("aux", lost)
        /\ Told("aux", lost)
        /\ Move("aux", "flattening")

RecordsIn(table) ==
    LET accepted == [f \in Files |-> result[f].records]
    IN  MapThenSumSet(LAMBDA f : accepted[f], {f \in plan.found : TableOf(f) = table})
RowsIn(table) == MapThenSumSet(LAMBDA f : written[f], {f \in plan.found : TableOf(f) = table})

(* Mutant: the tables are compared by name only.                           *)
RowsUnchecked(p) == TRUE

(* The auxiliary pipeline compares its tables when all are written.        *)
RowsAgree(p) == p = "evtx" \/ \A t \in {"web_logs", "other"} : RowsIn(t) = RecordsIn(t)

FlattenDone(p) ==
    /\ stage[p] = "flattening"
    /\ left[p] = {}
    /\ Move(p, IF RowsAgree(p) THEN "done" ELSE "failed")
    /\ UNCHANGED <<plan, main, workers, progress, queueVars, convertVars>>

(* Storage, DuckDB, Redis or the native parser raise.                      *)
PipelineRaises(p) ==
    /\ stage[p] \in {"begun", "unknown", "submit", "polling", "direct", "copying", "publishing",
                     "replay", "flattening", "converting"}
    /\ Move(p, "failed")
    /\ converter' = IF converter = p THEN "nobody" ELSE converter
    /\ busy' = IF p = "aux" THEN busy \ {current} ELSE busy
    /\ UNCHANGED <<plan, main, workers, progress, args, future, completed, broken, raising, result,
                   current, left, batch, written>>

-----------------------------------------------------------------------------
QueueStep(p) ==
    /\ \/ SubmitAll(p) \/ RunInline(p) \/ Collect(p) \/ AllCollected(p)
       \/ Fill(p) \/ FillBroken(p) \/ Wait(p) \/ Handle(p) \/ Refill(p) \/ Exhausted(p) \/ Close(p)
    /\ UNCHANGED <<main, convertVars>>

PipelineStep(p) ==
    \/ NothingToDo(p) \/ StartStaging(p) \/ StartFlattening(p)
    \/ Convert(p) \/ FlattenDone(p)
    \/ p = "evtx" /\ FlattenCaseEnds
    \/ p = "aux" /\ FlattenTableEnds

DirectStep ==
    \/ ReportUnknown \/ UnknownReported \/ StartDirect
    \/ \E f \in Web : DirectUnreadable(f) \/ DirectDeclined(f) \/ DirectOpen(f)
    \/ DirectCopy \/ DirectUnsupported \/ DirectPublish \/ Replay \/ ReportDirect \/ DirectDone

MainStep ==
    \/ Begin \/ AuxAfterEvtx \/ Join \/ JoinRaises \/ NothingFound \/ Commit \/ Finish

ProcessStep ==
    /\ \E p \in Pipelines : StartTask(p) \/ EndTask(p) \/ Terminated(p)
    /\ UNCHANGED <<main, convertVars>>

Next ==
    \/ MainStep
    \/ DirectStep
    \/ \E p \in Pipelines :
         \/ QueueStep(p) \/ PipelineStep(p) \/ PipelineRaises(p)
         \/ PoolBreaks(p) /\ UNCHANGED <<main, convertVars>>
    \/ ProcessStep

Spec == Init /\ [][Next]_vars

(* Threads and worker processes go on; nothing need fail.                  *)
Fairness ==
    /\ WF_vars(MainStep)
    /\ WF_vars(DirectStep)
    /\ \A p \in Pipelines : WF_vars(QueueStep(p)) /\ WF_vars(PipelineStep(p))
    /\ WF_vars(ProcessStep)

FairSpec == Spec /\ Fairness

-----------------------------------------------------------------------------
(* A pipeline that succeeded has written every record a parser accepted    *)
(* into the workspace, and none twice: whatever path a file took, direct,  *)
(* staged or replayed, and whatever the conversions lost.                  *)
RowsMatchStaged ==
    \A p \in Pipelines : stage[p] = "done" =>
        \A f \in plan.found : (f \in Evtx <=> p = "evtx") => written[f] = result[f].records

(* "workers" is the total local parsing budget, of both pipelines, their   *)
(* pools, inline tasks and direct conversions together; and when a local   *)
(* ingest leaves its transaction, by return or exception, no process of it *)
(* parses and nobody converts: the workspace is quiet.                     *)
Left == main \in {"joined", "committed", "returned", "raised"}
BudgetKept ==
    ~plan.distributed =>
        /\ Cardinality(busy) <= IF Left THEN 0 ELSE plan.budget
        /\ Left => converter = "nobody"

(* A finished ingest has told the analyst of every file it found once, and *)
(* of as many rows as it wrote.                                            *)
ReportComplete ==
    main \in {"joined", "committed", "returned"} =>
        /\ progress.staged["evtx"] = Cardinality(Found(Evtx))
        /\ progress.staged["aux"] = Cardinality(Found(Files \ Evtx))
        /\ \A s \in Statuses : progress.tally[s] = Cardinality({f \in plan.found : result[f].status = s})
        /\ \A t \in Tables : progress.rows[t] = RowsIn(t)

(* Every ingest ends, with whatever task, process or conversion failing.   *)
IngestEnds == <>(main \in {"returned", "raised"})

-----------------------------------------------------------------------------
(* Why they hold.  Each pipeline has files of its own, and a pool or a     *)
(* thread of its own for them; only the conversions take turns.            *)
Kind(p) == IF p = "evtx" THEN Found(Evtx) ELSE Found(Files \ Evtx)

Unstarted == {"idle", "begun", "unknown", "submit"}
Local     == {"inline", "filling", "handling", "closing"}
AtFile    == {"copying", "publishing", "replay", "reporting"}
Early     == Unstarted \cup Local \cup {"polling", "staged"}
Late      == {"direct", "flattening", "converting", "done"} \cup AtFile

TypeOK ==
    /\ plan \in [found : Scans, skipped : BOOLEAN, budget : Budgets, distributed : BOOLEAN, direct : BOOLEAN]
    /\ main \in {"scanned", "running", "joined", "committed", "returned", "raised"}
    /\ stage \in [Pipelines -> Early \cup Late \cup {"failed"}]
    /\ workers \in [Pipelines -> Nat]
    /\ progress \in [phase : {"scanning", "staging", "flattening", "done", "failed"},
                     staged : [Pipelines -> Nat], tally : [Statuses -> Nat], rows : [Tables -> Nat]]
    /\ args \in [Pipelines -> SUBSET Files]
    /\ future \in [Files -> {"none", "queued", "running", "returned", "raised", "handled"}]
    /\ busy \subseteq Files /\ completed \in [Pipelines -> SUBSET Files]
    /\ broken \subseteq Pipelines /\ raising \subseteq Pipelines
    /\ result \in [Files -> [status : Statuses \cup {"none"}, records : 0 .. 2]]
    /\ converter \in Pipelines \cup {"nobody"}
    /\ current \in Files \cup {NoFile}
    /\ left \in [Pipelines -> SUBSET (Files \X (1 .. 2))]
    /\ batch \in [Pipelines -> SUBSET (Files \X (1 .. 2))]
    /\ written \in [Files -> Nat]

(* Which stages go together, and what each pipeline hands to its queue.    *)
FlowOf(p) ==
    /\ main # "scanned" => workers[p] = Share(p)
    /\ stage[p] = "polling" => plan.distributed
    /\ stage[p] \in Local => ~plan.distributed
    /\ args[p] \in {{}, QueuedFiles(p)}
    /\ stage[p] \in {"idle", "begun"} => args[p] = {}
    /\ stage[p] \notin {"idle", "begun", "failed"} => args[p] = QueuedFiles(p)

FlowInv ==
    /\ plan.direct => ~plan.distributed
    /\ main = "scanned" <=> stage["evtx"] = "idle"
    /\ main = "scanned" => stage["aux"] = "idle"
    /\ Left => \A p \in Pipelines : stage[p] \in {"idle", "done", "failed"}
    /\ main \in {"joined", "committed", "returned"} => \A p \in Pipelines : stage[p] = "done"
    /\ ~Concurrent /\ stage["aux"] # "idle" => stage["evtx"] = "done"
    /\ stage["evtx"] \notin {"unknown", "direct"} \cup AtFile
    /\ \A p \in Pipelines : FlowOf(p)

(* The task of a file, and the tasks of a pipeline.                        *)
TaskInv ==
    \A f \in Files :
      /\ future[f] # "none" => f \in args["evtx"] \cup args["aux"] \cup DirectFiles \cup Found(Unknown)
      /\ future[f] = "none" => result[f] = NoResult
      /\ future[f] = "returned" => result[f] \in Parsed
      /\ future[f] = "handled" => result[f].status \in Statuses

QueueOf(p) ==
    /\ stage[p] \in Unstarted => \A f \in args[p] : future[f] = "none"
    /\ stage[p] \in Unstarted \cup {"inline", "polling"} => p \notin broken
    /\ p \in raising => stage[p] \in {"closing", "failed"}
    /\ \A f \in completed[p] : f \in args[p] /\ future[f] \in {"returned", "raised"}
    /\ completed[p] # {} => stage[p] = "handling" \/ p \in raising
    /\ stage[p] \in Late \cup {"staged"} \/ (stage[p] = "closing" /\ p \notin raising)
         => \A f \in args[p] : future[f] = "handled"
    /\ ~plan.distributed => \A f \in args[p] :
         /\ future[f] = "queued" => stage[p] \in Local \ {"inline"}
         /\ future[f] = "running" => stage[p] \in Local
    /\ stage[p] = "inline" => \A f, g \in args[p] :
         future[f] \notin {"none", "handled"} /\ future[g] \notin {"none", "handled"} => f = g

QueueInv == \A p \in Pipelines : QueueOf(p)

(* The files that the auxiliary pipeline handles without its queue.        *)
DirectInv ==
    /\ \A f \in Found(Unknown) :
         /\ future[f] \in {"none", "handled"} /\ result[f].records = 0
         /\ stage["aux"] \notin {"idle", "begun", "unknown", "failed"} => future[f] = "handled"
    /\ \A f \in DirectFiles :
         /\ stage["aux"] \in Early => future[f] = "none"
         /\ stage["aux"] \in {"flattening", "converting", "done"} => future[f] = "handled"
         /\ future[f] \in {"none", "running", "handled"}
         /\ future[f] = "running" => f = current /\ stage["aux"] \in AtFile \cup {"failed"}
    /\ stage["aux"] \in AtFile => current \in DirectFiles /\ future[current] = "running"
    /\ stage["aux"] \in {"publishing", "reporting"} => result[current].status \in Statuses

(* The processes at work for a local ingest, and the lock of conversions.  *)
BusyOf(p) ==
    \A f \in busy \cap args[p] : stage[p] \in Local /\ (future[f] = "running" \/ p \in broken)

BusyInv ==
    /\ ~plan.distributed =>
         /\ busy \subseteq args["evtx"] \cup args["aux"] \cup DirectFiles
         /\ \A f \in busy \cap DirectFiles : f = current /\ stage["aux"] \in {"copying", "replay"}
         /\ \A p \in Pipelines : BusyOf(p)
    /\ \A p \in Pipelines : converter = p =>
         stage[p] = "converting" \/ (p = "aux" /\ stage[p] = "copying")

ShareInv ==
    ~plan.distributed => \A p \in Pipelines : Cardinality(busy \cap args[p]) <= workers[p]

(* The records of a file on their way.  The EVTX pipeline loses none; what *)
(* the auxiliary one has lost, it finds out at its end.                    *)
Underway(f) == future[f] # "handled" /\ ~(stage["aux"] = "reporting" /\ f = current)

RecordsOf(p) ==
    /\ \A x \in left[p] : x[1] \in args[p] \/ (p = "aux" /\ x[1] \in DirectFiles)
    /\ stage[p] = "converting" =>
         /\ batch[p] # {} /\ batch[p] \subseteq left[p]
         /\ \A x, y \in batch[p] : TableOf(x[1]) = TableOf(y[1])
    /\ stage[p] \in Early => left[p] = {} /\ \A f \in Kind(p) : written[f] = 0
    /\ stage[p] = "done" => \A f \in Kind(p) : written[f] = result[f].records

RecordInv ==
    /\ \A p \in Pipelines : RecordsOf(p)
    /\ stage["evtx"] \in {"flattening", "converting"} =>
         \A f \in Kind("evtx") : written[f] + Cardinality(Of(f, left["evtx"])) = result[f].records
    /\ stage["aux"] \in Late \ {"done"} =>
         \A f \in Kind("aux") :
             IF Underway(f) THEN written[f] = 0 /\ Of(f, left["aux"]) = {}
             ELSE written[f] + Cardinality(Of(f, left["aux"])) <= result[f].records

(* What the analyst is told of: the files that have been handled, and the  *)
(* rows that were written, but for the last batch of a pipeline that fails.*)
HandledOf(S) == {f \in S : future[f] = "handled"}

ProgressInv ==
    /\ \A p \in Pipelines : progress.staged[p] = Cardinality(HandledOf(Kind(p)))
    /\ \A s \in Statuses :
         progress.tally[s] = Cardinality({f \in HandledOf(plan.found) : result[f].status = s})
    /\ \A t \in Tables : progress.rows[t] = RowsIn(t) \/ (t = "events" /\ stage["evtx"] = "failed")

IngestInv ==
    /\ TypeOK /\ FlowInv /\ TaskInv /\ QueueInv /\ DirectInv
    /\ BusyInv /\ ShareInv /\ RecordInv /\ ProgressInv
===============================================================================
