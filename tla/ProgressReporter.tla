--------------------------- MODULE ProgressReporter ---------------------------
(***************************************************************************)
(* ProgressReporter (ingest/jobs.py): one object, shared by the threads of *)
(* the two pipelines of an ingest.  Every method takes its lock, so a call *)
(* is a step.  When a snapshot is passed on to the caller is left out.     *)
(***************************************************************************)
EXTENDS Integers, FiniteSets

Pipelines == {"evtx", "aux"}
Tables    == {"events", "web_logs", "other"}
Statuses  == {"ok", "partial", "failed", "unknown"}

VARIABLE progress    \* phase, files staged by each pipeline and by status, rows

PhaseOrder == [scanning |-> 0, staging |-> 1, flattening |-> 2]
Rank(phase) == IF phase \in DOMAIN PhaseOrder THEN PhaseOrder[phase] ELSE -1

NewProgress ==
    [phase |-> "scanning",
     staged |-> [p \in Pipelines |-> 0],
     tally |-> [s \in Statuses |-> 0],
     rows |-> [t \in Tables |-> 0]]

(* set_phase: the phase of the pipeline that is ahead stays.               *)
SetPhase(phase) ==
    progress' = [progress EXCEPT !.phase = IF Rank(phase) >= Rank(@) THEN phase ELSE @]

(* on_evtx_result, on_aux_result                                           *)
OnResult(p, status) ==
    progress' = [progress EXCEPT !.staged[p] = @ + 1, !.tally[status] = @ + 1]

OnTableFlattened(table, count) ==
    progress' = [progress EXCEPT !.rows[table] = @ + count]

FinishProgress(phase) == progress' = [progress EXCEPT !.phase = phase]
================================================================================
