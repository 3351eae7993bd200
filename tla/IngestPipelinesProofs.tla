------------------------- MODULE IngestPipelinesProofs -------------------------
(***************************************************************************)
(* One ingest, for every set of evidence files, every scan of them and     *)
(* every budget: the budget is kept, no row is lost without a failure, and *)
(* the analyst is told of all of them.                                     *)
(*                                                                         *)
(* IngestInv is shown to be kept by every step, a lemma for each action.   *)
(* Most actions leave most of it alone: ShareFrame, RecordFrame and        *)
(* ProgressFrame say what has to stay for a part of it to stay.            *)
(***************************************************************************)
EXTENDS IngestPipelines, SumTheorems

(* What the plan alone determines.                                         *)
PlanKept ==
    /\ plan' = plan
    /\ DirectFiles' = DirectFiles /\ Concurrent' = Concurrent
    /\ Found(Unknown)' = Found(Unknown)
    /\ \A p \in Pipelines :
         Kind(p)' = Kind(p) /\ QueuedFiles(p)' = QueuedFiles(p) /\ Share(p)' = Share(p)

(* What was found, the budget and the queue are chosen once.               *)
LEMMA PlanStays == ASSUME plan' = plan PROVE PlanKept
  BY DEF PlanKept, DirectFiles, Concurrent, Found, Kind, QueuedFiles, Share

(* Every file belongs to one pipeline, and there to one way of handling it. *)
Parted ==
    /\ Pipelines = {"evtx", "aux"}
    /\ Kind("evtx") \cap Kind("aux") = {}
    /\ plan.found = Kind("evtx") \cup Kind("aux")
    /\ plan.found \subseteq Files /\ IsFiniteSet(Files)
    /\ QueuedFiles("evtx") = Kind("evtx")
    /\ Kind("aux") = QueuedFiles("aux") \cup DirectFiles \cup Found(Unknown)
    /\ QueuedFiles("aux") \cap DirectFiles = {}
    /\ Found(Unknown) \cap (QueuedFiles("aux") \cup DirectFiles) = {}
    /\ \A f \in Kind("evtx") : TableOf(f) = "events"
    /\ \A f \in Kind("aux") : TableOf(f) \in {"web_logs", "other"}

(* Every file belongs to one pipeline, and goes one way in it.             *)
LEMMA FilesParted == ASSUME TypeOK PROVE Parted
<1>1. plan.found \subseteq Files /\ plan.found \cap Files = plan.found
  BY PipelineAssumption DEF TypeOK
<1> QED
  BY <1>1, PipelineAssumption
  DEF Parted, Pipelines, Kind, QueuedFiles, DirectFiles, Found, TableOf

(* The shares of the budget.                                               *)
LEMMA Shares ==
    ASSUME TypeOK
    PROVE  /\ plan.budget \in Nat \ {0}
           /\ \A p \in Pipelines : Share(p) \in Nat \ {0} /\ (~Concurrent => Share(p) = plan.budget)
           /\ Concurrent => Share("evtx") + Share("aux") = plan.budget
<1>1. plan.budget \in Nat \ {0}
  BY PipelineAssumption DEF TypeOK
<1>2. Concurrent => plan.budget > 1
  BY DEF Concurrent
<1> QED
  BY <1>1, <1>2 DEF Share, Pipelines

-----------------------------------------------------------------------------
(* A share of the budget is kept where no process is added.                *)
ShareFrame ==
    /\ plan' = plan /\ workers' = workers
    /\ \A p \in Pipelines : \A f \in busy' : f \in args'[p] => f \in busy /\ f \in args[p]

(* Where no process is added, no pool exceeds its share.                   *)
LEMMA ShareKept == ASSUME IngestInv, ShareFrame PROVE ShareInv'
<1> SUFFICES ASSUME ~plan.distributed, NEW p \in Pipelines
             PROVE  Cardinality(busy' \cap args'[p]) <= workers[p]
  BY DEF ShareFrame, ShareInv
<1> DEFINE B == busy \cap args[p]
           C == busy' \cap args'[p]
<1>1. IsFiniteSet(B)
  BY PipelineAssumption, FS_Subset DEF IngestInv, TypeOK
<1>2. C \subseteq B
  <2>1. \A f : f \in C => f \in B
    BY SMT DEF ShareFrame
  <2> QED
    BY <2>1
<1>3. Cardinality(B) <= workers[p] /\ workers[p] \in Nat
  BY DEF IngestInv, ShareInv, TypeOK
<1> HIDE DEF B, C
<1>4. Cardinality(C) <= Cardinality(B) /\ Cardinality(C) \in Nat /\ Cardinality(B) \in Nat
  BY <1>1, <1>2, FS_Subset, FS_CardinalityType
<1> QED
  BY <1>3, <1>4 DEF C

(* The records stay on their way.                                          *)
RecordFrame ==
    /\ plan' = plan /\ UNCHANGED <<left, batch, written>>
    /\ \A p \in Pipelines :
         /\ args[p] = {} \/ args'[p] = args[p]
         /\ stage'[p] = stage[p] \/ stage'[p] = "failed" \/ (stage[p] \in Early /\ stage'[p] \in Early)
         /\ stage[p] \in Late => \A f \in Kind(p) : future'[f] = future[f] /\ result'[f] = result[f]
    /\ stage["aux"] \in Late => current' = current

(* Records that nobody moves stay accounted for.                           *)
LEMMA RecordsKept == ASSUME IngestInv, RecordFrame PROVE RecordInv'
<1>0. PlanKept /\ Parted
  BY PlanStays, FilesParted DEF RecordFrame, IngestInv
<1>1. ASSUME NEW p \in Pipelines PROVE RecordsOf(p)'
  <2>1. RecordsOf(p) /\ Kind(p)' = Kind(p) /\ DirectFiles' = DirectFiles
    BY <1>0 DEF IngestInv, RecordInv, PlanKept
  <2>2. \A f : TableOf(f)' = TableOf(f)
    BY DEF TableOf
  <2> QED
    BY <2>1, <2>2 DEF RecordFrame, RecordsOf, Early, Late, Unstarted, Local, AtFile
<1>2. \A f, B : Of(f, B)' = Of(f, B)
  BY DEF Of
<1>3. (stage["evtx"] \in {"flattening", "converting"} =>
         \A f \in Kind("evtx") : written[f] + Cardinality(Of(f, left["evtx"])) = result[f].records)'
  BY <1>0, <1>2 DEF RecordFrame, PlanKept, IngestInv, RecordInv, Late, Early, Unstarted, Local, AtFile, Pipelines
<1>4. (stage["aux"] \in Late \ {"done"} =>
         \A f \in Kind("aux") :
             IF Underway(f) THEN written[f] = 0 /\ Of(f, left["aux"]) = {}
             ELSE written[f] + Cardinality(Of(f, left["aux"])) <= result[f].records)'
  <2> SUFFICES ASSUME stage'["aux"] \in Late \ {"done"}, NEW f \in Kind("aux")'
               PROVE  (IF Underway(f) THEN written[f] = 0 /\ Of(f, left["aux"]) = {}
                       ELSE written[f] + Cardinality(Of(f, left["aux"])) <= result[f].records)'
    OBVIOUS
  <2>1. stage'["aux"] = stage["aux"] /\ f \in Kind("aux")
    BY <1>0 DEF RecordFrame, PlanKept, Pipelines, Late, Early, Unstarted, Local, AtFile
  <2>2. Underway(f)' = Underway(f) /\ written' = written /\ result'[f] = result[f] /\ left' = left
    BY <2>1 DEF Underway, RecordFrame, Pipelines
  <2> QED
    BY <2>1, <2>2 DEF IngestInv, RecordInv, Of
<1> QED
  BY <1>1, <1>3, <1>4 DEF RecordInv

(* Whatever the queue of a pipeline does, it does to its own files.        *)
Queued == Early \ {"idle", "begun", "unknown"}

TaskFrame(p) ==
    /\ plan' = plan /\ UNCHANGED <<args, convertVars>>
    /\ \A q \in Pipelines : q # p =>
         /\ stage'[q] = stage[q] /\ completed'[q] = completed[q]
         /\ q \in broken' <=> q \in broken
         /\ q \in raising' <=> q \in raising
    /\ stage'[p] = stage[p] \/ (stage[p] \in Queued /\ stage'[p] \in Queued \cup {"failed"})
    /\ \A f \in Files : f \notin args[p] => future'[f] = future[f] /\ result'[f] = result[f]
    /\ stage[p] \in Late => \A f \in args[p] : future'[f] = future[f] /\ result'[f] = result[f]

(* Where no task goes on, nor any stage, the tasks stay as they fit the    *)
(* stages.                                                                 *)
LEMMA TasksKept ==
    ASSUME IngestInv, NEW p \in Pipelines, TaskFrame(p), QueueOf(p)'
    PROVE  QueueInv' /\ DirectInv' /\ RecordInv'
<1>0. PlanKept /\ Parted
  BY PlanStays, FilesParted DEF TaskFrame, IngestInv
<1>1. \A q \in Pipelines : args[q] \subseteq QueuedFiles(q)
  BY DEF IngestInv, FlowInv, FlowOf
<1>2. QueueInv'
  <2> SUFFICES ASSUME NEW q \in Pipelines, q # p PROVE QueueOf(q)'
    BY DEF QueueInv
  <2>1. args'[q] = args[q] /\ args[q] \cap args[p] = {} /\ args[q] \subseteq Files
    BY <1>0, <1>1 DEF TaskFrame, Parted
  <2>2. \A f \in args[q] : future'[f] = future[f]
    BY <2>1 DEF TaskFrame
  <2>3. /\ stage'[q] = stage[q] /\ completed'[q] = completed[q]
        /\ q \in broken' <=> q \in broken
        /\ q \in raising' <=> q \in raising
    BY DEF TaskFrame
  <2>4. QueueOf(q)
    BY DEF IngestInv, QueueInv
  <2> QED
    BY <1>0, <2>1, <2>2, <2>3, <2>4 DEF QueueOf, PlanKept
<1>3. \A f \in DirectFiles \cup Found(Unknown) : f \in Files /\ future'[f] = future[f] /\ result'[f] = result[f]
  BY <1>0, <1>1 DEF TaskFrame, Parted
<1>4. DirectInv'
  <2>1. \/ stage'["aux"] = stage["aux"]
        \/ stage["aux"] \in Queued /\ stage'["aux"] \in Queued \cup {"failed"}
    BY DEF TaskFrame, Pipelines
  <2>2. current' = current
    BY DEF TaskFrame, convertVars
  <2> QED
    BY <1>0, <1>3, <2>1, <2>2 DEF PlanKept, IngestInv, DirectInv, Queued, Early, AtFile, Unstarted, Local
<1>5. RecordFrame
  <2>1. ASSUME NEW q \in Pipelines, stage[q] \in Late, NEW f \in Kind(q)
        PROVE  future'[f] = future[f] /\ result'[f] = result[f]
    <3>1. CASE q = p
      BY <1>0, <1>1, <2>1, <3>1 DEF TaskFrame, Parted
    <3>2. CASE q # p
      BY <1>0, <1>1, <2>1, <3>2 DEF TaskFrame, Parted
    <3> QED
      BY <3>1, <3>2
  <2> QED
    BY <2>1 DEF RecordFrame, TaskFrame, convertVars, Queued
<1> QED
  BY <1>2, <1>4, <1>5, RecordsKept

-----------------------------------------------------------------------------
(* The rows of a table in the workspace are a sum.                         *)
InTable(t) == {f \in plan.found : TableOf(f) = t}

(* The rows of a table are the sum over its files.                         *)
LEMMA RowsAreSum == \A t : RowsIn(t) = Sum(written, InTable(t))
  BY DEF RowsIn, Sum, InTable

(* Nothing more is handled or written, and nothing more is told.           *)
ProgressFrame ==
    /\ plan' = plan /\ written' = written
    /\ progress'.staged = progress.staged /\ progress'.tally = progress.tally
    /\ progress'.rows = progress.rows
    /\ stage["evtx"] = "failed" => stage'["evtx"] = "failed"
    /\ \A f \in Files :
         /\ future'[f] = "handled" <=> future[f] = "handled"
         /\ future[f] = "handled" => result'[f] = result[f]

(* They depend on nothing but what was written.                            *)
LEMMA RowsStay == ASSUME plan' = plan, written' = written PROVE \A t : RowsIn(t)' = RowsIn(t)
<1>1. \A t : InTable(t)' = InTable(t)
  BY DEF InTable, TableOf
<1>2. \A t : RowsIn(t) = Sum(written, InTable(t))
  BY RowsAreSum
<1>3. (\A t : RowsIn(t) = Sum(written, InTable(t)))'
  BY RowsAreSum, PTL
<1>4. \A t : RowsIn(t)' = Sum(written', InTable(t)')
  BY <1>3
<1> QED
  BY <1>1, <1>2, <1>4

(* Where neither counters, files nor rows change, they agree as before.    *)
LEMMA ProgressKept == ASSUME IngestInv, ProgressFrame PROVE ProgressInv'
<1>0. PlanKept /\ Parted
  BY PlanStays, FilesParted DEF ProgressFrame, IngestInv
<1>1. \A S \in SUBSET Files : HandledOf(S)' = HandledOf(S)
  BY DEF ProgressFrame, HandledOf
<1>2. \A p \in Pipelines : Kind(p)' = Kind(p) /\ Kind(p) \in SUBSET Files
  BY <1>0 DEF PlanKept, Parted
<1>3. \A s \in Statuses : {f \in HandledOf(plan.found) : result[f].status = s}'
                            = {f \in HandledOf(plan.found) : result[f].status = s}
  BY <1>0 DEF ProgressFrame, HandledOf, Parted
<1>4. \A t : RowsIn(t)' = RowsIn(t)
  BY RowsStay DEF ProgressFrame
<1>5. (\A p \in Pipelines : progress.staged[p] = Cardinality(HandledOf(Kind(p))))'
  BY <1>1, <1>2 DEF ProgressFrame, IngestInv, ProgressInv
<1>6. (\A s \in Statuses :
         progress.tally[s] = Cardinality({f \in HandledOf(plan.found) : result[f].status = s}))'
  BY <1>3 DEF ProgressFrame, IngestInv, ProgressInv
<1>7. (\A t \in Tables : progress.rows[t] = RowsIn(t) \/ (t = "events" /\ stage["evtx"] = "failed"))'
  BY <1>4 DEF ProgressFrame, IngestInv, ProgressInv
<1> QED
  BY <1>5, <1>6, <1>7 DEF ProgressInv

-----------------------------------------------------------------------------
(* A file of one pipeline is a file of that pipeline only.                  *)
LEMMA OnePipeline ==
    ASSUME IngestInv, NEW p \in Pipelines, NEW f \in args[p]
    PROVE  /\ f \in Files /\ f \in plan.found /\ f \in QueuedFiles(p) /\ f \in Kind(p)
           /\ f \notin DirectFiles /\ f \notin Found(Unknown)
           /\ \A q \in Pipelines : q # p => f \notin args[q] /\ f \notin Kind(q)
<1>1. Parted
  BY FilesParted DEF IngestInv
<1>2. \A q \in Pipelines : args[q] \subseteq QueuedFiles(q)
  BY DEF IngestInv, FlowInv, FlowOf
<1> QED
  BY <1>1, <1>2 DEF Parted

(* A worker process takes up a task.                                       *)
LEMMA ShareGrows ==
    ASSUME IngestInv, NEW p \in Pipelines, NEW f \in args[p],
           plan' = plan, workers' = workers, args' = args, busy' = busy \cup {f},
           ~plan.distributed => Cardinality(busy \cap args[p]) < workers[p]
    PROVE  ShareInv'
<1> SUFFICES ASSUME ~plan.distributed, NEW q \in Pipelines
             PROVE  Cardinality(busy' \cap args'[q]) <= workers'[q]
  BY DEF ShareInv
<1>1. Cardinality(busy \cap args[q]) <= workers[q] /\ workers[q] \in Nat
  BY DEF IngestInv, ShareInv, TypeOK
<1>2. CASE q # p
  <2>1. f \notin args[q]
    BY <1>2, OnePipeline
  <2>2. busy' \cap args'[q] = busy \cap args[q]
    BY <2>1
  <2> QED
    BY <2>2, <1>1
<1>3. CASE q = p
  <2> DEFINE B == busy \cap args[p]
  <2>1. IsFiniteSet(B)
    BY PipelineAssumption, FS_Subset DEF IngestInv, TypeOK
  <2>2. busy' \cap args'[q] = B \cup {f}
    BY <1>3
  <2>3. Cardinality(B) < workers[q]
    BY <1>3
  <2> HIDE DEF B
  <2>4. /\ Cardinality(B) \in Nat
        /\ Cardinality(B \cup {f}) = IF f \in B THEN Cardinality(B) ELSE Cardinality(B) + 1
    BY <2>1, FS_CardinalityType, FS_AddElement
  <2>5. Cardinality(B \cup {f}) <= workers[q]
    BY <2>3, <2>4, <1>1
  <2> QED
    BY <2>2, <2>5
<1> QED
  BY <1>2, <1>3

(* A file is handled, and counted for what became of it.                   *)
LEMMA Counted ==
    ASSUME IngestInv, NEW p \in Pipelines, NEW f \in Kind(p), future[f] # "handled",
           plan' = plan, written' = written, future' = [future EXCEPT ![f] = "handled"],
           \A g \in Files : future[g] = "handled" => result'[g] = result[g],
           NEW s \in Statuses, result'[f].status = s, OnResult(p, s),
           stage["evtx"] = "failed" => stage'["evtx"] = "failed"
    PROVE  ProgressInv'
<1>0. PlanKept /\ Parted
  BY PlanStays, FilesParted DEF IngestInv
<1>1. f \in Files /\ f \in plan.found /\ \A q \in Pipelines : q # p => f \notin Kind(q)
  BY <1>0 DEF Parted
<1>2. /\ \A q \in Pipelines : progress'.staged[q] = IF q = p THEN progress.staged[q] + 1 ELSE progress.staged[q]
      /\ \A t \in Statuses : progress'.tally[t] = IF t = s THEN progress.tally[t] + 1 ELSE progress.tally[t]
      /\ progress'.rows = progress.rows
  BY DEF OnResult, IngestInv, TypeOK
<1>3. /\ future'[f] = "handled"
      /\ \A g \in Files : g # f => future'[g] = future[g]
  BY <1>1 DEF IngestInv, TypeOK
<1>4. \A S \in SUBSET Files : IsFiniteSet(S)
  BY PipelineAssumption, FS_Subset
<1>5. ASSUME NEW S \in SUBSET Files, f \notin S
      PROVE  Cardinality(S) \in Nat /\ Cardinality(S \cup {f}) = Cardinality(S) + 1
  BY <1>4, <1>5, FS_CardinalityType, FS_AddElement
<1>6. ASSUME NEW q \in Pipelines PROVE (progress.staged[q] = Cardinality(HandledOf(Kind(q))))'
  <2>1. progress.staged[q] = Cardinality(HandledOf(Kind(q)))
    BY DEF IngestInv, ProgressInv
  <2>2. Kind(q)' = Kind(q) /\ Kind(q) \subseteq Files
    BY <1>0 DEF PlanKept, Parted
  <2>3. CASE q = p
    <3>1. HandledOf(Kind(q))' = HandledOf(Kind(q)) \cup {f}
      BY <1>1, <1>3, <2>2, <2>3 DEF HandledOf
    <3>2. HandledOf(Kind(q)) \in SUBSET Files /\ f \notin HandledOf(Kind(q))
      BY <2>2 DEF HandledOf
    <3> QED
      BY <3>1, <3>2, <1>2, <1>5, <2>1, <2>3
  <2>4. CASE q # p
    <3>1. HandledOf(Kind(q))' = HandledOf(Kind(q))
      BY <1>1, <1>3, <2>2, <2>4 DEF HandledOf
    <3> QED
      BY <3>1, <1>2, <2>1, <2>4
  <2> QED
    BY <2>3, <2>4
<1>7. ASSUME NEW t \in Statuses
      PROVE  (progress.tally[t] = Cardinality({g \in HandledOf(plan.found) : result[g].status = t}))'
  <2> DEFINE S == {g \in HandledOf(plan.found) : result[g].status = t}
  <2>1. progress.tally[t] = Cardinality(S)
    BY DEF IngestInv, ProgressInv
  <2>2. S \in SUBSET Files /\ f \notin S
    BY <1>0 DEF HandledOf, Parted
  <2>3. CASE t = s
    <3>1. \A g : g \in S' <=> g \in S \/ g = f
      BY <1>0, <1>1, <1>3, <2>3 DEF HandledOf, Parted
    <3>2. S' = S \cup {f}
      <4> HIDE DEF S
      <4> QED
        BY <3>1
    <3> HIDE DEF S
    <3>3. progress'.tally[t] = Cardinality(S')
      BY <3>2, <1>2, <1>5, <2>1, <2>2, <2>3
    <3> QED
      BY <3>3 DEF S
  <2>4. CASE t # s
    <3>1. \A g : g \in S' <=> g \in S
      BY <1>0, <1>1, <1>3, <2>4 DEF HandledOf, Parted
    <3>2. S' = S
      <4> HIDE DEF S
      <4> QED
        BY <3>1
    <3> HIDE DEF S
    <3>3. progress'.tally[t] = Cardinality(S')
      BY <3>2, <1>2, <2>1, <2>4
    <3> QED
      BY <3>3 DEF S
  <2> QED
    BY <2>3, <2>4
<1>8. (\A t \in Tables : progress.rows[t] = RowsIn(t) \/ (t = "events" /\ stage["evtx"] = "failed"))'
  BY <1>2, RowsStay DEF IngestInv, ProgressInv
<1> QED
  BY <1>6, <1>7, <1>8 DEF ProgressInv

ProgressType ==
    [phase : {"scanning", "staging", "flattening", "done", "failed"},
     staged : [Pipelines -> Nat], tally : [Statuses -> Nat], rows : [Tables -> Nat]]

(* A report keeps the type of the counters.                                *)
LEMMA ReportedType ==
    ASSUME TypeOK, NEW p \in Pipelines, NEW s \in Statuses, OnResult(p, s)
    PROVE  progress' \in ProgressType
<1>1. /\ [progress.staged EXCEPT ![p] = @ + 1] \in [Pipelines -> Nat]
      /\ [progress.tally EXCEPT ![s] = @ + 1] \in [Statuses -> Nat]
  BY DEF TypeOK
<1>2. progress' = [progress EXCEPT !.staged = [progress.staged EXCEPT ![p] = @ + 1],
                                   !.tally = [progress.tally EXCEPT ![s] = @ + 1]]
  BY DEF OnResult, TypeOK
<1> QED
  BY <1>1, <1>2 DEF TypeOK, ProgressType

-----------------------------------------------------------------------------
(* What a step of the direct conversion leaves alone.                      *)
DirectFrame ==
    /\ plan' = plan /\ UNCHANGED <<workers, args, completed, broken, raising, batch>>
    /\ stage'["evtx"] = stage["evtx"] /\ left'["evtx"] = left["evtx"]
    /\ \/ stage'["aux"] = stage["aux"]
       \/ stage["aux"] \in Late \cup {"staged"} /\ stage'["aux"] \in Late \cup {"failed"}
    /\ \A f \in Files : f \notin DirectFiles /\ f \notin Found(Unknown) =>
         /\ future'[f] = future[f] /\ result'[f] = result[f] /\ written'[f] = written[f]
         /\ f \in busy' <=> f \in busy

(* The queues are untouched by a file on the direct path.                  *)
LEMMA QueuesKept == ASSUME IngestInv, DirectFrame PROVE QueueInv' /\ ShareInv'
<1>0. PlanKept /\ Parted
  BY PlanStays, FilesParted DEF DirectFrame, IngestInv
<1>1. ASSUME NEW p \in Pipelines, NEW f \in args[p]
      PROVE  future'[f] = future[f] /\ (f \in busy' <=> f \in busy)
  BY <1>1, OnePipeline DEF DirectFrame
<1>2. ASSUME NEW p \in Pipelines PROVE QueueOf(p)'
  <2>1. QueueOf(p)
    BY DEF IngestInv, QueueInv
  <2>2. UNCHANGED <<args, completed, broken, raising, plan>>
    BY DEF DirectFrame
  <2>3. CASE stage'[p] = stage[p]
    BY <1>0, <1>1, <2>1, <2>2, <2>3 DEF QueueOf
  <2>4. CASE stage[p] \in Late \cup {"staged"} /\ stage'[p] \in Late \cup {"failed"}
    BY <1>0, <1>1, <2>1, <2>2, <2>4 DEF QueueOf, Late, AtFile, Unstarted, Local
  <2> QED
    BY <2>3, <2>4 DEF DirectFrame, Pipelines
<1>3. ShareFrame
  BY <1>1 DEF DirectFrame, ShareFrame
<1> QED
  BY <1>2, <1>3, ShareKept DEF QueueInv

(* The records of one file are what a direct conversion is about.          *)
LEMMA OneFileConverted ==
    ASSUME IngestInv, DirectFrame, NEW c,
           stage["aux"] \in {"direct"} \cup AtFile,
           stage'["aux"] \in {"direct", "flattening", "failed"} \cup AtFile,
           left["aux"] \subseteq left'["aux"],
           \A x \in left'["aux"] : x \in left["aux"] \/ (x[1] = c /\ c \in DirectFiles),
           \A f \in Kind("aux") : f # c =>
             (Underway(f)' <=> Underway(f)) /\ written'[f] = written[f] /\ result'[f] = result[f],
           stage'["aux"] # "failed" /\ c \in Kind("aux") =>
             IF Underway(c)' THEN written'[c] = 0 /\ Of(c, left'["aux"]) = {}
             ELSE written'[c] + Cardinality(Of(c, left'["aux"])) <= result'[c].records
    PROVE  RecordInv'
<1>0. PlanKept /\ Parted
  BY PlanStays, FilesParted DEF DirectFrame, IngestInv
<1>1. \A f \in Kind("evtx") : written'[f] = written[f] /\ result'[f] = result[f]
  BY <1>0 DEF Parted, DirectFrame
<1>2. RecordsOf("evtx")'
  <2>1. RecordsOf("evtx")
    BY DEF IngestInv, RecordInv, Pipelines
  <2>2. \A f : TableOf(f)' = TableOf(f)
    BY DEF TableOf
  <2> QED
    BY <1>0, <1>1, <2>1, <2>2 DEF DirectFrame, RecordsOf, PlanKept, Pipelines
<1>3. RecordsOf("aux")'
  <2>1. \A x \in left["aux"] : x[1] \in args["aux"] \/ x[1] \in DirectFiles
    BY DEF IngestInv, RecordInv, RecordsOf, Pipelines
  <2>2. \A x \in left'["aux"] : x[1] \in args'["aux"] \/ x[1] \in DirectFiles'
    BY <1>0, <2>1 DEF DirectFrame, PlanKept
  <2> QED
    BY <2>2 DEF RecordsOf, Early, Unstarted, Local, AtFile
<1>4. (stage["evtx"] \in {"flattening", "converting"} =>
         \A f \in Kind("evtx") : written[f] + Cardinality(Of(f, left["evtx"])) = result[f].records)'
  BY <1>0, <1>1 DEF DirectFrame, PlanKept, Pipelines, IngestInv, RecordInv, Of
<1>5. ASSUME stage'["aux"] \in Late \ {"done"}, NEW f \in Kind("aux")'
      PROVE  (IF Underway(f) THEN written[f] = 0 /\ Of(f, left["aux"]) = {}
              ELSE written[f] + Cardinality(Of(f, left["aux"])) <= result[f].records)'
  <2>1. f \in Kind("aux") /\ stage'["aux"] # "failed"
    BY <1>0, <1>5 DEF PlanKept, Pipelines, Late, AtFile
  <2>2. CASE f = c
    BY <2>1, <2>2 DEF Of
  <2>3. CASE f # c
    <3>1. Of(f, left'["aux"]) = Of(f, left["aux"])
      BY <2>3 DEF Of
    <3>2. IF Underway(f) THEN written[f] = 0 /\ Of(f, left["aux"]) = {}
          ELSE written[f] + Cardinality(Of(f, left["aux"])) <= result[f].records
      BY <2>1 DEF IngestInv, RecordInv, Late, AtFile
    <3>3. (Of(f, left["aux"]))' = Of(f, left'["aux"])
      BY DEF Of
    <3> QED
      BY <2>1, <2>3, <3>1, <3>2, <3>3
  <2> QED
    BY <2>2, <2>3
<1> QED
  BY <1>2, <1>3, <1>4, <1>5 DEF RecordInv, Pipelines

(* A pipeline goes into another phase.                                     *)
LEMMA PhaseType ==
    ASSUME TypeOK, NEW phase \in {"staging", "flattening"}, SetPhase(phase)
    PROVE  /\ progress' \in ProgressType
           /\ progress'.staged = progress.staged /\ progress'.tally = progress.tally
           /\ progress'.rows = progress.rows
<1>1. PICK x : progress' = [progress EXCEPT !.phase = x] /\ (x = phase \/ x = progress.phase)
  BY DEF SetPhase
<1> QED
  BY <1>1 DEF TypeOK, ProgressType

(* The records of the staged files.                                        *)
LEMMA StagedOf ==
    ASSUME IngestInv, NEW p \in Pipelines
    PROVE  /\ StagedRecords(p) \in SUBSET (Files \X (1 .. 2))
           /\ \A x \in StagedRecords(p) : x[1] \in args[p]
           /\ \A f : f \notin args[p] => Of(f, StagedRecords(p)) = {}
           /\ \A f \in args[p] : Of(f, StagedRecords(p)) = {<<f, i>> : i \in 1 .. result[f].records}
<1>1. \A f \in args[p] : f \in Files /\ result[f].records \in 0 .. 2
  BY OnePipeline DEF IngestInv, TypeOK
<1>2. \A x : x \in StagedRecords(p) <=> \E f \in args[p] : \E i \in 1 .. result[f].records : x = <<f, i>>
  BY DEF StagedRecords
<1>3. StagedRecords(p) \in SUBSET (Files \X (1 .. 2))
  BY <1>1, <1>2
<1>4. \A x \in StagedRecords(p) : x[1] \in args[p]
  BY <1>2
<1>5. \A f : f \notin args[p] => Of(f, StagedRecords(p)) = {}
  BY <1>4 DEF Of
<1>6. ASSUME NEW f \in args[p]
      PROVE  Of(f, StagedRecords(p)) = {<<f, i>> : i \in 1 .. result[f].records}
  <2>1. \A x : x \in Of(f, StagedRecords(p)) <=> \E i \in 1 .. result[f].records : x = <<f, i>>
    BY <1>2 DEF Of
  <2> QED
    BY <2>1
<1> QED
  BY <1>3, <1>4, <1>5, <1>6

(* The records of a file are finitely many, and counted.                   *)
LEMMA RecordCount ==
    ASSUME NEW f, NEW n \in 0 .. 2
    PROVE  Cardinality({<<f, i>> : i \in 1 .. n}) = n
<1>1. CASE n = 0
  <2>1. {<<f, i>> : i \in 1 .. n} = {}
    BY <1>1
  <2> QED
    BY <1>1, <2>1, FS_EmptySet
<1>2. CASE n = 1
  <2>1. {<<f, i>> : i \in 1 .. n} = {<<f, 1>>}
    BY <1>2
  <2> QED
    BY <1>2, <2>1, FS_Singleton
<1>3. CASE n = 2
  <2>1. {<<f, i>> : i \in 1 .. n} = {<<f, 1>>} \cup {<<f, 2>>}
    <3>1. 1 .. n = {1, 2}
      BY <1>3
    <3> QED
      BY <3>1
  <2>2. <<f, 1>> # <<f, 2>>
    OBVIOUS
  <2>3. \A a, b : a # b => Cardinality({a} \cup {b}) = 2
    <3> SUFFICES ASSUME NEW a, NEW b, a # b PROVE Cardinality({a} \cup {b}) = 2
      OBVIOUS
    <3>1. Cardinality({a}) = 1 /\ IsFiniteSet({a})
      BY FS_Singleton
    <3>2. Cardinality({a} \cup {b}) = Cardinality({a}) + 1
      BY <3>1, FS_AddElement
    <3> QED
      BY <3>1, <3>2
  <2> QED
    BY <1>3, <2>1, <2>2, <2>3
<1> QED
  BY <1>1, <1>2, <1>3

(* When a pipeline begins with the conversions, its files wait for them.   *)
LEMMA StagedRecordsCount ==
    ASSUME IngestInv, NEW p \in Pipelines
    PROVE  \A f \in args[p] : Cardinality(Of(f, StagedRecords(p))) = result[f].records
<1> SUFFICES ASSUME NEW f \in args[p]
             PROVE  Cardinality(Of(f, StagedRecords(p))) = result[f].records
  OBVIOUS
<1>1. result[f].records \in 0 .. 2
  BY OnePipeline DEF IngestInv, TypeOK
<1>2. Of(f, StagedRecords(p)) = {<<f, i>> : i \in 1 .. result[f].records}
  BY StagedOf
<1> QED
  BY <1>1, <1>2, RecordCount

(* A pipeline begins to convert what it has staged.                        *)
LEMMA ConversionsBegin ==
    ASSUME IngestInv, NEW p \in Pipelines, stage[p] = "staged", left'[p] = StagedRecords(p),
           stage'[p] = "flattening" \/ (p = "aux" /\ stage'[p] = "direct"),
           \A q \in Pipelines : q # p => stage'[q] = stage[q] /\ left'[q] = left[q],
           plan' = plan, UNCHANGED <<args, batch, written, result, future, current>>
    PROVE  RecordInv'
<1>0. PlanKept /\ Parted
  BY PlanStays, FilesParted DEF IngestInv
<1>1. /\ \A x \in StagedRecords(p) : x[1] \in args[p]
      /\ \A f : f \notin args[p] => Of(f, StagedRecords(p)) = {}
      /\ \A f \in args[p] : Cardinality(Of(f, StagedRecords(p))) = result[f].records
  BY StagedOf, StagedRecordsCount
<1>2. /\ args[p] = QueuedFiles(p) /\ \A f \in Kind(p) : written[f] = 0
      /\ \A f \in args[p] : future[f] = "handled"
  BY DEF IngestInv, FlowInv, FlowOf, RecordInv, RecordsOf, Early, QueueInv, QueueOf
<1>3. \A f : TableOf(f)' = TableOf(f)
  BY DEF TableOf
<1>4. ASSUME NEW q \in Pipelines PROVE RecordsOf(q)'
  <2>1. RecordsOf(q)
    BY DEF IngestInv, RecordInv
  <2>2. CASE q = p
    BY <1>1, <2>2 DEF RecordsOf, Early, Unstarted, Local
  <2>3. CASE q # p
    BY <1>0, <1>3, <2>1, <2>3 DEF PlanKept, RecordsOf
  <2> QED
    BY <2>2, <2>3
<1>5. ASSUME stage'["evtx"] \in {"flattening", "converting"}, NEW f \in Kind("evtx")
      PROVE  written[f] + Cardinality(Of(f, left'["evtx"])) = result[f].records
  <2>1. CASE p = "evtx"
    <3>1. f \in args[p] /\ written[f] = 0 /\ result[f].records \in Nat
      BY <1>0, <1>2, <2>1 DEF Parted, IngestInv, TypeOK
    <3> QED
      BY <1>1, <2>1, <3>1
  <2>2. CASE p # "evtx"
    BY <1>5, <2>2 DEF IngestInv, RecordInv, Pipelines
  <2> QED
    BY <2>1, <2>2
<1>6. ASSUME stage'["aux"] \in Late \ {"done"}, NEW f \in Kind("aux")
      PROVE  IF Underway(f)' THEN written[f] = 0 /\ Of(f, left'["aux"]) = {}
             ELSE written[f] + Cardinality(Of(f, left'["aux"])) <= result[f].records
  <2>1. CASE p = "aux"
    <3>1. written[f] = 0 /\ result[f].records \in Nat /\ (Underway(f)' <=> future[f] # "handled")
      BY <1>0, <1>2, <2>1 DEF Parted, IngestInv, TypeOK, Underway
    <3>2. CASE f \in args[p]
      BY <1>1, <1>2, <2>1, <3>1, <3>2
    <3>3. CASE f \notin args[p]
      <4>1. Of(f, left'["aux"]) = {} /\ Cardinality(Of(f, left'["aux"])) = 0
        BY <1>1, <2>1, <3>3, FS_EmptySet
      <4> QED
        BY <3>1, <4>1
    <3> QED
      BY <3>2, <3>3
  <2>2. CASE p # "aux"
    BY <1>6, <2>2 DEF IngestInv, RecordInv, Pipelines, Underway
  <2> QED
    BY <2>1, <2>2
<1>7. \A f, B : Of(f, B)' = Of(f, B)
  BY DEF Of
<1> QED
  BY <1>0, <1>4, <1>5, <1>6, <1>7 DEF PlanKept, RecordInv, Pipelines, Of

-----------------------------------------------------------------------------
(* Rows are written, and told.                                             *)
LEMMA RowsAfter == ASSUME plan' = plan PROVE \A t : RowsIn(t)' = Sum(written', InTable(t))
<1>1. \A t : InTable(t)' = InTable(t)
  BY DEF InTable, TableOf
<1>2. (\A t : RowsIn(t) = Sum(written, InTable(t)))'
  BY RowsAreSum, PTL
<1>3. \A t : RowsIn(t)' = Sum(written', InTable(t)')
  BY <1>2
<1> QED
  BY <1>1, <1>3

(* A conversion keeps the type of the counters.                            *)
LEMMA RowsType ==
    ASSUME TypeOK, NEW tab \in Tables, NEW n \in Nat, OnTableFlattened(tab, n)
    PROVE  /\ progress' \in ProgressType
           /\ progress'.staged = progress.staged /\ progress'.tally = progress.tally
           /\ \A t \in Tables : progress'.rows[t] = progress.rows[t] + IF t = tab THEN n ELSE 0
<1>1. progress' = [progress EXCEPT !.rows = [progress.rows EXCEPT ![tab] = @ + n]]
  BY DEF OnTableFlattened, TypeOK
<1>2. progress.rows \in [Tables -> Nat] /\ [progress.rows EXCEPT ![tab] = @ + n] \in [Tables -> Nat]
  BY DEF TypeOK
<1>3. \A t \in Tables :
        [progress.rows EXCEPT ![tab] = @ + n][t] = progress.rows[t] + IF t = tab THEN n ELSE 0
  BY <1>2
<1>4. /\ progress'.rows = [progress.rows EXCEPT ![tab] = @ + n]
      /\ progress'.staged = progress.staged /\ progress'.tally = progress.tally
  BY <1>1 DEF TypeOK
<1>5. progress' \in ProgressType
  BY <1>1, <1>2 DEF TypeOK, ProgressType
<1> QED
  BY <1>3, <1>4, <1>5

(* The report of a conversion keeps counters and rows in step.             *)
LEMMA RowsTold ==
    ASSUME IngestInv, plan' = plan, UNCHANGED <<future, result>>,
           NEW tab \in Tables, NEW n \in Nat, OnTableFlattened(tab, n),
           \A t \in Tables : RowsIn(t)' = RowsIn(t) + IF t = tab THEN n ELSE 0,
           stage["evtx"] = "failed" => stage'["evtx"] = "failed"
    PROVE  ProgressInv'
<1>0. PlanKept
  BY PlanStays
<1>1. /\ progress'.staged = progress.staged /\ progress'.tally = progress.tally
      /\ \A t \in Tables : progress'.rows[t] = progress.rows[t] + IF t = tab THEN n ELSE 0
  BY RowsType DEF IngestInv
<1>2. \A S : HandledOf(S)' = HandledOf(S)
  BY DEF HandledOf
<1>3. (\A p \in Pipelines : progress.staged[p] = Cardinality(HandledOf(Kind(p))))'
  BY <1>0, <1>1, <1>2 DEF PlanKept, IngestInv, ProgressInv, HandledOf
<1>4. (\A s \in Statuses :
         progress.tally[s] = Cardinality({f \in HandledOf(plan.found) : result[f].status = s}))'
  BY <1>1, <1>2 DEF IngestInv, ProgressInv, HandledOf
<1>5. (\A t \in Tables : progress.rows[t] = RowsIn(t) \/ (t = "events" /\ stage["evtx"] = "failed"))'
  BY <1>1 DEF IngestInv, ProgressInv
<1> QED
  BY <1>3, <1>4, <1>5 DEF ProgressInv

(* The file of a direct conversion adds its records to its table.          *)
LEMMA RowsGrow ==
    ASSUME IngestInv, plan' = plan, NEW c \in plan.found, NEW n \in Nat,
           written' = [written EXCEPT ![c] = @ + n]
    PROVE  \A t \in Tables : RowsIn(t)' = RowsIn(t) + IF t = TableOf(c) THEN n ELSE 0
<1> SUFFICES ASSUME NEW t \in Tables
             PROVE  RowsIn(t)' = RowsIn(t) + IF t = TableOf(c) THEN n ELSE 0
  OBVIOUS
<1> DEFINE S == InTable(t)
<1>1. RowsIn(t) = Sum(written, S) /\ RowsIn(t)' = Sum(written', S)
  BY RowsAreSum, RowsAfter
<1>2. S \subseteq Files /\ (c \in S <=> t = TableOf(c)) /\ c \in Files
  BY FilesParted DEF InTable, IngestInv, Parted
<1>3. IsFiniteSet(S)
  BY <1>2, PipelineAssumption, FS_Subset
<1>4. written \in [Files -> Nat] /\ written'[c] = written[c] + n
       /\ \A f \in Files : f # c => written'[f] = written[f]
  BY <1>2 DEF IngestInv, TypeOK
<1>5. written' \in [Files -> Nat]
  BY <1>2, <1>4 DEF IngestInv, TypeOK
<1> HIDE DEF S
<1>6. Counts(written, S) /\ Counts(written', S)
  BY <1>2, <1>4, <1>5 DEF Counts
<1>7. Sum(written, S) \in Nat /\ Sum(written', S) \in Nat
  BY <1>3, <1>6, SumType
<1>8. CASE t = TableOf(c)
  <2>1. Same(written, written', S \ {c})
    BY <1>2, <1>4 DEF Same
  <2>2. Sum(written', S) + written[c] = Sum(written, S) + written'[c]
    <3>1. c \in S
      BY <1>2, <1>8
    <3>2. \A w, v : Counts(w, S) /\ Counts(v, S) /\ Same(w, v, S \ {c})
            => Sum(v, S) + w[c] = Sum(w, S) + v[c]
      BY <1>3, <3>1, SumChange
    <3> QED
      BY <1>6, <2>1, <3>2
  <2>3. written[c] \in Nat
    BY <1>2, <1>4
  <2>4. Sum(written', S) = Sum(written, S) + n
    BY <1>4, <1>7, <2>2, <2>3
  <2> QED
    BY <1>1, <1>8, <2>4
<1>9. CASE t # TableOf(c)
  <2>1. Same(written, written', S)
    BY <1>2, <1>4, <1>9 DEF Same
  <2>2. Sum(written, S) = Sum(written', S)
    BY <1>3, <2>1, SumCongruent
  <2> QED
    BY <1>1, <1>7, <1>9, <2>2
<1> QED
  BY <1>8, <1>9

-----------------------------------------------------------------------------
(* A conversion ends: its batch leaves the records that wait, and is       *)
(* written, but for what was lost.                                         *)
Weight(f, B) == Cardinality(Of(f, B))

(* The records of a file in a set, without those in a part of it.          *)
LEMMA Weights ==
    ASSUME NEW B, IsFiniteSet(B), NEW D \in SUBSET B, NEW f
    PROVE  /\ Weight(f, B) \in Nat /\ Weight(f, D) \in Nat
           /\ Weight(f, D) <= Weight(f, B)
           /\ Weight(f, B \ D) + Weight(f, D) = Weight(f, B)
<1> DEFINE X == Of(f, B)
           Y == Of(f, D)
           Z == Of(f, B \ D)
<1>1. /\ Y \subseteq X /\ Z = X \ Y /\ X \subseteq B /\ \A y \in Y : y \in X
      /\ X \cap Y = Y
  BY DEF Of
<1> HIDE DEF X, Y, Z
<1>2. IsFiniteSet(X) /\ IsFiniteSet(Y)
  BY <1>1, FS_Subset
<1>3. Cardinality(X) \in Nat /\ Cardinality(Y) \in Nat /\ Cardinality(Y) <= Cardinality(X)
  BY <1>1, <1>2, FS_Subset, FS_CardinalityType
<1>4. Cardinality(X \ Y) = Cardinality(X) - Cardinality(X \cap Y)
  BY <1>2, FS_Difference
<1>5. Cardinality(Z) = Cardinality(X \ Y) /\ Cardinality(X \cap Y) = Cardinality(Y)
  BY <1>1
<1>6. Cardinality(Z) + Cardinality(Y) = Cardinality(X)
  BY <1>3, <1>4, <1>5
<1> QED
  BY <1>3, <1>6 DEF Weight, X, Y, Z

Copied(p, lost) ==
    /\ IsFiniteSet(left[p]) /\ IsFiniteSet(batch[p]) /\ IsFiniteSet(batch[p] \ lost)
    /\ batch[p] # {} /\ batch[p] \in SUBSET left[p] /\ batch[p] \ lost \in SUBSET batch[p]
    /\ \A x, y \in batch[p] : TableOf(x[1]) = TableOf(y[1])
    /\ \A x \in batch[p] : x[1] \in Kind(p) /\ x[1] \in plan.found /\ x[1] \in Files
    /\ left'[p] = left[p] \ batch[p]
    /\ \A q \in Pipelines : q # p => left'[q] = left[q] /\ batch'[q] = batch[q]
    /\ \A f \in Files : written'[f] = written[f] + Weight(f, batch[p] \ lost)
    /\ \A f \in Files : Weight(f, batch[p] \ lost) \in Nat
    /\ \A q \in Pipelines : q # p => \A f \in Kind(q) : written'[f] = written[f]
    /\ left' \in [Pipelines -> SUBSET (Files \X (1 .. 2))]
    /\ batch' \in [Pipelines -> SUBSET (Files \X (1 .. 2))]
    /\ written' \in [Files -> Nat]

(* What a conversion leaves, has written, and gives back.                  *)
LEMMA CopyWrites ==
    ASSUME IngestInv, NEW p \in Pipelines, NEW lost \in Lost(p), CopyEnds(p, lost)
    PROVE  Copied(p, lost)
<1> DEFINE D == batch[p] \ lost
<1>0. Parted
  BY FilesParted DEF IngestInv
<1>1. IsFiniteSet(Files \X (1 .. 2))
  <2>1. IsFiniteSet({1} \cup {2})
    BY FS_Singleton, FS_AddElement
  <2>2. 1 .. 2 = {1} \cup {2}
    OBVIOUS
  <2> QED
    BY <2>1, <2>2, PipelineAssumption, FS_Product
<1>2. left[p] \in SUBSET (Files \X (1 .. 2)) /\ batch[p] \in SUBSET (Files \X (1 .. 2))
  BY DEF IngestInv, TypeOK
<1>3. IsFiniteSet(left[p]) /\ IsFiniteSet(batch[p]) /\ IsFiniteSet(D)
  BY <1>1, <1>2, FS_Subset
<1>4. /\ batch[p] # {} /\ batch[p] \in SUBSET left[p]
      /\ \A x, y \in batch[p] : TableOf(x[1]) = TableOf(y[1])
      /\ \A x \in left[p] : x[1] \in args[p] \/ (p = "aux" /\ x[1] \in DirectFiles)
  BY DEF CopyEnds, IngestInv, RecordInv, RecordsOf
<1>5. \A x \in batch[p] : x[1] \in Kind(p) /\ x[1] \in plan.found /\ x[1] \in Files
  BY <1>0, <1>4, OnePipeline DEF Parted
<1>6. /\ left'[p] = left[p] \ batch[p]
      /\ \A q \in Pipelines : q # p => left'[q] = left[q] /\ batch'[q] = batch[q]
      /\ left' \in [Pipelines -> SUBSET (Files \X (1 .. 2))]
      /\ batch' \in [Pipelines -> SUBSET (Files \X (1 .. 2))]
  BY DEF CopyEnds, IngestInv, TypeOK
<1>7. \A f : Weight(f, D) \in Nat
  BY <1>3, Weights
<1>8. \A f \in Files : written'[f] = written[f] + Weight(f, D)
  BY DEF CopyEnds, Weight
<1>9. written' \in [Files -> Nat]
  <2>1. written' = [f \in Files |-> written[f] + Weight(f, D)]
    BY DEF CopyEnds, Weight
  <2> HIDE DEF D
  <2>2. \A f \in Files : written[f] + Weight(f, D) \in Nat
    BY <1>7 DEF IngestInv, TypeOK
  <2> QED
    BY <2>1, <2>2
<1>10. ASSUME NEW q \in Pipelines, q # p, NEW f \in Kind(q) PROVE written'[f] = written[f]
  <2>1. f \in Files /\ f \notin Kind(p)
    BY <1>0, <1>10 DEF Parted
  <2>2. Of(f, D) = {}
    BY <1>5, <2>1 DEF Of
  <2>3. Weight(f, D) = 0
    BY <2>2, FS_EmptySet DEF Weight
  <2> QED
    BY <1>8, <2>1, <2>3 DEF IngestInv, TypeOK
<1> QED
  BY <1>3, <1>4, <1>5, <1>6, <1>7, <1>8, <1>9, <1>10 DEF Copied

(* Every record of a pipeline that converts belongs to a file that is      *)
(* handled.                                                                *)
LEMMA AllHandled ==
    ASSUME IngestInv, stage["aux"] \in {"flattening", "converting"}
    PROVE  \A f \in Kind("aux") : future[f] = "handled"
<1>1. Parted
  BY FilesParted DEF IngestInv
<1>2. args["aux"] = QueuedFiles("aux")
  BY DEF IngestInv, FlowInv, FlowOf, Pipelines
<1>3. \A f \in args["aux"] : future[f] = "handled"
  BY DEF IngestInv, QueueInv, QueueOf, Late, Pipelines
<1> QED
  BY <1>1, <1>2, <1>3 DEF Parted, IngestInv, DirectInv

(* The records it takes are written or lost, and no other.                 *)
LEMMA RecordsConverted ==
    ASSUME IngestInv, NEW p \in Pipelines, NEW lost \in Lost(p), CopyEnds(p, lost),
           Move(p, "flattening") \/ (p = "evtx" /\ Move(p, "failed")),
           p = "evtx" /\ Move(p, "flattening") => lost = {}
    PROVE  RecordInv'
<1> DEFINE D == batch[p] \ lost
<1>0. PlanKept /\ Parted
  BY PlanStays, FilesParted DEF CopyEnds, IngestInv
<1>1. /\ IsFiniteSet(left[p]) /\ IsFiniteSet(batch[p])
      /\ batch[p] \in SUBSET left[p] /\ D \in SUBSET batch[p]
      /\ left'[p] = left[p] \ batch[p]
      /\ \A q \in Pipelines : q # p => left'[q] = left[q] /\ batch'[q] = batch[q]
      /\ \A f \in Files : written'[f] = written[f] + Weight(f, D)
      /\ \A q \in Pipelines : q # p => \A f \in Kind(q) : written'[f] = written[f]
  BY CopyWrites DEF Copied
<1>a. lost = {} => D = batch[p]
  OBVIOUS
<1> HIDE DEF D
<1>2. /\ stage[p] = "converting" /\ stage'[p] \in {"flattening", "failed"}
      /\ \A q \in Pipelines : q # p => stage'[q] = stage[q]
      /\ plan' = plan /\ UNCHANGED <<args, result, future, current>>
      /\ p = "aux" => stage'[p] = "flattening"
      /\ p = "evtx" /\ stage'[p] = "flattening" => lost = {}
  BY DEF CopyEnds, Move, queueVars, IngestInv, TypeOK
<1>3. \A f : TableOf(f)' = TableOf(f)
  BY DEF TableOf
<1>4. ASSUME NEW q \in Pipelines PROVE RecordsOf(q)'
  <2>1. RecordsOf(q)
    BY DEF IngestInv, RecordInv
  <2>2. CASE q = p
    BY <1>0, <1>1, <1>2, <2>1, <2>2 DEF RecordsOf, PlanKept, Early, Unstarted, Local
  <2>3. CASE q # p
    BY <1>0, <1>1, <1>2, <1>3, <2>1, <2>3 DEF RecordsOf, PlanKept
  <2> QED
    BY <2>2, <2>3
<1>5. ASSUME NEW f \in Kind(p)
      PROVE  /\ written[f] \in Nat /\ result[f].records \in Nat
             /\ Weight(f, D) \in Nat /\ Weight(f, left[p]) \in Nat /\ Weight(f, left'[p]) \in Nat
             /\ written'[f] = written[f] + Weight(f, D)
             /\ Weight(f, left'[p]) + Weight(f, D) <= Weight(f, left[p])
             /\ lost = {} => Weight(f, left'[p]) + Weight(f, D) = Weight(f, left[p])
  <2>1. f \in Files
    BY <1>0 DEF Parted
  <2>2. /\ Weight(f, left[p]) \in Nat /\ Weight(f, batch[p]) \in Nat /\ Weight(f, D) \in Nat
        /\ Weight(f, D) <= Weight(f, batch[p])
        /\ Weight(f, left[p] \ batch[p]) + Weight(f, batch[p]) = Weight(f, left[p])
    <3>1. IsFiniteSet(left[p]) /\ IsFiniteSet(batch[p]) /\ batch[p] \in SUBSET left[p] /\ D \in SUBSET batch[p]
      BY <1>1
    <3>2. /\ Weight(f, left[p]) \in Nat /\ Weight(f, batch[p]) \in Nat
          /\ Weight(f, left[p] \ batch[p]) + Weight(f, batch[p]) = Weight(f, left[p])
      BY <3>1, Weights
    <3>3. Weight(f, D) \in Nat /\ Weight(f, D) <= Weight(f, batch[p])
      BY <3>1, Weights
    <3> QED
      BY <3>2, <3>3
  <2>3. Weight(f, left[p] \ batch[p]) \in Nat
    <3>1. IsFiniteSet(left[p] \ batch[p])
      BY <1>1, FS_Subset
    <3> QED
      BY <3>1, Weights
  <2>5. Weight(f, left'[p]) = Weight(f, left[p] \ batch[p])
    BY <1>1
  <2>6. written[f] \in Nat /\ result[f].records \in Nat
    <3>1. TypeOK
      BY DEF IngestInv
    <3> QED
      BY <2>1, <3>1 DEF TypeOK
  <2>7. written'[f] = written[f] + Weight(f, D)
    BY <1>1, <2>1
  <2>8. /\ Weight(f, left'[p]) + Weight(f, D) <= Weight(f, left[p])
        /\ lost = {} => Weight(f, left'[p]) + Weight(f, D) = Weight(f, left[p])
    BY <1>a, <2>2, <2>3, <2>5
  <2> QED
    BY <2>2, <2>3, <2>5, <2>6, <2>7, <2>8
<1>6. ASSUME stage'["evtx"] \in {"flattening", "converting"}, NEW f \in Kind("evtx")
      PROVE  written'[f] + Weight(f, left'["evtx"]) = result[f].records
  <2>1. CASE p = "evtx"
    <3>1. written[f] + Weight(f, left["evtx"]) = result[f].records
      BY <1>2, <2>1 DEF IngestInv, RecordInv, Weight
    <3>2. lost = {}
      BY <1>2, <1>6, <2>1
    <3> QED
      BY <1>5, <2>1, <3>1, <3>2
  <2>2. CASE p # "evtx"
    <3>1. stage'["evtx"] = stage["evtx"] /\ left'["evtx"] = left["evtx"] /\ written'[f] = written[f]
      BY <1>1, <1>2, <2>2 DEF Pipelines
    <3> QED
      BY <1>6, <3>1 DEF IngestInv, RecordInv, Weight
  <2> QED
    BY <2>1, <2>2
<1>7. ASSUME stage'["aux"] \in Late \ {"done"}, NEW f \in Kind("aux")
      PROVE  IF Underway(f)' THEN written'[f] = 0 /\ Of(f, left'["aux"]) = {}
             ELSE written'[f] + Weight(f, left'["aux"]) <= result[f].records
  <2>1. CASE p = "aux"
    <3>1. future[f] = "handled" /\ ~Underway(f) /\ ~Underway(f)'
      BY <1>2, <2>1, AllHandled DEF Underway
    <3>2. written[f] + Weight(f, left["aux"]) <= result[f].records
      BY <1>2, <2>1, <3>1 DEF IngestInv, RecordInv, Weight, Late
    <3> QED
      BY <1>5, <2>1, <3>1, <3>2
  <2>2. CASE p # "aux"
    <3>1. stage'["aux"] = stage["aux"] /\ left'["aux"] = left["aux"] /\ written'[f] = written[f]
      BY <1>1, <1>2, <2>2 DEF Pipelines
    <3>2. Underway(f)' <=> Underway(f)
      BY <1>2, <3>1 DEF Underway
    <3> QED
      BY <1>7, <3>1, <3>2 DEF IngestInv, RecordInv, Weight
  <2> QED
    BY <2>1, <2>2
<1>8. \A f, B : Of(f, B)' = Of(f, B)
  BY DEF Of
<1> QED
  BY <1>0, <1>2, <1>4, <1>6, <1>7 DEF PlanKept, RecordInv, Pipelines, Of, Weight

(* The rows of its table grow by the batch.                                *)
LEMMA RowsConverted ==
    ASSUME IngestInv, NEW p \in Pipelines, NEW lost \in Lost(p), CopyEnds(p, lost),
           NEW b \in batch[p]
    PROVE  /\ Cardinality(batch[p] \ lost) \in Nat
           /\ \A t \in Tables : RowsIn(t)' = RowsIn(t)
                + IF t = TableOf(b[1]) THEN Cardinality(batch[p] \ lost) ELSE 0
<1> DEFINE D == batch[p] \ lost
<1>1. /\ IsFiniteSet(D) /\ \A x \in D : x[1] \in plan.found /\ TableOf(x[1]) = TableOf(b[1])
      /\ \A f \in Files : written'[f] = written[f] + Weight(f, D)
      /\ written' \in [Files -> Nat]
  <2>1. Copied(p, lost)
    BY CopyWrites
  <2>2. \A x \in batch[p] : x[1] \in plan.found /\ TableOf(x[1]) = TableOf(b[1])
    BY <2>1 DEF Copied
  <2> QED
    BY <2>1, <2>2 DEF Copied
<1>2. Cardinality(D) \in Nat
  BY <1>1, FS_CardinalityType
<1>3. plan' = plan /\ written \in [Files -> Nat]
  BY DEF CopyEnds, IngestInv, TypeOK
<1>4. ASSUME NEW t \in Tables
      PROVE  RowsIn(t)' = RowsIn(t) + IF t = TableOf(b[1]) THEN Cardinality(D) ELSE 0
  <2> DEFINE S == InTable(t)
             v == CountOf(D, S)
  <2>1. RowsIn(t) = Sum(written, S) /\ RowsIn(t)' = Sum(written', S)
    BY <1>3, RowsAreSum, RowsAfter
  <2>2. S \in SUBSET Files /\ IsFiniteSet(S)
    BY FilesParted, PipelineAssumption, FS_Subset DEF InTable, IngestInv, Parted
  <2>3. Parts(D, S) = IF t = TableOf(b[1]) THEN D ELSE {}
    <3> HIDE DEF D
    <3> QED
      BY <1>1 DEF Parts, InTable
  <2>4. \A f \in S : v[f] = Weight(f, D)
    BY DEF CountOf, Weight, Of
  <2> HIDE DEF D, S
  <2>5. Counts(v, S) /\ Sum(v, S) = Cardinality(Parts(D, S))
    BY <1>1, <2>2, SumOfParts
  <2> HIDE DEF v
  <2>6. Counts(written, S) /\ Counts(written', S)
    BY <1>1, <1>3, <2>2 DEF Counts
  <2>7. \A f \in S : written'[f] = written[f] + v[f]
    BY <1>1, <2>2, <2>4
  <2>8. Sum(written', S) = Sum(written, S) + Sum(v, S)
    BY <2>2, <2>5, <2>6, <2>7, SumAdd
  <2>9. Cardinality({}) = 0
    BY FS_EmptySet
  <2> QED
    BY <2>1, <2>3, <2>5, <2>8, <2>9
<1> QED
  BY <1>2, <1>4

(* The records that were accepted for a table are a sum, too.               *)
LEMMA RecordsAreSum == \A t : RecordsIn(t) = Sum([f \in Files |-> result[f].records], InTable(t))
  BY DEF RecordsIn, Sum, InTable

-----------------------------------------------------------------------------
(* Case.ingest.                                                            *)
LEMMA BeginKeeps ==
    ASSUME IngestInv, Begin
    PROVE  IngestInv'
<1>0. PlanKept /\ Parted
  BY PlanStays, FilesParted DEF Pipelines, PhaseOrder, Rank, SetPhase, convertVars, Begin,
      IngestInv
<1>1. TypeOK'
  <2>1. progress' \in ProgressType
    BY PhaseType DEF Begin, IngestInv
  <2>2. workers' \in [Pipelines -> Nat]
    BY Shares DEF Begin, IngestInv
  <2>3. stage' \in [Pipelines -> Early \cup Late \cup {"failed"}]
    BY DEF Begin, Pipelines, Early, Unstarted
  <2> QED
    BY <2>1, <2>2, <2>3 DEF Begin, IngestInv, TypeOK, ProgressType, queueVars, convertVars
<1>2. FlowInv'
  BY <1>0 DEF PlanKept, Pipelines, Tables, Statuses, PhaseOrder, Rank, SetPhase,
      queueVars, NoFile, convertVars, Begin, Left, Unstarted, Local, AtFile, Early, Late,
      TypeOK, FlowOf, FlowInv, IngestInv
<1>3. TaskInv'
  BY <1>0 DEF PlanKept, Pipelines, PhaseOrder, Rank, SetPhase, queueVars, convertVars,
      Begin, TypeOK, TaskInv, IngestInv
<1>4. QueueInv'
  <2> SUFFICES ASSUME NEW q \in Pipelines PROVE QueueOf(q)'
    BY DEF QueueInv
  <2> QED
    BY <1>0 DEF PlanKept, Pipelines, PhaseOrder, Rank, SetPhase, queueVars, convertVars,
        Begin, Unstarted, Local, AtFile, Early, Late, TypeOK, FlowOf, FlowInv, QueueOf,
        QueueInv, IngestInv
<1>5. DirectInv'
  BY <1>0 DEF PlanKept, Pipelines, PhaseOrder, Rank, SetPhase, queueVars, convertVars,
      Begin, Unstarted, Local, AtFile, Early, Late, TypeOK, FlowOf, FlowInv, DirectInv,
      IngestInv
<1>6. BusyInv'
  BY <1>0 DEF PlanKept, Pipelines, PhaseOrder, Rank, SetPhase, queueVars, convertVars,
      Begin, TypeOK, FlowOf, FlowInv, BusyOf, BusyInv, IngestInv
<1>7. ShareInv'
  <2>1. \A p \in Pipelines : args'[p] = {}
    BY DEF Begin, queueVars, IngestInv, FlowInv, FlowOf, Pipelines
  <2>2. \A p \in Pipelines : busy' \cap args'[p] = {} /\ workers'[p] \in Nat
    BY <2>1, <1>1 DEF TypeOK
  <2> QED
    BY <2>2, FS_EmptySet DEF ShareInv
<1>8. RecordInv'
  <2>1. RecordFrame
    BY <1>0 DEF RecordFrame, PlanKept, Pipelines, PhaseOrder, Rank, SetPhase, convertVars,
        Begin, Unstarted, Local, AtFile, Early, Late, TypeOK, FlowOf, FlowInv, QueueOf,
        QueueInv, IngestInv
  <2> QED
    BY <2>1, RecordsKept
<1>9. ProgressInv'
  <2>1. ProgressFrame
    BY <1>0 DEF ProgressFrame, PlanKept, Pipelines, PhaseOrder, Rank, SetPhase, queueVars,
        convertVars, Begin, TypeOK, FlowOf, FlowInv, IngestInv
  <2> QED
    BY <2>1, ProgressKept
<1> QED
  BY <1>1, <1>2, <1>3, <1>4, <1>5, <1>6, <1>7, <1>8, <1>9 DEF IngestInv

(* Without a second thread the auxiliary pipeline follows with the whole   *)
(* budget.                                                                 *)
LEMMA AuxAfterEvtxKeeps ==
    ASSUME IngestInv, AuxAfterEvtx
    PROVE  IngestInv'
<1>0. PlanKept /\ Parted
  BY PlanStays, FilesParted DEF Move, convertVars, AuxAfterEvtx, IngestInv
<1>1. TypeOK'
  BY DEF Pipelines, queueVars, Move, convertVars, AuxAfterEvtx, Unstarted, Local, AtFile,
      Early, Late, TypeOK, IngestInv
<1>2. FlowInv'
  BY <1>0 DEF PlanKept, Pipelines, Tables, Statuses, queueVars, Move, NoFile, convertVars,
      AuxAfterEvtx, Left, Unstarted, Local, AtFile, Early, Late, TypeOK, FlowOf, FlowInv,
      IngestInv
<1>3. TaskInv'
  BY <1>0 DEF PlanKept, Pipelines, queueVars, Move, convertVars, AuxAfterEvtx, TypeOK,
      TaskInv, IngestInv
<1>4. QueueInv'
  <2> SUFFICES ASSUME NEW q \in Pipelines PROVE QueueOf(q)'
    BY DEF QueueInv
  <2> QED
    BY <1>0 DEF PlanKept, Pipelines, queueVars, Move, convertVars, AuxAfterEvtx,
        Unstarted, Local, AtFile, Early, Late, TypeOK, QueueOf, QueueInv, IngestInv
<1>5. DirectInv'
  BY <1>0 DEF PlanKept, Pipelines, queueVars, Move, convertVars, AuxAfterEvtx, Unstarted,
      Local, AtFile, Early, Late, TypeOK, DirectInv, IngestInv
<1>6. BusyInv'
  BY <1>0 DEF PlanKept, Pipelines, queueVars, Move, convertVars, AuxAfterEvtx, Unstarted,
      Local, AtFile, Early, Late, TypeOK, BusyOf, BusyInv, IngestInv
<1>7. ShareInv'
  <2>1. ShareFrame
    BY <1>0 DEF ShareFrame, PlanKept, Pipelines, queueVars, Move, convertVars,
        AuxAfterEvtx, TypeOK, IngestInv
  <2> QED
    BY <2>1, ShareKept
<1>8. RecordInv'
  <2>1. RecordFrame
    BY <1>0 DEF RecordFrame, PlanKept, Pipelines, queueVars, Move, convertVars,
        AuxAfterEvtx, Unstarted, Local, AtFile, Early, Late, TypeOK, QueueOf, QueueInv,
        IngestInv
  <2> QED
    BY <2>1, RecordsKept
<1>9. ProgressInv'
  <2>1. ProgressFrame
    BY <1>0 DEF ProgressFrame, PlanKept, Pipelines, queueVars, Move, convertVars,
        AuxAfterEvtx, TypeOK, IngestInv
  <2> QED
    BY <2>1, ProgressKept
<1> QED
  BY <1>1, <1>2, <1>3, <1>4, <1>5, <1>6, <1>7, <1>8, <1>9 DEF IngestInv

(* Both pipelines are done when the threads are joined.                    *)
LEMMA JoinKeeps ==
    ASSUME IngestInv, Join
    PROVE  IngestInv'
<1>0. PlanKept /\ Parted
  BY PlanStays, FilesParted DEF Pipelines, convertVars, Join, IngestInv
<1>1. TypeOK'
  BY DEF Pipelines, queueVars, convertVars, Join, TypeOK, IngestInv
<1>2. FlowInv'
  BY <1>0 DEF PlanKept, Pipelines, queueVars, convertVars, Join, TypeOK, FlowOf, FlowInv,
      IngestInv
<1>3. TaskInv'
  BY <1>0 DEF PlanKept, Pipelines, queueVars, convertVars, Join, TypeOK, TaskInv,
      IngestInv
<1>4. QueueInv'
  <2> SUFFICES ASSUME NEW q \in Pipelines PROVE QueueOf(q)'
    BY DEF QueueInv
  <2> QED
    BY <1>0 DEF PlanKept, Pipelines, queueVars, convertVars, Join, TypeOK, QueueOf,
        QueueInv, IngestInv
<1>5. DirectInv'
  BY <1>0 DEF PlanKept, Pipelines, queueVars, convertVars, Join, TypeOK, DirectInv,
      IngestInv
<1>6. BusyInv'
  BY <1>0 DEF PlanKept, Pipelines, queueVars, convertVars, Join, TypeOK, BusyOf, BusyInv,
      IngestInv
<1>7. ShareInv'
  <2>1. ShareFrame
    BY <1>0 DEF ShareFrame, PlanKept, Pipelines, queueVars, convertVars, Join, TypeOK,
        IngestInv
  <2> QED
    BY <2>1, ShareKept
<1>8. RecordInv'
  <2>1. RecordFrame
    BY <1>0 DEF RecordFrame, PlanKept, Pipelines, queueVars, convertVars, Join, TypeOK,
        QueueOf, QueueInv, IngestInv
  <2> QED
    BY <2>1, RecordsKept
<1>9. ProgressInv'
  <2>1. ProgressFrame
    BY <1>0 DEF ProgressFrame, PlanKept, Pipelines, queueVars, convertVars, Join, TypeOK,
        IngestInv
  <2> QED
    BY <2>1, ProgressKept
<1> QED
  BY <1>1, <1>2, <1>3, <1>4, <1>5, <1>6, <1>7, <1>8, <1>9 DEF IngestInv

(* An ingest that finds nothing has no pipeline to wait for.               *)
LEMMA NothingFoundKeeps ==
    ASSUME IngestInv, NothingFound
    PROVE  IngestInv'
<1>0. PlanKept /\ Parted
  BY PlanStays, FilesParted DEF FinishProgress, convertVars, NothingFound, IngestInv
<1>1. TypeOK'
  BY DEF Pipelines, FinishProgress, queueVars, convertVars, NothingFound, TypeOK,
      IngestInv
<1>2. FlowInv'
  BY <1>0 DEF PlanKept, Pipelines, FinishProgress, queueVars, convertVars, NothingFound,
      TypeOK, FlowOf, FlowInv, IngestInv
<1>3. TaskInv'
  BY <1>0 DEF PlanKept, Pipelines, FinishProgress, queueVars, convertVars, NothingFound,
      TypeOK, TaskInv, IngestInv
<1>4. QueueInv'
  <2> SUFFICES ASSUME NEW q \in Pipelines PROVE QueueOf(q)'
    BY DEF QueueInv
  <2> QED
    BY <1>0 DEF PlanKept, Pipelines, FinishProgress, queueVars, convertVars, NothingFound,
        TypeOK, QueueOf, QueueInv, IngestInv
<1>5. DirectInv'
  BY <1>0 DEF PlanKept, Pipelines, FinishProgress, queueVars, convertVars, NothingFound,
      TypeOK, DirectInv, IngestInv
<1>6. BusyInv'
  BY <1>0 DEF PlanKept, Pipelines, FinishProgress, queueVars, convertVars, NothingFound,
      TypeOK, BusyOf, BusyInv, IngestInv
<1>7. ShareInv'
  <2>1. ShareFrame
    BY <1>0 DEF ShareFrame, PlanKept, Pipelines, FinishProgress, queueVars, convertVars,
        NothingFound, TypeOK, IngestInv
  <2> QED
    BY <2>1, ShareKept
<1>8. RecordInv'
  <2>1. RecordFrame
    BY <1>0 DEF RecordFrame, PlanKept, Pipelines, FinishProgress, queueVars, convertVars,
        NothingFound, TypeOK, QueueOf, QueueInv, IngestInv
  <2> QED
    BY <2>1, RecordsKept
<1>9. ProgressInv'
  <2>1. ProgressFrame
    BY <1>0 DEF ProgressFrame, PlanKept, Pipelines, FinishProgress, queueVars,
        convertVars, NothingFound, TypeOK, IngestInv
  <2> QED
    BY <2>1, ProgressKept
<1> QED
  BY <1>1, <1>2, <1>3, <1>4, <1>5, <1>6, <1>7, <1>8, <1>9 DEF IngestInv

(* The commit changes no file and no counter.                              *)
LEMMA CommitKeeps ==
    ASSUME IngestInv, Commit
    PROVE  IngestInv'
<1>0. PlanKept /\ Parted
  BY PlanStays, FilesParted DEF convertVars, Commit, IngestInv
<1>1. TypeOK'
  BY DEF Pipelines, queueVars, convertVars, Commit, TypeOK, IngestInv
<1>2. FlowInv'
  BY <1>0 DEF PlanKept, Pipelines, queueVars, convertVars, Commit, TypeOK, FlowOf,
      FlowInv, IngestInv
<1>3. TaskInv'
  BY <1>0 DEF PlanKept, Pipelines, queueVars, convertVars, Commit, TypeOK, TaskInv,
      IngestInv
<1>4. QueueInv'
  <2> SUFFICES ASSUME NEW q \in Pipelines PROVE QueueOf(q)'
    BY DEF QueueInv
  <2> QED
    BY <1>0 DEF PlanKept, Pipelines, queueVars, convertVars, Commit, TypeOK, QueueOf,
        QueueInv, IngestInv
<1>5. DirectInv'
  BY <1>0 DEF PlanKept, Pipelines, queueVars, convertVars, Commit, TypeOK, DirectInv,
      IngestInv
<1>6. BusyInv'
  BY <1>0 DEF PlanKept, Pipelines, queueVars, convertVars, Commit, TypeOK, BusyOf,
      BusyInv, IngestInv
<1>7. ShareInv'
  <2>1. ShareFrame
    BY <1>0 DEF ShareFrame, PlanKept, Pipelines, queueVars, convertVars, Commit, TypeOK,
        IngestInv
  <2> QED
    BY <2>1, ShareKept
<1>8. RecordInv'
  <2>1. RecordFrame
    BY <1>0 DEF RecordFrame, PlanKept, Pipelines, queueVars, convertVars, Commit, TypeOK,
        QueueOf, QueueInv, IngestInv
  <2> QED
    BY <2>1, RecordsKept
<1>9. ProgressInv'
  <2>1. ProgressFrame
    BY <1>0 DEF ProgressFrame, PlanKept, Pipelines, queueVars, convertVars, Commit,
        TypeOK, IngestInv
  <2> QED
    BY <2>1, ProgressKept
<1> QED
  BY <1>1, <1>2, <1>3, <1>4, <1>5, <1>6, <1>7, <1>8, <1>9 DEF IngestInv

(* The last phase is reported.                                             *)
LEMMA FinishKeeps ==
    ASSUME IngestInv, Finish
    PROVE  IngestInv'
<1>0. PlanKept /\ Parted
  BY PlanStays, FilesParted DEF FinishProgress, convertVars, Finish, IngestInv
<1>1. TypeOK'
  BY DEF Pipelines, FinishProgress, queueVars, convertVars, Finish, TypeOK, IngestInv
<1>2. FlowInv'
  BY <1>0 DEF PlanKept, Pipelines, FinishProgress, queueVars, convertVars, Finish, TypeOK,
      FlowOf, FlowInv, IngestInv
<1>3. TaskInv'
  BY <1>0 DEF PlanKept, Pipelines, FinishProgress, queueVars, convertVars, Finish, TypeOK,
      TaskInv, IngestInv
<1>4. QueueInv'
  <2> SUFFICES ASSUME NEW q \in Pipelines PROVE QueueOf(q)'
    BY DEF QueueInv
  <2> QED
    BY <1>0 DEF PlanKept, Pipelines, FinishProgress, queueVars, convertVars, Finish,
        TypeOK, QueueOf, QueueInv, IngestInv
<1>5. DirectInv'
  BY <1>0 DEF PlanKept, Pipelines, FinishProgress, queueVars, convertVars, Finish, TypeOK,
      DirectInv, IngestInv
<1>6. BusyInv'
  BY <1>0 DEF PlanKept, Pipelines, FinishProgress, queueVars, convertVars, Finish, TypeOK,
      BusyOf, BusyInv, IngestInv
<1>7. ShareInv'
  <2>1. ShareFrame
    BY <1>0 DEF ShareFrame, PlanKept, Pipelines, FinishProgress, queueVars, convertVars,
        Finish, TypeOK, IngestInv
  <2> QED
    BY <2>1, ShareKept
<1>8. RecordInv'
  <2>1. RecordFrame
    BY <1>0 DEF RecordFrame, PlanKept, Pipelines, FinishProgress, queueVars, convertVars,
        Finish, TypeOK, QueueOf, QueueInv, IngestInv
  <2> QED
    BY <2>1, RecordsKept
<1>9. ProgressInv'
  <2>1. ProgressFrame
    BY <1>0 DEF ProgressFrame, PlanKept, Pipelines, FinishProgress, queueVars,
        convertVars, Finish, TypeOK, IngestInv
  <2> QED
    BY <2>1, ProgressKept
<1> QED
  BY <1>1, <1>2, <1>3, <1>4, <1>5, <1>6, <1>7, <1>8, <1>9 DEF IngestInv

(* The error of a pipeline is raised when both have ended.                 *)
LEMMA JoinRaisesKeeps ==
    ASSUME IngestInv, JoinRaises
    PROVE  IngestInv'
<1>0. PlanKept /\ Parted
  BY PlanStays, FilesParted DEF Pipelines, convertVars, Failed, JoinRaises, IngestInv
<1>1. TypeOK'
  BY DEF Pipelines, queueVars, convertVars, Failed, JoinRaises, TypeOK, IngestInv
<1>2. FlowInv'
  BY <1>0 DEF PlanKept, Pipelines, queueVars, convertVars, Failed, JoinRaises, TypeOK,
      FlowOf, FlowInv, IngestInv
<1>3. TaskInv'
  BY <1>0 DEF PlanKept, Pipelines, queueVars, convertVars, Failed, JoinRaises, TypeOK,
      TaskInv, IngestInv
<1>4. QueueInv'
  <2> SUFFICES ASSUME NEW q \in Pipelines PROVE QueueOf(q)'
    BY DEF QueueInv
  <2> QED
    BY <1>0 DEF PlanKept, Pipelines, queueVars, convertVars, Failed, JoinRaises, TypeOK,
        QueueOf, QueueInv, IngestInv
<1>5. DirectInv'
  BY <1>0 DEF PlanKept, Pipelines, queueVars, convertVars, Failed, JoinRaises, TypeOK,
      DirectInv, IngestInv
<1>6. BusyInv'
  BY <1>0 DEF PlanKept, Pipelines, queueVars, convertVars, Failed, JoinRaises, TypeOK,
      BusyOf, BusyInv, IngestInv
<1>7. ShareInv'
  <2>1. ShareFrame
    BY <1>0 DEF ShareFrame, PlanKept, Pipelines, queueVars, convertVars, Failed,
        JoinRaises, TypeOK, IngestInv
  <2> QED
    BY <2>1, ShareKept
<1>8. RecordInv'
  <2>1. RecordFrame
    BY <1>0 DEF RecordFrame, PlanKept, Pipelines, queueVars, convertVars, Failed,
        JoinRaises, TypeOK, QueueOf, QueueInv, IngestInv
  <2> QED
    BY <2>1, RecordsKept
<1>9. ProgressInv'
  <2>1. ProgressFrame
    BY <1>0 DEF ProgressFrame, PlanKept, Pipelines, queueVars, convertVars, Failed,
        JoinRaises, TypeOK, IngestInv
  <2> QED
    BY <2>1, ProgressKept
<1> QED
  BY <1>1, <1>2, <1>3, <1>4, <1>5, <1>6, <1>7, <1>8, <1>9 DEF IngestInv

-----------------------------------------------------------------------------
(* The queues.                                                             *)
LEMMA SubmitAllKeeps ==
    ASSUME IngestInv, NEW p \in Pipelines, SubmitAll(p), UNCHANGED <<main, convertVars>>
    PROVE  IngestInv'
<1>0. PlanKept /\ Parted
  BY PlanStays, FilesParted DEF Inline, Move, SubmitAll, convertVars, IngestInv
<1>a. TaskFrame(p)
  BY <1>0 DEF TaskFrame, Queued, PlanKept, Pipelines, Inline, Move, SubmitAll,
      convertVars, Unstarted, Local, AtFile, Early, Late, TypeOK, QueueOf, QueueInv,
      IngestInv
<1>b. QueueOf(p)'
  BY <1>0 DEF PlanKept, Pipelines, Inline, Move, SubmitAll, convertVars, Unstarted, Local,
      AtFile, Early, Late, TypeOK, QueueOf, QueueInv, IngestInv
<1>1. TypeOK'
  BY DEF Pipelines, Inline, Move, SubmitAll, convertVars, Unstarted, Local, AtFile, Early,
      Late, TypeOK, IngestInv
<1>2. FlowInv'
  BY <1>0 DEF PlanKept, Pipelines, Tables, Statuses, Inline, Move, SubmitAll, NoFile,
      convertVars, Left, Unstarted, Local, AtFile, Early, Late, TypeOK, FlowOf, FlowInv,
      IngestInv
<1>3. TaskInv'
  BY <1>0 DEF PlanKept, Pipelines, Inline, Move, SubmitAll, convertVars, TypeOK, TaskInv,
      IngestInv
<1>4. QueueInv'
  BY <1>a, <1>b, TasksKept
<1>5. DirectInv'
  BY <1>a, <1>b, TasksKept
<1>6. BusyInv'
  BY <1>0 DEF PlanKept, Pipelines, Inline, Move, SubmitAll, convertVars, Unstarted, Local,
      AtFile, Early, Late, TypeOK, BusyOf, BusyInv, IngestInv
<1>7. ShareInv'
  <2>1. ShareFrame
    BY <1>0 DEF ShareFrame, PlanKept, Pipelines, Inline, Move, SubmitAll, convertVars,
        TypeOK, IngestInv
  <2> QED
    BY <2>1, ShareKept
<1>8. RecordInv'
  BY <1>a, <1>b, TasksKept
<1>9. ProgressInv'
  <2>1. ProgressFrame
    BY <1>0 DEF ProgressFrame, PlanKept, Pipelines, Inline, Move, SubmitAll, convertVars,
        Unstarted, Local, AtFile, Early, Late, TypeOK, FlowOf, FlowInv, QueueOf, QueueInv,
        IngestInv
  <2> QED
    BY <2>1, ProgressKept
<1> QED
  BY <1>1, <1>2, <1>3, <1>4, <1>5, <1>6, <1>7, <1>8, <1>9 DEF IngestInv

(* Every task of this thread, or of Redis, has been handled.               *)
LEMMA AllCollectedKeeps ==
    ASSUME IngestInv, NEW p \in Pipelines, AllCollected(p), UNCHANGED <<main, convertVars>>
    PROVE  IngestInv'
<1>0. PlanKept /\ Parted
  BY PlanStays, FilesParted DEF Move, AllCollected, convertVars, IngestInv
<1>a. TaskFrame(p)
  BY <1>0 DEF TaskFrame, Queued, PlanKept, Pipelines, queueVars, Move, AllCollected,
      convertVars, Unstarted, Local, AtFile, Early, Late, TypeOK, QueueOf, QueueInv,
      IngestInv
<1>b. QueueOf(p)'
  BY <1>0 DEF PlanKept, Pipelines, queueVars, Move, AllCollected, convertVars, Unstarted,
      Local, AtFile, Early, Late, TypeOK, QueueOf, QueueInv, IngestInv
<1>1. TypeOK'
  BY DEF Pipelines, queueVars, Move, AllCollected, convertVars, Unstarted, Local, AtFile,
      Early, Late, TypeOK, IngestInv
<1>2. FlowInv'
  BY <1>0 DEF PlanKept, Pipelines, Tables, Statuses, queueVars, Move, AllCollected,
      NoFile, convertVars, Left, Unstarted, Local, AtFile, Early, Late, TypeOK, FlowOf,
      FlowInv, IngestInv
<1>3. TaskInv'
  BY <1>0 DEF PlanKept, Pipelines, queueVars, Move, AllCollected, convertVars, TypeOK,
      TaskInv, IngestInv
<1>4. QueueInv'
  BY <1>a, <1>b, TasksKept
<1>5. DirectInv'
  BY <1>a, <1>b, TasksKept
<1>6. BusyInv'
  BY <1>0 DEF PlanKept, Pipelines, queueVars, Move, AllCollected, convertVars, TypeOK,
      FlowOf, FlowInv, QueueOf, QueueInv, DirectInv, BusyOf, BusyInv, IngestInv
<1>7. ShareInv'
  <2>1. ShareFrame
    BY <1>0 DEF ShareFrame, PlanKept, Pipelines, queueVars, Move, AllCollected,
        convertVars, TypeOK, IngestInv
  <2> QED
    BY <2>1, ShareKept
<1>8. RecordInv'
  BY <1>a, <1>b, TasksKept
<1>9. ProgressInv'
  <2>1. ProgressFrame
    BY <1>0 DEF ProgressFrame, PlanKept, Pipelines, queueVars, Move, AllCollected,
        convertVars, TypeOK, IngestInv
  <2> QED
    BY <2>1, ProgressKept
<1> QED
  BY <1>1, <1>2, <1>3, <1>4, <1>5, <1>6, <1>7, <1>8, <1>9 DEF IngestInv

(* The pool is filled up to its share.                                     *)
LEMMA FillKeeps ==
    ASSUME IngestInv, NEW p \in Pipelines, Fill(p), UNCHANGED <<main, convertVars>>
    PROVE  IngestInv'
<1>0. PlanKept /\ Parted
  BY PlanStays, FilesParted DEF Waiting, Pending, RoomToFill, Fill, convertVars, IngestInv
<1>a. TaskFrame(p)
  BY <1>0 DEF TaskFrame, Queued, PlanKept, Pipelines, Waiting, Pending, RoomToFill, Fill,
      convertVars, TypeOK, QueueOf, QueueInv, IngestInv
<1>b. QueueOf(p)'
  BY <1>0 DEF PlanKept, Pipelines, Waiting, Pending, RoomToFill, Fill, convertVars,
      Unstarted, Local, AtFile, Early, Late, TypeOK, QueueOf, QueueInv, IngestInv
<1>1. TypeOK'
  BY DEF Pipelines, Waiting, Pending, RoomToFill, Fill, convertVars, TypeOK, IngestInv
<1>2. FlowInv'
  BY <1>0 DEF PlanKept, Pipelines, Tables, Statuses, Waiting, Pending, RoomToFill, Fill,
      NoFile, convertVars, Left, TypeOK, FlowOf, FlowInv, IngestInv
<1>3. TaskInv'
  BY <1>0 DEF PlanKept, Pipelines, Waiting, Pending, RoomToFill, Fill, convertVars,
      TypeOK, TaskInv, IngestInv
<1>4. QueueInv'
  BY <1>a, <1>b, TasksKept
<1>5. DirectInv'
  BY <1>a, <1>b, TasksKept
<1>6. BusyInv'
  BY <1>0 DEF PlanKept, Pipelines, Waiting, Pending, RoomToFill, Fill, convertVars,
      TypeOK, BusyOf, BusyInv, IngestInv
<1>7. ShareInv'
  <2>1. ShareFrame
    BY <1>0 DEF ShareFrame, PlanKept, Pipelines, Waiting, Pending, RoomToFill, Fill,
        convertVars, TypeOK, IngestInv
  <2> QED
    BY <2>1, ShareKept
<1>8. RecordInv'
  BY <1>a, <1>b, TasksKept
<1>9. ProgressInv'
  <2>1. ProgressFrame
    BY <1>0 DEF ProgressFrame, PlanKept, Pipelines, Waiting, Pending, RoomToFill, Fill,
        convertVars, TypeOK, IngestInv
  <2> QED
    BY <2>1, ProgressKept
<1> QED
  BY <1>1, <1>2, <1>3, <1>4, <1>5, <1>6, <1>7, <1>8, <1>9 DEF IngestInv

(* A pool that has broken takes no task: the pipeline will raise.          *)
LEMMA FillBrokenKeeps ==
    ASSUME IngestInv, NEW p \in Pipelines, FillBroken(p), UNCHANGED <<main, convertVars>>
    PROVE  IngestInv'
<1>0. PlanKept /\ Parted
  BY PlanStays, FilesParted DEF Waiting, Pending, Move, RoomToFill, FillBroken,
      convertVars, IngestInv
<1>a. TaskFrame(p)
  BY <1>0 DEF TaskFrame, Queued, PlanKept, Pipelines, Waiting, Pending, Move, RoomToFill,
      FillBroken, convertVars, Unstarted, Local, AtFile, Early, Late, TypeOK, QueueOf,
      QueueInv, IngestInv
<1>b. QueueOf(p)'
  BY <1>0 DEF PlanKept, Pipelines, Waiting, Pending, Move, RoomToFill, FillBroken,
      convertVars, Unstarted, Local, AtFile, Early, Late, TypeOK, QueueOf, QueueInv,
      IngestInv
<1>1. TypeOK'
  BY DEF Pipelines, Waiting, Pending, Move, RoomToFill, FillBroken, convertVars,
      Unstarted, Local, AtFile, Early, Late, TypeOK, IngestInv
<1>2. FlowInv'
  BY <1>0 DEF PlanKept, Pipelines, Tables, Statuses, Waiting, Pending, Move, RoomToFill,
      FillBroken, NoFile, convertVars, Left, Unstarted, Local, AtFile, Early, Late,
      TypeOK, FlowOf, FlowInv, IngestInv
<1>3. TaskInv'
  BY <1>0 DEF PlanKept, Pipelines, Waiting, Pending, Move, RoomToFill, FillBroken,
      convertVars, TypeOK, TaskInv, IngestInv
<1>4. QueueInv'
  BY <1>a, <1>b, TasksKept
<1>5. DirectInv'
  BY <1>a, <1>b, TasksKept
<1>6. BusyInv'
  BY <1>0 DEF PlanKept, Pipelines, Waiting, Pending, Move, RoomToFill, FillBroken,
      convertVars, Unstarted, Local, AtFile, Early, Late, TypeOK, BusyOf, BusyInv,
      IngestInv
<1>7. ShareInv'
  <2>1. ShareFrame
    BY <1>0 DEF ShareFrame, PlanKept, Pipelines, Waiting, Pending, Move, RoomToFill,
        FillBroken, convertVars, TypeOK, IngestInv
  <2> QED
    BY <2>1, ShareKept
<1>8. RecordInv'
  BY <1>a, <1>b, TasksKept
<1>9. ProgressInv'
  <2>1. ProgressFrame
    BY <1>0 DEF ProgressFrame, PlanKept, Pipelines, Waiting, Pending, Move, RoomToFill,
        FillBroken, convertVars, TypeOK, IngestInv
  <2> QED
    BY <2>1, ProgressKept
<1> QED
  BY <1>1, <1>2, <1>3, <1>4, <1>5, <1>6, <1>7, <1>8, <1>9 DEF IngestInv

(* What has ended is taken together.                                       *)
LEMMA WaitKeeps ==
    ASSUME IngestInv, NEW p \in Pipelines, Wait(p), UNCHANGED <<main, convertVars>>
    PROVE  IngestInv'
<1>0. PlanKept /\ Parted
  BY PlanStays, FilesParted DEF Waiting, Pending, Move, RoomToFill, Wait, convertVars,
      IngestInv
<1>a. TaskFrame(p)
  BY <1>0 DEF TaskFrame, Queued, PlanKept, Pipelines, Waiting, Pending, Move, RoomToFill,
      Wait, convertVars, Unstarted, Local, AtFile, Early, Late, TypeOK, QueueOf, QueueInv,
      IngestInv
<1>b. QueueOf(p)'
  BY <1>0 DEF PlanKept, Pipelines, Waiting, Pending, Move, RoomToFill, Wait, convertVars,
      Unstarted, Local, AtFile, Early, Late, TypeOK, QueueOf, QueueInv, IngestInv
<1>1. TypeOK'
  BY DEF Pipelines, Waiting, Pending, Move, RoomToFill, Wait, convertVars, Unstarted,
      Local, AtFile, Early, Late, TypeOK, IngestInv
<1>2. FlowInv'
  BY <1>0 DEF PlanKept, Pipelines, Tables, Statuses, Waiting, Pending, Move, RoomToFill,
      Wait, NoFile, convertVars, Left, Unstarted, Local, AtFile, Early, Late, TypeOK,
      FlowOf, FlowInv, IngestInv
<1>3. TaskInv'
  BY <1>0 DEF PlanKept, Pipelines, Waiting, Pending, Move, RoomToFill, Wait, convertVars,
      TypeOK, TaskInv, IngestInv
<1>4. QueueInv'
  BY <1>a, <1>b, TasksKept
<1>5. DirectInv'
  BY <1>a, <1>b, TasksKept
<1>6. BusyInv'
  BY <1>0 DEF PlanKept, Pipelines, Waiting, Pending, Move, RoomToFill, Wait, convertVars,
      Unstarted, Local, AtFile, Early, Late, TypeOK, BusyOf, BusyInv, IngestInv
<1>7. ShareInv'
  <2>1. ShareFrame
    BY <1>0 DEF ShareFrame, PlanKept, Pipelines, Waiting, Pending, Move, RoomToFill, Wait,
        convertVars, TypeOK, IngestInv
  <2> QED
    BY <2>1, ShareKept
<1>8. RecordInv'
  BY <1>a, <1>b, TasksKept
<1>9. ProgressInv'
  <2>1. ProgressFrame
    BY <1>0 DEF ProgressFrame, PlanKept, Pipelines, Waiting, Pending, Move, RoomToFill,
        Wait, convertVars, TypeOK, IngestInv
  <2> QED
    BY <2>1, ProgressKept
<1> QED
  BY <1>1, <1>2, <1>3, <1>4, <1>5, <1>6, <1>7, <1>8, <1>9 DEF IngestInv

(* When all of it is handled the pool is filled again.                     *)
LEMMA RefillKeeps ==
    ASSUME IngestInv, NEW p \in Pipelines, Refill(p), UNCHANGED <<main, convertVars>>
    PROVE  IngestInv'
<1>0. PlanKept /\ Parted
  BY PlanStays, FilesParted DEF Move, Refill, convertVars, IngestInv
<1>a. TaskFrame(p)
  BY <1>0 DEF TaskFrame, Queued, PlanKept, Pipelines, queueVars, Move, Refill,
      convertVars, Unstarted, Local, AtFile, Early, Late, TypeOK, QueueOf, QueueInv,
      IngestInv
<1>b. QueueOf(p)'
  BY <1>0 DEF PlanKept, Pipelines, queueVars, Move, Refill, convertVars, Unstarted, Local,
      AtFile, Early, Late, TypeOK, QueueOf, QueueInv, IngestInv
<1>1. TypeOK'
  BY DEF Pipelines, queueVars, Move, Refill, convertVars, Unstarted, Local, AtFile, Early,
      Late, TypeOK, IngestInv
<1>2. FlowInv'
  BY <1>0 DEF PlanKept, Pipelines, Tables, Statuses, queueVars, Move, Refill, NoFile,
      convertVars, Left, Unstarted, Local, AtFile, Early, Late, TypeOK, FlowOf, FlowInv,
      IngestInv
<1>3. TaskInv'
  BY <1>0 DEF PlanKept, Pipelines, queueVars, Move, Refill, convertVars, TypeOK, TaskInv,
      IngestInv
<1>4. QueueInv'
  BY <1>a, <1>b, TasksKept
<1>5. DirectInv'
  BY <1>a, <1>b, TasksKept
<1>6. BusyInv'
  BY <1>0 DEF PlanKept, Pipelines, queueVars, Move, Refill, convertVars, Unstarted, Local,
      AtFile, Early, Late, TypeOK, BusyOf, BusyInv, IngestInv
<1>7. ShareInv'
  <2>1. ShareFrame
    BY <1>0 DEF ShareFrame, PlanKept, Pipelines, queueVars, Move, Refill, convertVars,
        TypeOK, IngestInv
  <2> QED
    BY <2>1, ShareKept
<1>8. RecordInv'
  BY <1>a, <1>b, TasksKept
<1>9. ProgressInv'
  <2>1. ProgressFrame
    BY <1>0 DEF ProgressFrame, PlanKept, Pipelines, queueVars, Move, Refill, convertVars,
        TypeOK, IngestInv
  <2> QED
    BY <2>1, ProgressKept
<1> QED
  BY <1>1, <1>2, <1>3, <1>4, <1>5, <1>6, <1>7, <1>8, <1>9 DEF IngestInv

(* A pool without tasks closes.                                            *)
LEMMA ExhaustedKeeps ==
    ASSUME IngestInv, NEW p \in Pipelines, Exhausted(p), UNCHANGED <<main, convertVars>>
    PROVE  IngestInv'
<1>0. PlanKept /\ Parted
  BY PlanStays, FilesParted DEF Waiting, Pending, Move, Exhausted, convertVars, IngestInv
<1>a. TaskFrame(p)
  BY <1>0 DEF TaskFrame, Queued, PlanKept, Pipelines, queueVars, Waiting, Pending, Move,
      Exhausted, convertVars, Unstarted, Local, AtFile, Early, Late, TypeOK, QueueOf,
      QueueInv, IngestInv
<1>b. QueueOf(p)'
  BY <1>0 DEF PlanKept, Pipelines, queueVars, Waiting, Pending, Move, Exhausted,
      convertVars, Unstarted, Local, AtFile, Early, Late, TypeOK, QueueOf, QueueInv,
      IngestInv
<1>1. TypeOK'
  BY DEF Pipelines, queueVars, Waiting, Pending, Move, Exhausted, convertVars, Unstarted,
      Local, AtFile, Early, Late, TypeOK, IngestInv
<1>2. FlowInv'
  BY <1>0 DEF PlanKept, Pipelines, Tables, Statuses, queueVars, Waiting, Pending, Move,
      Exhausted, NoFile, convertVars, Left, Unstarted, Local, AtFile, Early, Late, TypeOK,
      FlowOf, FlowInv, IngestInv
<1>3. TaskInv'
  BY <1>0 DEF PlanKept, Pipelines, queueVars, Waiting, Pending, Move, Exhausted,
      convertVars, TypeOK, TaskInv, IngestInv
<1>4. QueueInv'
  BY <1>a, <1>b, TasksKept
<1>5. DirectInv'
  BY <1>a, <1>b, TasksKept
<1>6. BusyInv'
  BY <1>0 DEF PlanKept, Pipelines, queueVars, Waiting, Pending, Move, Exhausted,
      convertVars, Unstarted, Local, AtFile, Early, Late, TypeOK, BusyOf, BusyInv,
      IngestInv
<1>7. ShareInv'
  <2>1. ShareFrame
    BY <1>0 DEF ShareFrame, PlanKept, Pipelines, queueVars, Waiting, Pending, Move,
        Exhausted, convertVars, TypeOK, IngestInv
  <2> QED
    BY <2>1, ShareKept
<1>8. RecordInv'
  BY <1>a, <1>b, TasksKept
<1>9. ProgressInv'
  <2>1. ProgressFrame
    BY <1>0 DEF ProgressFrame, PlanKept, Pipelines, queueVars, Waiting, Pending, Move,
        Exhausted, convertVars, TypeOK, IngestInv
  <2> QED
    BY <2>1, ProgressKept
<1> QED
  BY <1>1, <1>2, <1>3, <1>4, <1>5, <1>6, <1>7, <1>8, <1>9 DEF IngestInv

(* A pool closes when its processes have ended.                            *)
LEMMA CloseKeeps ==
    ASSUME IngestInv, NEW p \in Pipelines, Close(p), UNCHANGED <<main, convertVars>>
    PROVE  IngestInv'
<1>0. PlanKept /\ Parted
  BY PlanStays, FilesParted DEF Move, Close, convertVars, IngestInv
<1>a. TaskFrame(p)
  BY <1>0 DEF TaskFrame, Queued, PlanKept, Pipelines, queueVars, Move, Close, convertVars,
      Unstarted, Local, AtFile, Early, Late, TypeOK, QueueOf, QueueInv, IngestInv
<1>b. QueueOf(p)'
  BY <1>0 DEF PlanKept, Pipelines, queueVars, Move, Close, convertVars, Unstarted, Local,
      AtFile, Early, Late, TypeOK, QueueOf, QueueInv, IngestInv
<1>1. TypeOK'
  BY DEF Pipelines, queueVars, Move, Close, convertVars, Unstarted, Local, AtFile, Early,
      Late, TypeOK, IngestInv
<1>2. FlowInv'
  BY <1>0 DEF PlanKept, Pipelines, Tables, Statuses, queueVars, Move, Close, NoFile,
      convertVars, Left, Unstarted, Local, AtFile, Early, Late, TypeOK, FlowOf, FlowInv,
      IngestInv
<1>3. TaskInv'
  BY <1>0 DEF PlanKept, Pipelines, queueVars, Move, Close, convertVars, TypeOK, TaskInv,
      IngestInv
<1>4. QueueInv'
  BY <1>a, <1>b, TasksKept
<1>5. DirectInv'
  BY <1>a, <1>b, TasksKept
<1>6. BusyInv'
  BY <1>0 DEF PlanKept, Pipelines, queueVars, Move, Close, convertVars, TypeOK, BusyOf,
      BusyInv, IngestInv
<1>7. ShareInv'
  <2>1. ShareFrame
    BY <1>0 DEF ShareFrame, PlanKept, Pipelines, queueVars, Move, Close, convertVars,
        TypeOK, IngestInv
  <2> QED
    BY <2>1, ShareKept
<1>8. RecordInv'
  BY <1>a, <1>b, TasksKept
<1>9. ProgressInv'
  <2>1. ProgressFrame
    BY <1>0 DEF ProgressFrame, PlanKept, Pipelines, queueVars, Move, Close, convertVars,
        TypeOK, IngestInv
  <2> QED
    BY <2>1, ProgressKept
<1> QED
  BY <1>1, <1>2, <1>3, <1>4, <1>5, <1>6, <1>7, <1>8, <1>9 DEF IngestInv

(* A broken pool is terminated, process by process.                        *)
LEMMA TerminatedKeeps ==
    ASSUME IngestInv, NEW p \in Pipelines, Terminated(p), UNCHANGED <<main, convertVars>>
    PROVE  IngestInv'
<1>0. PlanKept /\ Parted
  BY PlanStays, FilesParted DEF Terminated, convertVars, IngestInv
<1>a. TaskFrame(p)
  BY <1>0 DEF TaskFrame, Queued, PlanKept, Pipelines, Terminated, convertVars, TypeOK,
      QueueOf, QueueInv, IngestInv
<1>b. QueueOf(p)'
  BY <1>0 DEF PlanKept, Pipelines, Terminated, convertVars, TypeOK, QueueOf, QueueInv,
      IngestInv
<1>1. TypeOK'
  BY DEF Pipelines, Terminated, convertVars, TypeOK, IngestInv
<1>2. FlowInv'
  BY <1>0 DEF PlanKept, Pipelines, Tables, Statuses, Terminated, NoFile, convertVars,
      Left, TypeOK, FlowOf, FlowInv, IngestInv
<1>3. TaskInv'
  BY <1>0 DEF PlanKept, Pipelines, Terminated, convertVars, TypeOK, TaskInv, IngestInv
<1>4. QueueInv'
  BY <1>a, <1>b, TasksKept
<1>5. DirectInv'
  BY <1>a, <1>b, TasksKept
<1>6. BusyInv'
  BY <1>0 DEF PlanKept, Pipelines, Terminated, convertVars, TypeOK, BusyOf, BusyInv,
      IngestInv
<1>7. ShareInv'
  <2>1. ShareFrame
    BY <1>0 DEF ShareFrame, PlanKept, Pipelines, Terminated, convertVars, TypeOK,
        IngestInv
  <2> QED
    BY <2>1, ShareKept
<1>8. RecordInv'
  BY <1>a, <1>b, TasksKept
<1>9. ProgressInv'
  <2>1. ProgressFrame
    BY <1>0 DEF ProgressFrame, PlanKept, Pipelines, Terminated, convertVars, TypeOK,
        IngestInv
  <2> QED
    BY <2>1, ProgressKept
<1> QED
  BY <1>1, <1>2, <1>3, <1>4, <1>5, <1>6, <1>7, <1>8, <1>9 DEF IngestInv

(* A pool that breaks fails every task that has not ended.                 *)
LEMMA PoolBreaksKeeps ==
    ASSUME IngestInv, NEW p \in Pipelines, PoolBreaks(p), UNCHANGED <<main, convertVars>>
    PROVE  IngestInv'
<1>0. PlanKept /\ Parted
  BY PlanStays, FilesParted DEF PoolBreaks, convertVars, IngestInv
<1>a. TaskFrame(p)
  BY <1>0 DEF TaskFrame, Queued, PlanKept, Pipelines, PoolBreaks, convertVars, TypeOK,
      QueueOf, QueueInv, IngestInv
<1>b. QueueOf(p)'
  BY <1>0 DEF PlanKept, Pipelines, PoolBreaks, convertVars, Unstarted, Local, AtFile,
      Early, Late, TypeOK, QueueOf, QueueInv, IngestInv
<1>1. TypeOK'
  BY DEF Pipelines, PoolBreaks, convertVars, TypeOK, IngestInv
<1>2. FlowInv'
  BY <1>0 DEF PlanKept, Pipelines, Tables, Statuses, PoolBreaks, NoFile, convertVars,
      Left, TypeOK, FlowOf, FlowInv, IngestInv
<1>3. TaskInv'
  BY <1>0 DEF PlanKept, Pipelines, PoolBreaks, convertVars, TypeOK, TaskInv, IngestInv
<1>4. QueueInv'
  BY <1>a, <1>b, TasksKept
<1>5. DirectInv'
  BY <1>a, <1>b, TasksKept
<1>6. BusyInv'
  <2>1. PICK dead \in SUBSET (busy \cap args[p]) : busy' = busy \ dead
    BY DEF PoolBreaks
  <2>2. /\ p \in broken' /\ \A q \in Pipelines : q # p => (q \in broken' <=> q \in broken)
        /\ plan' = plan /\ UNCHANGED <<stage, args, current, converter>>
    BY DEF PoolBreaks, convertVars
  <2>3. ASSUME NEW q \in Pipelines, q # p, NEW f \in args[q] PROVE future'[f] = future[f]
    <3>1. f \in Files /\ f \notin args[p]
      BY <2>3, OnePipeline
    <3> QED
      BY <3>1 DEF PoolBreaks
  <2>4. ASSUME ~plan.distributed, NEW q \in Pipelines PROVE BusyOf(q)'
    <3>1. BusyOf(q)
      BY <2>4 DEF IngestInv, BusyInv
    <3> QED
      BY <2>1, <2>2, <2>3, <3>1 DEF BusyOf
  <2> QED
    BY <1>0, <2>1, <2>2, <2>4 DEF PlanKept, IngestInv, BusyInv
<1>7. ShareInv'
  <2>1. ShareFrame
    BY <1>0 DEF ShareFrame, PlanKept, Pipelines, PoolBreaks, convertVars, TypeOK,
        IngestInv
  <2> QED
    BY <2>1, ShareKept
<1>8. RecordInv'
  BY <1>a, <1>b, TasksKept
<1>9. ProgressInv'
  <2>1. ProgressFrame
    BY <1>0 DEF ProgressFrame, PlanKept, Pipelines, PoolBreaks, convertVars, TypeOK,
        IngestInv
  <2> QED
    BY <2>1, ProgressKept
<1> QED
  BY <1>1, <1>2, <1>3, <1>4, <1>5, <1>6, <1>7, <1>8, <1>9 DEF IngestInv

(* A task ends with a result or an error.                                  *)
LEMMA EndTaskKeeps ==
    ASSUME IngestInv, NEW p \in Pipelines, EndTask(p), UNCHANGED <<main, convertVars>>
    PROVE  IngestInv'
<1>0. PlanKept /\ Parted
  BY PlanStays, FilesParted DEF EndTask, convertVars, IngestInv
<1>a. TaskFrame(p)
  BY <1>0 DEF TaskFrame, Queued, PlanKept, Pipelines, EndTask, convertVars, TypeOK,
      QueueOf, QueueInv, IngestInv
<1>b. QueueOf(p)'
  <2>1. PICK f \in args[p] :
          /\ future[f] = "running"
          /\ \/ future' = [future EXCEPT ![f] = "returned"]
             \/ future' = [future EXCEPT ![f] = "raised"]
    BY DEF EndTask
  <2>2. f \in Files
    BY DEF IngestInv, TypeOK
  <2>3. /\ future'[f] \in {"returned", "raised"}
        /\ \A g \in Files : g # f => future'[g] = future[g]
    BY <2>1, <2>2 DEF IngestInv, TypeOK
  <2>4. QueueOf(p) /\ args[p] \subseteq Files
    BY DEF IngestInv, QueueInv, TypeOK
  <2>5. plan' = plan /\ UNCHANGED <<stage, args, completed, broken, raising>>
    BY DEF EndTask
  <2>6. f \notin completed[p]
    BY <2>1, <2>4 DEF QueueOf
  <2> QED
    BY <2>1, <2>3, <2>4, <2>5, <2>6 DEF QueueOf
<1>1. TypeOK'
  <2>1. PICK f \in args[p] :
          /\ \/ future' = [future EXCEPT ![f] = "returned"] /\ \E r \in Parsed : result' = [result EXCEPT ![f] = r]
             \/ future' = [future EXCEPT ![f] = "raised"] /\ UNCHANGED result
          /\ busy' = busy \ {f}
    BY DEF EndTask
  <2>2. f \in Files
    BY OnePipeline
  <2>3. \A r \in Parsed : r \in [status : Statuses \cup {"none"}, records : 0 .. 2]
    BY DEF Parsed, Statuses
  <2>4. result' \in [Files -> [status : Statuses \cup {"none"}, records : 0 .. 2]]
    BY <2>1, <2>2, <2>3 DEF IngestInv, TypeOK
  <2>5. future' \in [Files -> {"none", "queued", "running", "returned", "raised", "handled"}]
    BY <2>1, <2>2 DEF IngestInv, TypeOK
  <2>6. busy' \subseteq Files
    BY <2>1 DEF IngestInv, TypeOK
  <2> QED
    BY <2>4, <2>5, <2>6 DEF EndTask, convertVars, IngestInv, TypeOK
<1>2. FlowInv'
  BY <1>0 DEF PlanKept, Pipelines, Tables, Statuses, Parsed, EndTask, NoFile, convertVars,
      Left, TypeOK, FlowOf, FlowInv, IngestInv
<1>3. TaskInv'
  BY <1>0 DEF PlanKept, Pipelines, EndTask, convertVars, TypeOK, TaskInv, IngestInv
<1>4. QueueInv'
  BY <1>a, <1>b, TasksKept
<1>5. DirectInv'
  BY <1>a, <1>b, TasksKept
<1>6. BusyInv'
  BY <1>0 DEF PlanKept, Pipelines, EndTask, convertVars, TypeOK, BusyOf, BusyInv,
      IngestInv
<1>7. ShareInv'
  <2>1. ShareFrame
    BY <1>0 DEF ShareFrame, PlanKept, Pipelines, EndTask, convertVars, TypeOK, IngestInv
  <2> QED
    BY <2>1, ShareKept
<1>8. RecordInv'
  BY <1>a, <1>b, TasksKept
<1>9. ProgressInv'
  <2>1. ProgressFrame
    BY <1>0 DEF ProgressFrame, PlanKept, Pipelines, EndTask, convertVars, TypeOK,
        IngestInv
  <2> QED
    BY <2>1, ProgressKept
<1> QED
  BY <1>1, <1>2, <1>3, <1>4, <1>5, <1>6, <1>7, <1>8, <1>9 DEF IngestInv

(* A process of the pool takes a task: the pool has no more processes than *)
(* its share.                                                              *)
LEMMA StartTaskKeeps ==
    ASSUME IngestInv, NEW p \in Pipelines, StartTask(p), UNCHANGED <<main, convertVars>>
    PROVE  IngestInv'
<1>0. PlanKept /\ Parted
  BY PlanStays, FilesParted DEF HasWorker, StartTask, convertVars, IngestInv
<1>a. TaskFrame(p)
  BY <1>0 DEF TaskFrame, Queued, PlanKept, Pipelines, HasWorker, StartTask, convertVars,
      TypeOK, QueueOf, QueueInv, IngestInv
<1>b. QueueOf(p)'
  BY <1>0 DEF PlanKept, Pipelines, HasWorker, StartTask, convertVars, TypeOK, QueueOf,
      QueueInv, IngestInv
<1>1. TypeOK'
  BY DEF Pipelines, HasWorker, StartTask, convertVars, TypeOK, IngestInv
<1>2. FlowInv'
  BY <1>0 DEF PlanKept, Pipelines, Tables, Statuses, HasWorker, StartTask, NoFile,
      convertVars, Left, TypeOK, FlowOf, FlowInv, IngestInv
<1>3. TaskInv'
  BY <1>0 DEF PlanKept, Pipelines, HasWorker, StartTask, convertVars, TypeOK, TaskInv,
      IngestInv
<1>4. QueueInv'
  BY <1>a, <1>b, TasksKept
<1>5. DirectInv'
  BY <1>a, <1>b, TasksKept
<1>6. BusyInv'
  BY <1>0 DEF PlanKept, Pipelines, HasWorker, StartTask, convertVars, TypeOK, FlowOf,
      FlowInv, QueueOf, QueueInv, DirectInv, BusyOf, BusyInv, IngestInv
<1>7. ShareInv'
  <2>1. PICK f \in args[p] : future' = [future EXCEPT ![f] = "running"] /\ busy' = busy \cup {f}
    BY DEF StartTask
  <2> QED
    BY <2>1, ShareGrows DEF StartTask, HasWorker
<1>8. RecordInv'
  BY <1>a, <1>b, TasksKept
<1>9. ProgressInv'
  <2>1. ProgressFrame
    BY <1>0 DEF ProgressFrame, PlanKept, Pipelines, HasWorker, StartTask, convertVars,
        TypeOK, IngestInv
  <2> QED
    BY <2>1, ProgressKept
<1> QED
  BY <1>1, <1>2, <1>3, <1>4, <1>5, <1>6, <1>7, <1>8, <1>9 DEF IngestInv

(* One file at a time, in the process of the ingest.                       *)
LEMMA RunInlineKeeps ==
    ASSUME IngestInv, NEW p \in Pipelines, RunInline(p), UNCHANGED <<main, convertVars>>
    PROVE  IngestInv'
<1>0. PlanKept /\ Parted
  BY PlanStays, FilesParted DEF Waiting, RunInline, convertVars, IngestInv
<1>a. TaskFrame(p)
  BY <1>0 DEF TaskFrame, Queued, PlanKept, Pipelines, Waiting, RunInline, convertVars,
      TypeOK, QueueOf, QueueInv, IngestInv
<1>b. QueueOf(p)'
  BY <1>0 DEF PlanKept, Pipelines, Waiting, RunInline, convertVars, Unstarted, Local,
      AtFile, Early, Late, TypeOK, QueueOf, QueueInv, IngestInv
<1>1. TypeOK'
  BY DEF Pipelines, Waiting, RunInline, convertVars, TypeOK, IngestInv
<1>2. FlowInv'
  BY <1>0 DEF PlanKept, Pipelines, Tables, Statuses, Waiting, RunInline, NoFile,
      convertVars, Left, TypeOK, FlowOf, FlowInv, IngestInv
<1>3. TaskInv'
  BY <1>0 DEF PlanKept, Pipelines, Waiting, RunInline, convertVars, TypeOK, TaskInv,
      IngestInv
<1>4. QueueInv'
  BY <1>a, <1>b, TasksKept
<1>5. DirectInv'
  BY <1>a, <1>b, TasksKept
<1>6. BusyInv'
  <2>1. PICK f \in args[p] : future' = [future EXCEPT ![f] = "running"] /\ busy' = busy \cup {f}
    BY DEF RunInline, Waiting
  <2>2. f \in Files /\ f \notin DirectFiles /\ \A q \in Pipelines : q # p => f \notin args[q]
    BY OnePipeline
  <2>3. future'[f] = "running" /\ stage[p] \in Local /\ \A g \in Files : g # f => future'[g] = future[g]
    BY <2>1, <2>2 DEF RunInline, Local, IngestInv, TypeOK
  <2>4. plan' = plan /\ UNCHANGED <<stage, args, broken, current, converter>>
    BY DEF RunInline, convertVars
  <2>5. ASSUME ~plan.distributed, NEW q \in Pipelines PROVE BusyOf(q)'
    <3>1. BusyOf(q) /\ busy \subseteq Files
      BY <2>5 DEF IngestInv, BusyInv, TypeOK
    <3> QED
      BY <2>1, <2>2, <2>3, <2>4, <3>1 DEF BusyOf
  <2>6. ~plan.distributed =>
          /\ busy' \subseteq args["evtx"] \cup args["aux"] \cup DirectFiles
          /\ \A g \in busy' : g \in DirectFiles => g = current /\ stage["aux"] \in {"copying", "replay"}
    BY <2>1, <2>2 DEF Pipelines, IngestInv, BusyInv
  <2> QED
    BY <1>0, <2>4, <2>5, <2>6 DEF PlanKept, IngestInv, BusyInv
<1>7. ShareInv'
  <2>1. PICK f \in args[p] : future' = [future EXCEPT ![f] = "running"] /\ busy' = busy \cup {f}
    BY DEF RunInline, Waiting
  <2>2. busy \cap args[p] = {}
    BY <1>0 DEF RunInline, Parted, IngestInv, TypeOK, FlowInv, FlowOf, Local, BusyInv, BusyOf, QueueInv, QueueOf
  <2>3. workers[p] >= 1
    BY Shares DEF RunInline, IngestInv, FlowInv, FlowOf, Pipelines
  <2>4. Cardinality(busy \cap args[p]) = 0 /\ workers[p] \in Nat
    BY <2>2, FS_EmptySet DEF IngestInv, TypeOK
  <2>5. Cardinality(busy \cap args[p]) < workers[p]
    BY <2>3, <2>4
  <2> QED
    BY <2>1, <2>5, ShareGrows DEF RunInline
<1>8. RecordInv'
  BY <1>a, <1>b, TasksKept
<1>9. ProgressInv'
  <2>1. ProgressFrame
    BY <1>0 DEF ProgressFrame, PlanKept, Pipelines, Waiting, RunInline, convertVars,
        TypeOK, IngestInv
  <2> QED
    BY <2>1, ProgressKept
<1> QED
  BY <1>1, <1>2, <1>3, <1>4, <1>5, <1>6, <1>7, <1>8, <1>9 DEF IngestInv

(* A result is handled when it is there; the first error ends the          *)
(* pipeline.                                                               *)
LEMMA CollectKeeps ==
    ASSUME IngestInv, NEW p \in Pipelines, Collect(p), UNCHANGED <<main, convertVars>>
    PROVE  IngestInv'
<1>0. PlanKept /\ Parted
  BY PlanStays, FilesParted DEF OnResult, Move, Collect, convertVars, IngestInv
<1>a. TaskFrame(p)
  BY <1>0 DEF TaskFrame, Queued, PlanKept, Pipelines, OnResult, Move, Collect,
      convertVars, TypeOK, QueueOf, QueueInv, IngestInv
<1>b. QueueOf(p)'
  BY <1>0 DEF PlanKept, Pipelines, Tables, Statuses, OnResult, Move, Collect, NoFile,
      convertVars, Left, Unstarted, Local, AtFile, Early, Late, TypeOK, FlowOf, FlowInv,
      QueueOf, QueueInv, IngestInv
<1>1. TypeOK'
  <2>1. progress' \in ProgressType
    <3>1. ASSUME NEW f \in args[p], future[f] = "returned" PROVE result[f].status \in Statuses
      BY <3>1, OnePipeline DEF IngestInv, QueueInv, QueueOf, TaskInv, Parsed, Statuses
    <3>2. TypeOK /\ (progress' = progress => progress' \in ProgressType)
      BY DEF IngestInv, TypeOK, ProgressType
    <3> QED
      BY <3>1, <3>2, ReportedType DEF Collect
  <2>2. PICK f \in args[p] :
          /\ future' = [future EXCEPT ![f] = "handled"] \/ future' = future
          /\ completed' = [completed EXCEPT ![p] = @ \ {f}] \/ completed' = completed
          /\ stage' = stage \/ Move(p, "failed") \/ Move(p, "closing")
          /\ raising' = raising \cup {p} \/ raising' = raising
    BY DEF Collect
  <2>3. /\ UNCHANGED <<plan, main, workers, args, busy, broken, result, convertVars>>
        /\ TypeOK /\ f \in Files
    BY OnePipeline DEF Collect, IngestInv, QueueInv, QueueOf
  <2>4. future' \in [Files -> {"none", "queued", "running", "returned", "raised", "handled"}]
    BY <2>2, <2>3 DEF TypeOK
  <2>5. completed' \in [Pipelines -> SUBSET Files]
    BY <2>2, <2>3 DEF TypeOK
  <2>6. stage' \in [Pipelines -> Early \cup Late \cup {"failed"}]
    BY <2>2, <2>3 DEF TypeOK, Move, Early, Local
  <2>7. raising' \subseteq Pipelines
    BY <2>2, <2>3 DEF TypeOK
  <2> QED
    BY <2>1, <2>3, <2>4, <2>5, <2>6, <2>7 DEF ProgressType, convertVars, TypeOK
<1>2. FlowInv'
  BY <1>0 DEF PlanKept, Pipelines, Tables, Statuses, OnResult, Move, Collect, NoFile,
      convertVars, Left, Unstarted, Local, AtFile, Early, Late, TypeOK, FlowOf, FlowInv,
      IngestInv
<1>3. TaskInv'
  BY <1>0 DEF PlanKept, Pipelines, Tables, Statuses, OnResult, NoResult, Parsed, Move,
      Collect, NoFile, convertVars, TypeOK, TaskInv, IngestInv
<1>4. QueueInv'
  BY <1>a, <1>b, TasksKept
<1>5. DirectInv'
  BY <1>a, <1>b, TasksKept
<1>6. BusyInv'
  BY <1>0 DEF PlanKept, Pipelines, OnResult, Move, Collect, convertVars, TypeOK, FlowOf,
      FlowInv, QueueOf, QueueInv, DirectInv, BusyOf, BusyInv, IngestInv
<1>7. ShareInv'
  <2>1. ShareFrame
    BY <1>0 DEF ShareFrame, PlanKept, Pipelines, OnResult, Move, Collect, convertVars,
        TypeOK, IngestInv
  <2> QED
    BY <2>1, ShareKept
<1>8. RecordInv'
  BY <1>a, <1>b, TasksKept
<1>9. ProgressInv'
  <2>1. plan' = plan /\ written' = written /\ result' = result
    BY DEF Collect, convertVars
  <2>2. PICK f \in args[p] :
          \/ /\ future[f] = "returned" /\ future' = [future EXCEPT ![f] = "handled"]
             /\ OnResult(p, result[f].status)
          \/ future[f] = "raised" /\ UNCHANGED <<future, progress>>
    BY DEF Collect
  <2>3. f \in args[p] /\ f \in Kind(p)
    BY OnePipeline DEF IngestInv, QueueInv, QueueOf
  <2>4. stage["evtx"] = "failed" => stage'["evtx"] = "failed"
    BY DEF Collect, Move, Pipelines, IngestInv, TypeOK
  <2>5. CASE future[f] = "returned"
    <3>1. result[f].status \in Statuses
      BY <2>3, <2>5, OnePipeline DEF IngestInv, TaskInv, Parsed, Statuses
    <3> QED
      BY <2>1, <2>2, <2>3, <2>4, <2>5, <3>1, Counted
  <2>6. CASE future[f] = "raised"
    <3>1. ProgressFrame
      BY <2>1, <2>2, <2>4, <2>6 DEF ProgressFrame
    <3> QED
      BY <3>1, ProgressKept
  <2> QED
    BY <2>2, <2>5, <2>6
<1> QED
  BY <1>1, <1>2, <1>3, <1>4, <1>5, <1>6, <1>7, <1>8, <1>9 DEF IngestInv

(* So in a pool, where an error closes the pool first.                     *)
LEMMA HandleKeeps ==
    ASSUME IngestInv, NEW p \in Pipelines, Handle(p), UNCHANGED <<main, convertVars>>
    PROVE  IngestInv'
<1>0. PlanKept /\ Parted
  BY PlanStays, FilesParted DEF OnResult, Move, Handle, convertVars, IngestInv
<1>a. TaskFrame(p)
  BY <1>0 DEF TaskFrame, Queued, PlanKept, Pipelines, OnResult, Move, Handle, convertVars,
      Unstarted, Local, AtFile, Early, Late, TypeOK, QueueOf, QueueInv, IngestInv
<1>b. QueueOf(p)'
  BY <1>0 DEF PlanKept, Pipelines, OnResult, Move, Handle, convertVars, Unstarted, Local,
      AtFile, Early, Late, TypeOK, QueueOf, QueueInv, IngestInv
<1>1. TypeOK'
  <2>1. progress' \in ProgressType
    <3>1. ASSUME NEW f \in completed[p], future[f] = "returned" PROVE result[f].status \in Statuses
      BY <3>1, OnePipeline DEF IngestInv, QueueInv, QueueOf, TaskInv, Parsed, Statuses
    <3>2. TypeOK /\ (progress' = progress => progress' \in ProgressType)
      BY DEF IngestInv, TypeOK, ProgressType
    <3> QED
      BY <3>1, <3>2, ReportedType DEF Handle
  <2>2. PICK f \in completed[p] :
          /\ future' = [future EXCEPT ![f] = "handled"] \/ future' = future
          /\ completed' = [completed EXCEPT ![p] = @ \ {f}] \/ completed' = completed
          /\ stage' = stage \/ Move(p, "failed") \/ Move(p, "closing")
          /\ raising' = raising \cup {p} \/ raising' = raising
    BY DEF Handle
  <2>3. /\ UNCHANGED <<plan, main, workers, args, busy, broken, result, convertVars>>
        /\ TypeOK /\ f \in Files
    BY OnePipeline DEF Handle, IngestInv, QueueInv, QueueOf
  <2>4. future' \in [Files -> {"none", "queued", "running", "returned", "raised", "handled"}]
    BY <2>2, <2>3 DEF TypeOK
  <2>5. completed' \in [Pipelines -> SUBSET Files]
    BY <2>2, <2>3 DEF TypeOK
  <2>6. stage' \in [Pipelines -> Early \cup Late \cup {"failed"}]
    BY <2>2, <2>3 DEF TypeOK, Move, Early, Local
  <2>7. raising' \subseteq Pipelines
    BY <2>2, <2>3 DEF TypeOK
  <2> QED
    BY <2>1, <2>3, <2>4, <2>5, <2>6, <2>7 DEF ProgressType, convertVars, TypeOK
<1>2. FlowInv'
  BY <1>0 DEF PlanKept, Pipelines, Tables, Statuses, OnResult, Move, Handle, NoFile,
      convertVars, Left, Unstarted, Local, AtFile, Early, Late, TypeOK, FlowOf, FlowInv,
      IngestInv
<1>3. TaskInv'
  BY <1>0 DEF PlanKept, Pipelines, Tables, Statuses, OnResult, NoResult, Parsed, Move,
      Handle, NoFile, convertVars, TypeOK, TaskInv, IngestInv
<1>4. QueueInv'
  BY <1>a, <1>b, TasksKept
<1>5. DirectInv'
  BY <1>a, <1>b, TasksKept
<1>6. BusyInv'
  BY <1>0 DEF PlanKept, Pipelines, OnResult, Move, Handle, convertVars, Unstarted, Local,
      AtFile, Early, Late, TypeOK, BusyOf, BusyInv, IngestInv
<1>7. ShareInv'
  <2>1. ShareFrame
    BY <1>0 DEF ShareFrame, PlanKept, Pipelines, OnResult, Move, Handle, convertVars,
        TypeOK, IngestInv
  <2> QED
    BY <2>1, ShareKept
<1>8. RecordInv'
  BY <1>a, <1>b, TasksKept
<1>9. ProgressInv'
  <2>1. plan' = plan /\ written' = written /\ result' = result
    BY DEF Handle, convertVars
  <2>2. PICK f \in completed[p] :
          \/ /\ future[f] = "returned" /\ future' = [future EXCEPT ![f] = "handled"]
             /\ OnResult(p, result[f].status)
          \/ future[f] = "raised" /\ UNCHANGED <<future, progress>>
    BY DEF Handle
  <2>3. f \in args[p] /\ f \in Kind(p)
    BY OnePipeline DEF IngestInv, QueueInv, QueueOf
  <2>4. stage["evtx"] = "failed" => stage'["evtx"] = "failed"
    BY DEF Handle, Move, Pipelines, IngestInv, TypeOK
  <2>5. CASE future[f] = "returned"
    <3>1. result[f].status \in Statuses
      BY <2>3, <2>5, OnePipeline DEF IngestInv, TaskInv, Parsed, Statuses
    <3> QED
      BY <2>1, <2>2, <2>3, <2>4, <2>5, <3>1, Counted
  <2>6. CASE future[f] = "raised"
    <3>1. ProgressFrame
      BY <2>1, <2>2, <2>4, <2>6 DEF ProgressFrame
    <3> QED
      BY <3>1, ProgressKept
  <2> QED
    BY <2>2, <2>5, <2>6
<1> QED
  BY <1>1, <1>2, <1>3, <1>4, <1>5, <1>6, <1>7, <1>8, <1>9 DEF IngestInv

-----------------------------------------------------------------------------
(* Before and after the queue.                                             *)
LEMMA NothingToDoKeeps ==
    ASSUME IngestInv, NEW p \in Pipelines, NothingToDo(p)
    PROVE  IngestInv'
<1>0. PlanKept /\ Parted
  BY PlanStays, FilesParted DEF Move, convertVars, NothingToDo, IngestInv
<1>c. /\ Kind(p) = {} /\ QueuedFiles(p) = {}
      /\ p = "aux" => DirectFiles = {} /\ Found(Unknown) = {}
  BY <1>0 DEF NothingToDo, Kind, Parted, Pipelines
<1>1. TypeOK'
  BY <1>c DEF Pipelines, queueVars, Move, convertVars, NothingToDo, Unstarted, Local,
      AtFile, Early, Late, TypeOK, IngestInv
<1>2. FlowInv'
  <2>1. /\ \A q \in Pipelines : q # p => stage'[q] = stage[q]
        /\ stage[p] = "begun" /\ stage'[p] = "done"
        /\ plan' = plan /\ UNCHANGED <<main, workers, args>>
    BY DEF NothingToDo, Move, queueVars, IngestInv, TypeOK
  <2>2. ~Left /\ Left' = Left /\ main # "scanned"
    BY <2>1 DEF IngestInv, FlowInv, Left, Pipelines
  <2>3. \A q \in Pipelines : FlowOf(q)'
    BY <1>0, <1>c, <2>1 DEF IngestInv, FlowInv, FlowOf, PlanKept, Local
  <2> QED
    BY <1>0, <2>1, <2>2, <2>3 DEF IngestInv, FlowInv, PlanKept, Left, AtFile, Pipelines
<1>3. TaskInv'
  BY <1>0, <1>c DEF PlanKept, Pipelines, queueVars, Move, convertVars, NothingToDo,
      TypeOK, TaskInv, IngestInv
<1>4. QueueInv'
  <2> SUFFICES ASSUME NEW q \in Pipelines PROVE QueueOf(q)'
    BY DEF QueueInv
  <2> QED
    BY <1>0, <1>c DEF PlanKept, Pipelines, queueVars, Move, convertVars, NothingToDo,
        Unstarted, Local, AtFile, Early, Late, TypeOK, FlowOf, FlowInv, QueueOf, QueueInv,
        IngestInv
<1>5. DirectInv'
  BY <1>0, <1>c DEF PlanKept, Pipelines, queueVars, Move, convertVars, NothingToDo,
      Unstarted, Local, AtFile, Early, Late, TypeOK, DirectInv, IngestInv
<1>6. BusyInv'
  BY <1>0, <1>c DEF PlanKept, Pipelines, queueVars, Move, convertVars, NothingToDo,
      Unstarted, Local, AtFile, Early, Late, TypeOK, BusyOf, BusyInv, IngestInv
<1>7. ShareInv'
  <2>1. ShareFrame
    BY <1>0, <1>c DEF ShareFrame, PlanKept, Pipelines, queueVars, Move, convertVars,
        NothingToDo, TypeOK, IngestInv
  <2> QED
    BY <2>1, ShareKept
<1>8. RecordInv'
  <2>1. /\ \A q \in Pipelines : q # p => stage'[q] = stage[q]
        /\ stage[p] = "begun" /\ stage'[p] = "done"
        /\ plan' = plan /\ UNCHANGED <<args, left, batch, written, result, future, current>>
    BY DEF NothingToDo, Move, queueVars, convertVars, IngestInv, TypeOK
  <2>2. \A f : TableOf(f)' = TableOf(f)
    BY DEF TableOf
  <2>3. ASSUME NEW q \in Pipelines PROVE RecordsOf(q)'
    <3>1. RecordsOf(q)
      BY DEF IngestInv, RecordInv
    <3> QED
      BY <1>0, <1>c, <2>1, <2>2, <3>1 DEF PlanKept, RecordsOf, Early, Unstarted
  <2>4. \A f \in Kind("aux") : stage'["aux"] = stage["aux"] => Underway(f)' = Underway(f)
    BY <2>1 DEF Underway
  <2>5. \A q \in Pipelines : stage'[q] = stage[q] \/ stage'[q] = "done"
    BY <2>1
  <2> QED
    BY <1>0, <2>1, <2>3, <2>4, <2>5 DEF IngestInv, PlanKept, RecordInv, Of, Pipelines
<1>9. ProgressInv'
  <2>1. ProgressFrame
    BY <1>0, <1>c DEF ProgressFrame, PlanKept, Pipelines, queueVars, Move, convertVars,
        NothingToDo, TypeOK, IngestInv
  <2> QED
    BY <2>1, ProgressKept
<1> QED
  BY <1>1, <1>2, <1>3, <1>4, <1>5, <1>6, <1>7, <1>8, <1>9 DEF IngestInv

(* A pipeline hands its files to its queue.                                *)
LEMMA StartStagingKeeps ==
    ASSUME IngestInv, NEW p \in Pipelines, StartStaging(p)
    PROVE  IngestInv'
<1>0. PlanKept /\ Parted
  BY PlanStays, FilesParted DEF PhaseOrder, Rank, SetPhase, Move, convertVars,
      StartStaging, IngestInv
<1>c. /\ stage[p] = "begun" /\ args[p] = {}
      /\ \A f \in QueuedFiles(p) : future[f] = "none" /\ (~plan.distributed => f \notin busy)
  <2>1. stage[p] = "begun" /\ args[p] = {} /\ \A q \in Pipelines : args[q] \subseteq QueuedFiles(q)
    BY DEF StartStaging, IngestInv, FlowInv, FlowOf
  <2>2. ASSUME NEW f \in QueuedFiles(p)
        PROVE  /\ f \in Files /\ f \notin DirectFiles /\ f \notin Found(Unknown)
               /\ f \notin args["evtx"] /\ f \notin args["aux"]
    BY <1>0, <2>1 DEF Parted
  <2> QED
    BY <2>1, <2>2 DEF IngestInv, TaskInv, BusyInv
<1>1. TypeOK'
  <2>1. progress' \in ProgressType
    BY PhaseType DEF StartStaging, IngestInv
  <2>2. QueuedFiles(p) \in SUBSET Files
    BY <1>0 DEF Parted
  <2>3. args' \in [Pipelines -> SUBSET Files]
    BY <2>2 DEF StartStaging, IngestInv, TypeOK
  <2> QED
    BY <2>1, <2>3 DEF StartStaging, IngestInv, TypeOK, ProgressType, Move, convertVars, Early, Unstarted
<1>2. FlowInv'
  BY <1>0, <1>c DEF PlanKept, Pipelines, Tables, Statuses, PhaseOrder, Rank, SetPhase,
      Move, NoFile, convertVars, StartStaging, Left, Unstarted, Local, AtFile, Early,
      Late, TypeOK, FlowOf, FlowInv, IngestInv
<1>3. TaskInv'
  BY <1>0, <1>c DEF PlanKept, Pipelines, PhaseOrder, Rank, SetPhase, Move, convertVars,
      StartStaging, TypeOK, TaskInv, IngestInv
<1>4. QueueInv'
  <2>1. /\ \A q \in Pipelines : q # p => stage'[q] = stage[q] /\ args'[q] = args[q]
        /\ stage'[p] \in {"submit", "unknown"} /\ args'[p] = QueuedFiles(p)
        /\ plan' = plan /\ UNCHANGED <<main, workers, future, busy, completed, broken, raising, converter, current>>
    BY DEF StartStaging, Move, convertVars, IngestInv, TypeOK
  <2>2. ASSUME NEW q \in Pipelines PROVE QueueOf(q)'
    <3>1. QueueOf(q)
      BY DEF IngestInv, QueueInv
    <3>2. CASE q = p
      BY <1>0, <1>c, <2>1, <3>1, <3>2 DEF QueueOf, PlanKept, Unstarted, Local, AtFile, Late
    <3>3. CASE q # p
      BY <1>0, <2>1, <3>1, <3>3 DEF QueueOf, PlanKept
    <3> QED
      BY <3>2, <3>3
  <2> QED
    BY <2>2 DEF QueueInv
<1>5. DirectInv'
  BY <1>0, <1>c DEF PlanKept, Pipelines, PhaseOrder, Rank, SetPhase, Move, convertVars,
      StartStaging, Unstarted, Local, AtFile, Early, Late, TypeOK, DirectInv, IngestInv
<1>6. BusyInv'
  <2>1. /\ \A q \in Pipelines : q # p => stage'[q] = stage[q] /\ args'[q] = args[q]
        /\ stage'[p] \in {"submit", "unknown"} /\ args'[p] = QueuedFiles(p)
        /\ plan' = plan /\ UNCHANGED <<main, workers, future, busy, completed, broken, raising, converter, current>>
    BY DEF StartStaging, Move, convertVars, IngestInv, TypeOK
  <2>2. ASSUME ~plan.distributed, NEW q \in Pipelines PROVE BusyOf(q)'
    <3>1. BusyOf(q)
      BY <2>2 DEF IngestInv, BusyInv
    <3> QED
      BY <1>c, <2>1, <2>2, <3>1 DEF BusyOf
  <2>3. ~plan.distributed =>
          /\ busy' \subseteq args'["evtx"] \cup args'["aux"] \cup DirectFiles'
          /\ \A g \in busy' : g \in DirectFiles' => g = current' /\ stage'["aux"] \in {"copying", "replay"}
    BY <1>0, <1>c, <2>1 DEF PlanKept, Pipelines, IngestInv, BusyInv
  <2>4. \A q \in Pipelines : converter = q => q # p
    BY <1>c DEF IngestInv, BusyInv
  <2> QED
    BY <1>0, <2>1, <2>2, <2>3, <2>4 DEF PlanKept, IngestInv, BusyInv
<1>7. ShareInv'
  <2>1. /\ \A q \in Pipelines : q # p => stage'[q] = stage[q] /\ args'[q] = args[q]
        /\ stage'[p] \in {"submit", "unknown"} /\ args'[p] = QueuedFiles(p)
        /\ plan' = plan /\ UNCHANGED <<main, workers, future, busy, completed, broken, raising, converter, current>>
    BY DEF StartStaging, Move, convertVars, IngestInv, TypeOK
  <2> SUFFICES ASSUME ~plan.distributed, NEW q \in Pipelines
               PROVE  Cardinality(busy' \cap args'[q]) <= workers'[q]
    BY <2>1 DEF ShareInv
  <2>2. CASE q # p
    BY <2>1, <2>2 DEF IngestInv, ShareInv
  <2>3. CASE q = p
    <3>1. busy' \cap args'[q] = {}
      BY <1>c, <2>1, <2>3
    <3>2. Cardinality(busy' \cap args'[q]) = 0 /\ workers'[q] \in Nat
      BY <2>1, <3>1, FS_EmptySet DEF IngestInv, TypeOK
    <3> QED
      BY <3>2
  <2> QED
    BY <2>2, <2>3
<1>8. RecordInv'
  <2>1. RecordFrame
    BY <1>0, <1>c DEF RecordFrame, PlanKept, Pipelines, PhaseOrder, Rank, SetPhase, Move,
        convertVars, StartStaging, Unstarted, Local, AtFile, Early, Late, TypeOK, QueueOf,
        QueueInv, IngestInv
  <2> QED
    BY <2>1, RecordsKept
<1>9. ProgressInv'
  <2>1. ProgressFrame
    BY <1>0, <1>c DEF ProgressFrame, PlanKept, Pipelines, PhaseOrder, Rank, SetPhase,
        Move, convertVars, StartStaging, TypeOK, IngestInv
  <2> QED
    BY <2>1, ProgressKept
<1> QED
  BY <1>1, <1>2, <1>3, <1>4, <1>5, <1>6, <1>7, <1>8, <1>9 DEF IngestInv

(* What was staged is left for the conversion.                             *)
LEMMA StartFlatteningKeeps ==
    ASSUME IngestInv, NEW p \in Pipelines, StartFlattening(p)
    PROVE  IngestInv'
<1>0. PlanKept /\ Parted
  BY PlanStays, FilesParted DEF PhaseOrder, Rank, SetPhase, Move, StagedRecords,
      StartFlattening, IngestInv
<1>c. /\ stage[p] = "staged" /\ stage'[p] = "flattening"
      /\ left'[p] = StagedRecords(p)
      /\ \A q \in Pipelines : q # p => stage'[q] = stage[q] /\ left'[q] = left[q]
      /\ plan' = plan /\ UNCHANGED <<args, batch, written, result, future, current>>
  BY DEF StartFlattening, Move, queueVars, IngestInv, TypeOK, Pipelines
<1>1. TypeOK'
  <2>1. progress' \in ProgressType
    BY PhaseType DEF StartFlattening, IngestInv
  <2>2. StagedRecords(p) \in SUBSET (Files \X (1 .. 2))
    BY StagedOf DEF Pipelines
  <2>3. left' \in [Pipelines -> SUBSET (Files \X (1 .. 2))]
    BY <2>2 DEF StartFlattening, IngestInv, TypeOK
  <2> QED
    BY <2>1, <2>3 DEF StartFlattening, IngestInv, TypeOK, ProgressType, Move, queueVars, Late
<1>2. FlowInv'
  BY <1>0, <1>c DEF PlanKept, Pipelines, Tables, Statuses, PhaseOrder, Rank, SetPhase,
      Move, NoFile, StagedRecords, StartFlattening, Left, Unstarted, Local, AtFile, Early,
      Late, TypeOK, FlowOf, FlowInv, IngestInv
<1>3. TaskInv'
  BY <1>0, <1>c DEF PlanKept, Pipelines, PhaseOrder, Rank, SetPhase, Move, StagedRecords,
      StartFlattening, TypeOK, TaskInv, IngestInv
<1>4. QueueInv'
  <2> SUFFICES ASSUME NEW q \in Pipelines PROVE QueueOf(q)'
    BY DEF QueueInv
  <2> QED
    BY <1>0, <1>c DEF PlanKept, Pipelines, PhaseOrder, Rank, SetPhase, queueVars, Move,
        StagedRecords, StartFlattening, Unstarted, Local, AtFile, Early, Late, TypeOK,
        QueueOf, QueueInv, IngestInv
<1>5. DirectInv'
  BY <1>0, <1>c DEF PlanKept, Pipelines, PhaseOrder, Rank, SetPhase, Move, StagedRecords,
      StartFlattening, Unstarted, Local, AtFile, Early, Late, TypeOK, DirectInv, IngestInv
<1>6. BusyInv'
  BY <1>0, <1>c DEF PlanKept, Pipelines, PhaseOrder, Rank, SetPhase, queueVars, Move,
      StagedRecords, StartFlattening, Unstarted, Local, AtFile, Early, Late, TypeOK,
      BusyOf, BusyInv, IngestInv
<1>7. ShareInv'
  <2>1. ShareFrame
    BY <1>0, <1>c DEF ShareFrame, PlanKept, Pipelines, PhaseOrder, Rank, SetPhase,
        queueVars, Move, StagedRecords, StartFlattening, TypeOK, IngestInv
  <2> QED
    BY <2>1, ShareKept
<1>8. RecordInv'
  BY <1>c, ConversionsBegin DEF Pipelines
<1>9. ProgressInv'
  <2>1. ProgressFrame
    BY <1>0, <1>c DEF ProgressFrame, PlanKept, Pipelines, PhaseOrder, Rank, SetPhase,
        Move, StagedRecords, StartFlattening, TypeOK, IngestInv
  <2> QED
    BY <2>1, ProgressKept
<1> QED
  BY <1>1, <1>2, <1>3, <1>4, <1>5, <1>6, <1>7, <1>8, <1>9 DEF IngestInv

-----------------------------------------------------------------------------
(* Direct conversion.                                                      *)
LEMMA StartDirectKeeps ==
    ASSUME IngestInv, StartDirect
    PROVE  IngestInv'
<1>0. PlanKept /\ Parted
  BY PlanStays, FilesParted DEF PhaseOrder, Rank, SetPhase, Move, StagedRecords,
      StartDirect, IngestInv
<1>c. /\ stage["aux"] = "staged" /\ stage'["aux"] = "direct"
      /\ left'["aux"] = StagedRecords("aux")
      /\ \A q \in Pipelines : q # "aux" => stage'[q] = stage[q] /\ left'[q] = left[q]
      /\ plan' = plan /\ UNCHANGED <<args, batch, written, result, future, current>>
  BY DEF StartDirect, Move, queueVars, IngestInv, TypeOK, Pipelines
<1>1. TypeOK'
  <2>1. progress' \in ProgressType
    BY PhaseType DEF StartDirect, IngestInv
  <2>2. StagedRecords("aux") \in SUBSET (Files \X (1 .. 2))
    BY StagedOf DEF Pipelines
  <2>3. left' \in [Pipelines -> SUBSET (Files \X (1 .. 2))]
    BY <2>2 DEF StartDirect, IngestInv, TypeOK
  <2> QED
    BY <2>1, <2>3 DEF StartDirect, IngestInv, TypeOK, ProgressType, Move, queueVars, Late
<1>2. FlowInv'
  BY <1>0, <1>c DEF PlanKept, Pipelines, Tables, Statuses, PhaseOrder, Rank, SetPhase,
      Move, NoFile, StagedRecords, StartDirect, Left, Unstarted, Local, AtFile, Early,
      Late, TypeOK, FlowOf, FlowInv, IngestInv
<1>3. TaskInv'
  BY <1>0, <1>c DEF PlanKept, Pipelines, PhaseOrder, Rank, SetPhase, Move, StagedRecords,
      StartDirect, TypeOK, TaskInv, IngestInv
<1>4. QueueInv'
  <2> SUFFICES ASSUME NEW q \in Pipelines PROVE QueueOf(q)'
    BY DEF QueueInv
  <2> QED
    BY <1>0, <1>c DEF PlanKept, Pipelines, PhaseOrder, Rank, SetPhase, queueVars, Move,
        StagedRecords, StartDirect, Unstarted, Local, AtFile, Early, Late, TypeOK,
        QueueOf, QueueInv, IngestInv
<1>5. DirectInv'
  BY <1>0, <1>c DEF PlanKept, Pipelines, PhaseOrder, Rank, SetPhase, Move, StagedRecords,
      StartDirect, Unstarted, Local, AtFile, Early, Late, TypeOK, DirectInv, IngestInv
<1>6. BusyInv'
  <2>1. UNCHANGED <<busy, broken, converter>>
    BY DEF StartDirect, queueVars
  <2>2. \A q \in Pipelines : BusyOf(q) => BusyOf(q)'
    BY <1>c, <2>1 DEF BusyOf, Pipelines, Local
  <2>3. \A q \in Pipelines : converter = q =>
          stage'[q] = "converting" \/ (q = "aux" /\ stage'[q] = "copying")
    BY <1>c DEF IngestInv, BusyInv
  <2> QED
    BY <1>0, <1>c, <2>1, <2>2, <2>3 DEF PlanKept, IngestInv, BusyInv
<1>7. ShareInv'
  <2>1. ShareFrame
    BY <1>0, <1>c DEF ShareFrame, PlanKept, Pipelines, PhaseOrder, Rank, SetPhase,
        queueVars, Move, StagedRecords, StartDirect, TypeOK, IngestInv
  <2> QED
    BY <2>1, ShareKept
<1>8. RecordInv'
  BY <1>c, ConversionsBegin DEF Pipelines
<1>9. ProgressInv'
  <2>1. ProgressFrame
    BY <1>0, <1>c DEF ProgressFrame, PlanKept, Pipelines, PhaseOrder, Rank, SetPhase,
        Move, StagedRecords, StartDirect, TypeOK, IngestInv
  <2> QED
    BY <2>1, ProgressKept
<1> QED
  BY <1>1, <1>2, <1>3, <1>4, <1>5, <1>6, <1>7, <1>8, <1>9 DEF IngestInv

(* A file that cannot be read is reported as failed.                       *)
LEMMA DirectUnreadableKeeps ==
    ASSUME IngestInv, NEW f \in Web, DirectUnreadable(f)
    PROVE  IngestInv'
<1>0. PlanKept /\ Parted
  BY PlanStays, FilesParted DEF Move, NextDirect, DirectUnreadable, IngestInv
<1>c. /\ f \in DirectFiles /\ f \in Files /\ f \in Kind("aux") /\ f # NoFile
      /\ f \notin args["evtx"] /\ f \notin args["aux"] /\ stage["aux"] = "direct" /\ f \in Web /\ future[f] = "none"
  <2>1. f \in DirectFiles /\ stage["aux"] = "direct"
    BY DEF DirectUnreadable, NextDirect, IngestInv, DirectInv, AtFile
  <2>2. \A p \in Pipelines : args[p] \subseteq QueuedFiles(p)
    BY DEF IngestInv, FlowInv, FlowOf
  <2> QED
    BY <1>0, <2>1, <2>2, PipelineAssumption DEF Parted, DirectUnreadable, NextDirect
<1>d. DirectFrame
  BY <1>0, <1>c DEF DirectFrame, PlanKept, Pipelines, Move, NextDirect, DirectUnreadable,
      Unstarted, Local, AtFile, Early, Late, TypeOK, QueueOf, QueueInv, IngestInv
<1>1. TypeOK'
  <2>1. future' \in [Files -> {"none", "queued", "running", "returned", "raised", "handled"}]
    BY <1>c DEF DirectUnreadable, NextDirect, IngestInv, TypeOK
  <2>2. stage' \in [Pipelines -> Early \cup Late \cup {"failed"}]
    BY DEF DirectUnreadable, NextDirect, Move, IngestInv, TypeOK, Late, AtFile
  <2>3. result' \in [Files -> [status : Statuses \cup {"none"}, records : 0 .. 2]]
    <3>1. "failed" \in Statuses
      BY DEF Statuses
    <3>2. [result[f] EXCEPT !.status = "failed"] \in [status : Statuses \cup {"none"}, records : 0 .. 2]
      BY <1>c, <3>1 DEF IngestInv, TypeOK
    <3>3. result' = [result EXCEPT ![f] = [result[f] EXCEPT !.status = "failed"]]
      BY DEF DirectUnreadable
    <3> QED
      BY <1>c, <3>2, <3>3 DEF IngestInv, TypeOK
  <2>4. current' \in Files \cup {NoFile}
    BY <1>c DEF DirectUnreadable, NextDirect
  <2> QED
    BY <2>1, <2>2, <2>3, <2>4 DEF DirectUnreadable, NextDirect, IngestInv, TypeOK
<1>2. FlowInv'
  BY <1>0, <1>c DEF PlanKept, Pipelines, Tables, Statuses, Move, NoFile, NextDirect,
      DirectUnreadable, Left, Unstarted, Local, AtFile, Early, Late, TypeOK, FlowOf,
      FlowInv, IngestInv
<1>3. TaskInv'
  BY <1>0, <1>c DEF PlanKept, Pipelines, Move, NextDirect, DirectUnreadable, TypeOK,
      TaskInv, IngestInv
<1>4. QueueInv'
  BY <1>d, QueuesKept
<1>5. DirectInv'
  BY <1>0, <1>c DEF PlanKept, Pipelines, Tables, Statuses, Move, NoFile, NextDirect,
      DirectUnreadable, Unstarted, Local, AtFile, Early, Late, TypeOK, DirectInv,
      IngestInv
<1>6. BusyInv'
  BY <1>0, <1>c DEF PlanKept, Pipelines, Move, NextDirect, DirectUnreadable, Unstarted,
      Local, AtFile, Early, Late, TypeOK, BusyOf, BusyInv, IngestInv
<1>7. ShareInv'
  BY <1>d, QueuesKept
<1>8. RecordInv'
  <2>1. /\ left["aux"] \subseteq left'["aux"]
        /\ \A x \in left'["aux"] : x \in left["aux"] \/ (x[1] = f /\ f \in DirectFiles)
    BY <1>c DEF DirectUnreadable, NextDirect, queueVars, IngestInv, TypeOK, Pipelines
  <2>2. \A g \in Kind("aux") : g # f =>
          /\ Underway(g)' <=> Underway(g)
          /\ written'[g] = written[g] /\ result'[g] = result[g]
    BY <1>0, <1>c DEF DirectUnreadable, NextDirect, Move, queueVars, Underway, Parted, IngestInv, TypeOK, Pipelines
  <2>3. stage'["aux"] # "failed" =>
          IF Underway(f)' THEN written'[f] = 0 /\ Of(f, left'["aux"]) = {}
          ELSE written'[f] + Cardinality(Of(f, left'["aux"])) <= result'[f].records
    <3>1. Underway(f) => written[f] = 0 /\ Of(f, left["aux"]) = {}
      BY <1>c DEF IngestInv, RecordInv, Late, AtFile
    <3>2. /\ Underway(f) /\ left' = left /\ written'[f] = written[f] /\ result'[f].records \in Nat
      BY <1>c, <1>1 DEF DirectUnreadable, NextDirect, Underway, IngestInv, TypeOK
    <3>3. Cardinality({}) = 0 /\ Of(f, left'["aux"]) = {}
      BY <3>1, <3>2, FS_EmptySet
    <3> QED
      BY <3>1, <3>2, <3>3
  <2>4. stage'["aux"] \in {"direct", "flattening", "failed"} \cup AtFile /\ stage["aux"] \in {"direct"} \cup AtFile
    BY <1>c DEF DirectUnreadable, NextDirect, Move, AtFile, IngestInv, TypeOK, Pipelines
  <2> QED
    BY <1>d, <1>c, <2>1, <2>2, <2>3, <2>4, OneFileConverted
<1>9. ProgressInv'
  <2>1. ProgressFrame
    BY <1>0, <1>c DEF ProgressFrame, PlanKept, Pipelines, Move, NextDirect,
        DirectUnreadable, TypeOK, IngestInv
  <2> QED
    BY <2>1, ProgressKept
<1> QED
  BY <1>1, <1>2, <1>3, <1>4, <1>5, <1>6, <1>7, <1>8, <1>9 DEF IngestInv

(* A file without a native parser is replayed.                             *)
LEMMA DirectDeclinedKeeps ==
    ASSUME IngestInv, NEW f \in Web, DirectDeclined(f)
    PROVE  IngestInv'
<1>0. PlanKept /\ Parted
  BY PlanStays, FilesParted DEF Move, NextDirect, DirectDeclined, IngestInv
<1>c. /\ f \in DirectFiles /\ f \in Files /\ f \in Kind("aux") /\ f # NoFile
      /\ f \notin args["evtx"] /\ f \notin args["aux"] /\ stage["aux"] = "direct" /\ f \in Web /\ future[f] = "none"
  <2>1. f \in DirectFiles /\ stage["aux"] = "direct"
    BY DEF DirectDeclined, NextDirect, IngestInv, DirectInv, AtFile
  <2>2. \A p \in Pipelines : args[p] \subseteq QueuedFiles(p)
    BY DEF IngestInv, FlowInv, FlowOf
  <2> QED
    BY <1>0, <2>1, <2>2, PipelineAssumption DEF Parted, DirectDeclined, NextDirect
<1>d. DirectFrame
  BY <1>0, <1>c DEF DirectFrame, PlanKept, Pipelines, Move, NextDirect, DirectDeclined,
      Unstarted, Local, AtFile, Early, Late, TypeOK, QueueOf, QueueInv, IngestInv
<1>1. TypeOK'
  BY <1>c DEF Pipelines, Move, NextDirect, DirectDeclined, Unstarted, Local, AtFile,
      Early, Late, TypeOK, IngestInv
<1>2. FlowInv'
  BY <1>0, <1>c DEF PlanKept, Pipelines, Tables, Statuses, Move, NoFile, NextDirect,
      DirectDeclined, Left, Unstarted, Local, AtFile, Early, Late, TypeOK, FlowOf,
      FlowInv, IngestInv
<1>3. TaskInv'
  BY <1>0, <1>c DEF PlanKept, Pipelines, Move, NextDirect, DirectDeclined, TypeOK,
      TaskInv, IngestInv
<1>4. QueueInv'
  BY <1>d, QueuesKept
<1>5. DirectInv'
  BY <1>0, <1>c DEF PlanKept, Pipelines, Move, NextDirect, DirectDeclined, Unstarted,
      Local, AtFile, Early, Late, TypeOK, DirectInv, IngestInv
<1>6. BusyInv'
  BY <1>0, <1>c DEF PlanKept, Pipelines, Move, NextDirect, DirectDeclined, Unstarted,
      Local, AtFile, Early, Late, TypeOK, BusyOf, BusyInv, IngestInv
<1>7. ShareInv'
  BY <1>d, QueuesKept
<1>8. RecordInv'
  <2>1. /\ left["aux"] \subseteq left'["aux"]
        /\ \A x \in left'["aux"] : x \in left["aux"] \/ (x[1] = f /\ f \in DirectFiles)
    BY <1>c DEF DirectDeclined, NextDirect, queueVars, IngestInv, TypeOK, Pipelines
  <2>2. \A g \in Kind("aux") : g # f =>
          /\ Underway(g)' <=> Underway(g)
          /\ written'[g] = written[g] /\ result'[g] = result[g]
    BY <1>0, <1>c DEF DirectDeclined, NextDirect, Move, queueVars, Underway, Parted, IngestInv, TypeOK, Pipelines
  <2>3. stage'["aux"] # "failed" =>
          IF Underway(f)' THEN written'[f] = 0 /\ Of(f, left'["aux"]) = {}
          ELSE written'[f] + Cardinality(Of(f, left'["aux"])) <= result'[f].records
    <3>1. Underway(f) => written[f] = 0 /\ Of(f, left["aux"]) = {}
      BY <1>c DEF IngestInv, RecordInv, Late, AtFile
    <3>2. /\ Underway(f) /\ left' = left /\ written'[f] = written[f] /\ result'[f].records \in Nat
      BY <1>c, <1>1 DEF DirectDeclined, NextDirect, Underway, IngestInv, TypeOK
    <3>3. Cardinality({}) = 0 /\ Of(f, left'["aux"]) = {}
      BY <3>1, <3>2, FS_EmptySet
    <3> QED
      BY <3>1, <3>2, <3>3
  <2>4. stage'["aux"] \in {"direct", "flattening", "failed"} \cup AtFile /\ stage["aux"] \in {"direct"} \cup AtFile
    BY <1>c DEF DirectDeclined, NextDirect, Move, AtFile, IngestInv, TypeOK, Pipelines
  <2> QED
    BY <1>d, <1>c, <2>1, <2>2, <2>3, <2>4, OneFileConverted
<1>9. ProgressInv'
  <2>1. ProgressFrame
    BY <1>0, <1>c DEF ProgressFrame, PlanKept, Pipelines, Move, NextDirect,
        DirectDeclined, TypeOK, IngestInv
  <2> QED
    BY <2>1, ProgressKept
<1> QED
  BY <1>1, <1>2, <1>3, <1>4, <1>5, <1>6, <1>7, <1>8, <1>9 DEF IngestInv

(* The next file is opened under the lock of conversions.                  *)
LEMMA DirectOpenKeeps ==
    ASSUME IngestInv, NEW f \in Web, DirectOpen(f)
    PROVE  IngestInv'
<1>0. PlanKept /\ Parted
  BY PlanStays, FilesParted DEF Move, NextDirect, DirectOpen, IngestInv
<1>c. /\ f \in DirectFiles /\ f \in Files /\ f \in Kind("aux") /\ f # NoFile
      /\ f \notin args["evtx"] /\ f \notin args["aux"] /\ stage["aux"] = "direct" /\ f \in Web /\ future[f] = "none"
  <2>1. f \in DirectFiles /\ stage["aux"] = "direct"
    BY DEF DirectOpen, NextDirect, IngestInv, DirectInv, AtFile
  <2>2. \A p \in Pipelines : args[p] \subseteq QueuedFiles(p)
    BY DEF IngestInv, FlowInv, FlowOf
  <2> QED
    BY <1>0, <2>1, <2>2, PipelineAssumption DEF Parted, DirectOpen, NextDirect
<1>d. DirectFrame
  BY <1>0, <1>c DEF DirectFrame, PlanKept, Pipelines, Move, NextDirect, DirectOpen,
      Unstarted, Local, AtFile, Early, Late, TypeOK, QueueOf, QueueInv, IngestInv
<1>1. TypeOK'
  BY <1>c DEF Pipelines, Move, NextDirect, DirectOpen, Unstarted, Local, AtFile, Early,
      Late, TypeOK, IngestInv
<1>2. FlowInv'
  BY <1>0, <1>c DEF PlanKept, Pipelines, Tables, Statuses, Move, NoFile, NextDirect,
      DirectOpen, Left, Unstarted, Local, AtFile, Early, Late, TypeOK, FlowOf, FlowInv,
      IngestInv
<1>3. TaskInv'
  BY <1>0, <1>c DEF PlanKept, Pipelines, Move, NextDirect, DirectOpen, TypeOK, TaskInv,
      IngestInv
<1>4. QueueInv'
  BY <1>d, QueuesKept
<1>5. DirectInv'
  BY <1>0, <1>c DEF PlanKept, Pipelines, Move, NextDirect, DirectOpen, Unstarted, Local,
      AtFile, Early, Late, TypeOK, DirectInv, IngestInv
<1>6. BusyInv'
  <2>1. /\ busy' = busy \cup {f} /\ converter = "nobody" /\ converter' = "aux" /\ current' = f
        /\ stage'["aux"] = "copying" /\ stage'["evtx"] = stage["evtx"]
        /\ plan' = plan /\ UNCHANGED <<args, broken>>
        /\ \A g \in Files : g # f => future'[g] = future[g]
    BY <1>c DEF DirectOpen, NextDirect, Move, IngestInv, TypeOK, Pipelines
  <2>2. ASSUME ~plan.distributed PROVE \A q \in Pipelines : BusyOf(q)'
    <3>1. \A q \in Pipelines : BusyOf(q)
      BY <2>2 DEF IngestInv, BusyInv
    <3>2. BusyOf("evtx")'
      BY <1>c, <2>1, <3>1 DEF BusyOf, Pipelines, IngestInv, TypeOK
    <3>3. busy \cap args["aux"] = {}
      BY <1>c, <3>1 DEF BusyOf, Pipelines, Local
    <3>4. BusyOf("aux")'
      BY <1>c, <2>1, <3>3 DEF BusyOf
    <3> QED
      BY <3>2, <3>4 DEF Pipelines
  <2>3. ASSUME ~plan.distributed PROVE busy \cap DirectFiles = {}
    BY <1>c, <2>3 DEF IngestInv, BusyInv
  <2>4. \A q \in Pipelines : converter' = q =>
          stage'[q] = "converting" \/ (q = "aux" /\ stage'[q] = "copying")
    BY <2>1
  <2>5. ~plan.distributed =>
          /\ busy' \subseteq args["evtx"] \cup args["aux"] \cup DirectFiles
          /\ \A g \in busy' \cap DirectFiles : g = f
    BY <1>c, <2>1, <2>3 DEF IngestInv, BusyInv
  <2> QED
    BY <1>0, <2>1, <2>2, <2>4, <2>5 DEF PlanKept, BusyInv
<1>7. ShareInv'
  BY <1>d, QueuesKept
<1>8. RecordInv'
  <2>1. /\ left["aux"] \subseteq left'["aux"]
        /\ \A x \in left'["aux"] : x \in left["aux"] \/ (x[1] = f /\ f \in DirectFiles)
    BY <1>c DEF DirectOpen, NextDirect, queueVars, IngestInv, TypeOK, Pipelines
  <2>2. \A g \in Kind("aux") : g # f =>
          /\ Underway(g)' <=> Underway(g)
          /\ written'[g] = written[g] /\ result'[g] = result[g]
    BY <1>0, <1>c DEF DirectOpen, NextDirect, Move, queueVars, Underway, Parted, IngestInv, TypeOK, Pipelines
  <2>3. stage'["aux"] # "failed" =>
          IF Underway(f)' THEN written'[f] = 0 /\ Of(f, left'["aux"]) = {}
          ELSE written'[f] + Cardinality(Of(f, left'["aux"])) <= result'[f].records
    <3>1. Underway(f) => written[f] = 0 /\ Of(f, left["aux"]) = {}
      BY <1>c DEF IngestInv, RecordInv, Late, AtFile
    <3>2. /\ Underway(f) /\ left' = left /\ written'[f] = written[f] /\ result'[f].records \in Nat
      BY <1>c, <1>1 DEF DirectOpen, NextDirect, Underway, IngestInv, TypeOK
    <3>3. Cardinality({}) = 0 /\ Of(f, left'["aux"]) = {}
      BY <3>1, <3>2, FS_EmptySet
    <3> QED
      BY <3>1, <3>2, <3>3
  <2>4. stage'["aux"] \in {"direct", "flattening", "failed"} \cup AtFile /\ stage["aux"] \in {"direct"} \cup AtFile
    BY <1>c DEF DirectOpen, NextDirect, Move, AtFile, IngestInv, TypeOK, Pipelines
  <2> QED
    BY <1>d, <1>c, <2>1, <2>2, <2>3, <2>4, OneFileConverted
<1>9. ProgressInv'
  <2>1. ProgressFrame
    BY <1>0, <1>c DEF ProgressFrame, PlanKept, Pipelines, Move, NextDirect, DirectOpen,
        TypeOK, IngestInv
  <2> QED
    BY <2>1, ProgressKept
<1> QED
  BY <1>1, <1>2, <1>3, <1>4, <1>5, <1>6, <1>7, <1>8, <1>9 DEF IngestInv

(* The rows of a file are parsed and copied, and the lock of conversions   *)
(* is let go.                                                              *)
LEMMA DirectCopyKeeps ==
    ASSUME IngestInv, DirectCopy
    PROVE  IngestInv'
<1>0. PlanKept /\ Parted
  BY PlanStays, FilesParted DEF Move, DirectCopy, IngestInv
<1>k. PICK c : c = current
  OBVIOUS
<1>c. /\ c \in DirectFiles /\ c \in Files /\ c \in Kind("aux") /\ c # NoFile
      /\ c \notin args["evtx"] /\ c \notin args["aux"] /\ stage["aux"] = "copying" /\ c = current /\ future[c] = "running"
  <2>1. c \in DirectFiles /\ stage["aux"] = "copying"
    BY <1>k DEF DirectCopy, IngestInv, DirectInv, AtFile
  <2>2. \A p \in Pipelines : args[p] \subseteq QueuedFiles(p)
    BY <1>k DEF IngestInv, FlowInv, FlowOf
  <2> QED
    BY <1>0, <1>k, <2>1, <2>2, PipelineAssumption DEF Parted, IngestInv, DirectInv, AtFile
<1>d. DirectFrame
  BY <1>0, <1>c DEF DirectFrame, PlanKept, Pipelines, Move, DirectCopy, Unstarted, Local,
      AtFile, Early, Late, TypeOK, QueueOf, QueueInv, IngestInv
<1>1. TypeOK'
  BY <1>c DEF Pipelines, Tables, Statuses, Parsed, Move, NoFile, DirectCopy, Unstarted,
      Local, AtFile, Early, Late, TypeOK, IngestInv
<1>2. FlowInv'
  BY <1>0, <1>c DEF PlanKept, Pipelines, Tables, Statuses, Parsed, Move, NoFile,
      DirectCopy, Left, Unstarted, Local, AtFile, Early, Late, TypeOK, FlowOf, FlowInv,
      IngestInv
<1>3. TaskInv'
  BY <1>0, <1>c DEF PlanKept, Pipelines, Move, DirectCopy, TypeOK, TaskInv, IngestInv
<1>4. QueueInv'
  BY <1>d, QueuesKept
<1>5. DirectInv'
  BY <1>0, <1>c DEF PlanKept, Pipelines, Tables, Statuses, Parsed, Move, NoFile,
      DirectCopy, Unstarted, Local, AtFile, Early, Late, TypeOK, DirectInv, IngestInv
<1>6. BusyInv'
  BY <1>0, <1>c DEF PlanKept, Pipelines, Move, DirectCopy, Unstarted, Local, AtFile,
      Early, Late, TypeOK, FlowOf, FlowInv, BusyOf, BusyInv, IngestInv
<1>7. ShareInv'
  BY <1>d, QueuesKept
<1>8. RecordInv'
  <2>1. /\ left["aux"] \subseteq left'["aux"]
        /\ \A x \in left'["aux"] : x \in left["aux"] \/ (x[1] = c /\ c \in DirectFiles)
    BY <1>c DEF DirectCopy, queueVars, IngestInv, TypeOK, Pipelines
  <2>2. \A g \in Kind("aux") : g # c =>
          /\ Underway(g)' <=> Underway(g)
          /\ written'[g] = written[g] /\ result'[g] = result[g]
    BY <1>0, <1>c DEF DirectCopy, Move, queueVars, Underway, Parted, IngestInv, TypeOK, Pipelines
  <2>3. stage'["aux"] # "failed" =>
          IF Underway(c)' THEN written'[c] = 0 /\ Of(c, left'["aux"]) = {}
          ELSE written'[c] + Cardinality(Of(c, left'["aux"])) <= result'[c].records
    <3>1. Underway(c) => written[c] = 0 /\ Of(c, left["aux"]) = {}
      BY <1>c DEF IngestInv, RecordInv, Late, AtFile
    <3>2. /\ Underway(c) /\ left' = left /\ written'[c] = written[c]
          /\ result'[c].records \in Nat
      BY <1>c, <1>1 DEF DirectCopy, queueVars, Underway, IngestInv, TypeOK
    <3>3. Cardinality({}) = 0 /\ Of(c, left'["aux"]) = {}
      BY <3>1, <3>2, FS_EmptySet
    <3> QED
      BY <3>1, <3>2, <3>3
  <2>4. stage'["aux"] \in {"direct", "flattening", "failed"} \cup AtFile /\ stage["aux"] \in {"direct"} \cup AtFile
    BY <1>c DEF DirectCopy, Move, AtFile, IngestInv, TypeOK, Pipelines
  <2> QED
    BY <1>d, <1>c, <2>1, <2>2, <2>3, <2>4, OneFileConverted
<1>9. ProgressInv'
  <2>1. ProgressFrame
    BY <1>0, <1>c DEF ProgressFrame, PlanKept, Pipelines, Move, DirectCopy, TypeOK,
        IngestInv
  <2> QED
    BY <2>1, ProgressKept
<1> QED
  BY <1>1, <1>2, <1>3, <1>4, <1>5, <1>6, <1>7, <1>8, <1>9 DEF IngestInv

(* A file the native parser gives up is parsed again, from its start.      *)
LEMMA DirectUnsupportedKeeps ==
    ASSUME IngestInv, DirectUnsupported
    PROVE  IngestInv'
<1>0. PlanKept /\ Parted
  BY PlanStays, FilesParted DEF Move, DirectUnsupported, IngestInv
<1>k. PICK c : c = current
  OBVIOUS
<1>c. /\ c \in DirectFiles /\ c \in Files /\ c \in Kind("aux") /\ c # NoFile
      /\ c \notin args["evtx"] /\ c \notin args["aux"] /\ stage["aux"] = "copying" /\ c = current /\ future[c] = "running"
  <2>1. c \in DirectFiles /\ stage["aux"] = "copying"
    BY <1>k DEF DirectUnsupported, IngestInv, DirectInv, AtFile
  <2>2. \A p \in Pipelines : args[p] \subseteq QueuedFiles(p)
    BY <1>k DEF IngestInv, FlowInv, FlowOf
  <2> QED
    BY <1>0, <1>k, <2>1, <2>2, PipelineAssumption DEF Parted, IngestInv, DirectInv, AtFile
<1>d. DirectFrame
  BY <1>0, <1>c DEF DirectFrame, PlanKept, Pipelines, queueVars, Move, DirectUnsupported,
      Unstarted, Local, AtFile, Early, Late, TypeOK, QueueOf, QueueInv, IngestInv
<1>1. TypeOK'
  BY <1>c DEF Pipelines, queueVars, Move, DirectUnsupported, Unstarted, Local, AtFile,
      Early, Late, TypeOK, IngestInv
<1>2. FlowInv'
  BY <1>0, <1>c DEF PlanKept, Pipelines, Tables, Statuses, queueVars, Move, NoFile,
      DirectUnsupported, Left, Unstarted, Local, AtFile, Early, Late, TypeOK, FlowOf,
      FlowInv, IngestInv
<1>3. TaskInv'
  BY <1>0, <1>c DEF PlanKept, Pipelines, queueVars, Move, DirectUnsupported, TypeOK,
      TaskInv, IngestInv
<1>4. QueueInv'
  BY <1>d, QueuesKept
<1>5. DirectInv'
  BY <1>0, <1>c DEF PlanKept, Pipelines, queueVars, Move, DirectUnsupported, Unstarted,
      Local, AtFile, Early, Late, TypeOK, DirectInv, IngestInv
<1>6. BusyInv'
  BY <1>0, <1>c DEF PlanKept, Pipelines, queueVars, Move, DirectUnsupported, Unstarted,
      Local, AtFile, Early, Late, TypeOK, BusyOf, BusyInv, IngestInv
<1>7. ShareInv'
  BY <1>d, QueuesKept
<1>8. RecordInv'
  <2>1. /\ left["aux"] \subseteq left'["aux"]
        /\ \A x \in left'["aux"] : x \in left["aux"] \/ (x[1] = c /\ c \in DirectFiles)
    BY <1>c DEF DirectUnsupported, queueVars, IngestInv, TypeOK, Pipelines
  <2>2. \A g \in Kind("aux") : g # c =>
          /\ Underway(g)' <=> Underway(g)
          /\ written'[g] = written[g] /\ result'[g] = result[g]
    BY <1>0, <1>c DEF DirectUnsupported, Move, queueVars, Underway, Parted, IngestInv, TypeOK, Pipelines
  <2>3. stage'["aux"] # "failed" =>
          IF Underway(c)' THEN written'[c] = 0 /\ Of(c, left'["aux"]) = {}
          ELSE written'[c] + Cardinality(Of(c, left'["aux"])) <= result'[c].records
    <3>1. Underway(c) => written[c] = 0 /\ Of(c, left["aux"]) = {}
      BY <1>c DEF IngestInv, RecordInv, Late, AtFile
    <3>2. /\ Underway(c) /\ left' = left /\ written'[c] = written[c]
          /\ result'[c].records \in Nat
      BY <1>c, <1>1 DEF DirectUnsupported, queueVars, Underway, IngestInv, TypeOK
    <3>3. Cardinality({}) = 0 /\ Of(c, left'["aux"]) = {}
      BY <3>1, <3>2, FS_EmptySet
    <3> QED
      BY <3>1, <3>2, <3>3
  <2>4. stage'["aux"] \in {"direct", "flattening", "failed"} \cup AtFile /\ stage["aux"] \in {"direct"} \cup AtFile
    BY <1>c DEF DirectUnsupported, Move, AtFile, IngestInv, TypeOK, Pipelines
  <2> QED
    BY <1>d, <1>c, <2>1, <2>2, <2>3, <2>4, OneFileConverted
<1>9. ProgressInv'
  <2>1. ProgressFrame
    BY <1>0, <1>c DEF ProgressFrame, PlanKept, Pipelines, queueVars, Move,
        DirectUnsupported, TypeOK, IngestInv
  <2> QED
    BY <2>1, ProgressKept
<1> QED
  BY <1>1, <1>2, <1>3, <1>4, <1>5, <1>6, <1>7, <1>8, <1>9 DEF IngestInv

(* Its shards are left for the conversion like those of a task.            *)
LEMMA ReplayKeeps ==
    ASSUME IngestInv, Replay
    PROVE  IngestInv'
<1>0. PlanKept /\ Parted
  BY PlanStays, FilesParted DEF Move, Replay, IngestInv
<1>k. PICK c : c = current
  OBVIOUS
<1>c. /\ c \in DirectFiles /\ c \in Files /\ c \in Kind("aux") /\ c # NoFile
      /\ c \notin args["evtx"] /\ c \notin args["aux"] /\ stage["aux"] = "replay" /\ c = current /\ future[c] = "running"
  <2>1. c \in DirectFiles /\ stage["aux"] = "replay"
    BY <1>k DEF Replay, IngestInv, DirectInv, AtFile
  <2>2. \A p \in Pipelines : args[p] \subseteq QueuedFiles(p)
    BY <1>k DEF IngestInv, FlowInv, FlowOf
  <2> QED
    BY <1>0, <1>k, <2>1, <2>2, PipelineAssumption DEF Parted, IngestInv, DirectInv, AtFile
<1>d. DirectFrame
  BY <1>0, <1>c DEF DirectFrame, PlanKept, Pipelines, Move, Replay, Unstarted, Local,
      AtFile, Early, Late, TypeOK, QueueOf, QueueInv, IngestInv
<1>1. TypeOK'
  <2>1. PICK r \in Parsed :
          /\ result' = [result EXCEPT ![current] = r]
          /\ left' = [left EXCEPT !["aux"] = @ \cup {<<current, i>> : i \in 1 .. r.records}]
    BY DEF Replay
  <2>2. r \in [status : Statuses \cup {"none"}, records : 0 .. 2]
    BY DEF Parsed, Statuses
  <2>3. result' \in [Files -> [status : Statuses \cup {"none"}, records : 0 .. 2]]
    BY <1>c, <2>1, <2>2 DEF IngestInv, TypeOK
  <2>4. {<<current, i>> : i \in 1 .. r.records} \in SUBSET (Files \X (1 .. 2))
    BY <1>c, <2>2
  <2>5. left' \in [Pipelines -> SUBSET (Files \X (1 .. 2))]
    BY <2>1, <2>4 DEF IngestInv, TypeOK
  <2> QED
    BY <1>c, <2>3, <2>5 DEF Replay, Move, IngestInv, TypeOK, Late, AtFile
<1>2. FlowInv'
  BY <1>0, <1>c DEF PlanKept, Pipelines, Tables, Statuses, Parsed, Move, NoFile, Replay,
      Left, Unstarted, Local, AtFile, Early, Late, TypeOK, FlowOf, FlowInv, IngestInv
<1>3. TaskInv'
  BY <1>0, <1>c DEF PlanKept, Pipelines, Move, Replay, TypeOK, TaskInv, IngestInv
<1>4. QueueInv'
  BY <1>d, QueuesKept
<1>5. DirectInv'
  BY <1>0, <1>c DEF PlanKept, Pipelines, Tables, Statuses, Parsed, Move, NoFile, Replay,
      Unstarted, Local, AtFile, Early, Late, TypeOK, DirectInv, IngestInv
<1>6. BusyInv'
  BY <1>0, <1>c DEF PlanKept, Pipelines, Move, Replay, Unstarted, Local, AtFile, Early,
      Late, TypeOK, FlowOf, FlowInv, BusyOf, BusyInv, IngestInv
<1>7. ShareInv'
  BY <1>d, QueuesKept
<1>8. RecordInv'
  <2>1. /\ left["aux"] \subseteq left'["aux"]
        /\ \A x \in left'["aux"] : x \in left["aux"] \/ (x[1] = c /\ c \in DirectFiles)
    BY <1>c DEF Replay, queueVars, IngestInv, TypeOK, Pipelines
  <2>2. \A g \in Kind("aux") : g # c =>
          /\ Underway(g)' <=> Underway(g)
          /\ written'[g] = written[g] /\ result'[g] = result[g]
    BY <1>0, <1>c DEF Replay, Move, queueVars, Underway, Parted, IngestInv, TypeOK, Pipelines
  <2>3. stage'["aux"] # "failed" =>
          IF Underway(c)' THEN written'[c] = 0 /\ Of(c, left'["aux"]) = {}
          ELSE written'[c] + Cardinality(Of(c, left'["aux"])) <= result'[c].records
    <3>1. Underway(c) => written[c] = 0 /\ Of(c, left["aux"]) = {}
      BY <1>c DEF IngestInv, RecordInv, Late, AtFile
    <3>2. PICK r \in Parsed :
            /\ result' = [result EXCEPT ![current] = r]
            /\ left' = [left EXCEPT !["aux"] = @ \cup {<<current, i>> : i \in 1 .. r.records}]
      BY DEF Replay
    <3>3. /\ Underway(c) /\ result'[c] = r /\ written' = written /\ r.records \in 0 .. 2
          /\ left'["aux"] = left["aux"] \cup {<<current, i>> : i \in 1 .. r.records}
      BY <1>c, <3>2 DEF Replay, Underway, IngestInv, TypeOK, Parsed, Pipelines
    <3>4. Of(c, left'["aux"]) = {<<c, i>> : i \in 1 .. r.records}
      <4>1. \A x : x \in Of(c, left'["aux"]) <=> \E i \in 1 .. r.records : x = <<c, i>>
        BY <1>c, <3>1, <3>3 DEF Of
      <4> QED
        BY <4>1
    <3>5. Cardinality(Of(c, left'["aux"])) = r.records
      <4>1. \A n \in 0 .. 2 : Cardinality({<<c, i>> : i \in 1 .. n}) = n
        BY RecordCount
      <4> QED
        BY <3>3, <3>4, <4>1
    <3>6. ~Underway(c)'
      BY <1>c DEF Replay, Underway, Move, Pipelines, IngestInv, TypeOK
    <3> QED
      BY <3>1, <3>3, <3>5, <3>6
  <2>4. stage'["aux"] \in {"direct", "flattening", "failed"} \cup AtFile /\ stage["aux"] \in {"direct"} \cup AtFile
    BY <1>c DEF Replay, Move, AtFile, IngestInv, TypeOK, Pipelines
  <2> QED
    BY <1>d, <1>c, <2>1, <2>2, <2>3, <2>4, OneFileConverted
<1>9. ProgressInv'
  <2>1. ProgressFrame
    BY <1>0, <1>c DEF ProgressFrame, PlanKept, Pipelines, Move, Replay, TypeOK, IngestInv
  <2> QED
    BY <2>1, ProgressKept
<1> QED
  BY <1>1, <1>2, <1>3, <1>4, <1>5, <1>6, <1>7, <1>8, <1>9 DEF IngestInv

(* Its rows are in place.                                                  *)
LEMMA DirectPublishKeeps ==
    ASSUME IngestInv, DirectPublish
    PROVE  IngestInv'
<1>0. PlanKept /\ Parted
  BY PlanStays, FilesParted DEF OnTableFlattened, Move, DirectPublish, IngestInv
<1>k. PICK c : c = current
  OBVIOUS
<1>c. /\ c \in DirectFiles /\ c \in Files /\ c \in Kind("aux") /\ c # NoFile
      /\ c \notin args["evtx"] /\ c \notin args["aux"] /\ stage["aux"] = "publishing" /\ c = current /\ future[c] = "running"
  <2>1. c \in DirectFiles /\ stage["aux"] = "publishing"
    BY <1>k DEF DirectPublish, IngestInv, DirectInv, AtFile
  <2>2. \A p \in Pipelines : args[p] \subseteq QueuedFiles(p)
    BY <1>k DEF IngestInv, FlowInv, FlowOf
  <2> QED
    BY <1>0, <1>k, <2>1, <2>2, PipelineAssumption DEF Parted, IngestInv, DirectInv, AtFile
<1>d. DirectFrame
  BY <1>0, <1>c DEF DirectFrame, PlanKept, Pipelines, OnTableFlattened, queueVars, Move,
      DirectPublish, Unstarted, Local, AtFile, Early, Late, TypeOK, QueueOf, QueueInv,
      IngestInv
<1>1. TypeOK'
  <2>1. /\ TableOf(c) \in Tables /\ result[c].records \in Nat /\ c \in plan.found
        /\ OnTableFlattened(TableOf(c), result[c].records)
    BY <1>0, <1>c DEF Parted, Tables, DirectPublish, IngestInv, TypeOK
  <2>2. PICK n \in Nat, tab \in Tables : n = result[c].records /\ tab = TableOf(c)
    BY <2>1
  <2>3. progress' \in ProgressType
    BY <2>1, <2>2, RowsType DEF IngestInv
  <2>4. written' \in [Files -> Nat]
    BY <1>c, <2>1 DEF DirectPublish, IngestInv, TypeOK
  <2> QED
    BY <1>c, <2>3, <2>4 DEF DirectPublish, IngestInv, TypeOK, ProgressType, Move, queueVars, Late, AtFile
<1>2. FlowInv'
  BY <1>0, <1>c DEF PlanKept, Pipelines, Tables, Statuses, OnTableFlattened, queueVars,
      Move, NoFile, DirectPublish, Left, Unstarted, Local, AtFile, Early, Late, TypeOK,
      FlowOf, FlowInv, IngestInv
<1>3. TaskInv'
  BY <1>0, <1>c DEF PlanKept, Pipelines, OnTableFlattened, queueVars, Move, DirectPublish,
      TypeOK, TaskInv, IngestInv
<1>4. QueueInv'
  BY <1>d, QueuesKept
<1>5. DirectInv'
  BY <1>0, <1>c DEF PlanKept, Pipelines, OnTableFlattened, queueVars, Move, DirectPublish,
      Unstarted, Local, AtFile, Early, Late, TypeOK, FlowOf, FlowInv, TaskInv, QueueOf,
      QueueInv, DirectInv, BusyOf, BusyInv, IngestInv
<1>6. BusyInv'
  BY <1>0, <1>c DEF PlanKept, Pipelines, OnTableFlattened, queueVars, Move, DirectPublish,
      Unstarted, Local, AtFile, Early, Late, TypeOK, BusyOf, BusyInv, IngestInv
<1>7. ShareInv'
  BY <1>d, QueuesKept
<1>8. RecordInv'
  <2>1. /\ left["aux"] \subseteq left'["aux"]
        /\ \A x \in left'["aux"] : x \in left["aux"] \/ (x[1] = c /\ c \in DirectFiles)
    BY <1>c DEF DirectPublish, queueVars, IngestInv, TypeOK, Pipelines
  <2>2. \A g \in Kind("aux") : g # c =>
          /\ Underway(g)' <=> Underway(g)
          /\ written'[g] = written[g] /\ result'[g] = result[g]
    BY <1>0, <1>c DEF DirectPublish, Move, queueVars, Underway, Parted, IngestInv, TypeOK, Pipelines
  <2>3. stage'["aux"] # "failed" =>
          IF Underway(c)' THEN written'[c] = 0 /\ Of(c, left'["aux"]) = {}
          ELSE written'[c] + Cardinality(Of(c, left'["aux"])) <= result'[c].records
    <3>1. Underway(c) => written[c] = 0 /\ Of(c, left["aux"]) = {}
      BY <1>c DEF IngestInv, RecordInv, Late, AtFile
    <3>2. /\ Underway(c) /\ left' = left /\ written'[c] = written[c] + result[c].records
          /\ result'[c].records \in Nat /\ result' = result
      <4>1. TypeOK
        BY DEF IngestInv
      <4>2. left' = left /\ result' = result /\ written' = [written EXCEPT ![c] = @ + result[c].records]
        BY <1>c DEF DirectPublish, queueVars
      <4>3. written'[c] = written[c] + result[c].records /\ result[c].records \in Nat
        BY <1>c, <4>1, <4>2 DEF TypeOK
      <4>4. Underway(c)
        BY <1>c, <1>1 DEF DirectPublish, Underway, IngestInv, TypeOK
      <4> QED
        BY <4>2, <4>3, <4>4
    <3>3. Cardinality({}) = 0 /\ Of(c, left'["aux"]) = {}
      BY <3>1, <3>2, FS_EmptySet
    <3>4. ~Underway(c)'
      BY <1>c DEF DirectPublish, queueVars, Underway, Move, Pipelines, IngestInv, TypeOK
    <3> QED
      BY <3>1, <3>2, <3>3, <3>4
  <2>4. stage'["aux"] \in {"direct", "flattening", "failed"} \cup AtFile /\ stage["aux"] \in {"direct"} \cup AtFile
    BY <1>c DEF DirectPublish, Move, AtFile, IngestInv, TypeOK, Pipelines
  <2> QED
    BY <1>d, <1>c, <2>1, <2>2, <2>3, <2>4, OneFileConverted
<1>9. ProgressInv'
  <2>1. /\ TableOf(c) \in Tables /\ result[c].records \in Nat /\ c \in plan.found
        /\ OnTableFlattened(TableOf(c), result[c].records)
    BY <1>0, <1>c DEF Parted, Tables, DirectPublish, IngestInv, TypeOK
  <2>2. /\ plan' = plan /\ UNCHANGED <<future, result>> /\ stage'["evtx"] = stage["evtx"]
        /\ written' = [written EXCEPT ![c] = @ + result[c].records]
    BY <1>c DEF DirectPublish, queueVars, Move, Pipelines, IngestInv, TypeOK
  <2>3. PICK n \in Nat, tab \in Tables : n = result[c].records /\ tab = TableOf(c)
    BY <2>1
  <2>4. \A t \in Tables : RowsIn(t)' = RowsIn(t) + IF t = TableOf(c) THEN n ELSE 0
    BY <2>1, <2>2, <2>3, RowsGrow
  <2> QED
    BY <2>1, <2>2, <2>3, <2>4, RowsTold
<1> QED
  BY <1>1, <1>2, <1>3, <1>4, <1>5, <1>6, <1>7, <1>8, <1>9 DEF IngestInv

(* A file of the direct path is reported after its rows.                   *)
LEMMA ReportDirectKeeps ==
    ASSUME IngestInv, ReportDirect
    PROVE  IngestInv'
<1>0. PlanKept /\ Parted
  BY PlanStays, FilesParted DEF OnResult, Move, ReportDirect, IngestInv
<1>k. PICK c : c = current
  OBVIOUS
<1>c. /\ c \in DirectFiles /\ c \in Files /\ c \in Kind("aux") /\ c # NoFile
      /\ c \notin args["evtx"] /\ c \notin args["aux"] /\ stage["aux"] = "reporting" /\ c = current /\ future[c] = "running"
  <2>1. c \in DirectFiles /\ stage["aux"] = "reporting"
    BY <1>k DEF ReportDirect, IngestInv, DirectInv, AtFile
  <2>2. \A p \in Pipelines : args[p] \subseteq QueuedFiles(p)
    BY <1>k DEF IngestInv, FlowInv, FlowOf
  <2> QED
    BY <1>0, <1>k, <2>1, <2>2, PipelineAssumption DEF Parted, IngestInv, DirectInv, AtFile
<1>d. DirectFrame
  BY <1>0, <1>c DEF DirectFrame, PlanKept, Pipelines, OnResult, Move, ReportDirect,
      Unstarted, Local, AtFile, Early, Late, TypeOK, QueueOf, QueueInv, IngestInv
<1>1. TypeOK'
  <2>1. progress' \in ProgressType
    BY <1>c, ReportedType DEF ReportDirect, Pipelines, IngestInv, DirectInv
  <2> QED
    BY <1>c, <2>1 DEF ReportDirect, IngestInv, TypeOK, ProgressType, Move, queueVars, Late
<1>2. FlowInv'
  BY <1>0, <1>c DEF PlanKept, Pipelines, Tables, Statuses, OnResult, Move, NoFile,
      ReportDirect, Left, Unstarted, Local, AtFile, Early, Late, TypeOK, FlowOf, FlowInv,
      IngestInv
<1>3. TaskInv'
  BY <1>0, <1>c DEF PlanKept, Pipelines, OnResult, Move, ReportDirect, TypeOK, FlowOf,
      FlowInv, TaskInv, QueueOf, QueueInv, DirectInv, IngestInv
<1>4. QueueInv'
  BY <1>d, QueuesKept
<1>5. DirectInv'
  BY <1>0, <1>c DEF PlanKept, Pipelines, OnResult, Move, ReportDirect, Unstarted, Local,
      AtFile, Early, Late, TypeOK, DirectInv, IngestInv
<1>6. BusyInv'
  BY <1>0, <1>c DEF PlanKept, Pipelines, OnResult, Move, ReportDirect, Unstarted, Local,
      AtFile, Early, Late, TypeOK, BusyOf, BusyInv, IngestInv
<1>7. ShareInv'
  BY <1>d, QueuesKept
<1>8. RecordInv'
  <2>1. /\ left["aux"] \subseteq left'["aux"]
        /\ \A x \in left'["aux"] : x \in left["aux"] \/ (x[1] = c /\ c \in DirectFiles)
    BY <1>c DEF ReportDirect, queueVars, IngestInv, TypeOK, Pipelines
  <2>2. \A g \in Kind("aux") : g # c =>
          /\ Underway(g)' <=> Underway(g)
          /\ written'[g] = written[g] /\ result'[g] = result[g]
    BY <1>0, <1>c DEF ReportDirect, Move, queueVars, Underway, Parted, IngestInv, TypeOK, Pipelines
  <2>3. stage'["aux"] # "failed" =>
          IF Underway(c)' THEN written'[c] = 0 /\ Of(c, left'["aux"]) = {}
          ELSE written'[c] + Cardinality(Of(c, left'["aux"])) <= result'[c].records
    <3>1. /\ ~Underway(c) /\ ~Underway(c)'
      BY <1>c DEF ReportDirect, Underway, IngestInv, TypeOK
    <3>2. left' = left /\ written' = written /\ result' = result
      BY DEF ReportDirect
    <3> QED
      BY <1>c, <3>1, <3>2 DEF IngestInv, RecordInv, Late, AtFile, Of
  <2>4. stage'["aux"] \in {"direct", "flattening", "failed"} \cup AtFile /\ stage["aux"] \in {"direct"} \cup AtFile
    BY <1>c DEF ReportDirect, Move, AtFile, IngestInv, TypeOK, Pipelines
  <2> QED
    BY <1>d, <1>c, <2>1, <2>2, <2>3, <2>4, OneFileConverted
<1>9. ProgressInv'
  <2>1. /\ future' = [future EXCEPT ![c] = "handled"] /\ plan' = plan /\ written' = written /\ result' = result
        /\ OnResult("aux", result[c].status) /\ result[c].status \in Statuses
        /\ stage["evtx"] = "failed" => stage'["evtx"] = "failed"
    BY <1>c DEF ReportDirect, IngestInv, DirectInv, TypeOK, Move, Pipelines
  <2>2. PICK p \in Pipelines, s \in Statuses : p = "aux" /\ s = result[c].status
    BY <2>1 DEF Pipelines
  <2> QED
    BY <1>c, <2>1, <2>2, Counted
<1> QED
  BY <1>1, <1>2, <1>3, <1>4, <1>5, <1>6, <1>7, <1>8, <1>9 DEF IngestInv

(* The tables follow when every file of the direct path was handled.       *)
LEMMA DirectDoneKeeps ==
    ASSUME IngestInv, DirectDone
    PROVE  IngestInv'
<1>0. PlanKept /\ Parted
  BY PlanStays, FilesParted DEF PhaseOrder, Rank, SetPhase, Move, convertVars, DirectDone,
      IngestInv
<1>d. DirectFrame
  BY <1>0 DEF DirectFrame, PlanKept, Pipelines, PhaseOrder, Rank, SetPhase, queueVars,
      Move, convertVars, DirectDone, Unstarted, Local, AtFile, Early, Late, TypeOK,
      QueueOf, QueueInv, IngestInv
<1>1. TypeOK'
  <2>1. progress' \in ProgressType
    BY PhaseType DEF DirectDone, IngestInv
  <2> QED
    BY <2>1 DEF DirectDone, IngestInv, TypeOK, ProgressType, Move, queueVars, convertVars, Late
<1>2. FlowInv'
  BY <1>0 DEF PlanKept, Pipelines, Tables, Statuses, PhaseOrder, Rank, SetPhase,
      queueVars, Move, NoFile, convertVars, DirectDone, Left, Unstarted, Local, AtFile,
      Early, Late, TypeOK, FlowOf, FlowInv, IngestInv
<1>3. TaskInv'
  BY <1>0 DEF PlanKept, Pipelines, PhaseOrder, Rank, SetPhase, queueVars, Move,
      convertVars, DirectDone, TypeOK, TaskInv, IngestInv
<1>4. QueueInv'
  BY <1>d, QueuesKept
<1>5. DirectInv'
  BY <1>0 DEF PlanKept, Pipelines, PhaseOrder, Rank, SetPhase, queueVars, Move,
      convertVars, DirectDone, Unstarted, Local, AtFile, Early, Late, TypeOK, DirectInv,
      IngestInv
<1>6. BusyInv'
  BY <1>0 DEF PlanKept, Pipelines, PhaseOrder, Rank, SetPhase, queueVars, Move,
      convertVars, DirectDone, Unstarted, Local, AtFile, Early, Late, TypeOK, BusyOf,
      BusyInv, IngestInv
<1>7. ShareInv'
  BY <1>d, QueuesKept
<1>8. RecordInv'
  <2>1. /\ left' = left /\ written' = written /\ result' = result /\ future' = future /\ current' = current
        /\ stage["aux"] = "direct" /\ stage'["aux"] = "flattening"
    BY DEF DirectDone, queueVars, convertVars, Move, IngestInv, TypeOK, Pipelines
  <2>2. \A g \in Kind("aux") : Underway(g)' <=> Underway(g)
    BY <2>1 DEF Underway
  <2>3. NoFile \notin Kind("aux")
    BY <1>0, PipelineAssumption DEF Parted
  <2> QED
    BY <1>d, <2>1, <2>2, <2>3, OneFileConverted
<1>9. ProgressInv'
  <2>1. ProgressFrame
    BY <1>0 DEF ProgressFrame, PlanKept, Pipelines, PhaseOrder, Rank, SetPhase, queueVars,
        Move, convertVars, DirectDone, TypeOK, IngestInv
  <2> QED
    BY <2>1, ProgressKept
<1> QED
  BY <1>1, <1>2, <1>3, <1>4, <1>5, <1>6, <1>7, <1>8, <1>9 DEF IngestInv

(* Files of no known kind are reported without a task.                     *)
LEMMA ReportUnknownKeeps ==
    ASSUME IngestInv, ReportUnknown
    PROVE  IngestInv'
<1>0. PlanKept /\ Parted
  BY PlanStays, FilesParted DEF OnResult, convertVars, ReportUnknown, IngestInv
<1>k. PICK f \in Found(Unknown) :
        /\ future[f] = "none" /\ future' = [future EXCEPT ![f] = "handled"]
        /\ result' = [result EXCEPT ![f].status = "unknown"]
  BY DEF ReportUnknown
<1>c. /\ f \in Files /\ f \in Kind("aux") /\ f \notin Kind("evtx") /\ f \notin DirectFiles
      /\ result'[f] = [status |-> "unknown", records |-> 0]
      /\ \A g \in Files : g # f => result'[g] = result[g] /\ future'[g] = future[g]
      /\ future'[f] = "handled" /\ future[f] = "none"
      /\ \A p \in Pipelines : f \notin args[p]
      /\ result' \in [Files -> [status : Statuses \cup {"none"}, records : 0 .. 2]]
      /\ future' \in [Files -> {"none", "queued", "running", "returned", "raised", "handled"}]
  <2>1. f \in Files /\ f \in Kind("aux") /\ f \notin Kind("evtx") /\ f \notin DirectFiles
    BY <1>0 DEF Parted
  <2>2. result[f] = NoResult /\ result[f].records = 0
    BY <1>k, <2>1 DEF IngestInv, TaskInv, NoResult
  <2>3. result' = [result EXCEPT ![f] = [result[f] EXCEPT !.status = "unknown"]]
    BY <1>k
  <2>4. [result[f] EXCEPT !.status = "unknown"] = [status |-> "unknown", records |-> 0]
    BY <2>2 DEF NoResult
  <2>5. [status |-> "unknown", records |-> 0] \in [status : Statuses \cup {"none"}, records : 0 .. 2]
    BY DEF Statuses
  <2> QED
    BY <1>k, <2>1, <2>3, <2>4, <2>5, OnePipeline DEF IngestInv, TypeOK
<1>d. DirectFrame
  BY <1>0, <1>c DEF DirectFrame, PlanKept, Pipelines, OnResult, convertVars,
      ReportUnknown, TypeOK, QueueOf, QueueInv, IngestInv
<1>1. TypeOK'
  <2>1. progress' \in ProgressType
    BY ReportedType DEF ReportUnknown, Pipelines, Statuses, IngestInv
  <2> QED
    BY <1>c, <2>1 DEF ReportUnknown, IngestInv, TypeOK, ProgressType, convertVars
<1>2. FlowInv'
  BY <1>0, <1>c DEF PlanKept, Pipelines, Tables, Statuses, OnResult, NoFile, convertVars,
      ReportUnknown, Left, TypeOK, FlowOf, FlowInv, IngestInv
<1>3. TaskInv'
  BY <1>0, <1>c DEF PlanKept, Pipelines, OnResult, convertVars, ReportUnknown, TypeOK,
      TaskInv, IngestInv
<1>4. QueueInv'
  BY <1>d, QueuesKept
<1>5. DirectInv'
  BY <1>0, <1>c DEF PlanKept, Pipelines, OnResult, convertVars, ReportUnknown, TypeOK,
      DirectInv, IngestInv
<1>6. BusyInv'
  BY <1>0, <1>c DEF PlanKept, Pipelines, OnResult, convertVars, ReportUnknown, TypeOK,
      BusyOf, BusyInv, IngestInv
<1>7. ShareInv'
  BY <1>d, QueuesKept
<1>8. RecordInv'
  <2>1. RecordFrame
    BY <1>0, <1>c DEF RecordFrame, PlanKept, Pipelines, OnResult, convertVars,
        ReportUnknown, Unstarted, Local, AtFile, Early, Late, TypeOK, QueueOf, QueueInv,
        IngestInv
  <2> QED
    BY <2>1, RecordsKept
<1>9. ProgressInv'
  <2>1. /\ plan' = plan /\ written' = written /\ stage' = stage /\ OnResult("aux", "unknown")
    BY DEF ReportUnknown, convertVars
  <2>2. PICK p \in Pipelines, s \in Statuses : p = "aux" /\ s = "unknown"
    BY DEF Pipelines, Statuses
  <2>3. result'[f].status = s
    BY <1>c, <2>2
  <2> QED
    BY <1>c, <1>k, <2>1, <2>2, <2>3, Counted
<1> QED
  BY <1>1, <1>2, <1>3, <1>4, <1>5, <1>6, <1>7, <1>8, <1>9 DEF IngestInv

(* The queue follows when all files of no known kind are reported.         *)
LEMMA UnknownReportedKeeps ==
    ASSUME IngestInv, UnknownReported
    PROVE  IngestInv'
<1>0. PlanKept /\ Parted
  BY PlanStays, FilesParted DEF Move, convertVars, UnknownReported, IngestInv
<1>1. TypeOK'
  BY DEF Pipelines, queueVars, Move, convertVars, UnknownReported, Unstarted, Local,
      AtFile, Early, Late, TypeOK, IngestInv
<1>2. FlowInv'
  BY <1>0 DEF PlanKept, Pipelines, Tables, Statuses, queueVars, Move, NoFile, convertVars,
      UnknownReported, Left, Unstarted, Local, AtFile, Early, Late, TypeOK, FlowOf,
      FlowInv, IngestInv
<1>3. TaskInv'
  BY <1>0 DEF PlanKept, Pipelines, queueVars, Move, convertVars, UnknownReported, TypeOK,
      TaskInv, IngestInv
<1>4. QueueInv'
  <2> SUFFICES ASSUME NEW q \in Pipelines PROVE QueueOf(q)'
    BY DEF QueueInv
  <2> QED
    BY <1>0 DEF PlanKept, Pipelines, queueVars, Move, convertVars, UnknownReported,
        Unstarted, Local, AtFile, Early, Late, TypeOK, QueueOf, QueueInv, IngestInv
<1>5. DirectInv'
  BY <1>0 DEF PlanKept, Pipelines, queueVars, Move, convertVars, UnknownReported,
      Unstarted, Local, AtFile, Early, Late, TypeOK, DirectInv, IngestInv
<1>6. BusyInv'
  BY <1>0 DEF PlanKept, Pipelines, queueVars, Move, convertVars, UnknownReported,
      Unstarted, Local, AtFile, Early, Late, TypeOK, BusyOf, BusyInv, IngestInv
<1>7. ShareInv'
  <2>1. ShareFrame
    BY <1>0 DEF ShareFrame, PlanKept, Pipelines, queueVars, Move, convertVars,
        UnknownReported, TypeOK, IngestInv
  <2> QED
    BY <2>1, ShareKept
<1>8. RecordInv'
  <2>1. RecordFrame
    BY <1>0 DEF RecordFrame, PlanKept, Pipelines, queueVars, Move, convertVars,
        UnknownReported, Unstarted, Local, AtFile, Early, Late, TypeOK, QueueOf, QueueInv,
        IngestInv
  <2> QED
    BY <2>1, RecordsKept
<1>9. ProgressInv'
  <2>1. ProgressFrame
    BY <1>0 DEF ProgressFrame, PlanKept, Pipelines, queueVars, Move, convertVars,
        UnknownReported, TypeOK, IngestInv
  <2> QED
    BY <2>1, ProgressKept
<1> QED
  BY <1>1, <1>2, <1>3, <1>4, <1>5, <1>6, <1>7, <1>8, <1>9 DEF IngestInv

(* An error ends a pipeline anywhere, with the tasks it had.               *)
LEMMA PipelineRaisesKeeps ==
    ASSUME IngestInv, NEW p \in Pipelines, PipelineRaises(p)
    PROVE  IngestInv'
<1>0. PlanKept /\ Parted
  BY PlanStays, FilesParted DEF Move, PipelineRaises, IngestInv
<1>1. TypeOK'
  BY DEF Pipelines, Move, PipelineRaises, TypeOK, IngestInv
<1>2. FlowInv'
  BY <1>0 DEF PlanKept, Pipelines, Tables, Statuses, Move, NoFile, PipelineRaises, Left,
      Unstarted, Local, AtFile, Early, Late, TypeOK, FlowOf, FlowInv, IngestInv
<1>3. TaskInv'
  BY <1>0 DEF PlanKept, Pipelines, Move, PipelineRaises, TypeOK, TaskInv, IngestInv
<1>4. QueueInv'
  <2> SUFFICES ASSUME NEW q \in Pipelines PROVE QueueOf(q)'
    BY DEF QueueInv
  <2> QED
    BY <1>0 DEF PlanKept, Pipelines, Move, PipelineRaises, Unstarted, Local, AtFile,
        Early, Late, TypeOK, QueueOf, QueueInv, IngestInv
<1>5. DirectInv'
  BY <1>0 DEF PlanKept, Pipelines, Move, PipelineRaises, Unstarted, Local, AtFile, Early,
      Late, TypeOK, DirectInv, IngestInv
<1>6. BusyInv'
  BY <1>0 DEF PlanKept, Pipelines, Move, PipelineRaises, Unstarted, Local, AtFile, Early,
      Late, TypeOK, BusyOf, BusyInv, IngestInv
<1>7. ShareInv'
  <2>1. ShareFrame
    BY <1>0 DEF ShareFrame, PlanKept, Pipelines, Move, PipelineRaises, TypeOK, IngestInv
  <2> QED
    BY <2>1, ShareKept
<1>8. RecordInv'
  <2>1. RecordFrame
    BY <1>0 DEF RecordFrame, PlanKept, Pipelines, Move, PipelineRaises, TypeOK, QueueOf,
        QueueInv, IngestInv
  <2> QED
    BY <2>1, RecordsKept
<1>9. ProgressInv'
  <2>1. ProgressFrame
    BY <1>0 DEF ProgressFrame, PlanKept, Pipelines, Move, PipelineRaises, TypeOK,
        IngestInv
  <2> QED
    BY <2>1, ProgressKept
<1> QED
  BY <1>1, <1>2, <1>3, <1>4, <1>5, <1>6, <1>7, <1>8, <1>9 DEF IngestInv

-----------------------------------------------------------------------------
(* The conversions.                                                        *)
LEMMA ConvertKeeps ==
    ASSUME IngestInv, NEW p \in Pipelines, Convert(p)
    PROVE  IngestInv'
<1>0. PlanKept /\ Parted
  BY PlanStays, FilesParted DEF Move, Convert, IngestInv
<1>c. /\ stage[p] = "flattening" /\ stage'[p] = "converting"
      /\ batch'[p] # {} /\ batch'[p] \subseteq left[p]
      /\ \A x, y \in batch'[p] : TableOf(x[1]) = TableOf(y[1])
      /\ batch' \in [Pipelines -> SUBSET (Files \X (1 .. 2))]
      /\ \A q \in Pipelines : q # p => stage'[q] = stage[q] /\ batch'[q] = batch[q]
      /\ plan' = plan /\ UNCHANGED <<args, left, written, result, future, current>>
  <2>1. PICK b \in (SUBSET left[p]) \ {{}} :
          /\ \A x, y \in b : TableOf(x[1]) = TableOf(y[1])
          /\ batch' = [batch EXCEPT ![p] = b]
    BY DEF Convert
  <2>2. b \in SUBSET (Files \X (1 .. 2)) /\ batch'[p] = b
    BY <2>1 DEF IngestInv, TypeOK
  <2>3. batch' \in [Pipelines -> SUBSET (Files \X (1 .. 2))]
    BY <2>1, <2>2 DEF IngestInv, TypeOK
  <2>4. \A q \in Pipelines : q # p => batch'[q] = batch[q]
    BY <2>1 DEF IngestInv, TypeOK
  <2>5. /\ stage[p] = "flattening" /\ stage'[p] = "converting"
        /\ \A q \in Pipelines : q # p => stage'[q] = stage[q]
        /\ plan' = plan /\ UNCHANGED <<args, left, written, result, future, current>>
    BY DEF Convert, Move, queueVars, IngestInv, TypeOK
  <2> QED
    BY <2>1, <2>2, <2>3, <2>4, <2>5
<1>1. TypeOK'
  BY <1>c DEF Convert, Move, queueVars, IngestInv, TypeOK, Late
<1>2. FlowInv'
  BY <1>0, <1>c DEF PlanKept, Pipelines, Tables, Statuses, Move, NoFile, Convert, Left,
      Unstarted, Local, AtFile, Early, Late, TypeOK, FlowOf, FlowInv, IngestInv
<1>3. TaskInv'
  BY <1>0, <1>c DEF PlanKept, Pipelines, Move, Convert, TypeOK, TaskInv, IngestInv
<1>4. QueueInv'
  <2> SUFFICES ASSUME NEW q \in Pipelines PROVE QueueOf(q)'
    BY DEF QueueInv
  <2> QED
    BY <1>0, <1>c DEF PlanKept, Pipelines, queueVars, Move, Convert, Unstarted, Local,
        AtFile, Early, Late, TypeOK, QueueOf, QueueInv, IngestInv
<1>5. DirectInv'
  BY <1>0, <1>c DEF PlanKept, Pipelines, Move, Convert, Unstarted, Local, AtFile, Early,
      Late, TypeOK, DirectInv, IngestInv
<1>6. BusyInv'
  BY <1>0, <1>c DEF PlanKept, Pipelines, queueVars, Move, Convert, Unstarted, Local,
      AtFile, Early, Late, TypeOK, BusyOf, BusyInv, IngestInv
<1>7. ShareInv'
  <2>1. ShareFrame
    BY <1>0, <1>c DEF ShareFrame, PlanKept, Pipelines, queueVars, Move, Convert, TypeOK,
        IngestInv
  <2> QED
    BY <2>1, ShareKept
<1>8. RecordInv'
  <2>1. \A f : TableOf(f)' = TableOf(f)
    BY DEF TableOf
  <2>2. ASSUME NEW q \in Pipelines PROVE RecordsOf(q)'
    <3>1. RecordsOf(q)
      BY DEF IngestInv, RecordInv
    <3>2. CASE q = p
      BY <1>0, <1>c, <2>1, <3>1, <3>2 DEF RecordsOf, PlanKept, Early, Unstarted, Local
    <3>3. CASE q # p
      BY <1>0, <1>c, <2>1, <3>1, <3>3 DEF RecordsOf, PlanKept
    <3> QED
      BY <3>2, <3>3
  <2>3. \A f : stage'["aux"] = stage["aux"] \/ (stage'["aux"] # "reporting" /\ stage["aux"] # "reporting")
          => Underway(f)' = Underway(f)
    BY <1>c DEF Underway
  <2>4. stage'["aux"] = stage["aux"] \/ (stage["aux"] = "flattening" /\ stage'["aux"] = "converting")
    BY <1>c DEF Pipelines
  <2>5. stage'["evtx"] = stage["evtx"] \/ (stage["evtx"] = "flattening" /\ stage'["evtx"] = "converting")
    BY <1>c DEF Pipelines
  <2>6. \A f, B : Of(f, B)' = Of(f, B)
    BY DEF Of
  <2>7. ASSUME stage'["evtx"] \in {"flattening", "converting"}, NEW f \in Kind("evtx")
        PROVE  written[f] + Cardinality(Of(f, left["evtx"])) = result[f].records
    BY <2>5, <2>7 DEF IngestInv, RecordInv
  <2>8. ASSUME stage'["aux"] \in Late \ {"done"}, NEW f \in Kind("aux")
        PROVE  IF Underway(f)' THEN written[f] = 0 /\ Of(f, left["aux"]) = {}
               ELSE written[f] + Cardinality(Of(f, left["aux"])) <= result[f].records
    BY <2>3, <2>4, <2>8 DEF IngestInv, RecordInv, Late
  <2> QED
    BY <1>0, <1>c, <2>2, <2>7, <2>8 DEF PlanKept, RecordInv, Pipelines, Of
<1>9. ProgressInv'
  <2>1. ProgressFrame
    BY <1>0, <1>c DEF ProgressFrame, PlanKept, Pipelines, Move, Convert, TypeOK, IngestInv
  <2> QED
    BY <2>1, ProgressKept
<1> QED
  BY <1>1, <1>2, <1>3, <1>4, <1>5, <1>6, <1>7, <1>8, <1>9 DEF IngestInv

(* A batch of an auxiliary table is written, and what was written is told. *)
LEMMA FlattenTableEndsKeeps ==
    ASSUME IngestInv, FlattenTableEnds
    PROVE  IngestInv'
<1>0. PlanKept /\ Parted
  BY PlanStays, FilesParted DEF OnTableFlattened, Move, Of, CopyEnds, Lost, Told,
      FlattenTableEnds, IngestInv
<1>k. PICK lost \in Lost("aux") : CopyEnds("aux", lost) /\ Told("aux", lost) /\ Move("aux", "flattening")
  BY DEF FlattenTableEnds
<1>c. /\ left' \in [Pipelines -> SUBSET (Files \X (1 .. 2))]
      /\ batch' \in [Pipelines -> SUBSET (Files \X (1 .. 2))]
      /\ written' \in [Files -> Nat] /\ batch["aux"] # {}
      /\ \A x \in batch["aux"] : TableOf(x[1]) \in Tables
      /\ stage["aux"] = "converting" /\ stage' = [stage EXCEPT !["aux"] = "flattening"]
      /\ plan' = plan /\ converter' = "nobody"
      /\ UNCHANGED <<main, workers, args, future, busy, completed, broken, raising, result, current>>
  <2>1. Copied("aux", lost)
    BY <1>k, CopyWrites DEF Pipelines
  <2> QED
    BY <1>0, <1>k, <2>1 DEF Copied, Parted, Tables, CopyEnds, Move, queueVars, Pipelines
<1>1. TypeOK'
  <2>1. PICK b \in batch["aux"] : OnTableFlattened(TableOf(b[1]), Cardinality(batch["aux"] \ lost))
    BY <1>k DEF Told
  <2>2. PICK c \in Pipelines : c = "aux"
    BY DEF Pipelines
  <2>3. /\ Cardinality(batch["aux"] \ lost) \in Nat
        /\ \A t \in Tables : RowsIn(t)' = RowsIn(t)
             + IF t = TableOf(b[1]) THEN Cardinality(batch["aux"] \ lost) ELSE 0
    BY <1>k, <2>2, RowsConverted
  <2>4. PICK m \in Nat, tab \in Tables : m = Cardinality(batch["aux"] \ lost) /\ tab = TableOf(b[1])
    BY <1>c, <2>3
  <2>5. progress' \in ProgressType
    BY <2>1, <2>4, RowsType DEF IngestInv
  <2> QED
    BY <1>c, <2>5 DEF IngestInv, TypeOK, ProgressType, Late
<1>2. FlowInv'
  BY <1>0, <1>c DEF PlanKept, Pipelines, Tables, Statuses, OnTableFlattened, Move, NoFile,
      Of, CopyEnds, Lost, Told, FlattenTableEnds, Left, Unstarted, Local, AtFile, Early,
      Late, TypeOK, FlowOf, FlowInv, IngestInv
<1>3. TaskInv'
  BY <1>0, <1>c DEF PlanKept, Pipelines, OnTableFlattened, Move, Of, CopyEnds, Lost, Told,
      FlattenTableEnds, TypeOK, TaskInv, IngestInv
<1>4. QueueInv'
  <2> SUFFICES ASSUME NEW q \in Pipelines PROVE QueueOf(q)'
    BY DEF QueueInv
  <2> QED
    BY <1>0, <1>c DEF PlanKept, Pipelines, OnTableFlattened, Move, Of, CopyEnds, Lost,
        Told, FlattenTableEnds, Unstarted, Local, AtFile, Early, Late, TypeOK, QueueOf,
        QueueInv, IngestInv
<1>5. DirectInv'
  BY <1>0, <1>c DEF PlanKept, Pipelines, OnTableFlattened, Move, Of, CopyEnds, Lost, Told,
      FlattenTableEnds, Unstarted, Local, AtFile, Early, Late, TypeOK, DirectInv,
      IngestInv
<1>6. BusyInv'
  BY <1>0, <1>c DEF PlanKept, Pipelines, OnTableFlattened, Move, Of, CopyEnds, Lost, Told,
      FlattenTableEnds, Unstarted, Local, AtFile, Early, Late, TypeOK, BusyOf, BusyInv,
      IngestInv
<1>7. ShareInv'
  <2>1. ShareFrame
    BY <1>0, <1>c DEF ShareFrame, PlanKept, Pipelines, OnTableFlattened, Move, Of,
        CopyEnds, Lost, Told, FlattenTableEnds, TypeOK, IngestInv
  <2> QED
    BY <2>1, ShareKept
<1>8. RecordInv'
  BY <1>k, RecordsConverted DEF Pipelines
<1>9. ProgressInv'
  <2>1. PICK b \in batch["aux"] : OnTableFlattened(TableOf(b[1]), Cardinality(batch["aux"] \ lost))
    BY <1>k DEF Told
  <2>2. PICK c \in Pipelines : c = "aux"
    BY DEF Pipelines
  <2>3. /\ Cardinality(batch["aux"] \ lost) \in Nat
        /\ \A t \in Tables : RowsIn(t)' = RowsIn(t)
             + IF t = TableOf(b[1]) THEN Cardinality(batch["aux"] \ lost) ELSE 0
    BY <1>k, <2>2, RowsConverted
  <2>4. PICK m \in Nat, tab \in Tables : m = Cardinality(batch["aux"] \ lost) /\ tab = TableOf(b[1])
    BY <1>c, <2>3
  <2>5. stage["evtx"] = "failed" => stage'["evtx"] = "failed"
    BY <1>c DEF IngestInv, TypeOK, Pipelines
  <2> QED
    BY <1>c, <2>1, <2>3, <2>4, <2>5, RowsTold
<1> QED
  BY <1>1, <1>2, <1>3, <1>4, <1>5, <1>6, <1>7, <1>8, <1>9 DEF IngestInv

(* A batch of events is written, and told only if it is whole.             *)
LEMMA FlattenCaseEndsKeeps ==
    ASSUME IngestInv, FlattenCaseEnds
    PROVE  IngestInv'
<1>0. PlanKept /\ Parted
  BY PlanStays, FilesParted DEF OnTableFlattened, Move, Of, CopyEnds, Lost, Told,
      FlattenCaseEnds, IngestInv
<1>k. PICK lost \in Lost("evtx") : 
          /\ CopyEnds("evtx", lost)
          /\ \/ lost = {} /\ Told("evtx", lost) /\ Move("evtx", "flattening")
             \/ Move("evtx", "failed") /\ UNCHANGED progress
  BY DEF FlattenCaseEnds
<1>c. /\ left' \in [Pipelines -> SUBSET (Files \X (1 .. 2))]
      /\ batch' \in [Pipelines -> SUBSET (Files \X (1 .. 2))]
      /\ written' \in [Files -> Nat] /\ batch["evtx"] # {}
      /\ \A x \in batch["evtx"] : TableOf(x[1]) \in Tables
      /\ stage["evtx"] = "converting" /\ stage["aux"] = stage'["aux"]
      /\ stage' \in [Pipelines -> Early \cup Late \cup {"failed"}] /\ stage'["evtx"] \in {"flattening", "failed"}
      /\ plan' = plan /\ converter' = "nobody"
      /\ Move("evtx", "flattening") => stage'["evtx"] = "flattening"
      /\ Move("evtx", "failed") => stage'["evtx"] = "failed"
      /\ UNCHANGED <<main, workers, args, future, busy, completed, broken, raising, result, current>>
  <2>1. Copied("evtx", lost)
    BY <1>k, CopyWrites DEF Pipelines
  <2>2. /\ stage["aux"] = stage'["aux"]
        /\ stage' \in [Pipelines -> Early \cup Late \cup {"failed"}] /\ stage'["evtx"] \in {"flattening", "failed"}
        /\ Move("evtx", "flattening") => stage'["evtx"] = "flattening"
        /\ Move("evtx", "failed") => stage'["evtx"] = "failed"
    BY <1>k DEF Move, IngestInv, TypeOK, Late, Pipelines
  <2> QED
    BY <1>0, <1>k, <2>1, <2>2 DEF Copied, Parted, Tables, CopyEnds, Move, queueVars, Pipelines
<1>1. TypeOK'
  <2>1. CASE Told("evtx", lost)
    <3>1. PICK b \in batch["evtx"] : OnTableFlattened(TableOf(b[1]), Cardinality(batch["evtx"] \ lost))
      BY <2>1 DEF Told
    <3>2. PICK c \in Pipelines : c = "evtx"
      BY DEF Pipelines
    <3>3. /\ Cardinality(batch["evtx"] \ lost) \in Nat
          /\ \A t \in Tables : RowsIn(t)' = RowsIn(t)
               + IF t = TableOf(b[1]) THEN Cardinality(batch["evtx"] \ lost) ELSE 0
      BY <1>k, <3>2, RowsConverted
    <3>4. PICK m \in Nat, tab \in Tables : m = Cardinality(batch["evtx"] \ lost) /\ tab = TableOf(b[1])
      BY <1>c, <3>3
    <3>5. progress' \in ProgressType
      BY <3>1, <3>4, RowsType DEF IngestInv
    <3> QED
      BY <1>c, <3>5 DEF IngestInv, TypeOK, ProgressType
  <2>2. CASE UNCHANGED progress
    BY <1>c, <2>2 DEF IngestInv, TypeOK
  <2> QED
    BY <1>k, <2>1, <2>2
<1>2. FlowInv'
  BY <1>0, <1>c DEF PlanKept, Pipelines, Tables, Statuses, OnTableFlattened, Move, NoFile,
      Of, CopyEnds, Lost, Told, FlattenCaseEnds, Left, Unstarted, Local, AtFile, Early,
      Late, TypeOK, FlowOf, FlowInv, IngestInv
<1>3. TaskInv'
  BY <1>0, <1>c DEF PlanKept, Pipelines, OnTableFlattened, Move, Of, CopyEnds, Lost, Told,
      FlattenCaseEnds, TypeOK, TaskInv, IngestInv
<1>4. QueueInv'
  <2> SUFFICES ASSUME NEW q \in Pipelines PROVE QueueOf(q)'
    BY DEF QueueInv
  <2> QED
    BY <1>0, <1>c DEF PlanKept, Pipelines, OnTableFlattened, Move, Of, CopyEnds, Lost,
        Told, FlattenCaseEnds, Unstarted, Local, AtFile, Early, Late, TypeOK, QueueOf,
        QueueInv, IngestInv
<1>5. DirectInv'
  BY <1>0, <1>c DEF PlanKept, Pipelines, OnTableFlattened, Move, Of, CopyEnds, Lost, Told,
      FlattenCaseEnds, TypeOK, DirectInv, IngestInv
<1>6. BusyInv'
  BY <1>0, <1>c DEF PlanKept, Pipelines, OnTableFlattened, Move, Of, CopyEnds, Lost, Told,
      FlattenCaseEnds, Unstarted, Local, AtFile, Early, Late, TypeOK, BusyOf, BusyInv,
      IngestInv
<1>7. ShareInv'
  <2>1. ShareFrame
    BY <1>0, <1>c DEF ShareFrame, PlanKept, Pipelines, OnTableFlattened, Move, Of,
        CopyEnds, Lost, Told, FlattenCaseEnds, TypeOK, IngestInv
  <2> QED
    BY <2>1, ShareKept
<1>8. RecordInv'
  <2>1. Move("evtx", "flattening") => lost = {}
    BY <1>k, <1>c
  <2> QED
    BY <1>k, <2>1, RecordsConverted DEF Pipelines
<1>9. ProgressInv'
  <2>1. CASE Told("evtx", lost)
    <3>1. PICK b \in batch["evtx"] : OnTableFlattened(TableOf(b[1]), Cardinality(batch["evtx"] \ lost))
      BY <2>1 DEF Told
    <3>2. PICK c \in Pipelines : c = "evtx"
      BY DEF Pipelines
    <3>3. /\ Cardinality(batch["evtx"] \ lost) \in Nat
          /\ \A t \in Tables : RowsIn(t)' = RowsIn(t)
               + IF t = TableOf(b[1]) THEN Cardinality(batch["evtx"] \ lost) ELSE 0
      BY <1>k, <3>2, RowsConverted
    <3>4. PICK m \in Nat, tab \in Tables : m = Cardinality(batch["evtx"] \ lost) /\ tab = TableOf(b[1])
      BY <1>c, <3>3
    <3>5. stage["evtx"] # "failed"
      BY <1>c
    <3> QED
      BY <1>c, <3>1, <3>3, <3>4, <3>5, RowsTold
  <2>2. CASE Move("evtx", "failed") /\ UNCHANGED progress
    <3>1. PICK b \in batch["evtx"] : TRUE
      BY <1>c
    <3>2. PICK c \in Pipelines : c = "evtx"
      BY DEF Pipelines
    <3>3. /\ Cardinality(batch["evtx"] \ lost) \in Nat
          /\ \A t \in Tables : RowsIn(t)' = RowsIn(t)
               + IF t = TableOf(b[1]) THEN Cardinality(batch["evtx"] \ lost) ELSE 0
      BY <1>k, <3>2, RowsConverted
    <3>4. TableOf(b[1]) = "events"
      <4>1. Copied("evtx", lost)
        BY <1>k, <3>2, CopyWrites
      <4> QED
        BY <1>0, <4>1 DEF Copied, Parted
    <3>5. \A t \in Tables : progress.rows[t] = RowsIn(t) /\ progress.rows[t] \in Nat
      BY <1>c DEF IngestInv, ProgressInv, TypeOK
    <3>6. (\A t \in Tables : progress.rows[t] = RowsIn(t) \/ (t = "events" /\ stage["evtx"] = "failed"))'
      <4>1. stage'["evtx"] = "failed"
        BY <2>2 DEF Move, IngestInv, TypeOK, Pipelines
      <4> QED
        BY <2>2, <3>3, <3>4, <3>5, <4>1
    <3>7. (\A p \in Pipelines : progress.staged[p] = Cardinality(HandledOf(Kind(p))))'
      BY <1>0, <1>c, <2>2 DEF PlanKept, HandledOf, IngestInv, ProgressInv
    <3>8. (\A s \in Statuses :
             progress.tally[s] = Cardinality({f \in HandledOf(plan.found) : result[f].status = s}))'
      BY <1>c, <2>2 DEF HandledOf, IngestInv, ProgressInv
    <3> QED
      BY <3>6, <3>7, <3>8 DEF ProgressInv
  <2> QED
    BY <1>k, <2>1, <2>2
<1> QED
  BY <1>1, <1>2, <1>3, <1>4, <1>5, <1>6, <1>7, <1>8, <1>9 DEF IngestInv

(* A pipeline is done when the rows it has written are those its files     *)
(* reported.                                                               *)
LEMMA FlattenDoneKeeps ==
    ASSUME IngestInv, NEW p \in Pipelines, FlattenDone(p)
    PROVE  IngestInv'
<1>0. PlanKept /\ Parted
  BY PlanStays, FilesParted DEF Move, convertVars, RowsAgree, FlattenDone, IngestInv
<1>c. /\ stage[p] = "flattening" /\ left[p] = {} /\ stage'[p] \in {"done", "failed"}
      /\ stage'[p] = "done" => RowsAgree(p)
      /\ \A q \in Pipelines : q # p => stage'[q] = stage[q]
      /\ plan' = plan /\ UNCHANGED <<args, left, batch, written, result, future, current>>
  BY DEF FlattenDone, Move, queueVars, convertVars, IngestInv, TypeOK
<1>1. TypeOK'
  BY <1>c DEF Pipelines, queueVars, Move, convertVars, RowsAgree, FlattenDone, Unstarted,
      Local, AtFile, Early, Late, TypeOK, IngestInv
<1>2. FlowInv'
  BY <1>0, <1>c DEF PlanKept, Pipelines, Tables, Statuses, Move, NoFile, convertVars,
      RowsAgree, FlattenDone, Left, Unstarted, Local, AtFile, Early, Late, TypeOK, FlowOf,
      FlowInv, IngestInv
<1>3. TaskInv'
  BY <1>0, <1>c DEF PlanKept, Pipelines, Move, convertVars, RowsAgree, FlattenDone,
      TypeOK, TaskInv, IngestInv
<1>4. QueueInv'
  <2> SUFFICES ASSUME NEW q \in Pipelines PROVE QueueOf(q)'
    BY DEF QueueInv
  <2> QED
    BY <1>0, <1>c DEF PlanKept, Pipelines, queueVars, Move, convertVars, RowsAgree,
        FlattenDone, Unstarted, Local, AtFile, Early, Late, TypeOK, QueueOf, QueueInv,
        IngestInv
<1>5. DirectInv'
  BY <1>0, <1>c DEF PlanKept, Pipelines, Move, convertVars, RowsAgree, FlattenDone,
      Unstarted, Local, AtFile, Early, Late, TypeOK, DirectInv, IngestInv
<1>6. BusyInv'
  BY <1>0, <1>c DEF PlanKept, Pipelines, queueVars, Move, convertVars, RowsAgree,
      FlattenDone, Unstarted, Local, AtFile, Early, Late, TypeOK, BusyOf, BusyInv,
      IngestInv
<1>7. ShareInv'
  <2>1. ShareFrame
    BY <1>0, <1>c DEF ShareFrame, PlanKept, Pipelines, queueVars, Move, convertVars,
        RowsAgree, FlattenDone, TypeOK, IngestInv
  <2> QED
    BY <2>1, ShareKept
<1>8. RecordInv'
  <2>1. ASSUME stage'[p] = "done" PROVE \A f \in Kind(p) : written[f] = result[f].records
    <3>1. CASE p = "evtx"
      <4>1. \A f : Of(f, left["evtx"]) = {} /\ Cardinality({}) = 0
        BY <1>c, <3>1, FS_EmptySet DEF Of
      <4>2. \A f \in Kind("evtx") : written[f] + Cardinality(Of(f, left["evtx"])) = result[f].records
        BY <1>c, <3>1 DEF IngestInv, RecordInv
      <4>3. \A f \in Kind("evtx") : written[f] \in Nat
        BY <1>0 DEF Parted, IngestInv, TypeOK
      <4>4. Cardinality({}) = 0
        BY FS_EmptySet
      <4> QED
        BY <3>1, <4>1, <4>2, <4>3, <4>4
    <3>2. CASE p = "aux"
      <4> SUFFICES ASSUME NEW f \in Kind("aux") PROVE written[f] = result[f].records
        BY <3>2
      <4>1. \A h \in Kind("aux") : written[h] \in Nat /\ result[h].records \in Nat /\ written[h] <= result[h].records
        <5> SUFFICES ASSUME NEW h \in Kind("aux")
                     PROVE  written[h] \in Nat /\ result[h].records \in Nat /\ written[h] <= result[h].records
          OBVIOUS
        <5>1. ~Underway(h)
          BY <1>c, <3>2, AllHandled DEF Underway
        <5>2. Of(h, left["aux"]) = {} /\ Cardinality({}) = 0
          BY <1>c, <3>2, FS_EmptySet DEF Of
        <5>3. written[h] + Cardinality(Of(h, left["aux"])) <= result[h].records
          BY <1>c, <3>2, <5>1 DEF IngestInv, RecordInv, Late
        <5>4. written[h] \in Nat /\ result[h].records \in Nat
          BY <1>0 DEF Parted, IngestInv, TypeOK
        <5> QED
          BY <5>2, <5>3, <5>4
      <4>2. PICK t \in {"web_logs", "other"} : t = TableOf(f)
        BY <1>0 DEF Parted
      <4>3. RowsIn(t) = RecordsIn(t)
        BY <1>c, <2>1, <3>2 DEF RowsAgree
      <4> DEFINE S == InTable(t)
                 w == written
                 r == [h \in Files |-> result[h].records]
      <4>4. S \in SUBSET Kind("aux") /\ f \in S /\ S \in SUBSET Files /\ IsFiniteSet(S)
        <5>1. S \in SUBSET Kind("aux") /\ f \in S /\ S \in SUBSET Files
          BY <1>0, <4>2 DEF InTable, Parted
        <5> QED
          BY <5>1, PipelineAssumption, FS_Subset
      <4>5. RowsIn(t) = Sum(w, S) /\ RecordsIn(t) = Sum(r, S)
        BY RowsAreSum, RecordsAreSum
      <4> HIDE DEF S
      <4>6. Counts(w, S) /\ Counts(r, S) /\ Below(w, r, S)
        BY <4>1, <4>4 DEF Counts, Below
      <4>7. Same(w, r, S)
        <5> HIDE DEF w, r
        <5> QED
          BY <4>3, <4>4, <4>5, <4>6, SumsTellLosses
      <4> QED
        BY <4>4, <4>7 DEF Same
    <3> QED
      BY <3>1, <3>2 DEF Pipelines
  <2>2. ASSUME NEW q \in Pipelines PROVE RecordsOf(q)'
    <3>1. RecordsOf(q)
      BY DEF IngestInv, RecordInv
    <3>2. \A f : TableOf(f)' = TableOf(f)
      BY DEF TableOf
    <3>3. CASE q = p
      BY <1>0, <1>c, <2>1, <3>1, <3>3 DEF RecordsOf, PlanKept, Early, Unstarted, Local
    <3>4. CASE q # p
      BY <1>0, <1>c, <3>1, <3>2, <3>4 DEF RecordsOf, PlanKept
    <3> QED
      BY <3>3, <3>4
  <2>3. \A q \in Pipelines : stage'[q] = stage[q] \/ stage'[q] \in {"done", "failed"}
    BY <1>c
  <2>4. \A f : stage'["aux"] = stage["aux"] => Underway(f)' = Underway(f)
    BY <1>c DEF Underway
  <2>5. \A f, B : Of(f, B)' = Of(f, B)
    BY DEF Of
  <2>6. ASSUME stage'["evtx"] \in {"flattening", "converting"}, NEW f \in Kind("evtx")
        PROVE  written[f] + Cardinality(Of(f, left["evtx"])) = result[f].records
    BY <2>3, <2>6 DEF IngestInv, RecordInv, Pipelines
  <2>7. ASSUME stage'["aux"] \in Late \ {"done"}, NEW f \in Kind("aux")
        PROVE  IF Underway(f)' THEN written[f] = 0 /\ Of(f, left["aux"]) = {}
               ELSE written[f] + Cardinality(Of(f, left["aux"])) <= result[f].records
    <3>1. stage'["aux"] = stage["aux"]
      BY <2>3, <2>7 DEF Pipelines, Late, AtFile
    <3> QED
      BY <2>4, <2>7, <3>1 DEF IngestInv, RecordInv
  <2> QED
    BY <1>0, <1>c, <2>2, <2>6, <2>7 DEF PlanKept, RecordInv, Pipelines, Of
<1>9. ProgressInv'
  <2>1. ProgressFrame
    BY <1>0, <1>c DEF ProgressFrame, PlanKept, Pipelines, Move, convertVars, RowsAgree,
        FlattenDone, TypeOK, IngestInv
  <2> QED
    BY <2>1, ProgressKept
<1> QED
  BY <1>1, <1>2, <1>3, <1>4, <1>5, <1>6, <1>7, <1>8, <1>9 DEF IngestInv

-----------------------------------------------------------------------------
(* Nothing is written at first.                                            *)
LEMMA NoRowsAtFirst == ASSUME Init PROVE \A t : RowsIn(t) = 0
<1> SUFFICES ASSUME NEW t PROVE RowsIn(t) = 0
  OBVIOUS
<1> DEFINE S == InTable(t)
           v == CountOf({}, S)
<1>1. IsFiniteSet(S) /\ S \subseteq Files
  BY PipelineAssumption, FS_Subset DEF Init, InTable
<1>2. IsFiniteSet({}) /\ Cardinality({}) = 0
  BY FS_EmptySet
<1>3. Parts({}, S) = {}
  BY DEF Parts
<1>4. \A f \in S : v[f] = 0
  <2> SUFFICES ASSUME NEW f \in S PROVE v[f] = 0
    OBVIOUS
  <2>1. v[f] = Cardinality({b \in {} : b[1] = f})
    BY DEF CountOf
  <2>2. {b \in {} : b[1] = f} = {}
    OBVIOUS
  <2> QED
    BY <1>2, <2>1, <2>2
<1>5. RowsIn(t) = Sum(written, S)
  BY RowsAreSum
<1>6. \A f \in S : written[f] = 0
  BY <1>1 DEF Init
<1> HIDE DEF S
<1>7. Sum(v, S) = 0
  BY <1>1, <1>2, <1>3, SumOfParts
<1> HIDE DEF v
<1>8. Same(written, v, S)
  BY <1>4, <1>6 DEF Same
<1>9. Sum(written, S) = Sum(v, S)
  BY <1>1, <1>8, SumCongruent
<1> QED
  BY <1>5, <1>7, <1>9

(* Before the pipelines begin.                                             *)
LEMMA FirstInv == ASSUME Init PROVE IngestInv
<1>1. TypeOK
  BY PipelineAssumption DEF Init, TypeOK, Early, Unstarted, NewProgress, NoResult
<1>0. Parted
  BY <1>1, FilesParted
<1>2. FlowInv
  BY DEF Init, FlowInv, FlowOf, Left, Local, Unstarted, AtFile, Pipelines
<1>3. TaskInv
  BY DEF Init, TaskInv
<1>4. QueueInv
  BY DEF Init, QueueInv, QueueOf, Unstarted, Local, Late, AtFile
<1>5. DirectInv
  BY <1>0, PipelineAssumption DEF Init, DirectInv, Parted, Early, Unstarted, Local, AtFile, NoResult, Pipelines
<1>6. BusyInv
  BY DEF Init, BusyInv, BusyOf, Pipelines
<1>7. ShareInv
  <2>1. \A p \in Pipelines : busy \cap args[p] = {} /\ workers[p] = 0
    BY DEF Init
  <2>2. Cardinality({}) = 0
    BY FS_EmptySet
  <2>3. ASSUME NEW p \in Pipelines PROVE Cardinality(busy \cap args[p]) = 0 /\ workers[p] = 0
    BY <2>1, <2>2
  <2> QED
    BY <2>3 DEF ShareInv
<1>8. RecordInv
  <2>1. \A p \in Pipelines : Kind(p) \subseteq Files /\ left[p] = {} /\ stage[p] = "idle"
    BY <1>0 DEF Init, Parted
  <2>2. \A f \in Files : written[f] = 0
    BY DEF Init
  <2>3. \A p \in Pipelines : RecordsOf(p)
    BY <2>1, <2>2 DEF RecordsOf
  <2>4. stage["evtx"] = "idle" /\ stage["aux"] = "idle"
    BY <2>1 DEF Pipelines
  <2> QED
    BY <2>3, <2>4 DEF RecordInv, Late, AtFile
<1>9. ProgressInv
  <2>1. \A S \in SUBSET Files : HandledOf(S) = {}
    BY DEF Init, HandledOf
  <2>2. /\ \A p \in Pipelines : progress.staged[p] = 0
        /\ \A s \in Statuses : progress.tally[s] = 0
        /\ \A t \in Tables : progress.rows[t] = 0
    BY DEF Init, NewProgress
  <2>3. Cardinality({}) = 0
    BY FS_EmptySet
  <2>4. \A p \in Pipelines : Kind(p) \in SUBSET Files
    BY <1>0 DEF Parted
  <2>5. plan.found \in SUBSET Files
    BY <1>0 DEF Parted
  <2>6. \A s \in Statuses : {f \in HandledOf(plan.found) : result[f].status = s} = {}
    BY <2>1, <2>5
  <2> QED
    BY <2>1, <2>2, <2>3, <2>4, <2>6, NoRowsAtFirst DEF ProgressInv
<1> QED
  BY <1>1, <1>2, <1>3, <1>4, <1>5, <1>6, <1>7, <1>8, <1>9 DEF IngestInv

(* A step that changes nothing.                                            *)
LEMMA StutterKeeps == ASSUME IngestInv, UNCHANGED vars PROVE IngestInv'
<1>0. PlanKept /\ Parted
  BY PlanStays, FilesParted DEF vars, IngestInv
<1>1. TypeOK'
  BY DEF vars, queueVars, convertVars, IngestInv, TypeOK
<1>2. FlowInv'
  BY <1>0 DEF PlanKept, vars, queueVars, convertVars, IngestInv, FlowInv, FlowOf, Left, Pipelines
<1>3. TaskInv'
  BY <1>0 DEF PlanKept, vars, queueVars, convertVars, IngestInv, TaskInv
<1>4. QueueInv'
  BY <1>0 DEF PlanKept, vars, queueVars, convertVars, IngestInv, QueueInv, QueueOf
<1>5. DirectInv'
  BY <1>0 DEF PlanKept, vars, queueVars, convertVars, IngestInv, DirectInv
<1>6. BusyInv'
  BY <1>0 DEF PlanKept, vars, queueVars, convertVars, IngestInv, BusyInv, BusyOf
<1>7. ShareInv'
  BY DEF vars, queueVars, convertVars, IngestInv, ShareInv
<1>8. RecordInv'
  <2>1. RecordFrame
    BY DEF RecordFrame, vars, queueVars, convertVars
  <2> QED
    BY <2>1, RecordsKept
<1>9. ProgressInv'
  <2>1. ProgressFrame
    BY DEF ProgressFrame, vars, queueVars, convertVars
  <2> QED
    BY <2>1, ProgressKept
<1> QED
  BY <1>1, <1>2, <1>3, <1>4, <1>5, <1>6, <1>7, <1>8, <1>9 DEF IngestInv

(* Every step keeps the invariant.                                         *)
LEMMA StepKeeps == ASSUME IngestInv, Next PROVE IngestInv'
<1>1. CASE MainStep
  BY <1>1, BeginKeeps, AuxAfterEvtxKeeps, JoinKeeps, JoinRaisesKeeps, NothingFoundKeeps, CommitKeeps,
     FinishKeeps DEF MainStep
<1>2. CASE DirectStep
  <2>1. CASE \E f \in Web : DirectUnreadable(f) \/ DirectDeclined(f) \/ DirectOpen(f)
    BY <2>1, DirectUnreadableKeeps, DirectDeclinedKeeps, DirectOpenKeeps
  <2>2. CASE ReportUnknown \/ UnknownReported \/ StartDirect
    BY <2>2, ReportUnknownKeeps, UnknownReportedKeeps, StartDirectKeeps
  <2>3. CASE DirectCopy \/ DirectUnsupported \/ DirectPublish \/ Replay \/ ReportDirect \/ DirectDone
    BY <2>3, DirectCopyKeeps, DirectUnsupportedKeeps, DirectPublishKeeps, ReplayKeeps,
       ReportDirectKeeps, DirectDoneKeeps
  <2> QED
    BY <1>2, <2>1, <2>2, <2>3 DEF DirectStep
<1>3. ASSUME NEW p \in Pipelines, QueueStep(p) PROVE IngestInv'
  <2>1. CASE SubmitAll(p) \/ RunInline(p) \/ Collect(p) \/ AllCollected(p)
    BY <1>3, <2>1, SubmitAllKeeps, RunInlineKeeps, CollectKeeps, AllCollectedKeeps DEF QueueStep
  <2>2. CASE Fill(p) \/ FillBroken(p) \/ Wait(p) \/ Handle(p)
    BY <1>3, <2>2, FillKeeps, FillBrokenKeeps, WaitKeeps, HandleKeeps DEF QueueStep
  <2>3. CASE Refill(p) \/ Exhausted(p) \/ Close(p)
    BY <1>3, <2>3, RefillKeeps, ExhaustedKeeps, CloseKeeps DEF QueueStep
  <2> QED
    BY <1>3, <2>1, <2>2, <2>3 DEF QueueStep
<1>4. ASSUME NEW p \in Pipelines, PipelineStep(p) PROVE IngestInv'
  BY <1>4, NothingToDoKeeps, StartStagingKeeps, StartFlatteningKeeps, ConvertKeeps, FlattenDoneKeeps,
     FlattenCaseEndsKeeps, FlattenTableEndsKeeps DEF PipelineStep
<1>5. ASSUME NEW p \in Pipelines,
             PipelineRaises(p) \/ (PoolBreaks(p) /\ UNCHANGED <<main, convertVars>>)
      PROVE  IngestInv'
  BY <1>5, PipelineRaisesKeeps, PoolBreaksKeeps
<1>6. CASE ProcessStep
  BY <1>6, StartTaskKeeps, EndTaskKeeps, TerminatedKeeps DEF ProcessStep
<1> QED
  BY <1>1, <1>2, <1>3, <1>4, <1>5, <1>6 DEF Next

(* Every state of an ingest satisfies the invariant.                       *)
THEOREM IngestInvariance == Spec => []IngestInv
<1>1. Init => IngestInv
  BY FirstInv
<1>2. IngestInv /\ [Next]_vars => IngestInv'
  BY StepKeeps, StutterKeeps
<1> QED
  BY <1>1, <1>2, PTL DEF Spec

(* Whatever path a file took through the pipelines of an ingest, a         *)
(* pipeline that succeeds has written each of its records once             *)
(* (Case.ingest, flatten_case, flatten_table, direct_web_file).            *)
THEOREM RowsMatch == Spec => []RowsMatchStaged
<1>1. ASSUME IngestInv PROVE RowsMatchStaged
  <2> SUFFICES ASSUME NEW p \in Pipelines, stage[p] = "done", NEW f \in plan.found, f \in Evtx <=> p = "evtx"
               PROVE  written[f] = result[f].records
    BY DEF RowsMatchStaged
  <2>1. f \in Files
    BY <1>1, FilesParted DEF IngestInv, Parted
  <2>2. f \in Kind(p)
    BY <2>1 DEF Kind, Found, Pipelines
  <2> QED
    BY <1>1, <2>2 DEF IngestInv, RecordInv, RecordsOf
<1> QED
  BY <1>1, IngestInvariance, PTL

(* At no time more processes and threads parse for a local ingest than it  *)
(* was given, and none when it leaves its transaction (submit_all,         *)
(* Case.ingest's split of the workers, direct_web_file).                   *)
THEOREM BudgetIsKept == Spec => []BudgetKept
<1>1. ASSUME IngestInv, ~plan.distributed
      PROVE  /\ Cardinality(busy) <= IF Left THEN 0 ELSE plan.budget
             /\ Left => converter = "nobody"
  <2>0. Parted
    BY <1>1, FilesParted DEF IngestInv
  <2>1. plan.budget \in Nat \ {0}
    BY <1>1, Shares DEF IngestInv
  <2>2. ASSUME \A p \in Pipelines : stage[p] \in {"idle", "done", "failed"} PROVE busy = {} /\ converter = "nobody"
    <3>1. \A p \in Pipelines : \A f \in busy : f \notin args[p]
      BY <1>1, <2>2 DEF IngestInv, BusyInv, BusyOf, Local
    <3>2. \A f \in busy : f \notin DirectFiles
      BY <1>1, <2>2 DEF IngestInv, BusyInv, Pipelines
    <3>3. busy = {}
      BY <1>1, <3>1, <3>2 DEF IngestInv, BusyInv, Pipelines
    <3>4. \A p \in Pipelines : converter # p
      BY <1>1, <2>2 DEF IngestInv, BusyInv
    <3>5. converter = "nobody"
      BY <1>1, <3>4 DEF IngestInv, TypeOK
    <3> QED
      BY <3>3, <3>5
  <2>3. CASE Left
    <3>1. busy = {} /\ converter = "nobody"
      BY <1>1, <2>2, <2>3 DEF IngestInv, FlowInv
    <3> QED
      BY <2>3, <3>1, FS_EmptySet
  <2>4. CASE main = "scanned"
    <3>1. busy = {}
      BY <1>1, <2>2, <2>4 DEF IngestInv, FlowInv, Pipelines
    <3>2. Cardinality(busy) = 0 /\ ~Left
      BY <2>4, <3>1, FS_EmptySet DEF Left
    <3> QED
      BY <2>1, <3>2
  <2>5. CASE ~Left /\ main # "scanned"
    <3> DEFINE E == busy \cap args["evtx"]
               A == busy \cap args["aux"]
               D == busy \cap DirectFiles
               AD == A \cup D
    <3>1. IsFiniteSet(E) /\ IsFiniteSet(A) /\ IsFiniteSet(D) /\ IsFiniteSet(AD)
      BY <1>1, PipelineAssumption, FS_Subset DEF IngestInv, TypeOK
    <3>2. busy = E \cup AD
      BY <1>1 DEF IngestInv, BusyInv
    <3>3. /\ Cardinality(E) <= Share("evtx") /\ Cardinality(A) <= Share("aux")
          /\ stage["evtx"] \notin Local => E = {}
          /\ stage["aux"] \notin Local => A = {}
      BY <1>1, <2>5 DEF IngestInv, ShareInv, FlowInv, FlowOf, BusyInv, BusyOf, Pipelines
    <3>4. /\ D # {} => stage["aux"] \in {"copying", "replay"}
          /\ \A f, h \in D : f = h
      BY <1>1 DEF IngestInv, BusyInv
    <3>5. /\ Share("evtx") \in Nat \ {0} /\ Share("aux") \in Nat \ {0}
          /\ Concurrent => Share("evtx") + Share("aux") = plan.budget
          /\ ~Concurrent => Share("evtx") = plan.budget /\ Share("aux") = plan.budget
      BY <1>1, Shares DEF IngestInv, Pipelines
    <3>6. ~Concurrent /\ stage["aux"] # "idle" => stage["evtx"] = "done"
      BY <1>1 DEF IngestInv, FlowInv
    <3> HIDE DEF E, A, D
    <3>7. Cardinality(AD) <= Share("aux")
      <4>1. CASE D = {}
        <5>1. AD = A
          BY <4>1
        <5> QED
          BY <3>3, <5>1
      <4>2. CASE D # {}
        <5>1. PICK f : D = {f}
          BY <3>4, <4>2
        <5>2. A = {}
          BY <3>3, <3>4, <4>2 DEF Local
        <5>3. AD = {f}
          BY <5>1, <5>2
        <5>4. Cardinality(AD) = 1
          BY <5>3, FS_Singleton
        <5> QED
          BY <3>5, <5>4
      <4> QED
        BY <4>1, <4>2
    <3>8. stage["aux"] = "idle" => AD = {}
      BY <3>3, <3>4 DEF Local
    <3>9. stage["evtx"] = "done" => E = {}
      BY <3>3 DEF Local
    <3> HIDE DEF AD
    <3>10. /\ Cardinality(E) \in Nat /\ Cardinality(AD) \in Nat /\ Cardinality(busy) \in Nat
           /\ Cardinality(busy) = Cardinality(E) + Cardinality(AD) - Cardinality(E \cap AD)
           /\ Cardinality(E \cap AD) \in Nat /\ Cardinality({}) = 0
      BY <3>1, <3>2, FS_Union, FS_CardinalityType, FS_Intersection, FS_EmptySet
    <3>11. Cardinality(busy) <= plan.budget
      <4>1. CASE Concurrent
        BY <2>1, <3>3, <3>5, <3>7, <3>10, <4>1
      <4>2. CASE ~Concurrent /\ stage["aux"] = "idle"
        <5>1. Cardinality(AD) = 0
          BY <3>8, <3>10, <4>2
        <5> QED
          BY <2>1, <3>3, <3>5, <3>10, <4>2, <5>1
      <4>3. CASE ~Concurrent /\ stage["aux"] # "idle"
        <5>1. Cardinality(E) = 0
          BY <3>6, <3>9, <3>10, <4>3
        <5> QED
          BY <2>1, <3>5, <3>7, <3>10, <4>3, <5>1
      <4> QED
        BY <4>1, <4>2, <4>3
    <3> QED
      BY <2>5, <3>11
  <2> QED
    BY <2>3, <2>4, <2>5
<1>2. IngestInv => BudgetKept
  BY <1>1 DEF BudgetKept
<1> QED
  BY <1>2, IngestInvariance, PTL

(* A finished ingest has told the analyst of every file, once and by what  *)
(* became of it, and of every row (ProgressReporter.on_evtx_result,        *)
(* on_aux_result, on_table_flattened).                                     *)
THEOREM ReportIsComplete == Spec => []ReportComplete
<1>1. ASSUME IngestInv, main \in {"joined", "committed", "returned"}
      PROVE  /\ progress.staged["evtx"] = Cardinality(Found(Evtx))
             /\ progress.staged["aux"] = Cardinality(Found(Files \ Evtx))
             /\ \A s \in Statuses : progress.tally[s] = Cardinality({f \in plan.found : result[f].status = s})
             /\ \A t \in Tables : progress.rows[t] = RowsIn(t)
  <2>0. Parted
    BY <1>1, FilesParted DEF IngestInv
  <2>1. stage["evtx"] = "done" /\ stage["aux"] = "done"
    BY <1>1 DEF IngestInv, FlowInv, Pipelines
  <2>2. \A p \in Pipelines : args[p] = QueuedFiles(p) /\ \A f \in args[p] : future[f] = "handled"
    BY <1>1, <2>0, <2>1 DEF IngestInv, FlowInv, FlowOf, QueueInv, QueueOf, Late, Parted
  <2>3. \A f \in DirectFiles \cup Found(Unknown) : future[f] = "handled"
    BY <1>1, <2>1 DEF IngestInv, DirectInv
  <2>4. \A p \in Pipelines : HandledOf(Kind(p)) = Kind(p)
    BY <2>0, <2>2, <2>3 DEF HandledOf, Parted
  <2>5. HandledOf(plan.found) = plan.found
    BY <2>0, <2>2, <2>3 DEF HandledOf, Parted
  <2>6. /\ \A p \in Pipelines : progress.staged[p] = Cardinality(Kind(p))
        /\ \A s \in Statuses : progress.tally[s] = Cardinality({f \in plan.found : result[f].status = s})
        /\ \A t \in Tables : progress.rows[t] = RowsIn(t)
    BY <1>1, <2>1, <2>4, <2>5 DEF IngestInv, ProgressInv
  <2>7. Kind("evtx") = Found(Evtx) /\ Kind("aux") = Found(Files \ Evtx)
    BY DEF Kind
  <2> QED
    BY <2>6, <2>7 DEF Pipelines
<1>2. IngestInv => ReportComplete
  BY <1>1 DEF ReportComplete
<1> QED
  BY <1>2, IngestInvariance, PTL
===============================================================================
