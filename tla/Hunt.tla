---------------------------------- MODULE Hunt ----------------------------------
(***************************************************************************)
(* A Sigma hunt over one case (detect/hunt.py) and the results an analyst  *)
(* reads, reopens and exports (detect/results.py).  A local hunt evaluates *)
(* its rules on one snapshot of the case; a distributed one hands slices   *)
(* of the rules to workers that load the rules again, each with a snapshot *)
(* of its own.                                                             *)
(*                                                                         *)
(*  hunt    loading -> working -> indexing -> indexed -> returned          *)
(*  worker  idle -> rules -> copied -> rules ... -> done                   *)
(*          any of them -> raised, the hunt -> dead                        *)
(*  export  none -> copying -> copied -> none                              *)
(***************************************************************************)
EXTENDS Integers, Sequences, FiniteSets, FiniteSetsExt

CONSTANTS
    RuleSets,      \* the rules a directory may hold: sequences of Rule
    Slots,         \* the workers: 1..n
    ChunkCount,    \* the slices a distributed hunt asks for
    EagerRows,     \* matches up to which a result is kept in memory
    MaxImports, MaxEdits, MaxLosses

(* quiet: below the level asked for; tableless: the case has no table for  *)
(* it; broken: it does not become SQL; sound: matches one row per import.  *)
Rule == [id : {"r", "s", "t"}, kind : {"quiet", "tableless", "broken", "sound"}]

ASSUME HuntAssumption ==
    /\ RuleSets \subseteq Seq(Rule)
    /\ IsFiniteSet(Slots) /\ Slots = 1..Cardinality(Slots) /\ ChunkCount \in Slots
    /\ EagerRows \in Nat /\ MaxImports \in Nat /\ MaxEdits \in Nat /\ MaxLosses \in Nat

VARIABLES
    plan,       \* the rules when the hunt begins, and whether it is distributed
    imports,    \* committed imports of the case
    present,    \* the rules still in the directory
    losses,     \* result files lost since
    hunt,       \* where run_hunt is
    pc,         \* worker |-> where it is
    todo,       \* worker |-> the rules it has not judged
    snapshot,   \* worker |-> the imports its CaseDB sees
    counted,    \* worker |-> what DuckDB said it copied
    got,        \* worker |-> its paths, rows and failures
    files,      \* <<worker, rule>> |-> rows of its Parquet file, finished or not
    index,      \* results.json
    result,     \* what the analyst holds
    export      \* the export of it, and the destination

workerVars == <<pc, todo, snapshot, counted, got, files>>
vars == <<plan, imports, present, losses, hunt, workerVars, index, result, export>>

NoResult == [held |-> FALSE, files |-> {}, total |-> 0, frame |-> -1]
NoIndex == [state |-> "none", files |-> {}, rows |-> {}, failures |-> {}, total |-> 0]
Nothing == [paths |-> {}, rows |-> {}, failures |-> {}]

Positions == DOMAIN plan.rules
Distributed == plan.distributed /\ Len(plan.rules) > 1

(* _chunk_rules: the slice that the i-th rule belongs to.                  *)
SliceSize ==
    LET wanted == Min({ChunkCount, Len(plan.rules)})
    IN  (Len(plan.rules) + wanted - 1) \div wanted
SliceOf(i) == IF Distributed THEN (i - 1) \div SliceSize + 1 ELSE 1
Working == {1} \cup {SliceOf(i) : i \in Positions}

(* Mutant: a worker takes its rules from a slice without an end.           *)
FromItsPlace(w) == {i \in present : SliceOf(i) >= w}

(* A worker loads the directory again and keeps the rules with the ids of  *)
(* its slice; a local hunt keeps those it has loaded.                      *)
RulesOf(w) ==
    LET wanted == {plan.rules[i].id : i \in {j \in Positions : SliceOf(j) = w}}
    IN  IF Distributed THEN {i \in present : plan.rules[i].id \in wanted} ELSE Positions

Init ==
    /\ plan \in [rules : RuleSets, distributed : BOOLEAN]
    /\ imports = 0 /\ present = Positions /\ losses = 0
    /\ hunt = "loading"
    /\ pc = [w \in Slots |-> "idle"]
    /\ todo = [w \in Slots |-> {}]
    /\ snapshot = [w \in Slots |-> 0]
    /\ counted = [w \in Slots |-> 0]
    /\ got = [w \in Slots |-> Nothing]
    /\ files = [p \in {} |-> 0]
    /\ index = NoIndex /\ result = NoResult
    /\ export = [pc |-> "none", rows |-> 0, partial |-> FALSE, destination |-> "old", of |-> 0]

Put(path, rows) == [p \in DOMAIN files \cup {path} |-> IF p = path THEN rows ELSE files[p]]
Without(path) == [p \in DOMAIN files \ {path} |-> files[p]]
Named(w, i, suffix) == <<w, i, suffix>>
Current(w) == Min(todo[w])

(***************************************************************************)
(* What goes on meanwhile.                                                 *)
(***************************************************************************)
ImportCommits ==
    /\ imports < MaxImports /\ hunt \in {"loading", "working"}
    /\ imports' = imports + 1
    /\ UNCHANGED <<plan, present, losses, hunt, workerVars, index, result, export>>

RuleRemoved ==
    /\ Cardinality(Positions \ present) < MaxEdits /\ hunt = "working"
    /\ \E i \in present : present' = present \ {i}
    /\ UNCHANGED <<plan, imports, losses, hunt, workerVars, index, result, export>>

(* A file of the results is lost, or missing in a copy of the case.        *)
FileLost ==
    /\ losses < MaxLosses /\ hunt \in {"returned", "dead"}
    /\ \E p \in DOMAIN files : p[3] = "parquet" /\ files' = Without(p)
    /\ losses' = losses + 1
    /\ UNCHANGED <<plan, imports, present, hunt, pc, todo, snapshot, counted, got, index, result, export>>

(***************************************************************************)
(* _evaluate_rules, in the hunt itself or in a worker.                     *)
(***************************************************************************)
Submit ==
    /\ hunt = "loading" /\ hunt' = "working"
    /\ UNCHANGED <<plan, imports, present, losses, workerVars, index, result, export>>

Open(w) ==
    /\ hunt = "working" /\ w \in Working /\ pc[w] = "idle"
    /\ pc' = [pc EXCEPT ![w] = "rules"]
    /\ todo' = [todo EXCEPT ![w] = RulesOf(w)]
    /\ snapshot' = [snapshot EXCEPT ![w] = imports]
    /\ UNCHANGED <<plan, imports, present, losses, hunt, counted, got, files, index, result, export>>

(* A local hunt evaluates in its own thread; workers outlive theirs.       *)
Running == hunt = "working" \/ Distributed
Judged(w) == todo' = [todo EXCEPT ![w] = @ \ {Current(w)}]
Failure(w) == got' = [got EXCEPT ![w].failures = @ \cup {<<w, Current(w)>>}]
AtRule(w, kinds) == Running /\ pc[w] = "rules" /\ todo[w] # {} /\ plan.rules[Current(w)].kind \in kinds

PassOver(w) ==
    /\ AtRule(w, {"quiet"}) /\ Judged(w)
    /\ UNCHANGED <<plan, imports, present, losses, hunt, pc, snapshot, counted, got, files, index, result, export>>

Unusable(w) ==
    /\ AtRule(w, {"tableless", "broken"}) /\ Judged(w) /\ Failure(w)
    /\ UNCHANGED <<plan, imports, present, losses, hunt, pc, snapshot, counted, files, index, result, export>>

(* The file DuckDB leaves may be short of what it counted.                 *)
CopyMatches(w) ==
    /\ AtRule(w, {"sound"})
    /\ counted' = [counted EXCEPT ![w] = snapshot[w]]
    /\ \E rows \in {snapshot[w], Max({0, snapshot[w] - 1})} : files' = Put(Named(w, Current(w), "partial"), rows)
    /\ pc' = [pc EXCEPT ![w] = "copied"]
    /\ UNCHANGED <<plan, imports, present, losses, hunt, todo, snapshot, got, index, result, export>>

(* An error of the copy or of the rename is the failure of the rule.       *)
CopyFails(w) ==
    /\ AtRule(w, {"sound"}) \/ (Running /\ pc[w] = "copied")
    /\ Judged(w) /\ Failure(w)
    /\ files' = Without(Named(w, Current(w), "partial"))
    /\ pc' = [pc EXCEPT ![w] = "rules"]
    /\ UNCHANGED <<plan, imports, present, losses, hunt, snapshot, counted, index, result, export>>

Copied(w) == files[Named(w, Current(w), "partial")] = counted[w]

Keep(w) ==
    /\ Running /\ pc[w] = "copied" /\ Copied(w)
    /\ LET i == Current(w)
           partial == Named(w, i, "partial")
           output == Named(w, i, "parquet")
       IN  /\ files' = IF counted[w] = 0 THEN Without(partial)
                       ELSE [p \in (DOMAIN files \ {partial}) \cup {output} |->
                                IF p = output THEN files[partial] ELSE files[p]]
           /\ got' = [got EXCEPT ![w].paths = IF counted[w] = 0 THEN @ ELSE @ \cup {output},
                                 ![w].rows = @ \cup {<<w, i, counted[w]>>}]
    /\ Judged(w)
    /\ pc' = [pc EXCEPT ![w] = "rules"]
    /\ UNCHANGED <<plan, imports, present, losses, hunt, snapshot, counted, index, result, export>>

WorkerReturns(w) ==
    /\ Running /\ pc[w] = "rules" /\ todo[w] = {}
    /\ pc' = [pc EXCEPT ![w] = "done"]
    /\ UNCHANGED <<plan, imports, present, losses, hunt, todo, snapshot, counted, got, files, index, result, export>>

(* The case cannot be opened, a partial file cannot be unlinked, or the    *)
(* worker is killed.                                                       *)
WorkerRaises(w) ==
    /\ hunt = "working" /\ w \in Working /\ pc[w] \in {"idle", "rules", "copied"}
    /\ pc' = [pc EXCEPT ![w] = "raised"]
    /\ UNCHANGED <<plan, imports, present, losses, hunt, todo, snapshot, counted, got, files, index, result, export>>

(***************************************************************************)
(* The results: the list of the files and of the rules is written last.    *)
(***************************************************************************)
Summed(rows) ==
    LET matches == [r \in rows |-> r[3]] IN MapThenSumSet(LAMBDA r : matches[r], rows)
Stored(paths) ==
    LET held == [p \in paths |-> IF p \in DOMAIN files THEN files[p] ELSE 0]
    IN  MapThenSumSet(LAMBDA p : held[p], paths)
Readable(paths) == paths \subseteq DOMAIN files

Collected ==
    LET rows == UNION {got[w].rows : w \in Working}
    IN  [state |-> "torn", files |-> UNION {got[w].paths : w \in Working}, rows |-> rows,
         failures |-> UNION {got[w].failures : w \in Working}, total |-> Summed(rows)]

BeginIndex ==
    /\ hunt = "working" /\ \A w \in Working : pc[w] = "done"
    /\ hunt' = "indexing" /\ index' = Collected
    /\ UNCHANGED <<plan, imports, present, losses, workerVars, result, export>>

EndIndex ==
    /\ hunt = "indexing" /\ hunt' = "indexed"
    /\ index' = [index EXCEPT !.state = "whole"]
    /\ UNCHANGED <<plan, imports, present, losses, workerVars, result, export>>

(* _load_small: all the rows in memory, or none if they are many or wide.  *)
Small(total, paths) == {-1} \cup (IF total > EagerRows THEN {} ELSE {Stored(paths)})

Hold == \E frame \in Small(index.total, index.files) :
    result' = [held |-> TRUE, files |-> index.files, total |-> index.total, frame |-> frame]

Return ==
    /\ hunt = "indexed" /\ hunt' = "returned" /\ Hold
    /\ UNCHANGED <<plan, imports, present, losses, workerVars, index, export>>

HuntRaises ==
    /\ hunt = "working" /\ \E w \in Working : pc[w] = "raised"
    /\ hunt' = "dead"
    /\ UNCHANGED <<plan, imports, present, losses, workerVars, index, result, export>>

(* A full disk, or the death of the process: local rules die with it.      *)
HuntDies ==
    /\ hunt \in {"working", "indexing", "indexed"} /\ hunt' = "dead"
    /\ UNCHANGED <<plan, imports, present, losses, workerVars, index, result, export>>

(* Mutant: reopening trusts the list.                                      *)
Listed == index.state = "whole"

Verified == index.state = "whole" /\ Readable(index.files) /\ Stored(index.files) = index.total

Reopen ==
    /\ hunt \in {"returned", "dead"} /\ export.pc = "none"
    /\ Verified /\ Hold
    /\ UNCHANGED <<plan, imports, present, losses, hunt, workerVars, index, export>>

(***************************************************************************)
(* HuntResults.save: a partial file that takes the place of the old one.   *)
(***************************************************************************)
BeginExport ==
    /\ result.held /\ export.pc = "none"
    /\ export' = [export EXCEPT !.pc = "copying", !.partial = TRUE]
    /\ UNCHANGED <<plan, imports, present, losses, hunt, workerVars, index, result>>

ExportCopies ==
    /\ export.pc = "copying" /\ Readable(result.files)
    /\ export' = [export EXCEPT !.pc = "copied", !.rows = Stored(result.files)]
    /\ UNCHANGED <<plan, imports, present, losses, hunt, workerVars, index, result>>

AllExported == export.rows = result.total

Replace ==
    /\ export.pc = "copied" /\ AllExported
    /\ export' = [pc |-> "none", rows |-> 0, partial |-> FALSE, destination |-> "new", of |-> export.rows]
    /\ UNCHANGED <<plan, imports, present, losses, hunt, workerVars, index, result>>

ExportFails ==
    /\ export.pc \in {"copying", "copied"}
    /\ export' = [export EXCEPT !.pc = "none", !.rows = 0, !.partial = FALSE]
    /\ UNCHANGED <<plan, imports, present, losses, hunt, workerVars, index, result>>

Evaluate(w) ==
    \/ Open(w) \/ PassOver(w) \/ Unusable(w) \/ CopyMatches(w) \/ CopyFails(w) \/ Keep(w)
    \/ WorkerReturns(w) \/ WorkerRaises(w)
Meanwhile == ImportCommits \/ RuleRemoved \/ FileLost
Index == BeginIndex \/ EndIndex \/ Return \/ HuntRaises \/ HuntDies
Analyst == Reopen \/ BeginExport \/ ExportCopies \/ Replace \/ ExportFails

Next == Submit \/ Index \/ Analyst \/ Meanwhile \/ \E w \in Slots : Evaluate(w)
Spec == Init /\ [][Next]_vars

-----------------------------------------------------------------------------
(* A result that an analyst gets, from the hunt or by reopening it, has    *)
(* all its rows on the disk, as many as the rules report, and holds all of *)
(* them in memory or none; and an export is as it was, or holds them all.  *)
ResultIsComplete ==
    [][/\ result # result' =>
            Stored(result'.files) = result'.total /\ result'.frame \in {-1, result'.total}
       /\ export.destination # export'.destination => export'.of = result.total]_vars

(* Every rule loaded is accounted for once, as evaluated or as failed,     *)
(* unless its level is too low: by a local hunt, and by a distributed one  *)
(* if the ids are distinct and the directory stays as it is.               *)
Distinct == \A i, j \in Positions : plan.rules[i].id = plan.rules[j].id => i = j
Steady == Distributed => Distinct /\ present = Positions
EveryRuleOnce ==
    index.state = "whole" /\ Steady =>
        \A i \in Positions :
            Cardinality({r \in index.rows : r[2] = i}) + Cardinality({f \in index.failures : f[2] = i})
                = IF plan.rules[i].kind = "quiet" THEN 0 ELSE 1

-----------------------------------------------------------------------------
(* Why they hold: what each worker has judged and what it has on the disk. *)
Path == Slots \X Nat \X {"partial", "parquet"}
RowsOf(S) == SUBSET (S \X Positions \X Nat)
Output == [paths : SUBSET Path, rows : RowsOf(Slots), failures : SUBSET (Slots \X Positions)]
Listing == [state : {"none", "torn", "whole"}, files : SUBSET Path, rows : RowsOf(Slots),
            failures : SUBSET (Slots \X Positions), total : Nat]
Results == [held : BOOLEAN, files : SUBSET Path, total : Nat, frame : Nat \cup {-1}]
Exports == [pc : {"none", "copying", "copied"}, rows : Nat, partial : BOOLEAN,
            destination : {"old", "new"}, of : Nat]

TypeOK ==
    /\ plan \in [rules : RuleSets, distributed : BOOLEAN]
    /\ imports \in Nat /\ losses \in Nat /\ present \subseteq Positions
    /\ hunt \in {"loading", "working", "indexing", "indexed", "returned", "dead"}
    /\ pc \in [Slots -> {"idle", "rules", "copied", "done", "raised"}]
    /\ todo \in [Slots -> SUBSET Positions]
    /\ snapshot \in [Slots -> Nat] /\ counted \in [Slots -> Nat]
    /\ got \in [Slots -> Output] /\ \A w \in Slots : IsFiniteSet(got[w].rows)
    /\ files \in [DOMAIN files -> Nat] /\ DOMAIN files \subseteq Path
    /\ index \in Listing
    /\ result \in Results /\ IsFiniteSet(result.files)
    /\ export \in Exports

(* A rule is judged once: it is still to be judged, or was passed over, or *)
(* has a row or a failure; and a worker judges the rules of its slice.     *)
RowFor(w, i)   == \E r \in got[w].rows : r[2] = i
Failed(w, i)   == <<w, i>> \in got[w].failures
Quiet(i)       == plan.rules[i].kind = "quiet"
JudgedBy(w, i) == Quiet(i) \/ RowFor(w, i) \/ Failed(w, i)

WorkerInv(w) ==
    /\ pc[w] = "idle" => todo[w] = {} /\ got[w] = Nothing
    /\ pc[w] = "copied" => todo[w] # {} /\ ~Quiet(Current(w))
    /\ pc[w] = "done" => todo[w] = {}
    /\ \A r \in got[w].rows : r[1] = w /\ r[2] \notin todo[w] /\ ~Quiet(r[2]) /\ ~Failed(w, r[2])
    /\ \A f \in got[w].failures : f[1] = w /\ f[2] \notin todo[w] /\ ~Quiet(f[2])
    /\ \A r, s \in got[w].rows : r[2] = s[2] => r = s
    /\ Steady /\ pc[w] \notin {"idle", "raised"} => \A i \in Positions :
         IF SliceOf(i) = w THEN i \in todo[w] \/ JudgedBy(w, i)
         ELSE i \notin todo[w] /\ ~RowFor(w, i) /\ ~Failed(w, i)

(* The rows of a worker are on the disk until files are lost.              *)
Holding(rows) == {r \in rows : r[3] > 0}
FileOf(r)     == Named(r[1], r[2], "parquet")
FilesInv(w) ==
    /\ got[w].paths = {FileOf(r) : r \in Holding(got[w].rows)}
    /\ hunt \notin {"returned", "dead"} =>
         \A r \in Holding(got[w].rows) : FileOf(r) \in DOMAIN files /\ files[FileOf(r)] = r[3]

(* The index was made of what all workers returned.                        *)
IndexInv ==
    /\ hunt \in {"loading", "working"} => index.state = "none"
    /\ hunt \in {"indexed", "returned"} => index.state = "whole"
    /\ hunt = "indexing" => index.state = "torn"
    /\ index.state # "none" =>
         (\A w \in Working : pc[w] = "done") /\ index = [Collected EXCEPT !.state = index.state]

HuntInv == TypeOK /\ IndexInv /\ \A w \in Slots : WorkerInv(w) /\ FilesInv(w)
==================================================================================
