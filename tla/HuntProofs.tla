------------------------------ MODULE HuntProofs ------------------------------
(***************************************************************************)
(* Hunts, for any rules, workers and numbers of matches: every rule is     *)
(* judged once, and a result has its rows on the disk when it is handed    *)
(* out.  The invariant is HuntInv of Hunt; where rows are counted, on the  *)
(* disk and in the index, both sums are taken over the rows of the index.  *)
(***************************************************************************)
EXTENDS Hunt, SumTheorems

-----------------------------------------------------------------------------
(* Rounded division.                                                       *)
LEMMA Quotient ==
    ASSUME NEW n \in Nat, NEW d \in Nat \ {0}
    PROVE  n \div d \in Nat /\ d * (n \div d) <= n /\ n < d * (n \div d) + d
  OBVIOUS

(* No slice lies beyond the workers that were asked for.                   *)
LEMMA SlicesFit ==
    ASSUME NEW n \in Nat \ {0}, NEW k \in Nat \ {0}, NEW i \in 1..n
    PROVE  (i - 1) \div ((n + k - 1) \div k) + 1 \in 1..k
<1> DEFINE size == (n + k - 1) \div k
           q == (i - 1) \div size
<1>1. size \in Nat /\ n + k - 1 < k * size + k
  BY Quotient
<1>2. n <= k * size /\ size # 0
  BY <1>1
<1>3. q \in Nat /\ size * q <= i - 1
  BY <1>1, <1>2, Quotient
<1>4. q < k
  <2> SUFFICES ASSUME q >= k PROVE FALSE
    BY <1>3
  <2>1. size * k <= size * q
    BY <1>1, <1>3
  <2> QED
    BY <2>1, <1>1, <1>2, <1>3
<1> QED
  BY <1>3, <1>4

-----------------------------------------------------------------------------
(* The rules of a hunt, and the workers it has.                            *)
LEMMA Plans ==
    ASSUME TypeOK
    PROVE  /\ plan.rules \in Seq(Rule) /\ Positions = 1..Len(plan.rules)
           /\ Len(plan.rules) \in Nat /\ Positions \subseteq Nat
  BY HuntAssumption DEF TypeOK, Positions

(* Slices are given to the workers there are.                              *)
LEMMA WorkingSlots ==
    ASSUME TypeOK
    PROVE  1 \in Slots /\ Working \subseteq Slots /\ \A i \in Positions : SliceOf(i) \in Working
<1>1. PICK n \in Nat : Slots = 1..n
  BY HuntAssumption, FS_CardinalityType
<1>2. ChunkCount \in 1..n
  BY <1>1, HuntAssumption
<1>3. ASSUME NEW i \in Positions PROVE SliceOf(i) \in Slots
  <2>1. CASE ~Distributed
    BY <2>1, <1>1, <1>2 DEF SliceOf
  <2>2. CASE Distributed
    <3> DEFINE wanted == Min({ChunkCount, Len(plan.rules)})
    <3>1. Len(plan.rules) \in Nat \ {0} /\ i \in 1..Len(plan.rules)
      BY <2>2, Plans DEF Distributed
    <3>2. {ChunkCount, Len(plan.rules)} \subseteq Nat
      BY <1>2, <3>1
    <3>3. wanted \in {ChunkCount, Len(plan.rules)} /\ wanted <= ChunkCount
      BY <3>2, LeastIsElement
    <3>4. wanted \in Nat \ {0} /\ wanted <= n
      BY <3>1, <3>3, <1>2
    <3> HIDE DEF wanted
    <3>5. (i - 1) \div ((Len(plan.rules) + wanted - 1) \div wanted) + 1 \in 1..wanted
      BY <3>1, <3>4, SlicesFit
    <3>6. SliceOf(i) \in 1..wanted
      BY <3>5, <2>2 DEF SliceOf, SliceSize, wanted
    <3> QED
      BY <3>4, <3>6, <1>1
  <2> QED
    BY <2>1, <2>2
<1> QED
  BY <1>1, <1>2, <1>3 DEF Working

(* The rule a worker is at is one it has not judged.                       *)
LEMMA CurrentToDo ==
    ASSUME TypeOK, NEW w \in Slots, todo[w] # {}
    PROVE  Current(w) \in todo[w] /\ Current(w) \in Positions
<1>1. todo[w] \subseteq Positions /\ Positions \subseteq Nat
  BY Plans DEF TypeOK
<1> QED
  BY <1>1, LeastIsElement DEF Current

-----------------------------------------------------------------------------
(* Workers that nothing happens to.                                        *)
PlanKept == plan' = plan /\ present' \subseteq present

(* What depends on the rules alone stays with them.                        *)
LEMMA PlanFrame ==
    ASSUME PlanKept, TypeOK
    PROVE  /\ Positions' = Positions /\ Distributed' = Distributed /\ Working' = Working
           /\ \A i : SliceOf(i)' = SliceOf(i) /\ Quiet(i)' = Quiet(i)
           /\ Steady' => Steady
<1>1. Positions' = Positions /\ Distributed' = Distributed /\ SliceSize' = SliceSize
  BY DEF PlanKept, Positions, Distributed, SliceSize
<1>2. \A i : SliceOf(i)' = SliceOf(i) /\ Quiet(i)' = Quiet(i)
  BY <1>1 DEF PlanKept, SliceOf, Quiet
<1>3. Working' = Working
  BY <1>1, <1>2 DEF Working
<1>4. Steady' => Steady
  BY <1>1 DEF PlanKept, Steady, Distinct, TypeOK
<1> QED
  BY <1>1, <1>2, <1>3, <1>4

Idle(w) == pc'[w] = pc[w] /\ todo'[w] = todo[w] /\ got'[w] = got[w]

(* What a worker has judged stays while it rests, ...                      *)
LEMMA WorkerKept ==
    ASSUME TypeOK, PlanKept, NEW w \in Slots, Idle(w), WorkerInv(w)
    PROVE  WorkerInv(w)'
<1>1. Current(w)' = Current(w) /\ \A i : RowFor(w, i)' = RowFor(w, i) /\ Failed(w, i)' = Failed(w, i)
  BY DEF Idle, Current, RowFor, Failed
<1>2. \A i : JudgedBy(w, i)' = JudgedBy(w, i)
  BY <1>1, PlanFrame DEF JudgedBy
<1> QED
  BY <1>1, <1>2, PlanFrame DEF Idle, WorkerInv

(* ... and so do its files, until they may be lost.                        *)
LEMMA FilesKept ==
    ASSUME NEW w \in Slots, Idle(w), FilesInv(w),
           hunt' \in {"returned", "dead"} \/
               /\ hunt \notin {"returned", "dead"}
               /\ \A r \in Holding(got[w].rows) : FileOf(r) \in DOMAIN files =>
                    FileOf(r) \in DOMAIN files' /\ files'[FileOf(r)] = files[FileOf(r)]
    PROVE  FilesInv(w)'
<1>1. Holding(got[w].rows)' = Holding(got[w].rows) /\ \A r : FileOf(r)' = FileOf(r)
  BY DEF Idle, Holding, FileOf, Named
<1> QED
  BY <1>1 DEF Idle, FilesInv

(* A worker touches its own files only.                                    *)
OwnFiles(w) ==
    \A p : p[1] # w /\ p \in DOMAIN files => p \in DOMAIN files' /\ files'[p] = files[p]

(* So the others are as they were.                                         *)
LEMMA OthersKept ==
    ASSUME HuntInv, PlanKept, hunt' = hunt, NEW w \in Slots, OwnFiles(w),
           \A v \in Slots \ {w} : Idle(v)
    PROVE  \A v \in Slots \ {w} : WorkerInv(v)' /\ FilesInv(v)'
<1> SUFFICES ASSUME NEW v \in Slots \ {w}
             PROVE  WorkerInv(v)' /\ FilesInv(v)'
  OBVIOUS
<1>1. WorkerInv(v) /\ FilesInv(v) /\ TypeOK
  BY DEF HuntInv
<1>2. \A r \in Holding(got[v].rows) : FileOf(r)[1] # w
  BY <1>1 DEF WorkerInv, Holding, FileOf, Named
<1>3. FilesInv(v)'
  BY <1>1, <1>2, FilesKept DEF OwnFiles
<1> QED
  BY <1>1, <1>3, WorkerKept

(* What has been collected stays.                                          *)
LEMMA CollectedKept ==
    ASSUME Working' = Working, \A w \in Working : got'[w] = got[w]
    PROVE  Collected' = Collected
<1> DEFINE R == UNION {got[w].rows : w \in Working}
           P == UNION {got[w].paths : w \in Working}
           F == UNION {got[w].failures : w \in Working}
           Made(p, r, f) == [state |-> "torn", files |-> p, rows |-> r, failures |-> f, total |-> Summed(r)]
<1>1. R' = R /\ P' = P /\ F' = F
  OBVIOUS
<1>2. Collected = Made(P, R, F) /\ Collected' = Made(P', R', F')
  BY DEF Collected
<1> HIDE DEF R, P, F, Made
<1> QED
  BY <1>1, <1>2

(* While a worker is not done there is no index.                           *)
LEMMA IndexKept ==
    ASSUME HuntInv, PlanKept, hunt' = hunt, index' = index, NEW w \in Slots, pc[w] # "done",
           \A v \in Slots \ {w} : Idle(v)
    PROVE  IndexInv'
<1>1. TypeOK /\ IndexInv /\ Working' = Working /\ Working \subseteq Slots
  BY PlanFrame, WorkingSlots DEF HuntInv
<1>2. ASSUME index.state # "none" PROVE \A v \in Working : pc'[v] = "done" /\ got'[v] = got[v]
  BY <1>1, <1>2 DEF IndexInv, Idle
<1>3. index.state # "none" => Collected' = Collected
  BY <1>1, <1>2, CollectedKept
<1> QED
  BY <1>1, <1>2, <1>3 DEF IndexInv

-----------------------------------------------------------------------------
(* A worker judges its next rule, in one of three ways.                    *)
JudgedNext(w, n) ==
    LET i == Current(w) IN
    \/ Quiet(i) /\ got'[w] = got[w]
    \/ ~Quiet(i) /\ got'[w] = [got[w] EXCEPT !.failures = @ \cup {<<w, i>>}]
    \/ ~Quiet(i) /\ got'[w].failures = got[w].failures
         /\ got'[w].rows = got[w].rows \cup {<<w, i, n>>}

(* The rule it was at is to be judged no longer, and no other changes.     *)
LEMMA JudgedOnce ==
    ASSUME HuntInv, PlanKept, NEW w \in Slots, NEW n \in Nat, todo[w] # {},
           pc[w] \in {"rules", "copied"}, pc'[w] = "rules",
           todo'[w] = todo[w] \ {Current(w)}, JudgedNext(w, n)
    PROVE  WorkerInv(w)'
<1> DEFINE i == Current(w)
<1>1. TypeOK /\ WorkerInv(w) /\ i \in todo[w] /\ i \in Positions
  BY CurrentToDo DEF HuntInv
<1>2. got[w] \in Output
  BY <1>1 DEF TypeOK
<1> HIDE DEF i
<1>3. /\ \A r \in got'[w].rows : r \in got[w].rows \/ (r = <<w, i, n>> /\ ~Quiet(i) /\ got'[w].failures = got[w].failures)
      /\ \A f \in got'[w].failures :
           f \in got[w].failures \/ (f = <<w, i>> /\ ~Quiet(i) /\ got'[w].rows = got[w].rows)
      /\ got[w].rows \subseteq got'[w].rows /\ got[w].failures \subseteq got'[w].failures
      /\ Quiet(i) \/ (\E r \in got'[w].rows : r[2] = i) \/ <<w, i>> \in got'[w].failures
  <2>1. CASE Quiet(i) /\ got'[w] = got[w]
    BY <2>1
  <2>2. CASE ~Quiet(i) /\ got'[w] = [got[w] EXCEPT !.failures = @ \cup {<<w, i>>}]
    <3>1. got'[w].rows = got[w].rows /\ got'[w].failures = got[w].failures \cup {<<w, i>>}
      BY <1>2, <2>2 DEF Output
    <3> QED
      BY <2>2, <3>1
  <2>3. CASE ~Quiet(i) /\ got'[w].failures = got[w].failures /\ got'[w].rows = got[w].rows \cup {<<w, i, n>>}
    <3>1. <<w, i, n>>[2] = i
      OBVIOUS
    <3> QED
      BY <2>3, <3>1
  <2> QED
    BY <2>1, <2>2, <2>3 DEF JudgedNext, i
<1>4. todo'[w] = todo[w] \ {i}
  BY DEF i
<1>5. \A r \in got'[w].rows : r[1] = w /\ r[2] \notin todo'[w] /\ ~Quiet(r[2]) /\ ~Failed(w, r[2])'
  BY <1>1, <1>3, <1>4 DEF WorkerInv, Failed
<1>6. \A f \in got'[w].failures : f[1] = w /\ f[2] \notin todo'[w] /\ ~Quiet(f[2])
  BY <1>1, <1>3, <1>4 DEF WorkerInv
<1>7. \A r, s \in got'[w].rows : r[2] = s[2] => r = s
  BY <1>1, <1>3 DEF WorkerInv
<1>8. ASSUME Steady, NEW j \in Positions
      PROVE  IF SliceOf(j) = w THEN j \in todo'[w] \/ JudgedBy(w, j)'
             ELSE j \notin todo'[w] /\ ~RowFor(w, j)' /\ ~Failed(w, j)'
  <2>1. Quiet(j)' = Quiet(j)
    BY <1>1, PlanFrame
  <2>2. IF SliceOf(j) = w THEN j \in todo[w] \/ JudgedBy(w, j)
        ELSE j \notin todo[w] /\ ~RowFor(w, j) /\ ~Failed(w, j)
    BY <1>1, <1>8 DEF WorkerInv
  <2>3. CASE SliceOf(j) = w
    <3>1. JudgedBy(w, j) \/ j = i => JudgedBy(w, j)'
      BY <1>3, <2>1 DEF JudgedBy, RowFor, Failed
    <3> QED
      BY <2>2, <2>3, <3>1, <1>4
  <2>4. CASE SliceOf(j) # w
    <3>1. j # i
      BY <1>1, <2>2, <2>4
    <3> QED
      BY <2>2, <2>4, <3>1, <1>3, <1>4 DEF RowFor, Failed
  <2> QED
    BY <2>3, <2>4
<1> QED
  BY <1>1, <1>4, <1>5, <1>6, <1>7, <1>8, PlanFrame DEF WorkerInv

(* A step of one worker, of which the case and the analyst see nothing.    *)
Alone(w) ==
    /\ pc[w] # "done" /\ OwnFiles(w)
    /\ UNCHANGED <<plan, imports, present, losses, hunt, index, result, export>>
    /\ \A v \in Slots \ {w} : Idle(v)

(* Such a step need only be good for the worker itself.                    *)
LEMMA WorkerStep ==
    ASSUME HuntInv, NEW w \in Slots, Alone(w), TypeOK', WorkerInv(w)', FilesInv(w)'
    PROVE  HuntInv'
<1>1. PlanKept
  BY DEF Alone, PlanKept
<1>2. IndexInv'
  BY <1>1, IndexKept DEF Alone
<1>3. \A v \in Slots \ {w} : WorkerInv(v)' /\ FilesInv(v)'
  BY <1>1, OthersKept DEF Alone
<1> QED
  BY <1>2, <1>3 DEF HuntInv

(* What a worker changes is typed as before.                               *)
LEMMA TypesKept ==
    ASSUME TypeOK, NEW w \in Slots, UNCHANGED <<plan, imports, present, losses, hunt, index, result, export>>,
           pc' \in [Slots -> {"idle", "rules", "copied", "done", "raised"}],
           todo' \in [Slots -> SUBSET Positions],
           snapshot' \in [Slots -> Nat], counted' \in [Slots -> Nat],
           got' \in [Slots -> Output], \A v \in Slots \ {w} : got'[v] = got[v],
           IsFiniteSet(got'[w].rows),
           files' \in [DOMAIN files' -> Nat], DOMAIN files' \subseteq Path
    PROVE  TypeOK'
<1>1. /\ Positions' = Positions /\ Output' = Output /\ Path' = Path
      /\ Listing' = Listing /\ Results' = Results /\ Exports' = Exports
  BY DEF Positions, Output, Path, RowsOf, Listing, Results, Exports
<1>2. \A v \in Slots : IsFiniteSet(got'[v].rows)
  BY DEF TypeOK
<1> QED
  BY <1>1, <1>2 DEF TypeOK

(* A worker opens the case and loads its rules.                            *)
LEMMA OpenKeeps ==
    ASSUME HuntInv, NEW w \in Slots, Open(w)
    PROVE  HuntInv'
<1>1. TypeOK /\ WorkerInv(w) /\ FilesInv(w)
  BY DEF HuntInv
<1>2. RulesOf(w) \subseteq Positions
  BY <1>1 DEF RulesOf, TypeOK
<1>3. TypeOK'
  BY <1>1, <1>2, TypesKept DEF TypeOK, Open
<1>4. Alone(w) /\ PlanKept
  BY <1>1 DEF Alone, PlanKept, Open, OwnFiles, Idle, TypeOK
<1>5. got'[w] = got[w] /\ got[w] = Nothing /\ pc'[w] = "rules" /\ todo'[w] = RulesOf(w) /\ w \in Working
  BY <1>1 DEF Open, WorkerInv, TypeOK
<1>6. ASSUME Steady, NEW i \in Positions
      PROVE  i \in RulesOf(w) <=> SliceOf(i) = w
  <2>1. CASE Distributed
    BY <1>6, <2>1 DEF Steady, Distinct, RulesOf
  <2>2. CASE ~Distributed
    BY <1>5, <1>6, <2>2 DEF RulesOf, SliceOf, Working
  <2> QED
    BY <2>1, <2>2
<1>7. WorkerInv(w)'
  BY <1>1, <1>4, <1>5, <1>6, PlanFrame DEF WorkerInv, Nothing, RowFor, Failed
<1>8. FilesInv(w)'
  BY <1>1, <1>5 DEF FilesInv, Nothing, Holding, Open
<1> QED
  BY <1>3, <1>4, <1>7, <1>8, WorkerStep

-----------------------------------------------------------------------------
(* What happens to the files of a worker.                                  *)
LEMMA PutType ==
    ASSUME TypeOK, NEW path \in Path, NEW n \in Nat
    PROVE  /\ Put(path, n) \in [DOMAIN Put(path, n) -> Nat] /\ DOMAIN Put(path, n) \subseteq Path
           /\ Without(path) \in [DOMAIN Without(path) -> Nat] /\ DOMAIN Without(path) \subseteq Path
  BY DEF TypeOK, Put, Without

(* A rule of a worker names a file.                                        *)
LEMMA NamesArePaths ==
    ASSUME TypeOK, NEW w \in Slots, NEW i \in Positions, NEW suffix \in {"partial", "parquet"}
    PROVE  Named(w, i, suffix) \in Path
  BY Plans DEF Named, Path

(* Partial files are not those of the result.                              *)
PartialOf(w) == Named(w, Current(w), "partial")

(* To write or unlink a partial file leaves the others alone.              *)
LEMMA PartialChanges ==
    ASSUME TypeOK, NEW w \in Slots, todo[w] # {}, NEW n \in Nat,
           files' \in {Put(PartialOf(w), n), Without(PartialOf(w)), files}
    PROVE  /\ files' \in [DOMAIN files' -> Nat] /\ DOMAIN files' \subseteq Path
           /\ OwnFiles(w)
           /\ \A r : FileOf(r) \in DOMAIN files =>
                FileOf(r) \in DOMAIN files' /\ files'[FileOf(r)] = files[FileOf(r)]
<1>1. PartialOf(w) \in Path
  BY CurrentToDo, NamesArePaths DEF PartialOf
<1>2. files' \in [DOMAIN files' -> Nat] /\ DOMAIN files' \subseteq Path
  BY <1>1, PutType DEF TypeOK
<1>3. PartialOf(w)[1] = w /\ \A r : FileOf(r) # PartialOf(w)
  BY DEF PartialOf, FileOf, Named
<1>4. \A p : p # PartialOf(w) /\ p \in DOMAIN files => p \in DOMAIN files' /\ files'[p] = files[p]
  BY DEF Put, Without
<1> QED
  BY <1>2, <1>3, <1>4 DEF OwnFiles

(* The rows of a worker and their files stay.                              *)
LEMMA SameRows ==
    ASSUME HuntInv, NEW w \in Slots, hunt' = hunt, got'[w].rows = got[w].rows, got'[w].paths = got[w].paths,
           \A r : FileOf(r) \in DOMAIN files =>
                FileOf(r) \in DOMAIN files' /\ files'[FileOf(r)] = files[FileOf(r)]
    PROVE  FilesInv(w)'
<1>1. FilesInv(w) /\ Holding(got[w].rows)' = Holding(got[w].rows) /\ \A r : FileOf(r)' = FileOf(r)
  BY DEF HuntInv, Holding, FileOf, Named
<1> QED
  BY <1>1 DEF FilesInv

-----------------------------------------------------------------------------
(* A rule below the level asked for has neither row nor failure.           *)
LEMMA PassOverKeeps ==
    ASSUME HuntInv, NEW w \in Slots, PassOver(w)
    PROVE  HuntInv'
<1>1. TypeOK /\ pc[w] = "rules" /\ todo[w] # {} /\ Quiet(Current(w))
  BY DEF HuntInv, PassOver, AtRule, Quiet
<1>2. Alone(w) /\ PlanKept
  BY <1>1 DEF TypeOK, PassOver, Judged, Alone, PlanKept, Idle, OwnFiles
<1>3. pc' = pc /\ got' = got /\ files' = files /\ todo'[w] = todo[w] \ {Current(w)}
  BY <1>1 DEF TypeOK, PassOver, Judged
<1>4. TypeOK'
  BY <1>1, <1>2, TypesKept DEF TypeOK, PassOver, Judged
<1>5. WorkerInv(w)'
  BY <1>1, <1>2, <1>3, JudgedOnce DEF JudgedNext
<1>6. FilesInv(w)'
  BY <1>3, SameRows DEF PassOver
<1> QED
  BY <1>2, <1>4, <1>5, <1>6, WorkerStep

(* A failure is one more for the rule at hand.                             *)
LEMMA FailureType ==
    ASSUME TypeOK, NEW w \in Slots, todo[w] # {}, Failure(w)
    PROVE  /\ got' \in [Slots -> Output] /\ \A v \in Slots \ {w} : got'[v] = got[v]
           /\ got'[w] = [got[w] EXCEPT !.failures = @ \cup {<<w, Current(w)>>}]
           /\ got'[w].rows = got[w].rows /\ got'[w].paths = got[w].paths
           /\ IsFiniteSet(got'[w].rows)
<1>1. Current(w) \in Positions /\ got[w] \in Output
  BY CurrentToDo DEF TypeOK
<1>2. got'[w] = [got[w] EXCEPT !.failures = @ \cup {<<w, Current(w)>>}] /\ \A v \in Slots \ {w} : got'[v] = got[v]
  BY DEF TypeOK, Failure
<1>3. got'[w].rows = got[w].rows /\ got'[w].paths = got[w].paths /\ got'[w] \in Output
  BY <1>1, <1>2 DEF Output
<1>4. got' \in [Slots -> Output]
  BY <1>1, <1>3 DEF TypeOK, Failure
<1> QED
  BY <1>2, <1>3, <1>4 DEF TypeOK

(* A rule that cannot be evaluated fails, and the worker goes on.          *)
LEMMA UnusableKeeps ==
    ASSUME HuntInv, NEW w \in Slots, Unusable(w)
    PROVE  HuntInv'
<1>1. TypeOK /\ pc[w] = "rules" /\ todo[w] # {} /\ ~Quiet(Current(w)) /\ Failure(w)
  BY DEF HuntInv, Unusable, AtRule, Quiet
<1>2. Alone(w) /\ PlanKept
  BY <1>1, FailureType DEF TypeOK, Unusable, Judged, Alone, PlanKept, Idle, OwnFiles
<1>3. pc' = pc /\ files' = files /\ todo'[w] = todo[w] \ {Current(w)}
  BY <1>1 DEF TypeOK, Unusable, Judged
<1>4. TypeOK'
  BY <1>1, <1>2, FailureType, TypesKept DEF TypeOK, Unusable, Judged
<1>5. WorkerInv(w)'
  BY <1>1, <1>2, <1>3, FailureType, JudgedOnce DEF JudgedNext
<1>6. FilesInv(w)'
  BY <1>1, <1>3, FailureType, SameRows DEF Unusable
<1> QED
  BY <1>2, <1>4, <1>5, <1>6, WorkerStep

(* Matches are copied into a partial file.                                 *)
LEMMA CopyMatchesKeeps ==
    ASSUME HuntInv, NEW w \in Slots, CopyMatches(w)
    PROVE  HuntInv'
<1>1. TypeOK /\ WorkerInv(w) /\ pc[w] = "rules" /\ todo[w] # {} /\ ~Quiet(Current(w))
  BY DEF HuntInv, CopyMatches, AtRule, Quiet
<1>2. {0, snapshot[w] - 1} \subseteq Int /\ snapshot[w] \in Nat
  BY <1>1 DEF TypeOK
<1>3. Max({0, snapshot[w] - 1}) \in Nat
  <2>1. CASE snapshot[w] = 0
    BY <2>1 DEF Max
  <2>2. CASE snapshot[w] # 0
    BY <2>2, <1>2 DEF Max
  <2> QED
    BY <2>1, <2>2
<1>4. PICK n \in Nat : files' = Put(PartialOf(w), n)
  BY <1>2, <1>3 DEF CopyMatches, PartialOf
<1>5. /\ files' \in [DOMAIN files' -> Nat] /\ DOMAIN files' \subseteq Path /\ OwnFiles(w)
      /\ \A r : FileOf(r) \in DOMAIN files => FileOf(r) \in DOMAIN files' /\ files'[FileOf(r)] = files[FileOf(r)]
  BY <1>1, <1>4, PartialChanges
<1>6. Alone(w) /\ PlanKept
  BY <1>1, <1>5 DEF TypeOK, CopyMatches, Alone, PlanKept, Idle
<1>7. pc'[w] = "copied" /\ got' = got /\ todo' = todo
  BY <1>1 DEF TypeOK, CopyMatches
<1>8. TypeOK'
  BY <1>1, <1>2, <1>5, <1>6, TypesKept DEF TypeOK, CopyMatches
<1>9. WorkerInv(w)'
  <2>1. /\ Current(w)' = Current(w) /\ \A i : Quiet(i)' = Quiet(i)
        /\ \A i : RowFor(w, i)' = RowFor(w, i) /\ Failed(w, i)' = Failed(w, i)
    BY <1>1, <1>6, <1>7, PlanFrame DEF Current, RowFor, Failed
  <2>2. \A i : JudgedBy(w, i)' = JudgedBy(w, i)
    BY <2>1 DEF JudgedBy
  <2> QED
    BY <1>1, <1>6, <1>7, <2>1, <2>2, PlanFrame DEF WorkerInv
<1>10. FilesInv(w)'
  BY <1>5, <1>7, SameRows DEF CopyMatches
<1> QED
  BY <1>6, <1>8, <1>9, <1>10, WorkerStep

(* An error of the copy is the failure of its rule, and leaves no file.    *)
LEMMA CopyFailsKeeps ==
    ASSUME HuntInv, NEW w \in Slots, CopyFails(w)
    PROVE  HuntInv'
<1>1. /\ TypeOK /\ WorkerInv(w) /\ pc[w] \in {"rules", "copied"} /\ todo[w] # {}
      /\ ~Quiet(Current(w)) /\ Failure(w)
  BY DEF HuntInv, WorkerInv, CopyFails, AtRule, Quiet
<1>2. /\ files' \in [DOMAIN files' -> Nat] /\ DOMAIN files' \subseteq Path /\ OwnFiles(w)
      /\ \A r : FileOf(r) \in DOMAIN files => FileOf(r) \in DOMAIN files' /\ files'[FileOf(r)] = files[FileOf(r)]
  BY <1>1, PartialChanges DEF CopyFails, PartialOf
<1>3. Alone(w) /\ PlanKept
  BY <1>1, <1>2, FailureType DEF TypeOK, CopyFails, Judged, Alone, PlanKept, Idle
<1>4. pc'[w] = "rules" /\ todo'[w] = todo[w] \ {Current(w)}
  BY <1>1 DEF TypeOK, CopyFails, Judged
<1>5. TypeOK'
  BY <1>1, <1>2, <1>3, FailureType, TypesKept DEF TypeOK, CopyFails, Judged
<1>6. WorkerInv(w)'
  BY <1>1, <1>3, <1>4, FailureType, JudgedOnce DEF JudgedNext
<1>7. FilesInv(w)'
  BY <1>1, <1>2, FailureType, SameRows DEF CopyFails
<1> QED
  BY <1>3, <1>5, <1>6, <1>7, WorkerStep

(* The matches of a rule are kept, in a file if there are any.             *)
LEMMA KeepFiles ==
    ASSUME HuntInv, NEW w \in Slots, Keep(w)
    PROVE  /\ files' \in [DOMAIN files' -> Nat] /\ DOMAIN files' \subseteq Path /\ OwnFiles(w)
           /\ \A r : FileOf(r) \in DOMAIN files /\ FileOf(r) # Named(w, Current(w), "parquet") =>
                FileOf(r) \in DOMAIN files' /\ files'[FileOf(r)] = files[FileOf(r)]
           /\ counted[w] # 0 =>
                /\ Named(w, Current(w), "parquet") \in DOMAIN files'
                /\ files'[Named(w, Current(w), "parquet")] = counted[w]
<1> DEFINE output == Named(w, Current(w), "parquet")
<1>1. TypeOK /\ todo[w] # {} /\ counted[w] \in Nat
  BY DEF HuntInv, WorkerInv, Keep, TypeOK
<1>2. PartialOf(w) \in Path /\ output \in Path
  BY <1>1, CurrentToDo, NamesArePaths DEF PartialOf
<1>3. files[PartialOf(w)] = counted[w] /\ PartialOf(w) # output /\ PartialOf(w)[1] = w /\ output[1] = w
  BY DEF Keep, Copied, PartialOf, Named
<1>4. CASE counted[w] = 0
  <2>1. files' = Without(PartialOf(w))
    BY <1>4 DEF Keep, PartialOf
  <2> QED
    BY <1>1, <1>4, <2>1, PartialChanges
<1>5. CASE counted[w] # 0
  <2>1. files' = [p \in (DOMAIN files \ {PartialOf(w)}) \cup {output} |->
                    IF p = output THEN files[PartialOf(w)] ELSE files[p]]
    BY <1>5 DEF Keep, PartialOf
  <2> HIDE DEF output
  <2>2. files' \in [DOMAIN files' -> Nat] /\ DOMAIN files' \subseteq Path
    BY <1>1, <1>2, <1>3, <2>1 DEF TypeOK
  <2>3. OwnFiles(w)
    BY <1>3, <2>1 DEF OwnFiles
  <2>4. \A r : FileOf(r) # PartialOf(w)
    BY DEF FileOf, PartialOf, Named
  <2>5. output \in DOMAIN files' /\ files'[output] = counted[w]
    BY <1>3, <2>1
  <2>6. \A r : FileOf(r) \in DOMAIN files /\ FileOf(r) # output =>
                FileOf(r) \in DOMAIN files' /\ files'[FileOf(r)] = files[FileOf(r)]
    BY <2>1, <2>4
  <2> QED
    BY <2>2, <2>3, <2>5, <2>6 DEF output
<1> QED
  BY <1>4, <1>5

(* Its row counts what was copied, and its file is listed if there is a    *)
(* match.                                                                  *)
LEMMA KeepOutput ==
    ASSUME TypeOK, NEW w \in Slots, todo[w] # {}, Keep(w)
    PROVE  /\ got' \in [Slots -> Output] /\ \A v \in Slots \ {w} : got'[v] = got[v]
           /\ got'[w].failures = got[w].failures
           /\ got'[w].rows = got[w].rows \cup {<<w, Current(w), counted[w]>>}
           /\ got'[w].paths = IF counted[w] = 0 THEN got[w].paths
                              ELSE got[w].paths \cup {Named(w, Current(w), "parquet")}
           /\ IsFiniteSet(got'[w].rows)
<1> DEFINE output == Named(w, Current(w), "parquet")
           row == <<w, Current(w), counted[w]>>
<1>1. /\ got[w] \in Output /\ output \in Path /\ counted[w] \in Nat /\ Current(w) \in Positions
      /\ got \in [Slots -> Output] /\ IsFiniteSet(got[w].rows)
  BY CurrentToDo, NamesArePaths DEF TypeOK
<1>2. got' = [got EXCEPT ![w].paths = IF counted[w] = 0 THEN @ ELSE @ \cup {output},
                         ![w].rows = @ \cup {row}]
  BY DEF Keep
<1>3. row \in Slots \X Positions \X Nat
  BY <1>1
<1> HIDE DEF output, row
<1>4. /\ got'[w] = [paths |-> IF counted[w] = 0 THEN got[w].paths ELSE got[w].paths \cup {output},
                    rows |-> got[w].rows \cup {row}, failures |-> got[w].failures]
      /\ \A v \in Slots \ {w} : got'[v] = got[v]
      /\ DOMAIN got' = Slots /\ got' = [v \in Slots |-> got'[v]]
  BY <1>1, <1>2 DEF Output
<1>5. got'[w] \in Output
  BY <1>1, <1>3, <1>4 DEF Output, RowsOf
<1>6. got' \in [Slots -> Output]
  <2>1. \A v \in Slots : got'[v] \in Output
    BY <1>1, <1>4, <1>5
  <2> QED
    BY <1>4, <2>1
<1>7. IsFiniteSet(got'[w].rows)
  BY <1>1, <1>4, FS_AddElement
<1> QED
  BY <1>4, <1>6, <1>7 DEF output, row

(* A kept rule has one row, and a file with as many.                       *)
LEMMA KeepKeeps ==
    ASSUME HuntInv, NEW w \in Slots, Keep(w)
    PROVE  HuntInv'
<1> DEFINE output == Named(w, Current(w), "parquet")
           row == <<w, Current(w), counted[w]>>
<1>1. /\ TypeOK /\ WorkerInv(w) /\ FilesInv(w) /\ pc[w] = "copied" /\ todo[w] # {}
      /\ ~Quiet(Current(w)) /\ counted[w] \in Nat
  BY DEF HuntInv, WorkerInv, Keep, TypeOK
<1>2. Alone(w) /\ PlanKept
  BY <1>1, KeepFiles, KeepOutput DEF TypeOK, Keep, Judged, Alone, PlanKept, Idle
<1>3. pc'[w] = "rules" /\ todo'[w] = todo[w] \ {Current(w)}
  BY <1>1 DEF TypeOK, Keep, Judged
<1>4. TypeOK'
  BY <1>1, <1>2, KeepFiles, KeepOutput, TypesKept DEF TypeOK, Keep, Judged
<1>5. WorkerInv(w)'
  BY <1>1, <1>2, <1>3, KeepOutput, JudgedOnce DEF JudgedNext
<1>6. FilesInv(w)'
  <2>1. /\ got'[w].rows = got[w].rows \cup {row}
        /\ got'[w].paths = IF counted[w] = 0 THEN got[w].paths ELSE got[w].paths \cup {output}
    BY <1>1, KeepOutput
  <2>2. FileOf(row) = output /\ row[3] = counted[w]
    BY DEF FileOf, Named
  <2>3. \A r \in got[w].rows : FileOf(r) # output
    <3>1. Current(w) \in todo[w]
      BY <1>1, CurrentToDo
    <3> QED
      BY <1>1, <3>1 DEF WorkerInv, FileOf, Named
  <2>4. /\ \A r : FileOf(r) \in DOMAIN files /\ FileOf(r) # output =>
                FileOf(r) \in DOMAIN files' /\ files'[FileOf(r)] = files[FileOf(r)]
        /\ counted[w] # 0 => output \in DOMAIN files' /\ files'[output] = counted[w]
    BY KeepFiles
  <2> HIDE DEF output, row
  <2>5. Holding(got'[w].rows) = IF counted[w] = 0 THEN Holding(got[w].rows)
                                ELSE Holding(got[w].rows) \cup {row}
    BY <1>1, <2>1, <2>2 DEF Holding
  <2>6. got'[w].paths = {FileOf(r) : r \in Holding(got'[w].rows)}
    BY <1>1, <2>1, <2>2, <2>5 DEF FilesInv
  <2>7. ASSUME hunt \notin {"returned", "dead"}, NEW r \in Holding(got'[w].rows)
        PROVE  FileOf(r) \in DOMAIN files' /\ files'[FileOf(r)] = r[3]
    <3>1. CASE r \in Holding(got[w].rows)
      BY <1>1, <2>3, <2>4, <2>7, <3>1 DEF FilesInv, Holding
    <3>2. CASE r = row /\ counted[w] # 0
      BY <2>2, <2>4, <3>2
    <3> QED
      BY <2>5, <3>1, <3>2, <2>7
  <2>8. \A r : FileOf(r)' = FileOf(r)
    BY DEF FileOf, Named
  <2> QED
    BY <2>6, <2>7, <2>8 DEF FilesInv, Keep, Holding
<1> QED
  BY <1>2, <1>4, <1>5, <1>6, WorkerStep

(* A worker returns when it has judged its rules, ...                      *)
LEMMA WorkerReturnsKeeps ==
    ASSUME HuntInv, NEW w \in Slots, WorkerReturns(w)
    PROVE  HuntInv'
<1>1. TypeOK /\ WorkerInv(w) /\ pc[w] = "rules" /\ todo[w] = {}
  BY DEF HuntInv, WorkerReturns
<1>2. Alone(w) /\ PlanKept /\ pc'[w] = "done" /\ todo' = todo /\ got' = got /\ files' = files
  BY <1>1 DEF TypeOK, WorkerReturns, Alone, PlanKept, Idle, OwnFiles
<1>3. TypeOK'
  BY <1>1, <1>2, TypesKept DEF TypeOK, WorkerReturns
<1>4. WorkerInv(w)'
  <2>1. \A i : RowFor(w, i)' = RowFor(w, i) /\ Failed(w, i)' = Failed(w, i) /\ Quiet(i)' = Quiet(i)
    BY <1>1, <1>2, PlanFrame DEF RowFor, Failed
  <2>2. \A i : JudgedBy(w, i)' = JudgedBy(w, i)
    BY <2>1 DEF JudgedBy
  <2> QED
    BY <1>1, <1>2, <2>1, <2>2, PlanFrame DEF WorkerInv
<1>5. FilesInv(w)'
  BY <1>2, SameRows DEF WorkerReturns
<1> QED
  BY <1>2, <1>3, <1>4, <1>5, WorkerStep

(* ... or does not.                                                        *)
LEMMA WorkerRaisesKeeps ==
    ASSUME HuntInv, NEW w \in Slots, WorkerRaises(w)
    PROVE  HuntInv'
<1>1. TypeOK /\ WorkerInv(w) /\ pc[w] # "done"
  BY DEF HuntInv, WorkerRaises
<1>2. Alone(w) /\ PlanKept /\ pc'[w] = "raised" /\ todo' = todo /\ got' = got /\ files' = files
  BY <1>1 DEF TypeOK, WorkerRaises, Alone, PlanKept, Idle, OwnFiles
<1>3. TypeOK'
  BY <1>1, <1>2, TypesKept DEF TypeOK, WorkerRaises
<1>4. WorkerInv(w)'
  <2>1. \A i : RowFor(w, i)' = RowFor(w, i) /\ Failed(w, i)' = Failed(w, i) /\ Quiet(i)' = Quiet(i)
    BY <1>1, <1>2, PlanFrame DEF RowFor, Failed
  <2> QED
    BY <1>1, <1>2, <2>1, PlanFrame DEF WorkerInv
<1>5. FilesInv(w)'
  BY <1>2, SameRows DEF WorkerRaises
<1> QED
  BY <1>2, <1>3, <1>4, <1>5, WorkerStep

-----------------------------------------------------------------------------
(* Steps of the hunt itself and of the analyst.                            *)
LEMMA TypesApart ==
    ASSUME TypeOK, PlanKept, UNCHANGED <<pc, todo, snapshot, counted, got>>,
           imports' \in Nat, losses' \in Nat,
           hunt' \in {"loading", "working", "indexing", "indexed", "returned", "dead"},
           files' \in [DOMAIN files' -> Nat], DOMAIN files' \subseteq Path,
           index' \in Listing, result' \in Results, IsFiniteSet(result'.files), export' \in Exports
    PROVE  TypeOK'
<1>1. /\ Positions' = Positions /\ Output' = Output /\ Path' = Path
      /\ Listing' = Listing /\ Results' = Results /\ Exports' = Exports
  BY PlanFrame DEF Output, Path, RowsOf, Listing, Results, Exports
<1> QED
  BY <1>1 DEF TypeOK, PlanKept

(* What was collected stays while the workers rest.                        *)
LEMMA SettledIndex ==
    ASSUME HuntInv, PlanKept, UNCHANGED <<pc, got>>
    PROVE  /\ Collected' = Collected
           /\ index' = index => (index.state # "none" =>
                (\A w \in Working : pc[w] = "done") /\ index = [Collected EXCEPT !.state = index.state])'
<1>1. Working' = Working
  BY PlanFrame DEF HuntInv
<1>2. Collected' = Collected
  BY <1>1, CollectedKept
<1> QED
  BY <1>1, <1>2 DEF HuntInv, IndexInv

(* So the invariant is kept if types and index are.                        *)
LEMMA ApartKeeps ==
    ASSUME HuntInv, PlanKept, UNCHANGED <<pc, todo, got>>,
           hunt' \in {"returned", "dead"} \/ (hunt \notin {"returned", "dead"} /\ files' = files),
           TypeOK', IndexInv'
    PROVE  HuntInv'
<1>1. \A w \in Slots : Idle(w)
  BY DEF Idle
<1>2. \A w \in Slots : WorkerInv(w)'
  BY <1>1, WorkerKept DEF HuntInv
<1>3. \A w \in Slots : FilesInv(w)'
  BY <1>1, FilesKept DEF HuntInv
<1> QED
  BY <1>2, <1>3 DEF HuntInv

(* Imports, edits of the rules, and losses of results that are there.      *)
LEMMA MeanwhileKeeps ==
    ASSUME HuntInv, Meanwhile
    PROVE  HuntInv'
<1>1. TypeOK /\ IndexInv
  BY DEF HuntInv
<1>2. /\ PlanKept /\ UNCHANGED <<pc, todo, snapshot, counted, got, hunt, index, result, export>>
      /\ imports' \in Nat /\ losses' \in Nat
  BY <1>1 DEF Meanwhile, ImportCommits, RuleRemoved, FileLost, workerVars, PlanKept, TypeOK
<1>3. hunt' \in {"returned", "dead"} \/ (hunt \notin {"returned", "dead"} /\ files' = files)
  BY DEF Meanwhile, ImportCommits, RuleRemoved, FileLost, workerVars
<1>4. files' \in [DOMAIN files' -> Nat] /\ DOMAIN files' \subseteq Path
  <2>1. files' = files \/ \E p \in Path : files' = Without(p)
    BY <1>1 DEF Meanwhile, ImportCommits, RuleRemoved, FileLost, workerVars, TypeOK
  <2> QED
    BY <1>1, <2>1, PutType DEF TypeOK
<1>5. TypeOK'
  BY <1>1, <1>2, <1>4, TypesApart DEF TypeOK
<1>6. IndexInv'
  BY <1>1, <1>2, SettledIndex DEF IndexInv
<1> QED
  BY <1>2, <1>3, <1>5, <1>6, ApartKeeps

-----------------------------------------------------------------------------
(* Sums over the rows of the rules and over the files of the result.       *)
Matches(rows) == [r \in rows |-> r[3]]
Held(paths) == [p \in paths |-> IF p \in DOMAIN files THEN files[p] ELSE 0]

(* Both are sums over finite sets.                                         *)
LEMMA SumsAreSums ==
    /\ \A rows : Summed(rows) = Sum(Matches(rows), rows)
    /\ \A paths : Stored(paths) = Sum(Held(paths), paths)
  BY DEF Summed, Stored, Sum, Matches, Held

(* The matches of typed rows are a number, ...                             *)
LEMMA SummedType ==
    ASSUME NEW rows \in RowsOf(Slots), IsFiniteSet(rows)
    PROVE  Counts(Matches(rows), rows) /\ Summed(rows) \in Nat
<1>1. Counts(Matches(rows), rows)
  BY DEF Counts, Matches, RowsOf
<1> QED
  BY <1>1, SumType, SumsAreSums

(* ... and so are the rows of files, lost ones included.                   *)
LEMMA StoredType ==
    ASSUME TypeOK, NEW paths, IsFiniteSet(paths)
    PROVE  Stored(paths) \in Nat
<1>1. Counts(Held(paths), paths)
  BY DEF Counts, Held, TypeOK
<1> QED
  BY <1>1, SumType, SumsAreSums

(* What the workers return is finite, and has a file for each rule with a  *)
(* match.                                                                  *)
LEMMA CollectedType ==
    ASSUME HuntInv
    PROVE  /\ Collected \in Listing /\ Collected.state = "torn"
           /\ Collected.rows = UNION {got[w].rows : w \in Working}
           /\ Collected.failures = UNION {got[w].failures : w \in Working}
           /\ Collected.files = {FileOf(r) : r \in Holding(Collected.rows)}
           /\ Collected.total = Summed(Collected.rows)
           /\ IsFiniteSet(Collected.rows) /\ IsFiniteSet(Collected.files)
<1> DEFINE R == UNION {got[w].rows : w \in Working}
           P == UNION {got[w].paths : w \in Working}
           F == UNION {got[w].failures : w \in Working}
           parts == [w \in Working |-> got[w].rows]
           place == [r \in Holding(R) |-> FileOf(r)]
<1>1. TypeOK /\ Working \subseteq Slots /\ IsFiniteSet(Working)
  BY WorkingSlots, HuntAssumption, FS_Subset DEF HuntInv
<1>2. IsFiniteSet(R)
  <2>1. parts \in Surjection(Working, {got[w].rows : w \in Working})
    BY DEF Surjection
  <2>2. IsFiniteSet({got[w].rows : w \in Working})
    BY <1>1, <2>1, FS_Surjection
  <2>3. \A T \in {got[w].rows : w \in Working} : IsFiniteSet(T)
    BY <1>1 DEF TypeOK
  <2> QED
    BY <2>2, <2>3, FS_UNION
<1>3. R \in RowsOf(Slots) /\ P \subseteq Path /\ F \subseteq Slots \X Positions
  BY <1>1 DEF TypeOK, Output, RowsOf
<1>4. P = {FileOf(r) : r \in Holding(R)}
  <2>1. \A w \in Working : got[w].paths = {FileOf(r) : r \in Holding(got[w].rows)}
    BY <1>1 DEF HuntInv, FilesInv
  <2> QED
    BY <2>1 DEF Holding
<1>5. IsFiniteSet({FileOf(r) : r \in Holding(R)})
  <2>1. IsFiniteSet(Holding(R))
    BY <1>2, FS_Subset DEF Holding
  <2>2. place \in Surjection(Holding(R), {FileOf(r) : r \in Holding(R)})
    BY DEF Surjection
  <2> QED
    BY <2>1, <2>2, FS_Surjection
<1>6. Collected = [state |-> "torn", files |-> P, rows |-> R, failures |-> F, total |-> Summed(R)]
  BY DEF Collected
<1>7. Summed(R) \in Nat
  BY <1>2, <1>3, SummedType
<1> HIDE DEF R, P, F
<1>8. Collected \in Listing
  BY <1>3, <1>6, <1>7 DEF Listing
<1> QED
  BY <1>2, <1>4, <1>5, <1>6, <1>8 DEF R, F

(* Before files are lost, the rows of the index are all on the disk.       *)
LEMMA AllStored ==
    ASSUME HuntInv, index.state # "none", hunt \notin {"returned", "dead"}
    PROVE  Stored(index.files) = index.total
<1> DEFINE R == Collected.rows
           w == Matches(R)
           g == [r \in R |-> FileOf(r)]
           v == Held(index.files)
<1>1. TypeOK /\ Working \subseteq Slots
  BY WorkingSlots DEF HuntInv
<1>2. index.files = Collected.files /\ index.rows = R /\ index.total = Collected.total
  BY CollectedType DEF HuntInv, IndexInv, Listing
<1>3. IsFiniteSet(R) /\ R \in RowsOf(Slots) /\ index.files = {FileOf(r) : r \in Holding(R)}
  BY <1>2, CollectedType DEF Listing
<1>4. \A r \in R : r[3] \in Nat
  BY <1>3 DEF RowsOf
<1>5. ASSUME NEW r \in R PROVE r[1] \in Slots /\ r \in got[r[1]].rows
  <2>1. PICK x \in Working : r \in got[x].rows
    BY CollectedType
  <2>2. r[1] = x
    BY <1>1, <2>1 DEF HuntInv, WorkerInv
  <2> QED
    BY <1>1, <2>1, <2>2
<1>6. ASSUME NEW r \in R, NEW s \in R, FileOf(r) = FileOf(s) PROVE r = s
  <2>1. r[1] = s[1] /\ r[2] = s[2]
    BY <1>6 DEF FileOf, Named
  <2> QED
    BY <1>5, <2>1 DEF HuntInv, WorkerInv
<1>7. ASSUME NEW r \in Holding(R) PROVE FileOf(r) \in DOMAIN files /\ files[FileOf(r)] = r[3]
  <2>1. r \in R /\ r[1] \in Slots /\ r \in Holding(got[r[1]].rows)
    BY <1>5 DEF Holding
  <2> QED
    BY <2>1 DEF HuntInv, FilesInv
<1>8. \A r \in R : w[r] # 0 => r \in Holding(R)
  BY <1>4 DEF Matches, Holding
<1>9. Images(w, g, R) = index.files
  <2>1. {y \in R : w[y] # 0} = Holding(R)
    BY <1>4 DEF Matches, Holding
  <2>2. \A r \in Holding(R) : g[r] = FileOf(r)
    BY DEF Holding
  <2> HIDE DEF R, w, g
  <2> QED
    BY <1>3, <2>1, <2>2 DEF Images
<1>10. \A r \in R : w[r] # 0 => v[g[r]] = w[r]
  BY <1>3, <1>7, <1>8 DEF Held, Matches
<1>11. \A r, s \in R : w[r] # 0 /\ w[s] # 0 /\ g[r] = g[s] => r = s
  BY <1>6
<1>12. Counts(w, R)
  BY <1>3, SummedType
<1>13. Sum(w, R) = Stored(index.files)
  <2> HIDE DEF R, w, g, v
  <2>1. Sum(w, R) = Sum(v, Images(w, g, R))
    BY <1>3, <1>10, <1>11, <1>12, SumOfImages
  <2> QED
    BY <2>1, <1>9, SumsAreSums DEF v
<1> QED
  BY <1>2, <1>13, CollectedType, SumsAreSums

-----------------------------------------------------------------------------
(* The hunt begins.                                                        *)
LEMMA SubmitKeeps ==
    ASSUME HuntInv, Submit
    PROVE  HuntInv'
<1>1. TypeOK /\ IndexInv
  BY DEF HuntInv
<1>2. PlanKept /\ UNCHANGED <<pc, todo, snapshot, counted, got, files, index>> /\ hunt = "loading" /\ hunt' = "working"
  BY DEF Submit, workerVars, PlanKept
<1>3. TypeOK'
  BY <1>1, <1>2, TypesApart DEF TypeOK, Submit
<1>4. IndexInv'
  BY <1>1, <1>2 DEF IndexInv
<1> QED
  BY <1>2, <1>3, <1>4, ApartKeeps

(* The index is begun with what all workers returned, and ended.           *)
LEMMA BeginIndexKeeps ==
    ASSUME HuntInv, BeginIndex
    PROVE  HuntInv'
<1>1. TypeOK /\ IndexInv
  BY DEF HuntInv
<1>2. /\ PlanKept /\ UNCHANGED <<pc, todo, snapshot, counted, got, files>>
      /\ hunt = "working" /\ hunt' = "indexing" /\ index' = Collected
  BY DEF BeginIndex, workerVars, PlanKept
<1>3. TypeOK'
  BY <1>1, <1>2, CollectedType, TypesApart DEF TypeOK, BeginIndex
<1>4. IndexInv'
  <2>1. Collected' = Collected /\ Working' = Working
    BY <1>1, <1>2, SettledIndex, PlanFrame
  <2>2. Collected = [Collected EXCEPT !.state = Collected.state] /\ Collected.state = "torn"
    BY CollectedType DEF Listing
  <2>3. \A w \in Working : pc'[w] = "done"
    BY <1>2 DEF BeginIndex
  <2> QED
    BY <1>2, <2>1, <2>2, <2>3 DEF IndexInv
<1> QED
  BY <1>2, <1>3, <1>4, ApartKeeps

(* It is whole when all of it is written.                                  *)
LEMMA EndIndexKeeps ==
    ASSUME HuntInv, EndIndex
    PROVE  HuntInv'
<1>1. TypeOK /\ IndexInv /\ index \in Listing
  BY DEF HuntInv, TypeOK
<1>2. /\ PlanKept /\ UNCHANGED <<pc, todo, snapshot, counted, got, files>>
      /\ hunt = "indexing" /\ hunt' = "indexed" /\ index' = [index EXCEPT !.state = "whole"]
  BY DEF EndIndex, workerVars, PlanKept
<1>3. index' \in Listing /\ index'.state = "whole"
  BY <1>1, <1>2 DEF Listing
<1>4. TypeOK'
  BY <1>1, <1>2, <1>3, TypesApart DEF TypeOK, EndIndex
<1>5. IndexInv'
  <2>1. Collected' = Collected /\ Working' = Working /\ Collected \in Listing
    BY <1>1, <1>2, SettledIndex, PlanFrame, CollectedType
  <2>2. (\A w \in Working : pc[w] = "done") /\ index = [Collected EXCEPT !.state = index.state]
    BY <1>1, <1>2 DEF IndexInv
  <2>3. index' = [Collected EXCEPT !.state = "whole"]
    BY <1>2, <2>1, <2>2 DEF Listing
  <2> QED
    BY <1>2, <1>3, <2>1, <2>2, <2>3 DEF IndexInv
<1> QED
  BY <1>2, <1>4, <1>5, ApartKeeps

(* The hunt dies.                                                          *)
LEMMA DeathKeeps ==
    ASSUME HuntInv, HuntRaises \/ HuntDies
    PROVE  HuntInv'
<1>1. TypeOK /\ IndexInv
  BY DEF HuntInv
<1>2. PlanKept /\ UNCHANGED <<pc, todo, snapshot, counted, got, files, index>> /\ hunt' = "dead"
  BY DEF HuntRaises, HuntDies, workerVars, PlanKept
<1>3. TypeOK'
  BY <1>1, <1>2, TypesApart DEF TypeOK, HuntRaises, HuntDies
<1>4. IndexInv'
  BY <1>2, SettledIndex DEF IndexInv
<1> QED
  BY <1>2, <1>3, <1>4, ApartKeeps

(* A result is made of the index, by the hunt or by opening it again.      *)
LEMMA HoldType ==
    ASSUME HuntInv, index.state = "whole", Hold
    PROVE  /\ result' \in Results /\ IsFiniteSet(result'.files)
           /\ result'.files = index.files /\ result'.total = index.total
           /\ result'.frame \in {-1, Stored(index.files)}
<1>1. TypeOK /\ index.files = Collected.files /\ index \in Listing
  BY CollectedType DEF HuntInv, IndexInv, Listing, TypeOK
<1>2. IsFiniteSet(index.files)
  BY <1>1, CollectedType
<1>3. Stored(index.files) \in Nat
  BY <1>1, <1>2, StoredType
<1>4. PICK frame \in Small(index.total, index.files) :
        result' = [held |-> TRUE, files |-> index.files, total |-> index.total, frame |-> frame]
  BY DEF Hold
<1>5. frame \in {-1, Stored(index.files)}
  BY DEF Small
<1> QED
  BY <1>1, <1>2, <1>3, <1>4, <1>5 DEF Results, Listing

(* Handing out a result changes nothing else.                              *)
LEMMA HoldKeeps ==
    ASSUME HuntInv, Return \/ Reopen
    PROVE  HuntInv'
<1>1. TypeOK /\ IndexInv
  BY DEF HuntInv
<1>2. PlanKept /\ UNCHANGED <<pc, todo, snapshot, counted, got, files, index>> /\ hunt' \in {"returned", "dead"} /\ Hold
  BY DEF Return, Reopen, workerVars, PlanKept
<1>3. index.state = "whole"
  BY <1>1 DEF IndexInv, Return, Reopen, Verified
<1>4. TypeOK'
  BY <1>1, <1>2, <1>3, HoldType, TypesApart DEF TypeOK, Return, Reopen
<1>5. IndexInv'
  BY <1>2, <1>3, SettledIndex DEF IndexInv
<1> QED
  BY <1>2, <1>4, <1>5, ApartKeeps

(* The steps of an export.                                                 *)
LEMMA ExportForms ==
    ASSUME export \in Exports
    PROVE  /\ BeginExport => export' = [pc |-> "copying", rows |-> export.rows, partial |-> TRUE,
                                        destination |-> export.destination, of |-> export.of]
           /\ ExportFails => export' = [pc |-> "none", rows |-> 0, partial |-> FALSE,
                                        destination |-> export.destination, of |-> export.of]
           /\ ExportCopies => export' = [pc |-> "copied", rows |-> Stored(result.files), partial |-> export.partial,
                                         destination |-> export.destination, of |-> export.of]
<1>1. BeginExport => export' = [pc |-> "copying", rows |-> export.rows, partial |-> TRUE,
                                destination |-> export.destination, of |-> export.of]
  BY DEF Exports, BeginExport
<1>2. ExportFails => export' = [pc |-> "none", rows |-> 0, partial |-> FALSE,
                                destination |-> export.destination, of |-> export.of]
  BY DEF Exports, ExportFails
<1>3. ExportCopies => export' = [pc |-> "copied", rows |-> Stored(result.files), partial |-> export.partial,
                                 destination |-> export.destination, of |-> export.of]
  BY DEF Exports, ExportCopies
<1> QED
  BY <1>1, <1>2, <1>3

(* An export reads the result and writes beside it.                        *)
LEMMA ExportKeeps ==
    ASSUME HuntInv, BeginExport \/ ExportCopies \/ Replace \/ ExportFails \/ UNCHANGED vars
    PROVE  HuntInv'
<1>1. TypeOK /\ IndexInv /\ export \in Exports
  BY DEF HuntInv, TypeOK
<1>2. PlanKept /\ UNCHANGED <<imports, losses, hunt, pc, todo, snapshot, counted, got, files, index, result>>
  BY DEF BeginExport, ExportCopies, Replace, ExportFails, vars, workerVars, PlanKept
<1>3. export' \in Exports
  <2>1. Stored(result.files) \in Nat
    BY <1>1, StoredType DEF TypeOK
  <2>2. CASE BeginExport
    <3>1. export' = [pc |-> "copying", rows |-> export.rows, partial |-> TRUE,
                     destination |-> export.destination, of |-> export.of]
      BY <1>1, <2>2, ExportForms
    <3> QED
      BY <1>1, <3>1 DEF Exports
  <2>6. CASE ExportFails
    <3>1. export' = [pc |-> "none", rows |-> 0, partial |-> FALSE,
                     destination |-> export.destination, of |-> export.of]
      BY <1>1, <2>6, ExportForms
    <3> QED
      BY <1>1, <3>1 DEF Exports
  <2>3. CASE ExportCopies
    BY <1>1, <2>1, <2>3, ExportForms DEF Exports
  <2>4. CASE Replace
    BY <1>1, <2>4 DEF Replace, Exports
  <2>5. CASE UNCHANGED vars
    BY <1>1, <2>5 DEF vars
  <2> QED
    BY <2>2, <2>3, <2>4, <2>5, <2>6
<1>4. TypeOK'
  BY <1>1, <1>2, <1>3, TypesApart DEF TypeOK
<1>5. IndexInv'
  BY <1>1, <1>2, SettledIndex DEF IndexInv
<1>6. \A w \in Slots : Idle(w)
  BY <1>2 DEF Idle
<1>7. \A w \in Slots : WorkerInv(w)' /\ FilesInv(w)'
  BY <1>1, <1>2, <1>6, WorkerKept, FilesKept DEF HuntInv
<1> QED
  BY <1>4, <1>5, <1>7 DEF HuntInv

-----------------------------------------------------------------------------
(* The first state, and every step.                                        *)
LEMMA FirstInv == Init => HuntInv
<1> SUFFICES ASSUME Init PROVE HuntInv
  OBVIOUS
<1>1. IsFiniteSet({})
  BY FS_EmptySet
<1>2. TypeOK
  BY <1>1 DEF Init, TypeOK, Output, RowsOf, Listing, Results, Exports, NoIndex, NoResult, Nothing, Path
<1>3. IndexInv
  BY DEF Init, IndexInv, NoIndex
<1>4. ASSUME NEW w \in Slots PROVE WorkerInv(w) /\ FilesInv(w)
  <2>1. pc[w] = "idle" /\ todo[w] = {} /\ got[w] = Nothing
    BY DEF Init
  <2> QED
    BY <2>1 DEF WorkerInv, FilesInv, Nothing, Holding
<1> QED
  BY <1>2, <1>3, <1>4 DEF HuntInv

(* No step breaks the invariant.                                           *)
LEMMA StepKeeps == HuntInv /\ [Next]_vars => HuntInv'
<1> SUFFICES ASSUME HuntInv, [Next]_vars PROVE HuntInv'
  OBVIOUS
<1>1. CASE Submit
  BY <1>1, SubmitKeeps
<1>2. CASE Index
  BY <1>2, BeginIndexKeeps, EndIndexKeeps, HoldKeeps, DeathKeeps DEF Index
<1>3. CASE Analyst
  BY <1>3, HoldKeeps, ExportKeeps DEF Analyst
<1>4. CASE Meanwhile
  BY <1>4, MeanwhileKeeps
<1>5. ASSUME NEW w \in Slots, Evaluate(w) PROVE HuntInv'
  BY <1>5, OpenKeeps, PassOverKeeps, UnusableKeeps, CopyMatchesKeeps, CopyFailsKeeps, KeepKeeps,
     WorkerReturnsKeeps, WorkerRaisesKeeps DEF Evaluate
<1>6. CASE UNCHANGED vars
  BY <1>6, ExportKeeps
<1> QED
  BY <1>1, <1>2, <1>3, <1>4, <1>5, <1>6 DEF Next

(* What a worker has judged, returned and left on the disk agrees, through *)
(* losses, edits of the rules and deaths of workers, and the index is made *)
(* of it (_run_hunt_distributed, _evaluate_rules, HuntResults).            *)
THEOREM HuntInvariance == Spec => []HuntInv
<1> QED
  BY FirstInv, StepKeeps, PTL DEF Spec

(* Every rule that was loaded, of a level that was asked for, is in the    *)
(* index of a finished hunt exactly once, as evaluated or as failed, in    *)
(* however many slices the rules were judged (_chunk_rules, _worker_hunt). *)
THEOREM RulesJudgedOnce == Spec => []EveryRuleOnce
<1>1. ASSUME HuntInv PROVE EveryRuleOnce
  <2> SUFFICES ASSUME index.state = "whole", Steady, NEW i \in Positions
               PROVE  Cardinality({r \in index.rows : r[2] = i})
                        + Cardinality({f \in index.failures : f[2] = i})
                          = IF Quiet(i) THEN 0 ELSE 1
    BY DEF EveryRuleOnce, Quiet
  <2> DEFINE v == SliceOf(i)
             rows == {r \in index.rows : r[2] = i}
             failures == {f \in index.failures : f[2] = i}
  <2>1. TypeOK /\ v \in Working /\ Working \subseteq Slots
    BY <1>1, WorkingSlots DEF HuntInv
  <2>2. /\ \A x \in Working : pc[x] = "done"
        /\ index.rows = UNION {got[x].rows : x \in Working}
        /\ index.failures = UNION {got[x].failures : x \in Working}
    BY <1>1, CollectedType DEF HuntInv, IndexInv, Listing
  <2>3. \A x \in Working : WorkerInv(x) /\ todo[x] = {}
    BY <1>1, <2>1, <2>2 DEF HuntInv, WorkerInv
  <2>4. \A x \in Working : x # v => ~RowFor(x, i) /\ ~Failed(x, i)
    BY <2>2, <2>3 DEF WorkerInv
  <2>5. JudgedBy(v, i)
    BY <2>1, <2>2, <2>3 DEF WorkerInv
  <2> HIDE DEF v
  <2>6. \A r \in rows : r \in got[v].rows
    BY <2>2, <2>4 DEF RowFor
  <2>7. \A f \in failures : f = <<v, i>> /\ Failed(v, i)
    <3> SUFFICES ASSUME NEW f \in failures PROVE f = <<v, i>> /\ Failed(v, i)
      OBVIOUS
    <3>1. PICK x \in Working : f \in got[x].failures
      BY <2>2
    <3>2. f = <<x, i>>
      BY <2>1, <2>3, <3>1 DEF WorkerInv, TypeOK, Output
    <3> QED
      BY <2>4, <3>1, <3>2 DEF Failed
  <2>8. \A r, s \in rows : r = s
    BY <2>1, <2>3, <2>6 DEF WorkerInv
  <2>9. \A r \in rows : ~Quiet(i) /\ ~Failed(v, i)
    BY <2>1, <2>3, <2>6 DEF WorkerInv
  <2>10. Failed(v, i) => ~Quiet(i) /\ <<v, i>> \in failures
    <3>1. <<v, i>>[2] = i
      OBVIOUS
    <3> QED
      BY <2>1, <2>2, <2>3, <3>1 DEF Failed, WorkerInv
  <2>11. RowFor(v, i) => rows # {}
    BY <2>1, <2>2 DEF RowFor
  <2> HIDE DEF rows, failures
  <2>12. CASE Quiet(i)
    <3>1. rows = {} /\ failures = {}
      BY <2>7, <2>9, <2>10, <2>12
    <3> QED
      BY <2>12, <3>1, FS_EmptySet DEF rows, failures
  <2>13. CASE ~Quiet(i) /\ Failed(v, i)
    <3>1. rows = {} /\ failures = {<<v, i>>}
      BY <2>7, <2>9, <2>10, <2>13
    <3>2. Cardinality(rows) = 0 /\ Cardinality(failures) = 1
      BY <3>1, FS_EmptySet, FS_Singleton
    <3> QED
      BY <2>13, <3>2 DEF rows, failures
  <2>14. CASE ~Quiet(i) /\ ~Failed(v, i)
    <3>1. failures = {} /\ rows # {}
      BY <2>5, <2>7, <2>11, <2>14 DEF JudgedBy
    <3>2. PICK r \in rows : TRUE
      BY <3>1
    <3>3. rows = {r}
      BY <2>8, <3>2
    <3>4. Cardinality(rows) = 1 /\ Cardinality(failures) = 0
      BY <3>1, <3>3, FS_EmptySet, FS_Singleton
    <3> QED
      BY <2>14, <3>4 DEF rows, failures
  <2> QED
    BY <2>12, <2>13, <2>14
<1> QED
  BY <1>1, HuntInvariance, PTL

(* A result that is handed out has all its rows on the disk, as many as    *)
(* the rules report, and an export replaces the old one only with all of   *)
(* them (run_hunt, HuntResults.open, _load_small, save).                   *)
THEOREM ResultsAreComplete == Spec => ResultIsComplete
<1> DEFINE Handed == result # result' =>
             Stored(result'.files) = result'.total /\ result'.frame \in {-1, result'.total}
           Exported == export.destination # export'.destination => export'.of = result.total
<1>1. ASSUME HuntInv, Next PROVE Handed
  <2>1. CASE UNCHANGED result
    BY <2>1
  <2>2. CASE Return
    <3>1. index.state = "whole" /\ hunt \notin {"returned", "dead"}
      BY <1>1, <2>2 DEF HuntInv, IndexInv, Return
    <3> QED
      BY <1>1, <2>2, <3>1, AllStored, HoldType DEF Return
  <2>3. CASE Reopen
    BY <1>1, <2>3, HoldType DEF Reopen, Verified
  <2>4. UNCHANGED result \/ Return \/ Reopen
    BY <1>1 DEF Next, Submit, Index, Analyst, Meanwhile, Evaluate, BeginIndex, EndIndex, HuntRaises,
       HuntDies, BeginExport, ExportCopies, Replace, ExportFails, ImportCommits, RuleRemoved, FileLost,
       Open, PassOver, Unusable, CopyMatches, CopyFails, Keep, WorkerReturns, WorkerRaises
  <2> QED
    BY <2>1, <2>2, <2>3, <2>4
<1>2. ASSUME HuntInv, Next PROVE Exported
  <2>1. CASE UNCHANGED export
    BY <2>1
  <2>2. CASE Replace
    BY <2>2 DEF Replace, AllExported
  <2>3. CASE BeginExport \/ ExportCopies \/ ExportFails
    <3>1. export \in Exports
      BY <1>2 DEF HuntInv, TypeOK
    <3>2. export'.destination = export.destination
      BY <2>3, <3>1, ExportForms
    <3> QED
      BY <3>2
  <2>4. UNCHANGED export \/ Replace \/ BeginExport \/ ExportCopies \/ ExportFails
    BY <1>2 DEF Next, Submit, Index, Analyst, Meanwhile, Evaluate, BeginIndex, EndIndex, Return, HuntRaises,
       HuntDies, Reopen, ImportCommits, RuleRemoved, FileLost,
       Open, PassOver, Unusable, CopyMatches, CopyFails, Keep, WorkerReturns, WorkerRaises
  <2> QED
    BY <2>1, <2>2, <2>3, <2>4
<1>3. HuntInv /\ [Next]_vars => [Handed /\ Exported]_vars
  BY <1>1, <1>2
<1> QED
  BY <1>3, HuntInvariance, PTL DEF Spec, ResultIsComplete
===============================================================================
