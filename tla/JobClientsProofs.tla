--------------------------- MODULE JobClientsProofs ---------------------------
(***************************************************************************)
(* What a background job tells those who look at it, for every set of      *)
(* clients and workers: a job that was called cancelled stays so, what its *)
(* document says is true of case.json, and no kill leaves it suspended.    *)
(* A child registers within the 60 seconds it is given (GraceHolds): a job *)
(* that does not may be called interrupted and live on.                    *)
(***************************************************************************)
EXTENDS JobClients, TLAPS

(* An update of the document that may fail leaves a document.              *)
LEMMA WritesAreTyped ==
    ASSUME TypeOK, NEW phase \in Phases, TryWriteDoc(phase)
    PROVE  doc' \in Status /\ fresh' \in [Clients -> BOOLEAN]
<1>1. CASE WriteDoc(phase, TRUE)
  BY <1>1 DEF WriteDoc, Status
<1>2. CASE UNCHANGED <<doc, fresh>>
  BY <1>2 DEF TypeOK
<1> QED
  BY <1>1, <1>2 DEF TryWriteDoc

(* The parent: the first document, the process, its identity.              *)
LEMMA PublishJobPreserves ==
    ASSUME JobInv, GraceHolds = TRUE, PublishJob
    PROVE  JobInv'
<1>1. TypeOK'
  BY DEF JobInv, clientVars, Terminal, WriteDoc, PublishJob, Phases, Status, TypeOK
<1>2. ProcessInv'
  BY DEF JobInv, clientVars, NoDoc, Alive, WriteDoc, PublishJob, ProcessInv
<1>3. DocInv'
  BY DEF JobInv, clientVars, Terminal, NoDoc, Alive, WriteDoc, PublishJob, Phases,
      Status, TypeOK, ProcessInv, DocInv
<1>4. ReadInv'
  BY DEF JobInv, clientVars, Terminal, WriteDoc, PublishJob, Dead, ReadInv
<1>5. CancelInv'
  BY DEF JobInv, clientVars, WriteDoc, PublishJob, Stopped, CancelInv
<1>6. KillInv'
  BY DEF JobInv, clientVars, WriteDoc, PublishJob, NoneRefused, KillInv
<1>7. FrozenIsReleased'
  BY DEF JobInv, clientVars, WriteDoc, PublishJob, FrozenIsReleased
<1> QED
  BY <1>1, <1>2, <1>3, <1>4, <1>5, <1>6, <1>7 DEF JobInv

(* A child is spawned for a job that has none.                             *)
LEMMA SpawnPreserves ==
    ASSUME JobInv, GraceHolds = TRUE, Spawn
    PROVE  JobInv'
<1>1. TypeOK'
  BY DEF JobInv, fileVars, clientVars, Terminal, Spawn, Phases, Status, TypeOK
<1>2. ProcessInv'
  BY DEF JobInv, fileVars, clientVars, NoDoc, Alive, Spawn, ProcessInv
<1>3. DocInv'
  BY DEF JobInv, fileVars, clientVars, Spawn, DocInv
<1>4. ReadInv'
  BY DEF JobInv, fileVars, clientVars, Terminal, NoDoc, Alive, Spawn, Phases, Status,
      TypeOK, Dead, ProcessInv, ReadInv
<1>5. CancelInv'
  BY DEF JobInv, fileVars, clientVars, Terminal, NoDoc, Alive, Spawn, Phases, Status,
      TypeOK, Stopped, ProcessInv, CancelInv
<1>6. KillInv'
  BY DEF JobInv, fileVars, clientVars, Terminal, NoDoc, Alive, Spawn, Phases, Status,
      TypeOK, ProcessInv, NoneRefused, KillInv
<1>7. FrozenIsReleased'
  BY DEF JobInv, fileVars, clientVars, Spawn, FrozenIsReleased
<1> QED
  BY <1>1, <1>2, <1>3, <1>4, <1>5, <1>6, <1>7 DEF JobInv

(* Without a child nothing of the job will ever run.                       *)
LEMMA SpawnFailsPreserves ==
    ASSUME JobInv, GraceHolds = TRUE, SpawnFails
    PROVE  JobInv'
<1>1. TypeOK'
  BY DEF JobInv, clientVars, Terminal, WriteDoc, SpawnFails, Phases, Status, TypeOK
<1>2. ProcessInv'
  BY DEF JobInv, clientVars, NoDoc, Alive, WriteDoc, SpawnFails, ProcessInv
<1>3. DocInv'
  BY DEF JobInv, clientVars, Terminal, NoDoc, Alive, WriteDoc, SpawnFails, Phases,
      Status, TypeOK, ProcessInv, DocInv
<1>4. ReadInv'
  BY DEF JobInv, clientVars, Terminal, WriteDoc, SpawnFails, Dead, ReadInv
<1>5. CancelInv'
  BY DEF JobInv, clientVars, WriteDoc, SpawnFails, Stopped, CancelInv
<1>6. KillInv'
  BY DEF JobInv, clientVars, WriteDoc, SpawnFails, NoneRefused, KillInv
<1>7. FrozenIsReleased'
  BY DEF JobInv, clientVars, WriteDoc, SpawnFails, FrozenIsReleased
<1> QED
  BY <1>1, <1>2, <1>3, <1>4, <1>5, <1>6, <1>7 DEF JobInv

(* The parent writes the identity of the child, unless that has gone.      *)
LEMMA RegisterPreserves ==
    ASSUME JobInv, GraceHolds = TRUE, Register
    PROVE  JobInv'
<1>1. TypeOK'
  <2>1. Alive \in BOOLEAN
    BY DEF Alive
  <2>2. identity' \in BOOLEAN
    BY <2>1 DEF JobInv, TypeOK, Register
  <2> QED
    BY <2>2 DEF JobInv, clientVars, Register, TypeOK
<1>2. ProcessInv'
  BY DEF JobInv, clientVars, NoDoc, Alive, Register, ProcessInv
<1>3. DocInv'
  BY DEF JobInv, clientVars, Alive, Register, DocInv
<1>4. ReadInv'
  BY DEF JobInv, clientVars, Terminal, Alive, Register, Dead, ReadInv
<1>5. CancelInv'
  BY DEF JobInv, clientVars, Alive, Register, Stopped, CancelInv
<1>6. KillInv'
  BY DEF JobInv, clientVars, Alive, Register, NoneRefused, KillInv
<1>7. FrozenIsReleased'
  BY DEF JobInv, clientVars, Alive, Register, FrozenIsReleased
<1> QED
  BY <1>1, <1>2, <1>3, <1>4, <1>5, <1>6, <1>7 DEF JobInv

(* A parent may die before the child is there, and after.                  *)
LEMMA ParentDiesPreserves ==
    ASSUME JobInv, GraceHolds = TRUE, ParentDies
    PROVE  JobInv'
<1>1. TypeOK'
  BY DEF JobInv, fileVars, clientVars, Terminal, ParentDies, Phases, Status, TypeOK
<1>2. ProcessInv'
  BY DEF JobInv, fileVars, clientVars, NoDoc, Alive, ParentDies, ProcessInv
<1>3. DocInv'
  BY DEF JobInv, fileVars, clientVars, ParentDies, DocInv
<1>4. ReadInv'
  BY DEF JobInv, fileVars, clientVars, Terminal, ParentDies, Dead, ReadInv
<1>5. CancelInv'
  BY DEF JobInv, fileVars, clientVars, ParentDies, Stopped, CancelInv
<1>6. KillInv'
  BY DEF JobInv, fileVars, clientVars, ParentDies, NoneRefused, KillInv
<1>7. FrozenIsReleased'
  BY DEF JobInv, fileVars, clientVars, ParentDies, FrozenIsReleased
<1> QED
  BY <1>1, <1>2, <1>3, <1>4, <1>5, <1>6, <1>7 DEF JobInv

(* The child takes the document over.                                      *)
LEMMA EnterPreserves ==
    ASSUME JobInv, GraceHolds = TRUE, Enter
    PROVE  JobInv'
<1>1. TypeOK'
  BY DEF JobInv, clientVars, Terminal, WriteDoc, At, Enter, Phases, Status, TypeOK
<1>2. ProcessInv'
  BY DEF JobInv, clientVars, NoDoc, Alive, WriteDoc, At, Enter, ProcessInv
<1>3. DocInv'
  BY DEF JobInv, clientVars, Terminal, NoDoc, Alive, WriteDoc, At, Enter, Phases,
      Status, TypeOK, ProcessInv, DocInv
<1>4. ReadInv'
  BY DEF JobInv, clientVars, Terminal, WriteDoc, At, Enter, Dead, ReadInv
<1>5. CancelInv'
  BY DEF JobInv, clientVars, WriteDoc, At, Enter, Stopped, CancelInv
<1>6. KillInv'
  BY DEF JobInv, clientVars, WriteDoc, At, Enter, NoneRefused, KillInv
<1>7. FrozenIsReleased'
  BY DEF JobInv, clientVars, WriteDoc, At, Enter, FrozenIsReleased
<1> QED
  BY <1>1, <1>2, <1>3, <1>4, <1>5, <1>6, <1>7 DEF JobInv

(* A child that finds a request ends before it begins to work.             *)
LEMMA HeedCancelPreserves ==
    ASSUME JobInv, GraceHolds = TRUE, HeedCancel
    PROVE  JobInv'
<1>1. TypeOK'
  <2>1. doc' \in Status /\ fresh' \in [Clients -> BOOLEAN]
    BY WritesAreTyped DEF JobInv, HeedCancel, Phases, Terminal
  <2> QED
    BY <2>1 DEF JobInv, TypeOK, HeedCancel, clientVars
<1>2. ProcessInv'
  BY DEF JobInv, clientVars, NoDoc, Alive, WriteDoc, TryWriteDoc, At, HeedCancel,
      ProcessInv
<1>3. DocInv'
  BY DEF JobInv, clientVars, Terminal, NoDoc, Alive, WriteDoc, TryWriteDoc, At,
      HeedCancel, Phases, Status, TypeOK, ProcessInv, DocInv
<1>4. ReadInv'
  BY DEF JobInv, clientVars, Terminal, WriteDoc, TryWriteDoc, At, HeedCancel, Dead,
      ReadInv
<1>5. CancelInv'
  BY DEF JobInv, clientVars, WriteDoc, TryWriteDoc, At, HeedCancel, Stopped, CancelInv
<1>6. KillInv'
  BY DEF JobInv, clientVars, WriteDoc, TryWriteDoc, At, HeedCancel, NoneRefused, KillInv
<1>7. FrozenIsReleased'
  BY DEF JobInv, clientVars, WriteDoc, TryWriteDoc, At, HeedCancel, FrozenIsReleased
<1> QED
  BY <1>1, <1>2, <1>3, <1>4, <1>5, <1>6, <1>7 DEF JobInv

(* The child works, commits and reports.                                   *)
LEMMA ProceedPreserves ==
    ASSUME JobInv, GraceHolds = TRUE, Proceed
    PROVE  JobInv'
<1>1. TypeOK'
  BY DEF JobInv, fileVars, clientVars, Terminal, At, Proceed, Phases, Status, TypeOK
<1>2. ProcessInv'
  BY DEF JobInv, fileVars, clientVars, NoDoc, Alive, At, Proceed, ProcessInv
<1>3. DocInv'
  BY DEF JobInv, fileVars, clientVars, At, Proceed, DocInv
<1>4. ReadInv'
  BY DEF JobInv, fileVars, clientVars, Terminal, At, Proceed, Dead, ReadInv
<1>5. CancelInv'
  BY DEF JobInv, fileVars, clientVars, At, Proceed, Stopped, CancelInv
<1>6. KillInv'
  BY DEF JobInv, fileVars, clientVars, At, Proceed, NoneRefused, KillInv
<1>7. FrozenIsReleased'
  BY DEF JobInv, fileVars, clientVars, At, Proceed, FrozenIsReleased
<1> QED
  BY <1>1, <1>2, <1>3, <1>4, <1>5, <1>6, <1>7 DEF JobInv

(* The run is in case.json before the document says so.                    *)
LEMMA CommitPreserves ==
    ASSUME JobInv, GraceHolds = TRUE, Commit
    PROVE  JobInv'
<1>1. TypeOK'
  BY DEF JobInv, clientVars, Terminal, At, Commit, Phases, Status, TypeOK
<1>2. ProcessInv'
  BY DEF JobInv, clientVars, NoDoc, Alive, At, Commit, ProcessInv
<1>3. DocInv'
  BY DEF JobInv, clientVars, At, Commit, DocInv
<1>4. ReadInv'
  BY DEF JobInv, clientVars, Terminal, At, Commit, Dead, ReadInv
<1>5. CancelInv'
  BY DEF JobInv, clientVars, At, Commit, Stopped, CancelInv
<1>6. KillInv'
  BY DEF JobInv, clientVars, At, Commit, NoneRefused, KillInv
<1>7. FrozenIsReleased'
  BY DEF JobInv, clientVars, At, Commit, FrozenIsReleased
<1> QED
  BY <1>1, <1>2, <1>3, <1>4, <1>5, <1>6, <1>7 DEF JobInv

(* Only a child that has committed reports "done".                         *)
LEMMA ReportDonePreserves ==
    ASSUME JobInv, GraceHolds = TRUE, ReportDone
    PROVE  JobInv'
<1>1. TypeOK'
  <2>1. doc' \in Status /\ fresh' \in [Clients -> BOOLEAN]
    BY WritesAreTyped DEF JobInv, ReportDone, Phases, Terminal
  <2> QED
    BY <2>1 DEF JobInv, TypeOK, ReportDone, clientVars
<1>2. ProcessInv'
  BY DEF JobInv, clientVars, NoDoc, Alive, WriteDoc, TryWriteDoc, At, ReportDone,
      ProcessInv
<1>3. DocInv'
  BY DEF JobInv, clientVars, Terminal, NoDoc, Alive, WriteDoc, TryWriteDoc, At,
      ReportDone, Phases, Status, TypeOK, ProcessInv, DocInv
<1>4. ReadInv'
  BY DEF JobInv, clientVars, Terminal, WriteDoc, TryWriteDoc, At, ReportDone, Dead,
      ReadInv
<1>5. CancelInv'
  BY DEF JobInv, clientVars, WriteDoc, TryWriteDoc, At, ReportDone, Stopped, CancelInv
<1>6. KillInv'
  BY DEF JobInv, clientVars, WriteDoc, TryWriteDoc, At, ReportDone, NoneRefused, KillInv
<1>7. FrozenIsReleased'
  BY DEF JobInv, clientVars, WriteDoc, TryWriteDoc, At, ReportDone, FrozenIsReleased
<1> QED
  BY <1>1, <1>2, <1>3, <1>4, <1>5, <1>6, <1>7 DEF JobInv

(* The last update keeps what was reported.                                *)
LEMMA FinalUpdatePreserves ==
    ASSUME JobInv, GraceHolds = TRUE, FinalUpdate
    PROVE  JobInv'
<1>1. TypeOK'
  BY DEF JobInv, clientVars, Terminal, WriteDoc, At, FinalUpdate, Phases, Status, TypeOK
<1>2. ProcessInv'
  BY DEF JobInv, clientVars, NoDoc, Alive, WriteDoc, At, FinalUpdate, ProcessInv
<1>3. DocInv'
  BY DEF JobInv, clientVars, Terminal, NoDoc, Alive, WriteDoc, At, FinalUpdate, Phases,
      Status, TypeOK, ProcessInv, DocInv
<1>4. ReadInv'
  BY DEF JobInv, clientVars, Terminal, WriteDoc, At, FinalUpdate, Dead, ReadInv
<1>5. CancelInv'
  BY DEF JobInv, clientVars, WriteDoc, At, FinalUpdate, Stopped, CancelInv
<1>6. KillInv'
  BY DEF JobInv, clientVars, WriteDoc, At, FinalUpdate, NoneRefused, KillInv
<1>7. FrozenIsReleased'
  BY DEF JobInv, clientVars, WriteDoc, At, FinalUpdate, FrozenIsReleased
<1> QED
  BY <1>1, <1>2, <1>3, <1>4, <1>5, <1>6, <1>7 DEF JobInv

(* A child that fails after its commit is done all the same.               *)
LEMMA ExitPreserves ==
    ASSUME JobInv, GraceHolds = TRUE, Exit
    PROVE  JobInv'
<1>1. TypeOK'
  <2>1. PICK phase \in Phases : TryWriteDoc(phase)
    BY DEF Exit, Phases, Terminal
  <2>2. doc' \in Status /\ fresh' \in [Clients -> BOOLEAN]
    BY <2>1, WritesAreTyped DEF JobInv
  <2> QED
    BY <2>2 DEF JobInv, TypeOK, Exit, clientVars
<1>2. ProcessInv'
  BY DEF JobInv, clientVars, NoDoc, Alive, WriteDoc, TryWriteDoc, At, Exit, ProcessInv
<1>3. DocInv'
  BY DEF JobInv, clientVars, WriteDoc, TryWriteDoc, At, Exit, DocInv
<1>4. ReadInv'
  BY DEF JobInv, clientVars, Terminal, WriteDoc, TryWriteDoc, At, Exit, Dead, ReadInv
<1>5. CancelInv'
  BY DEF JobInv, clientVars, WriteDoc, TryWriteDoc, At, Exit, Stopped, CancelInv
<1>6. KillInv'
  BY DEF JobInv, clientVars, WriteDoc, TryWriteDoc, At, Exit, NoneRefused, KillInv
<1>7. FrozenIsReleased'
  BY DEF JobInv, clientVars, WriteDoc, TryWriteDoc, At, Exit, FrozenIsReleased
<1> QED
  BY <1>1, <1>2, <1>3, <1>4, <1>5, <1>6, <1>7 DEF JobInv

(* A heartbeat writes the phase that is in the document already.           *)
LEMMA BeatPreserves ==
    ASSUME JobInv, GraceHolds = TRUE, Beat
    PROVE  JobInv'
<1>1. TypeOK'
  BY DEF JobInv, processVars, clientVars, Terminal, WriteDoc, At, Beat, Phases, Status,
      TypeOK
<1>2. ProcessInv'
  BY DEF JobInv, processVars, clientVars, NoDoc, Alive, WriteDoc, At, Beat, ProcessInv
<1>3. DocInv'
  BY DEF JobInv, processVars, clientVars, WriteDoc, At, Beat, DocInv
<1>4. ReadInv'
  BY DEF JobInv, processVars, clientVars, Terminal, WriteDoc, At, Beat, Dead, ReadInv
<1>5. CancelInv'
  BY DEF JobInv, processVars, clientVars, WriteDoc, At, Beat, Stopped, CancelInv
<1>6. KillInv'
  BY DEF JobInv, processVars, clientVars, WriteDoc, At, Beat, NoneRefused, KillInv
<1>7. FrozenIsReleased'
  BY DEF JobInv, processVars, clientVars, WriteDoc, At, Beat, FrozenIsReleased
<1> QED
  BY <1>1, <1>2, <1>3, <1>4, <1>5, <1>6, <1>7 DEF JobInv

(* A child may fail before its commit or after it.                         *)
LEMMA RaisePreserves ==
    ASSUME JobInv, GraceHolds = TRUE, Raise
    PROVE  JobInv'
<1>1. TypeOK'
  <2>1. doc' \in Status /\ fresh' \in [Clients -> BOOLEAN]
    BY WritesAreTyped DEF JobInv, TypeOK, Raise, Phases, Terminal
  <2> QED
    BY <2>1 DEF JobInv, TypeOK, Raise, clientVars
<1>2. ProcessInv'
  BY DEF JobInv, clientVars, NoDoc, Alive, WriteDoc, TryWriteDoc, At, Raise, ProcessInv
<1>3. DocInv'
  BY DEF JobInv, clientVars, Terminal, NoDoc, Alive, WriteDoc, TryWriteDoc, At, Raise,
      Phases, Status, TypeOK, ProcessInv, DocInv
<1>4. ReadInv'
  BY DEF JobInv, clientVars, Terminal, WriteDoc, TryWriteDoc, At, Raise, Dead, ReadInv
<1>5. CancelInv'
  BY DEF JobInv, clientVars, WriteDoc, TryWriteDoc, At, Raise, Stopped, CancelInv
<1>6. KillInv'
  BY DEF JobInv, clientVars, WriteDoc, TryWriteDoc, At, Raise, NoneRefused, KillInv
<1>7. FrozenIsReleased'
  BY DEF JobInv, clientVars, WriteDoc, TryWriteDoc, At, Raise, FrozenIsReleased
<1> QED
  BY <1>1, <1>2, <1>3, <1>4, <1>5, <1>6, <1>7 DEF JobInv

(* The death of the child is all a reconciler may conclude from.           *)
LEMMA ChildDiesPreserves ==
    ASSUME JobInv, GraceHolds = TRUE, ChildDies
    PROVE  JobInv'
<1>1. TypeOK'
  BY DEF JobInv, fileVars, clientVars, Terminal, Alive, ChildDies, Phases, Status,
      TypeOK
<1>2. ProcessInv'
  BY DEF JobInv, fileVars, clientVars, NoDoc, Alive, ChildDies, ProcessInv
<1>3. DocInv'
  BY DEF JobInv, fileVars, clientVars, Alive, ChildDies, DocInv
<1>4. ReadInv'
  BY DEF JobInv, fileVars, clientVars, Terminal, Alive, ChildDies, Dead, ReadInv
<1>5. CancelInv'
  BY DEF JobInv, fileVars, clientVars, Alive, ChildDies, Stopped, CancelInv
<1>6. KillInv'
  BY DEF JobInv, fileVars, clientVars, Alive, ChildDies, NoneRefused, KillInv
<1>7. FrozenIsReleased'
  BY DEF JobInv, fileVars, clientVars, Alive, ChildDies, FrozenIsReleased
<1> QED
  BY <1>1, <1>2, <1>3, <1>4, <1>5, <1>6, <1>7 DEF JobInv

(* The workers.                                                            *)
LEMMA LeaseWorkerPreserves ==
    ASSUME JobInv, GraceHolds = TRUE, NEW w \in Workers, LeaseWorker(w)
    PROVE  JobInv'
<1>1. TypeOK'
  BY DEF JobInv, fileVars, clientVars, Terminal, Alive, LeaseWorker, Phases, Status,
      TypeOK
<1>2. ProcessInv'
  BY DEF JobInv, fileVars, clientVars, NoDoc, Alive, LeaseWorker, ProcessInv
<1>3. DocInv'
  BY DEF JobInv, fileVars, clientVars, Alive, LeaseWorker, DocInv
<1>4. ReadInv'
  BY DEF JobInv, fileVars, clientVars, Terminal, Alive, LeaseWorker, Dead, ReadInv
<1>5. CancelInv'
  BY DEF JobInv, fileVars, clientVars, Alive, LeaseWorker, Stopped, CancelInv
<1>6. KillInv'
  BY DEF JobInv, fileVars, clientVars, Terminal, NoDoc, Alive, LeaseWorker, Phases,
      Status, TypeOK, Dead, Stopped, ProcessInv, ReadInv, CancelInv, NoneRefused,
      KillInv
<1>7. FrozenIsReleased'
  BY DEF JobInv, fileVars, clientVars, Alive, LeaseWorker, FrozenIsReleased
<1> QED
  BY <1>1, <1>2, <1>3, <1>4, <1>5, <1>6, <1>7 DEF JobInv

(* A worker ends by itself.                                                *)
LEMMA EndWorkerPreserves ==
    ASSUME JobInv, GraceHolds = TRUE, NEW w \in Workers, EndWorker(w)
    PROVE  JobInv'
<1>1. TypeOK'
  BY DEF JobInv, fileVars, clientVars, Terminal, EndWorker, Phases, Status, TypeOK
<1>2. ProcessInv'
  BY DEF JobInv, fileVars, clientVars, NoDoc, Alive, EndWorker, ProcessInv
<1>3. DocInv'
  BY DEF JobInv, fileVars, clientVars, EndWorker, DocInv
<1>4. ReadInv'
  BY DEF JobInv, fileVars, clientVars, Terminal, EndWorker, Dead, ReadInv
<1>5. CancelInv'
  BY DEF JobInv, fileVars, clientVars, EndWorker, Stopped, CancelInv
<1>6. KillInv'
  BY DEF JobInv, fileVars, clientVars, EndWorker, NoneRefused, KillInv
<1>7. FrozenIsReleased'
  BY DEF JobInv, fileVars, clientVars, EndWorker, FrozenIsReleased
<1> QED
  BY <1>1, <1>2, <1>3, <1>4, <1>5, <1>6, <1>7 DEF JobInv

(* No worker is born to a child that is suspended.                         *)
LEMMA StartWorkerPreserves ==
    ASSUME JobInv, GraceHolds = TRUE, NEW w \in Workers, StartWorker(w)
    PROVE  JobInv'
<1>1. TypeOK'
  BY DEF JobInv, fileVars, clientVars, Terminal, At, StartWorker, Phases, Status, TypeOK
<1>2. ProcessInv'
  BY DEF JobInv, fileVars, clientVars, NoDoc, Alive, At, StartWorker, ProcessInv
<1>3. DocInv'
  BY DEF JobInv, fileVars, clientVars, At, StartWorker, DocInv
<1>4. ReadInv'
  BY DEF JobInv, fileVars, clientVars, Terminal, At, StartWorker, Dead, ReadInv
<1>5. CancelInv'
  BY DEF JobInv, fileVars, clientVars, At, StartWorker, Stopped, CancelInv
<1>6. KillInv'
  BY DEF JobInv, fileVars, clientVars, At, StartWorker, NoneRefused, KillInv
<1>7. FrozenIsReleased'
  BY DEF JobInv, fileVars, clientVars, At, StartWorker, FrozenIsReleased
<1> QED
  BY <1>1, <1>2, <1>3, <1>4, <1>5, <1>6, <1>7 DEF JobInv

(* A client reads the status and settles it.                               *)
LEMMA AskPreserves ==
    ASSUME JobInv, GraceHolds = TRUE, NEW c \in Clients, NEW purpose \in {"poll", "ask"}, Ask(c, purpose)
    PROVE  JobInv'
<1>1. TypeOK'
  BY DEF JobInv, processVars, Terminal, NoDoc, Step, Ask, Phases, Status, TypeOK
<1>2. ProcessInv'
  BY DEF JobInv, processVars, NoDoc, Alive, Step, Ask, ProcessInv
<1>3. DocInv'
  BY DEF JobInv, processVars, NoDoc, Step, Ask, DocInv
<1>4. ReadInv'
  BY DEF JobInv, processVars, Terminal, NoDoc, Alive, Step, Ask, Phases, Status, TypeOK,
      Dead, ProcessInv, DocInv, ReadInv
<1>5. CancelInv'
  BY DEF JobInv, processVars, Terminal, NoDoc, Step, Ask, Phases, Status, TypeOK,
      Stopped, CancelInv
<1>6. KillInv'
  BY DEF JobInv, processVars, NoDoc, Step, Ask, NoneRefused, KillInv
<1>7. FrozenIsReleased'
  BY DEF JobInv, processVars, NoDoc, Step, Ask, FrozenIsReleased
<1> QED
  BY <1>1, <1>2, <1>3, <1>4, <1>5, <1>6, <1>7 DEF JobInv

(* What a client goes on with depends on what it has read.                 *)
LEMMA ReadStatusPreserves ==
    ASSUME JobInv, GraceHolds = TRUE, NEW c \in Clients, ReadStatus(c)
    PROVE  JobInv'
<1>1. TypeOK'
  BY DEF JobInv, fileVars, processVars, Terminal, NoDoc, Alive, Step, Return, Merged,
      Owned, InGrace, Settled, ReadStatus, Phases, Status, TypeOK, Stopped, ProcessInv,
      DocInv, CancelInv
<1>2. ProcessInv'
  BY DEF JobInv, fileVars, processVars, Terminal, NoDoc, Alive, Step, Return, Merged,
      Owned, InGrace, Settled, ReadStatus, ProcessInv
<1>3. DocInv'
  BY DEF JobInv, fileVars, processVars, Terminal, Alive, Step, Return, Merged, Owned,
      InGrace, Settled, ReadStatus, DocInv
<1>4. ReadInv'
  BY DEF JobInv, fileVars, processVars, Terminal, NoDoc, Alive, Step, Return, Merged,
      Owned, InGrace, Settled, ReadStatus, Phases, Status, TypeOK, Dead, ProcessInv,
      DocInv, ReadInv
<1>5. CancelInv'
  BY DEF JobInv, fileVars, processVars, Terminal, Alive, Step, Return, Merged, Owned,
      InGrace, Settled, ReadStatus, Phases, Status, TypeOK, Stopped, CancelInv
<1>6. KillInv'
  BY DEF JobInv, fileVars, processVars, Terminal, Alive, Step, Return, Merged, Owned,
      InGrace, Settled, ReadStatus, Phases, Status, TypeOK, NoneRefused, KillInv
<1>7. FrozenIsReleased'
  BY DEF JobInv, fileVars, processVars, Terminal, Alive, Step, Return, Merged, Owned,
      InGrace, Settled, ReadStatus, FrozenIsReleased, Phases, Status, TypeOK
<1> QED
  BY <1>1, <1>2, <1>3, <1>4, <1>5, <1>6, <1>7 DEF JobInv

(* A document that changed meanwhile is returned as it is.                 *)
LEMMA RereadPreserves ==
    ASSUME JobInv, GraceHolds = TRUE, NEW c \in Clients, Reread(c)
    PROVE  JobInv'
<1>1. TypeOK'
  BY DEF JobInv, fileVars, processVars, Terminal, NoDoc, Alive, Step, Return, Reread,
      Phases, Status, TypeOK, ProcessInv, DocInv
<1>2. ProcessInv'
  BY DEF JobInv, fileVars, processVars, NoDoc, Alive, Step, Return, Reread, ProcessInv
<1>3. DocInv'
  BY DEF JobInv, fileVars, processVars, Step, Return, Reread, DocInv
<1>4. ReadInv'
  BY DEF JobInv, fileVars, processVars, Terminal, NoDoc, Alive, Step, Return, Reread,
      Phases, Status, TypeOK, Dead, ProcessInv, DocInv, ReadInv
<1>5. CancelInv'
  BY DEF JobInv, fileVars, processVars, Terminal, NoDoc, Alive, Step, Return, Reread,
      Phases, Status, TypeOK, Stopped, ProcessInv, DocInv, CancelInv
<1>6. KillInv'
  BY DEF JobInv, fileVars, processVars, Terminal, Step, Return, Reread, Phases, Status,
      TypeOK, NoneRefused, KillInv
<1>7. FrozenIsReleased'
  BY DEF JobInv, fileVars, processVars, Terminal, Step, Return, Reread,
      FrozenIsReleased, Phases, Status, TypeOK
<1> QED
  BY <1>1, <1>2, <1>3, <1>4, <1>5, <1>6, <1>7 DEF JobInv

(* A dead job has committed or never will.                                 *)
LEMMA JudgePreserves ==
    ASSUME JobInv, GraceHolds = TRUE, NEW c \in Clients, Judge(c)
    PROVE  JobInv'
<1>1. TypeOK'
  BY DEF JobInv, fileVars, processVars, Terminal, Step, Outcome, Judge, Phases, Status,
      TypeOK
<1>2. ProcessInv'
  BY DEF JobInv, fileVars, processVars, NoDoc, Alive, Step, Outcome, Judge, ProcessInv
<1>3. DocInv'
  BY DEF JobInv, fileVars, processVars, Step, Outcome, Judge, DocInv
<1>4. ReadInv'
  BY DEF JobInv, fileVars, processVars, Terminal, Step, Outcome, Judge, Phases, Status,
      TypeOK, Dead, ReadInv
<1>5. CancelInv'
  BY DEF JobInv, fileVars, processVars, Step, Outcome, Judge, Stopped, CancelInv
<1>6. KillInv'
  BY DEF JobInv, fileVars, processVars, Step, Outcome, Judge, NoneRefused, KillInv
<1>7. FrozenIsReleased'
  BY DEF JobInv, fileVars, processVars, Step, Outcome, Judge, FrozenIsReleased
<1> QED
  BY <1>1, <1>2, <1>3, <1>4, <1>5, <1>6, <1>7 DEF JobInv

(* The outcome of a dead job is the same whoever writes it.                *)
LEMMA WriteOutcomePreserves ==
    ASSUME JobInv, GraceHolds = TRUE, NEW c \in Clients, WriteOutcome(c)
    PROVE  JobInv'
<1>1. TypeOK'
  BY DEF JobInv, processVars, Terminal, WriteDoc, Step, Return, WriteOutcome, Phases,
      Status, TypeOK
<1>2. ProcessInv'
  BY DEF JobInv, processVars, Terminal, NoDoc, Alive, WriteDoc, Step, Return,
      WriteOutcome, Phases, Status, TypeOK, Dead, ProcessInv, DocInv, ReadInv
<1>3. DocInv'
  BY DEF JobInv, processVars, Terminal, NoDoc, Alive, WriteDoc, Step, Return,
      WriteOutcome, Phases, Status, TypeOK, Dead, ProcessInv, DocInv, ReadInv
<1>4. ReadInv'
  BY DEF JobInv, processVars, Terminal, WriteDoc, Step, Return, WriteOutcome, Dead,
      ReadInv
<1>5. CancelInv'
  BY DEF JobInv, processVars, Terminal, WriteDoc, Step, Return, WriteOutcome, Phases,
      Status, TypeOK, Stopped, CancelInv
<1>6. KillInv'
  BY DEF JobInv, processVars, Terminal, WriteDoc, Step, Return, WriteOutcome, Phases,
      Status, TypeOK, NoneRefused, KillInv
<1>7. FrozenIsReleased'
  BY DEF JobInv, processVars, WriteDoc, Step, Return, WriteOutcome, FrozenIsReleased
<1> QED
  BY <1>1, <1>2, <1>3, <1>4, <1>5, <1>6, <1>7 DEF JobInv

(* A client cancels the job.                                               *)
LEMMA RequestPreserves ==
    ASSUME JobInv, GraceHolds = TRUE, NEW c \in Clients, Request(c)
    PROVE  JobInv'
<1>1. TypeOK'
  <2>1. pc' \in [Clients -> {"idle", "read", "doubt", "judge", "write", "request", "again",
                            "target", "kill", "verdict", "refused", "dead"}]
    BY DEF JobInv, TypeOK, Request, Step
  <2>2. cancel' \in BOOLEAN
    BY DEF JobInv, TypeOK, Request
  <2> QED
    BY <2>1, <2>2 DEF JobInv, processVars, Request, TypeOK
<1>2. ProcessInv'
  BY DEF JobInv, processVars, NoDoc, Alive, Step, Request, ProcessInv
<1>3. DocInv'
  BY DEF JobInv, processVars, Step, Request, DocInv
<1>4. ReadInv'
  BY DEF JobInv, processVars, Terminal, Step, Request, Phases, Status, TypeOK, Dead,
      ReadInv
<1>5. CancelInv'
  BY DEF JobInv, processVars, Terminal, Step, Request, Phases, Status, TypeOK, Stopped,
      CancelInv
<1>6. KillInv'
  BY DEF JobInv, processVars, Terminal, Step, Request, Phases, Status, TypeOK,
      NoneRefused, KillInv
<1>7. FrozenIsReleased'
  BY DEF JobInv, processVars, Terminal, Step, Request, FrozenIsReleased, Phases, Status,
      TypeOK
<1> QED
  BY <1>1, <1>2, <1>3, <1>4, <1>5, <1>6, <1>7 DEF JobInv

(* A request is on the disk before the document is read again.             *)
LEMMA ReadAgainPreserves ==
    ASSUME JobInv, GraceHolds = TRUE, NEW c \in Clients, ReadAgain(c)
    PROVE  JobInv'
<1>1. TypeOK'
  BY DEF JobInv, processVars, Terminal, Step, ReadAgain, Phases, Status, TypeOK
<1>2. ProcessInv'
  BY DEF JobInv, processVars, NoDoc, Alive, Step, ReadAgain, ProcessInv
<1>3. DocInv'
  BY DEF JobInv, processVars, Step, ReadAgain, DocInv
<1>4. ReadInv'
  BY DEF JobInv, processVars, Terminal, NoDoc, Alive, Step, ReadAgain, Phases, Status,
      TypeOK, Dead, ProcessInv, DocInv, ReadInv
<1>5. CancelInv'
  BY DEF JobInv, processVars, Terminal, NoDoc, Alive, Step, ReadAgain, Phases, Status,
      TypeOK, Stopped, ProcessInv, DocInv, CancelInv
<1>6. KillInv'
  BY DEF JobInv, processVars, Step, ReadAgain, NoneRefused, KillInv
<1>7. FrozenIsReleased'
  BY DEF JobInv, processVars, Step, ReadAgain, FrozenIsReleased
<1> QED
  BY <1>1, <1>2, <1>3, <1>4, <1>5, <1>6, <1>7 DEF JobInv

(* The workers are listed while the child is suspended.                    *)
LEMMA FreezePreserves ==
    ASSUME JobInv, GraceHolds = TRUE, NEW c \in Clients, Freeze(c)
    PROVE  JobInv'
<1>1. TypeOK'
  BY DEF JobInv, fileVars, Terminal, Alive, Step, Owned, Descendants, Freeze, Phases,
      Status, TypeOK
<1>2. ProcessInv'
  BY DEF JobInv, fileVars, NoDoc, Alive, Step, Owned, Descendants, Freeze, ProcessInv
<1>3. DocInv'
  BY DEF JobInv, fileVars, Alive, Step, Owned, Descendants, Freeze, DocInv
<1>4. ReadInv'
  BY DEF JobInv, fileVars, Terminal, Alive, Step, Owned, Descendants, Freeze, Dead,
      ReadInv
<1>5. CancelInv'
  BY DEF JobInv, fileVars, Alive, Step, Owned, Descendants, Freeze, Stopped, CancelInv
<1>6. KillInv'
  BY DEF JobInv, fileVars, Terminal, Alive, Step, Owned, Descendants, Freeze, Phases,
      Status, TypeOK, NoneRefused, KillInv
<1>7. FrozenIsReleased'
  BY DEF JobInv, fileVars, Terminal, Alive, Step, Owned, Descendants, Freeze,
      FrozenIsReleased, Phases, Status, TypeOK
<1> QED
  BY <1>1, <1>2, <1>3, <1>4, <1>5, <1>6, <1>7 DEF JobInv

(* A job without a process leaves only workers with a lease.               *)
LEMMA TargetOrphansPreserves ==
    ASSUME JobInv, GraceHolds = TRUE, NEW c \in Clients, TargetOrphans(c)
    PROVE  JobInv'
<1>1. TypeOK'
  BY DEF JobInv, fileVars, processVars, Terminal, Alive, Step, Owned, Leased,
      TargetOrphans, Phases, Status, TypeOK
<1>2. ProcessInv'
  BY DEF JobInv, fileVars, processVars, NoDoc, Alive, Step, Owned, Leased,
      TargetOrphans, ProcessInv
<1>3. DocInv'
  BY DEF JobInv, fileVars, processVars, Alive, Step, Owned, Leased, TargetOrphans,
      DocInv
<1>4. ReadInv'
  BY DEF JobInv, fileVars, processVars, Terminal, Alive, Step, Owned, Leased,
      TargetOrphans, Dead, ReadInv
<1>5. CancelInv'
  BY DEF JobInv, fileVars, processVars, Terminal, NoDoc, Alive, Step, Owned, Leased,
      TargetOrphans, Phases, Status, TypeOK, Stopped, ProcessInv, CancelInv
<1>6. KillInv'
  BY DEF JobInv, fileVars, processVars, Terminal, NoDoc, Alive, Step, Owned, Leased,
      TargetOrphans, Phases, Status, TypeOK, Dead, Stopped, ProcessInv, ReadInv,
      CancelInv, NoneRefused, KillInv
<1>7. FrozenIsReleased'
  BY DEF JobInv, fileVars, processVars, Alive, Step, Owned, Leased, TargetOrphans,
      FrozenIsReleased
<1> QED
  BY <1>1, <1>2, <1>3, <1>4, <1>5, <1>6, <1>7 DEF JobInv

(* A job without a process that was asked to stop stays without.           *)
LEMMA NoTargetPreserves ==
    ASSUME JobInv, GraceHolds = TRUE, NEW c \in Clients, NoTarget(c)
    PROVE  JobInv'
<1>1. TypeOK'
  BY DEF JobInv, fileVars, processVars, Terminal, Alive, Step, Owned, Leased, NoTarget,
      Phases, Status, TypeOK
<1>2. ProcessInv'
  BY DEF JobInv, fileVars, processVars, Terminal, NoDoc, Alive, Step, Owned, Leased,
      NoTarget, ProcessInv
<1>3. DocInv'
  BY DEF JobInv, fileVars, processVars, Terminal, Alive, Step, Owned, Leased, NoTarget,
      DocInv
<1>4. ReadInv'
  BY DEF JobInv, fileVars, processVars, Terminal, Alive, Step, Owned, Leased, NoTarget,
      Dead, ReadInv
<1>5. CancelInv'
  BY DEF JobInv, fileVars, processVars, Terminal, Alive, Step, Owned, Leased, NoTarget,
      Stopped, CancelInv
<1>6. KillInv'
  BY DEF JobInv, fileVars, processVars, Terminal, Alive, Step, Owned, Leased, NoTarget,
      NoneRefused, KillInv
<1>7. FrozenIsReleased'
  BY DEF JobInv, fileVars, processVars, Terminal, Alive, Step, Owned, Leased, NoTarget,
      FrozenIsReleased
<1> QED
  BY <1>1, <1>2, <1>3, <1>4, <1>5, <1>6, <1>7 DEF JobInv

(* The child and the workers in hand are killed, or only the workers.      *)
LEMMA KillPreserves ==
    ASSUME JobInv, GraceHolds = TRUE, NEW c \in Clients, Kill(c)
    PROVE  JobInv'
<1>1. TypeOK'
  <2>1. pc' \in [Clients -> {"idle", "read", "doubt", "judge", "write", "request", "again",
                            "target", "kill", "verdict", "refused", "dead"}]
    BY DEF JobInv, TypeOK, Kill, Step
  <2>2. worker' \in [Workers -> {"none", "born", "leased", "gone"}]
    BY DEF JobInv, TypeOK, Kill
  <2>3. child' \in {"absent", "starting", "entered", "working", "committed", "finished",
                    "failing", "gone"}
    BY DEF JobInv, TypeOK, Kill
  <2>4. frozen' \in BOOLEAN
    BY DEF JobInv, TypeOK, Kill
  <2> QED
    BY <2>1, <2>2, <2>3, <2>4 DEF JobInv, fileVars, Kill, TypeOK
<1>2. ProcessInv'
  BY DEF JobInv, fileVars, Terminal, NoDoc, Alive, Step, Kill, Phases, Status, TypeOK,
      Dead, Stopped, ProcessInv, ReadInv, CancelInv
<1>3. DocInv'
  BY DEF JobInv, fileVars, Step, Kill, DocInv
<1>4. ReadInv'
  BY DEF JobInv, fileVars, Terminal, Step, Kill, Dead, ReadInv
<1>5. CancelInv'
  BY DEF JobInv, fileVars, Step, Kill, Stopped, CancelInv
<1>6. KillInv'
  BY DEF JobInv, fileVars, Step, Kill, NoneRefused, KillInv
<1>7. FrozenIsReleased'
  BY DEF JobInv, fileVars, Terminal, NoDoc, Alive, Step, Kill, FrozenIsReleased, Phases,
      Status, TypeOK, Dead, Stopped, ProcessInv, ReadInv, CancelInv
<1> QED
  BY <1>1, <1>2, <1>3, <1>4, <1>5, <1>6, <1>7 DEF JobInv

(* What is answered after a kill is what case.json says.                   *)
LEMMA VerdictPreserves ==
    ASSUME JobInv, GraceHolds = TRUE, NEW c \in Clients, Verdict(c)
    PROVE  JobInv'
<1>1. TypeOK'
  BY DEF JobInv, processVars, Terminal, WriteDoc, Step, Verdict, Phases, Status, TypeOK
<1>2. ProcessInv'
  BY DEF JobInv, processVars, Terminal, NoDoc, Alive, WriteDoc, Step, Verdict, Phases,
      Status, TypeOK, Dead, ProcessInv, DocInv, ReadInv
<1>3. DocInv'
  BY DEF JobInv, processVars, Terminal, NoDoc, Alive, WriteDoc, Step, Verdict, Phases,
      Status, TypeOK, Dead, Stopped, ProcessInv, DocInv, ReadInv, CancelInv
<1>4. ReadInv'
  BY DEF JobInv, processVars, Terminal, WriteDoc, Step, Verdict, Dead, ReadInv
<1>5. CancelInv'
  BY DEF JobInv, processVars, WriteDoc, Step, Verdict, Stopped, CancelInv
<1>6. KillInv'
  BY DEF JobInv, processVars, WriteDoc, Step, Verdict, NoneRefused, KillInv
<1>7. FrozenIsReleased'
  BY DEF JobInv, processVars, WriteDoc, Step, Verdict, FrozenIsReleased
<1> QED
  BY <1>1, <1>2, <1>3, <1>4, <1>5, <1>6, <1>7 DEF JobInv

(* A cancellation that is refused lets the child go on.                    *)
LEMMA ResumePreserves ==
    ASSUME JobInv, GraceHolds = TRUE, NEW c \in Clients, Resume(c)
    PROVE  JobInv'
<1>1. TypeOK'
  BY DEF JobInv, fileVars, Terminal, Alive, Step, Owned, Resume, Phases, Status, TypeOK
<1>2. ProcessInv'
  BY DEF JobInv, fileVars, NoDoc, Alive, Step, Owned, Resume, ProcessInv
<1>3. DocInv'
  BY DEF JobInv, fileVars, Alive, Step, Owned, Resume, DocInv
<1>4. ReadInv'
  BY DEF JobInv, fileVars, Terminal, Alive, Step, Owned, Resume, Dead, ReadInv
<1>5. CancelInv'
  BY DEF JobInv, fileVars, Alive, Step, Owned, Resume, Stopped, CancelInv
<1>6. KillInv'
  BY DEF JobInv, fileVars, Terminal, Alive, Step, Owned, Resume, Phases, Status, TypeOK,
      NoneRefused, KillInv
<1>7. FrozenIsReleased'
  BY DEF JobInv, fileVars, Terminal, NoDoc, Alive, Step, Owned, Resume,
      FrozenIsReleased, Phases, Status, TypeOK, Dead, Stopped, ProcessInv, ReadInv,
      CancelInv
<1> QED
  BY <1>1, <1>2, <1>3, <1>4, <1>5, <1>6, <1>7 DEF JobInv

(* A client gives up.                                                      *)
LEMMA ClientRaisesPreserves ==
    ASSUME JobInv, GraceHolds = TRUE, NEW c \in Clients, ClientRaises(c)
    PROVE  JobInv'
<1>1. TypeOK'
  BY DEF JobInv, fileVars, processVars, Terminal, Step, ClientRaises, Phases, Status,
      TypeOK
<1>2. ProcessInv'
  BY DEF JobInv, fileVars, processVars, NoDoc, Alive, Step, ClientRaises, ProcessInv
<1>3. DocInv'
  BY DEF JobInv, fileVars, processVars, Step, ClientRaises, DocInv
<1>4. ReadInv'
  BY DEF JobInv, fileVars, processVars, Terminal, Step, ClientRaises, Dead, ReadInv
<1>5. CancelInv'
  BY DEF JobInv, fileVars, processVars, Step, ClientRaises, Stopped, CancelInv
<1>6. KillInv'
  BY DEF JobInv, fileVars, processVars, Step, ClientRaises, NoneRefused, KillInv
<1>7. FrozenIsReleased'
  BY DEF JobInv, fileVars, processVars, Step, ClientRaises, FrozenIsReleased
<1> QED
  BY <1>1, <1>2, <1>3, <1>4, <1>5, <1>6, <1>7 DEF JobInv

(* A client may die anywhere, and leave what it has suspended.             *)
LEMMA ClientDiesPreserves ==
    ASSUME JobInv, GraceHolds = TRUE, NEW c \in Clients, ClientDies(c)
    PROVE  JobInv'
<1>1. TypeOK'
  BY DEF JobInv, fileVars, processVars, Terminal, Step, ClientDies, Phases, Status,
      TypeOK
<1>2. ProcessInv'
  BY DEF JobInv, fileVars, processVars, NoDoc, Alive, Step, ClientDies, ProcessInv
<1>3. DocInv'
  BY DEF JobInv, fileVars, processVars, Step, ClientDies, DocInv
<1>4. ReadInv'
  BY DEF JobInv, fileVars, processVars, Terminal, Step, ClientDies, Dead, ReadInv
<1>5. CancelInv'
  BY DEF JobInv, fileVars, processVars, Step, ClientDies, Stopped, CancelInv
<1>6. KillInv'
  BY DEF JobInv, fileVars, processVars, Step, ClientDies, NoneRefused, KillInv
<1>7. FrozenIsReleased'
  BY DEF JobInv, fileVars, processVars, Step, ClientDies, FrozenIsReleased
<1> QED
  BY <1>1, <1>2, <1>3, <1>4, <1>5, <1>6, <1>7 DEF JobInv

-----------------------------------------------------------------------------
(* The invariant holds at first, and every step keeps it.                  *)
LEMMA JobInit == ASSUME Init PROVE JobInv
  BY DEF Init, JobInv, TypeOK, Status, Phases, Terminal, NoDoc, ProcessInv, DocInv, ReadInv,
      CancelInv, KillInv, FrozenIsReleased, Alive

(* Every step keeps the invariant.                                         *)
LEMMA JobNext == ASSUME JobInv, GraceHolds = TRUE, [Next]_vars PROVE JobInv'
<1>1. CASE UNCHANGED vars
  BY <1>1 DEF vars, fileVars, processVars, clientVars, JobInv, TypeOK, ProcessInv, DocInv,
      ReadInv, CancelInv, KillInv, NoneRefused, FrozenIsReleased, Dead, Stopped, Alive
<1>2. CASE Next
  <2>1. CASE PublishJob \/ Spawn \/ SpawnFails \/ Register \/ ParentDies
    BY <2>1, PublishJobPreserves, SpawnPreserves, SpawnFailsPreserves, RegisterPreserves,
        ParentDiesPreserves
  <2>2. CASE ChildStep
    BY <2>2, EnterPreserves, HeedCancelPreserves, ProceedPreserves, CommitPreserves,
        ReportDonePreserves, FinalUpdatePreserves, ExitPreserves, LeaseWorkerPreserves,
        EndWorkerPreserves DEF ChildStep
  <2>3. CASE Beat \/ Raise \/ ChildDies
    BY <2>3, BeatPreserves, RaisePreserves, ChildDiesPreserves
  <2>4. CASE \E w \in Workers : StartWorker(w)
    BY <2>4, StartWorkerPreserves
  <2>5. ASSUME NEW c \in Clients, \E purpose \in {"poll", "ask"} : Ask(c, purpose)
        PROVE  JobInv'
    BY <2>5, AskPreserves
  <2>6. ASSUME NEW c \in Clients, PollStep(c)
        PROVE  JobInv'
    BY <2>6, ReadStatusPreserves, RereadPreserves, JudgePreserves, WriteOutcomePreserves
        DEF PollStep
  <2>7. ASSUME NEW c \in Clients, CancelStep(c)
        PROVE  JobInv'
    BY <2>7, RequestPreserves, ReadAgainPreserves, FreezePreserves, TargetOrphansPreserves,
        NoTargetPreserves, KillPreserves, VerdictPreserves DEF CancelStep
  <2>8. ASSUME NEW c \in Clients, Resume(c) \/ ClientRaises(c) \/ ClientDies(c)
        PROVE  JobInv'
    BY <2>8, ResumePreserves, ClientRaisesPreserves, ClientDiesPreserves
  <2> QED
    BY <1>2, <2>1, <2>2, <2>3, <2>4, <2>5, <2>6, <2>7, <2>8 DEF Next
<1> QED
  BY <1>1, <1>2

(* What is known of the job and of every call holds in every state.        *)
THEOREM JobInvariance ==
    ASSUME GraceHolds = TRUE
    PROVE  Spec => []JobInv
<1>1. Init => JobInv
  BY JobInit
<1>2. JobInv /\ [Next]_vars => JobInv'
  BY JobNext
<1> QED
  BY <1>1, <1>2, PTL DEF Spec

-----------------------------------------------------------------------------
(* The document calls a job "done" only when case.json has its run, and    *)
(* ended otherwise only when it has not.                                   *)
THEOREM StatusIsTrue ==
    ASSUME GraceHolds = TRUE
    PROVE  Spec => []StatusTellsOutcome
<1>1. JobInv => StatusTellsOutcome
  BY DEF JobInv, DocInv, StatusTellsOutcome, Terminal
<1> QED
  BY <1>1, JobInvariance, PTL

(* No job whose process lives is called interrupted.                       *)
THEOREM OnlyTheDeadAreInterrupted ==
    ASSUME GraceHolds = TRUE
    PROVE  Spec => []InterruptedIsDead
<1>1. JobInv => InterruptedIsDead
  BY DEF JobInv, TypeOK, ProcessInv, DocInv, InterruptedIsDead, Alive
<1> QED
  BY <1>1, JobInvariance, PTL

(* No cancellation that is refused, or loses a race, leaves a job stopped. *)
THEOREM NoneStaysFrozen ==
    ASSUME GraceHolds = TRUE
    PROVE  Spec => []FrozenIsReleased
<1>1. JobInv => FrozenIsReleased
  BY DEF JobInv
<1> QED
  BY <1>1, JobInvariance, PTL

(* The workers of a job that was killed are gone, those that were starting *)
(* included, unless the kill of another cancellation was refused.          *)
THEOREM KilledWithItsWorkers ==
    ASSUME GraceHolds = TRUE
    PROVE  Spec => []CancelStopsWorkers
<1>1. JobInv => CancelStopsWorkers
  BY DEF JobInv, KillInv, NoneRefused, CancelStopsWorkers, NoWorkerAfterCancel
<1> QED
  BY <1>1, JobInvariance, PTL

(* A job that cannot begin to work, or has stopped, does not commit.       *)
LEMMA StoppedCommitsNothing ==
    ASSUME JobInv, NEW c \in Clients, answer[c] \in {"cancelling", "cancelled"}, [Next]_vars
    PROVE  committed' = committed
<1>1. child \in {"absent", "starting", "entered", "gone"}
  BY DEF JobInv, CancelInv, Stopped
<1>2. ~Commit
  BY <1>1 DEF Commit, At
<1> QED
  BY <1>2 DEF Next, vars, fileVars, ChildStep, PollStep, CancelStep, PublishJob, Spawn,
      SpawnFails, Register, ParentDies, Enter, HeedCancel, Proceed, ReportDone, FinalUpdate,
      Exit, Beat, Raise, ChildDies, LeaseWorker, EndWorker, StartWorker, Ask, ReadStatus,
      Reread, Judge, WriteOutcome, Request, ReadAgain, Freeze, TargetOrphans, NoTarget, Kill,
      Verdict, Resume, ClientRaises, ClientDies

(* An answer to a cancel request is kept.                                  *)
THEOREM CancellationIsFinal ==
    ASSUME GraceHolds = TRUE
    PROVE  Spec => CancelIsFinal
<1>1. JobInv /\ [Next]_vars =>
        [(\E c \in Clients : answer[c] \in {"cancelling", "cancelled"})
             => committed' = committed]_vars
  BY StoppedCommitsNothing
<1> QED
  BY <1>1, JobInvariance, PTL DEF Spec, CancelIsFinal
===============================================================================
