---------------------------- MODULE QuerySessions ----------------------------
(***************************************************************************)
(* The query connections of an analyst's process (query.py, Case.db): one  *)
(* CaseDB is cached by a Case and replaced after an ingest or a compaction, *)
(* while streams that were started on the old one go on reading.  They run *)
(* against compactions and the reclamation of retired files.               *)
(*                                                                         *)
(*  session  idle -> capturing -> open -> idle                             *)
(*  stream   idle -> retaining -> open -> ending -> idle         *)
(*                                                                         *)
(* A Case and its CaseDBs belong to one thread: a call runs to its end or  *)
(* to the next chunk of a stream before the thread makes another.          *)
(***************************************************************************)
EXTENDS CaseCatalog

CONSTANTS
    Handles,     \* Case objects, each in a process of its own
    Sessions,    \* CaseDB objects
    Streams      \* generators of sql_chunks, each with its cursor

ASSUME SessionsAssumption ==
    /\ Readers = Sessions \cup Streams
    /\ Sessions \cap Streams = {}
    /\ NoOne \notin Handles

VARIABLES
    db,        \* handle |-> Case._db
    home,      \* session |-> the Case that opened it
    parent,    \* stream |-> the session it was started on
    closing,   \* session |-> _close_requested
    active     \* session |-> _active_streams

sessionVars == <<db, home, parent, closing, active>>
allVars     == <<vars, sessionVars>>

(* The case holds one committed import of all sources.                     *)
OneImport(t) ==
    [catalog |-> {t} \X Sources, retired |-> {}, runs |-> {t},
     source_ledger |->
         {[source |-> s, sha256 |-> content[s], transaction_id |-> t] : s \in Sources}]

SessionsInit ==
    /\ content \in [Sources -> Contents]
    /\ \E t \in Ingests :
         /\ meta = OneImport(t)
         /\ disk = meta.catalog
         /\ rows = [f \in File |-> IF f \in disk THEN {<<t, f[2], content[f[2]]>>} ELSE {}]
         /\ phase = [u \in Txns |-> IF u = t THEN "committed" ELSE "none"]
         /\ pc = [a \in Actors |-> IF a = t THEN "done" ELSE "idle"]
    /\ caseLock = NoOne
    /\ seen = [a \in Actors |-> EmptyMeta]
    /\ wsLock = [t \in Txns |-> NoOne]
    /\ scan = [t \in Ingests |-> {}]
    /\ worker = [t \in Ingests |-> [s \in Sources |-> "idle"]]
    /\ group = [t \in Compactions |-> {}]
    /\ leased = {}
    /\ snap = [h \in Holders |-> {}]
    /\ todo = [c \in Cleaners |-> {}]
    /\ target = [c \in Cleaners |-> NoOne]
    /\ doomed = [c \in Cleaners |-> {}]
    /\ db = [h \in Handles |-> NoOne]
    /\ home = [s \in Sessions |-> NoOne]
    /\ parent = [q \in Streams |-> NoOne]
    /\ closing = [s \in Sessions |-> FALSE]
    /\ active = [s \in Sessions |-> 0]

-----------------------------------------------------------------------------
(* __init__ has its lease and creates the views.                           *)
Constructing(s) == pc[s] = "open" /\ ~closing[s] /\ db[home[s]] # s

InCall(q) == pc[q] \in {"retaining", "ending"}

(* The thread of the Case is free for another call.                        *)
Ready(h) ==
    /\ \A s \in Sessions : home[s] = h => pc[s] # "capturing" /\ ~Constructing(s)
    /\ \A q \in Streams : InCall(q) => home[parent[q]] # h

(* Case.db without a connection: CaseDB is constructed.                    *)
Open(h, s) ==
    /\ Ready(h)
    /\ db[h] = NoOne
    /\ Capture(s)
    /\ home' = [home EXCEPT ![s] = h]
    /\ closing' = [closing EXCEPT ![s] = FALSE]
    /\ active' = [active EXCEPT ![s] = 0]
    /\ UNCHANGED <<db, parent>>

CreateViews(s) ==
    /\ Constructing(s)
    /\ snap[s] \subseteq disk
    /\ db' = [db EXCEPT ![home[s]] = s]
    /\ UNCHANGED <<vars, home, parent, closing, active>>

(* "except BaseException: self._release()".                                *)
ViewsFail(s) ==
    /\ Constructing(s)
    /\ Close(s)
    /\ UNCHANGED sessionVars

(* The first chunk of sql_chunks is asked for: _require_data, a cursor,    *)
(* and the lock of the case, for which the thread may have to wait.        *)
StartStream(q, s) ==
    /\ pc[q] = "idle"
    /\ pc[s] = "open"
    /\ ~closing[s]
    /\ Ready(home[s])
    /\ TakeCaseLock(q)
    /\ parent' = [parent EXCEPT ![q] = s]
    /\ Goto(q, "retaining")
    /\ UNCHANGED <<meta, fileVars, txnVars, leaseVars, sweepVars, db, home, closing, active>>

(* retain_snapshot: the lease names the files of the session.              *)
WriteStreamLease(q) ==
    /\ pc[q] = "retaining"
    /\ snap' = [snap EXCEPT ![q] = snap[parent[q]]]
    /\ leased' = leased \cup {q}
    /\ FreeCaseLock(q)
    /\ active' = [active EXCEPT ![parent[q]] = @ + 1]
    /\ Goto(q, "open")
    /\ UNCHANGED <<meta, fileVars, txnVars, sweepVars, db, home, parent, closing>>

(* The lease cannot be written: the cursor is closed.                      *)
RetainFails(q) ==
    /\ pc[q] = "retaining"
    /\ FreeCaseLock(q)
    /\ Goto(q, "idle")
    /\ parent' = [parent EXCEPT ![q] = NoOne]
    /\ UNCHANGED <<meta, fileVars, txnVars, leaseVars, sweepVars, db, home, closing, active>>

(* The last chunk, an error, or the consumer drops the generator: the      *)
(* "finally" clause releases the cursor and its lease ...                  *)
EndStream(q) ==
    /\ pc[q] = "open"
    /\ Ready(home[parent[q]])
    /\ leased' = leased \ {q}
    /\ Goto(q, "ending")
    /\ UNCHANGED <<caseVars, fileVars, txnVars, snap, sweepVars, sessionVars>>

(* ... and, when it was the last one of a session to be closed, that too.  *)
(* Mutants: whoever is the first; nobody.                                  *)
FirstOut(s) == closing[s]
NobodyOut(s) == FALSE

LastOut(s) == closing[s] /\ active[s] = 1

LeaveSession(q) ==
    /\ pc[q] = "ending"
    /\ LET s == parent[q] IN
         /\ active' = [active EXCEPT ![s] = @ - 1]
         /\ leased' = IF LastOut(s) THEN leased \ {s} ELSE leased
         /\ pc' = [pc EXCEPT ![q] = "idle", ![s] = IF LastOut(s) THEN "idle" ELSE @]
    /\ parent' = [parent EXCEPT ![q] = NoOne]
    /\ UNCHANGED <<caseVars, fileVars, txnVars, snap, sweepVars, db, home, closing>>

(* CaseDB.close, by an ingest or a compaction of this Case or at its end.  *)
Refresh(h) ==
    /\ Ready(h)
    /\ db[h] # NoOne
    /\ LET s == db[h] IN
         /\ closing' = [closing EXCEPT ![s] = TRUE]
         /\ IF active[s] = 0 THEN Close(s) ELSE UNCHANGED vars
    /\ db' = [db EXCEPT ![h] = NoOne]
    /\ UNCHANGED <<home, parent, active>>

(* The process dies with every connection and cursor it has.               *)
Lost(h) ==
    {s \in Sessions : home[s] = h /\ pc[s] # "idle"}
        \cup {q \in Streams : parent[q] # NoOne /\ home[parent[q]] = h}

ProcessDies(h) ==
    /\ h \in Mortal
    /\ Lost(h) # {}
    /\ pc' = [a \in Actors |-> IF a \in Lost(h) THEN "dead" ELSE pc[a]]
    /\ caseLock' = IF caseLock \in Lost(h) THEN NoOne ELSE caseLock
    /\ seen' = [a \in Actors |-> IF a \in Lost(h) THEN EmptyMeta ELSE seen[a]]
    /\ db' = [db EXCEPT ![h] = NoOne]
    /\ UNCHANGED <<meta, fileVars, txnVars, leaseVars, sweepVars, home, parent, closing, active>>

-----------------------------------------------------------------------------
SessionStep(s) ==
    \/ WriteLease(s) /\ UNCHANGED sessionVars
    \/ CreateViews(s)

StreamStep(q) == WriteStreamLease(q) \/ LeaveSession(q)

(* Maintenance that succeeds: its failures leave the files as they are.    *)
Maintenance ==
    /\ \/ \E t \in Compactions : Capture(t) \/ CompactionStep(t)
       \/ \E c \in Cleaners : RetireLock(c) \/ RetireStep(c) \/ Leave(c)
    /\ UNCHANGED sessionVars

SessionsNext ==
    \/ \E s \in Sessions :
         \/ SessionStep(s)
         \/ ViewsFail(s)
         \/ CaptureFails(s) /\ UNCHANGED sessionVars
    \/ \E h \in Handles, s \in Sessions : Open(h, s)
    \/ \E h \in Handles : Refresh(h) \/ ProcessDies(h)
    \/ \E q \in Streams :
         \/ StreamStep(q) \/ RetainFails(q) \/ EndStream(q)
         \/ \E s \in Sessions : StartStream(q, s)
    \/ Maintenance

(* A call goes on; streams are read to their end or dropped, connections   *)
(* closed; compactions end and cleanup_retired is called again and again.  *)
SessionsFairness ==
    /\ \A s \in Sessions : WF_allVars(SessionStep(s))
    /\ \A q \in Streams : WF_allVars(StreamStep(q) \/ RetainFails(q)) /\ SF_allVars(EndStream(q))
    /\ \A h \in Handles : SF_allVars(Refresh(h))
    /\ \A t \in Compactions : WF_allVars(CompactionStep(t) /\ UNCHANGED sessionVars)
    /\ \A c \in Cleaners :
         /\ SF_allVars(RetireLock(c) /\ UNCHANGED sessionVars)
         /\ WF_allVars((RetireStep(c) \/ Leave(c)) /\ UNCHANGED sessionVars)

SessionsSpec == SessionsInit /\ [][SessionsNext]_allVars /\ SessionsFairness

-----------------------------------------------------------------------------
(* No connection is closed under a stream: neither by close(), nor by an   *)
(* ingest, nor by another stream of the same connection that ends.         *)
ClosedLast ==
    \A q \in Streams : pc[q] \in {"retaining", "open", "ending"}
        => pc[parent[q]] = "open"

(* A connection and every stream on it, also one that was started before a *)
(* compaction and outlives the connection's replacement, reads all rows of *)
(* the case from files that exist.                                         *)
QueriesSeeWholeCase ==
    \A r \in Readers : pc[r] = "open" =>
        LET files == IF r \in Streams THEN snap[parent[r]] ELSE snap[r] IN
        RowsIn(files \cap disk) =
            {<<e.transaction_id, e.source, e.sha256>> : e \in meta.source_ledger}

(* No lease is forgotten: what a compaction retired is reclaimed in the    *)
(* end, whether its readers are closed, dropped with streams open, or die. *)
RetiredIsReclaimed ==
    meta.retired # {} ~> meta.retired = {} /\ disk = meta.catalog

-----------------------------------------------------------------------------
(* Why they hold, besides the invariants of the case.  A Case is building  *)
(* a connection from the capture of its snapshot to the last view.         *)
Building(s) == pc[s] = "capturing" \/ Constructing(s)

ActiveOn(s) == {q \in Streams : pc[q] \in {"open", "ending"} /\ parent[q] = s}

SessionTypes ==
    /\ db \in [Handles -> Sessions \cup {NoOne}]
    /\ home \in [Sessions -> Handles \cup {NoOne}]
    /\ parent \in [Streams -> Sessions \cup {NoOne}]
    /\ closing \in [Sessions -> BOOLEAN]
    /\ active \in [Sessions -> Nat]
    /\ \A s \in Sessions : pc[s] \in {"idle", "capturing", "open", "dead"}
    /\ \A q \in Streams : pc[q] \in {"idle", "retaining", "open", "ending", "dead"}

(* A Case has one connection, complete and not to be closed, or builds one.*)
OwnerInv ==
    /\ \A s \in Sessions : pc[s] \in {"capturing", "open"} => home[s] \in Handles
    /\ \A s \in Sessions : pc[s] = "capturing" => ~closing[s] /\ active[s] = 0
    /\ \A h \in Handles : db[h] # NoOne =>
         pc[db[h]] = "open" /\ home[db[h]] = h /\ ~closing[db[h]]
    /\ \A s \in Sessions : Building(s) => db[home[s]] = NoOne
    /\ \A s, t \in Sessions : Building(s) /\ Building(t) /\ home[s] = home[t] => s = t

(* A stream reads from the connection of its Case, or from one that waits  *)
(* for it; one stream of a Case at a time is taking or releasing its lease.*)
StreamInv ==
    /\ \A q \in Streams : pc[q] \in {"retaining", "open", "ending"} =>
         /\ parent[q] \in Sessions
         /\ closing[parent[q]] \/ db[home[parent[q]]] = parent[q]
    /\ \A q \in Streams : InCall(q) => q \notin leased
    /\ \A q, r \in Streams : InCall(q) /\ InCall(r) /\ home[parent[q]] = home[parent[r]] => q = r
    /\ ClosedLast

(* _active_streams counts them.                                            *)
ActiveInv ==
    \A s \in Sessions : pc[s] = "open" =>
        IsFiniteSet(ActiveOn(s)) /\ active[s] = Cardinality(ActiveOn(s))

(* Compactions leave the rows of a snapshot those of the catalog.          *)
WholeInv ==
    \A s \in Sessions : pc[s] \in {"capturing", "open"} =>
        RowsIn(snap[s]) = RowsIn(meta.catalog)

SessionInv ==
    SessionTypes /\ OwnerInv /\ StreamInv /\ ActiveInv /\ WholeInv
===============================================================================
