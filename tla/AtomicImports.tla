----------------------------- MODULE AtomicImports -----------------------------
(***************************************************************************)
(* What a case promises to an analyst, without files, locks or processes:  *)
(* an import appears whole and at once, evidence already imported is never *)
(* imported again, nothing imported is ever lost, and a query goes on      *)
(* seeing exactly what had been imported when it was opened.               *)
(***************************************************************************)
CONSTANTS Imports, Sources, Contents, Queries, Closed

VARIABLES imported,   \* the rows a query opened now would see
          view        \* query |-> the rows it sees, or Closed

Row == Imports \X Sources \X Contents

Init == /\ imported = {}
        /\ view = [q \in Queries |-> Closed]

New(t, batch) ==
    /\ batch \in SUBSET ({t} \X Sources \X Contents)
    /\ \A r \in batch, old \in imported : r[2] = old[2] => r[3] # old[3]
    /\ \A r, other \in batch : r[2] = other[2] => r = other

Import(t) ==
    /\ \A old \in imported : old[1] # t
    /\ New(t, {r \in imported' : r[1] = t})
    /\ imported' = imported \cup {r \in imported' : r[1] = t}
    /\ UNCHANGED view

Open(q) ==
    /\ view[q] = Closed
    /\ view' = [view EXCEPT ![q] = imported]
    /\ UNCHANGED imported

Close(q) ==
    /\ view[q] # Closed
    /\ view' = [view EXCEPT ![q] = Closed]
    /\ UNCHANGED imported

Next == \/ \E t \in Imports : Import(t)
        \/ \E q \in Queries : Open(q) \/ Close(q)

Spec == Init /\ [][Next]_<<imported, view>>
================================================================================
