---------------------------------- MODULE Intake ----------------------------------
(***************************************************************************)
(* What becomes of the files of an import up to their rows: the sources    *)
(* are scanned, every file that is no event log is classified, and then    *)
(* read line by line by the parser of its kind.  What happens to the rows  *)
(* after that, and to a file that changes while it is read, is the subject *)
(* of FileStaging.                                                         *)
(***************************************************************************)
EXTENDS Discovery, LogParsers

VARIABLES
    file,     \* the place in seen of the file at hand
    line,     \* the next line of it, or 0 before it is opened
    parse     \* the parser: see Fresh; done when its file has been read

vars == <<scanVars, file, line, parse>>

Init == ScanInit /\ file = 1 /\ line = 0 /\ parse = Fresh

Lines == world.contents[FileOf(seen[file].name)].lines
AtFile == scan = "scanned" /\ file <= Len(seen)
Readable == kinds[file] \in TextKinds /\ StillThere(file)
Reading == AtFile /\ line > 0 /\ ~parse.raised

OpenFile ==
    /\ AtFile /\ line = 0 /\ Readable
    /\ line' = 1 /\ parse' = Fresh
    /\ UNCHANGED <<scanVars, file>>

(* Unknown files, hives, tasks and event logs have no lines; a file that   *)
(* is not there any more is a failure of the source.                       *)
PassFile ==
    /\ AtFile /\ line = 0 /\ ~Readable
    /\ file' = file + 1
    /\ UNCHANGED <<scanVars, line, parse>>

NextLine ==
    /\ Reading /\ line <= Len(Lines)
    /\ parse' = ParseLine(kinds[file], parse, line, Lines[line])
    /\ line' = line + 1
    /\ UNCHANGED <<scanVars, file>>

EndFile ==
    /\ Reading /\ line = Len(Lines) + 1
    /\ parse' = EndOfLines(kinds[file], parse)
    /\ line' = line + 1
    /\ UNCHANGED <<scanVars, file>>

Read == AtFile /\ line > 0 /\ (parse.raised \/ line > Len(Lines) + 1)

NextFile ==
    /\ Read
    /\ file' = file + 1 /\ line' = 0 /\ parse' = Fresh
    /\ UNCHANGED scanVars

ParseStep == OpenFile \/ PassFile \/ NextLine \/ EndFile \/ NextFile
ScanStep == Walk /\ UNCHANGED <<file, line, parse>>
Disturb == TreeChanges /\ UNCHANGED <<file, line, parse>>

Next == ScanStep \/ ParseStep \/ Disturb
Spec == Init /\ [][Next]_vars

(* One process scans and parses; nothing obliges anyone to move files.     *)
FairSpec == Spec /\ WF_vars(ScanStep \/ ParseStep)

-----------------------------------------------------------------------------
(* No file is taken twice, and none that stays in place is missed.         *)
ScanTakesOnce == TakenOnce

(* The kind of a file is justified by its head.                            *)
KindsAreJustified ==
    \A i \in DOMAIN kinds :
        kinds[i] \notin {"pending", "evtx"} /\ StillThere(i) /\ seen[i].name \notin moved =>
            KindFits(Prefix(world.contents[FileOf(seen[i].name)]), kinds[i])

(* The records of a file by their definition, for the formats in which     *)
(* they take several lines: from a header to the next, or to a damaged one.*)
Starts(kind) ==
    CASE kind = "web_error_tomcat" -> {"tomcat"}
      [] kind = "oracle_alert" -> {"oracle_time", "oracle_undated"}
      [] kind = "mysql_slow" -> {"slow_time"}
      [] kind = "qcloud_ydservice" -> {"yd"}
      [] kind = "qcloud_go" -> {"go"}
      [] kind = "qcloud_scanner" -> {"scanner"}
      [] kind = "qcloud_ydeyes" -> {"eyes", "scanner"}
      [] OTHER -> AegisHeaders \ {"aegis_undated"}
Bars(kind) == Starts(kind) \cup (IF kind \in Aegis THEN {"aegis_undated", "damaged"} ELSE {})
Belongs(kind, s) ==
    CASE kind \in Aegis -> TRUE
      [] kind = "mysql_slow" -> s \in {"slow_user", "slow_query"} \/ s \notin Hashed \cup {"slow_set"}
      [] OTHER -> s # "blank"
Logical == Aegis \cup {"web_error_tomcat", "oracle_alert", "mysql_slow", "qcloud_ydservice", "qcloud_go",
                       "qcloud_scanner", "qcloud_ydeyes"}

HeadsTo(kind, lines, n) == {i \in 1..n : lines[i] \in Starts(kind)}
RecordTo(kind, lines, head, n) ==
    {head} \cup {j \in head + 1..n : Belongs(kind, lines[j]) /\ \A b \in head + 1..j : lines[b] \notin Bars(kind)}

IsRecord(kind, lines, q, n) ==
    /\ q # <<>> /\ ToSet(q) = RecordTo(kind, lines, q[1], n)
    /\ \A j, k \in DOMAIN q : j < k => q[j] < q[k]
HeadsOf(rows) == {rows[k].lines[1] : k \in DOMAIN rows}
LinesRead == IF line > Len(Lines) THEN Len(Lines) ELSE line - 1

(* A row is a whole logical record, the rows are in the order of the file, *)
(* and a parser that gives up at a record too large emits those before it  *)
(* and nothing of that one.                                                *)
RowsAreWhole ==
    Read /\ kinds[file] \in Logical =>
        LET heads == HeadsTo(kinds[file], Lines, LinesRead)
        IN  /\ \A k \in DOMAIN parse.rows : IsRecord(kinds[file], Lines, parse.rows[k].lines, Len(Lines))
            /\ \A j, k \in DOMAIN parse.rows : j < k => parse.rows[j].lines[1] < parse.rows[k].lines[1]
            /\ parse.raised => heads # {}
            /\ HeadsOf(parse.rows) = IF parse.raised THEN heads \ {Max(heads)} ELSE heads

(* Every line of a file that is read to its end is in one row, or counted  *)
(* as an error, or is blank or a directive, and in no two of them; and a   *)
(* row bears the time of its own line, or of the last one that had one.    *)
LinesAccountedFor ==
    Read /\ ~parse.raised =>
        LET inRows == [k \in DOMAIN parse.rows |-> ToSet(parse.rows[k].lines)]
            taken == UNION {inRows[k] : k \in DOMAIN inRows}
        IN  /\ taken \cup parse.errors \cup parse.notes = DOMAIN Lines
            /\ taken \cap parse.errors = {} /\ (taken \cup parse.errors) \cap parse.notes = {}
            /\ \A j, k \in DOMAIN inRows : j # k => inRows[j] \cap inRows[k] = {}
            /\ \A k \in DOMAIN parse.rows :
                 LET head == parse.rows[k].lines[1]
                 IN  parse.rows[k].time \in {0, head}
                     \/ (kinds[file] = "mysql_general" /\ parse.rows[k].time =
                            Max({i \in 1..head : Lines[i] = "general_stamped"}))

(***************************************************************************)
(* Why they are: what is known between two lines.                          *)
(***************************************************************************)
Parser == [rows : Seq([lines : Seq(Nat), time : Nat]), open : Seq(Nat), time : Nat, more : Nat, stamp : Nat,
           fields : BOOLEAN, errors : SUBSET Nat, notes : SUBSET Nat, raised : BOOLEAN]
InRows(p) == UNION {ToSet(p.rows[k].lines) : k \in DOMAIN p.rows}
Stamps(lines, n) == {i \in 1..n : lines[i] = "general_stamped"}
TimeFits(kind, lines, head, time) ==
    time \in {0, head} \/ (kind = "mysql_general" /\ time = Max(Stamps(lines, head)))

(* The first n lines are in one row, in the record that is open, among the *)
(* errors or among the lines that are none, and nothing else is.           *)
Accounted(kind, lines, p, n) ==
    /\ InRows(p) \cup ToSet(p.open) \cup p.errors \cup p.notes = 1..n
    /\ (InRows(p) \cup ToSet(p.open)) \cap (p.errors \cup p.notes) = {}
    /\ InRows(p) \cap ToSet(p.open) = {} /\ p.errors \cap p.notes = {}
    /\ \A j, k \in DOMAIN p.rows : j # k => ToSet(p.rows[j].lines) \cap ToSet(p.rows[k].lines) = {}
    /\ \A k \in DOMAIN p.rows : TimeFits(kind, lines, p.rows[k].lines[1], p.rows[k].time)
    /\ p.open # <<>> => p.time \in {0, p.open[1]}
Stamped(lines, p, n) == p.stamp = IF Stamps(lines, n) = {} THEN 0 ELSE Max(Stamps(lines, n))

ParseInv ==
    /\ file \in Nat \ {0} /\ line \in Nat /\ parse \in Parser
    /\ line > 0 => AtFile /\ StillThere(file) /\ line <= Len(Lines) + 2
    /\ line > 0 /\ ~parse.raised =>
           /\ Accounted(kinds[file], Lines, parse, LinesRead)
           /\ kinds[file] = "mysql_general" => Stamped(Lines, parse, LinesRead)
           /\ line = Len(Lines) + 2 => parse.open = <<>>

(* Of a record format the rows are the records that have ended, and what   *)
(* is open is the last one as far as it has been read.                     *)
Whole(kind, lines, p, n) ==
    /\ \A k \in DOMAIN p.rows : IsRecord(kind, lines, p.rows[k].lines, Len(lines))
    /\ \A j, k \in DOMAIN p.rows : j < k => p.rows[j].lines[1] < p.rows[k].lines[1]
    /\ HeadsTo(kind, lines, n) = HeadsOf(p.rows) \cup (IF p.open = <<>> THEN {} ELSE {p.open[1]})
    /\ p.open # <<>> => \A k \in DOMAIN p.rows : p.rows[k].lines[1] < p.open[1]
    /\ p.open # <<>> /\ ~p.raised =>
           /\ IsRecord(kind, lines, p.open, n)
           /\ \A b \in p.open[1] + 1..n : lines[b] \notin Bars(kind)
    /\ p.raised => p.open # <<>>
WholeInv == line > 0 /\ kinds[file] \in Logical => Whole(kinds[file], Lines, parse, LinesRead)

(* Whatever the tree looks like, the scan and the parsers come to an end.  *)
IntakeEnds == <>(scan = "raised" \/ (scan = "scanned" /\ file > Len(seen)))
===================================================================================
