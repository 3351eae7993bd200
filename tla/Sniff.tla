---------------------------------- MODULE Sniff ----------------------------------
(***************************************************************************)
(* classify_file (ingest/logsources/sniff.py): which of the supported      *)
(* formats a file has, from the head of its content and its path.  Of a    *)
(* line only the patterns it fits are kept; see Shape.                     *)
(***************************************************************************)
EXTENDS Integers, SequencesExt, FiniteSetsExt

(* What a line may be.  A scanner line of YunJing also fits the pattern of *)
(* YDEyes, and a core line of Aegis that of MSSQL.  "..._undated": the     *)
(* pattern fits, the date it gives does not exist.                         *)
Declarations == {"iis_fields", "err_fields", "track_fields", "exch_fields", "odd_fields",
                 "iis_software", "http_software", "exch_software"}
Hashed == Declarations \cup {"slow_time", "slow_query", "slow_user", "comment"}
FirstRecords == {"yd", "go", "scanner", "eyes", "nginx", "apache", "tomcat", "mysql_error", "postgresql",
                 "mssql", "oracle_time", "oracle_undated", "clf", "auditd", "rfc5424", "bsd"}
AegisHeaders == {"aegis_core", "aegis_python", "aegis_known", "aegis_undated"}
Shape == Hashed \cup FirstRecords \cup AegisHeaders \cup
         {"blank", "general_header", "general_stamped", "general_undated", "general_more", "slow_set",
          "columns", "ragged", "quote_open", "quote_close", "json", "damaged", "text"}

(* start: the first bytes; "mz" is the mark of an executable that nothing  *)
(* confirms.  context: product paths and markers, in the path or the head. *)
FileHead == [start : {"empty", "regf", "elf", "pe", "mz", "xml", "task", "journal", "lines"},
             nul : BOOLEAN, context : SUBSET {"yunjing", "aegis"}, lines : Seq(Shape)]

None == "unknown"

ExecutablePrefix(h) == h.start \in {"elf", "pe"}

LooksLikeQcloudLog(h) == "yunjing" \in h.context

(* classify_aegis_prefix: the first header that product evidence goes with.*)
AegisPrefix(h, lines) ==
    LET qualified(s) == s \in AegisHeaders /\ (s = "aegis_known" \/ "aegis" \in h.context)
        found == {i \in DOMAIN lines : qualified(lines[i])}
    IN  IF found = {} THEN None
        ELSE IF lines[Min(found)] \in {"aegis_python", "aegis_known"} THEN "aegis_python" ELSE "aegis_core"

(* The scan of the head stops at the first line that is neither blank nor  *)
(* a comment, or at a marker of the MySQL slow log.                        *)
Stops(s) == s # "blank" /\ (s \notin Hashed \/ s \in {"slow_time", "slow_query"})
StopAt(h) == Min({i \in DOMAIN h.lines : Stops(h.lines[i])} \cup {Len(h.lines) + 1})
Declared(h) == SubSeq(h.lines, 1, StopAt(h) - 1)
FirstLine(h) == IF StopAt(h) > Len(h.lines) THEN "nothing" ELSE h.lines[StopAt(h)]
LastOf(lines, shapes) ==
    LET at == {i \in DOMAIN lines : lines[i] \in shapes} IN IF at = {} THEN "nothing" ELSE lines[Max(at)]
Software(h) == LastOf(Declared(h), {"iis_software", "http_software", "exch_software"})
Fields(h) == LastOf(Declared(h), {"iis_fields", "err_fields", "track_fields", "exch_fields", "odd_fields"})

Marked(h) ==
    IF FirstLine(h) \in {"slow_time", "slow_query"} THEN "mysql_slow"
    ELSE IF FirstLine(h) = "general_header" THEN "mysql_general" ELSE None

(* The software that is declared decides before the columns do.            *)
SoftwareKind == [http_software |-> "iis_httperr", exch_software |-> "exchange_generic", iis_software |-> "iis"]
FieldsKind == [err_fields |-> "iis_httperr", iis_fields |-> "iis", track_fields |-> "exchange_message_tracking",
               exch_fields |-> "exchange_generic"]
ByHeader(h) ==
    IF Software(h) = "exch_software" /\ Fields(h) = "track_fields" THEN "exchange_message_tracking"
    ELSE IF Software(h) \in DOMAIN SoftwareKind THEN SoftwareKind[Software(h)]
    ELSE IF Fields(h) \in DOMAIN FieldsKind THEN FieldsKind[Fields(h)] ELSE None

(* The kinds that one record shows, and those that need a path or a marker *)
(* of the product as well.                                                 *)
RecordKind == [yd |-> "qcloud_ydservice", nginx |-> "web_error_nginx", apache |-> "web_error_apache",
               tomcat |-> "web_error_tomcat", mysql_error |-> "mysql_error", postgresql |-> "postgresql",
               mssql |-> "mssql", aegis_core |-> "mssql", oracle_time |-> "oracle_alert",
               oracle_undated |-> "oracle_alert", clf |-> "web_access", auditd |-> "auditd",
               rfc5424 |-> "syslog", bsd |-> "syslog"]
QcloudKind == [go |-> "qcloud_go", scanner |-> "qcloud_scanner", eyes |-> "qcloud_ydeyes"]
ByFirstRecord(h) ==
    LET s == FirstLine(h)
    IN  IF AegisPrefix(h, <<s>>) # None THEN AegisPrefix(h, <<s>>)
        ELSE IF s \in DOMAIN RecordKind THEN RecordKind[s]
        ELSE IF s \in DOMAIN QcloudKind /\ LooksLikeQcloudLog(h) THEN QcloudKind[s] ELSE None

Else(kind, other) == IF kind # None THEN kind ELSE other

(* Mutant: a quoted Aegis record decides before the first record does.     *)
AegisFirst(h) == Else(Marked(h), Else(AegisPrefix(h, h.lines), Else(ByHeader(h), ByFirstRecord(h))))

TextKind(h) == Else(Marked(h), Else(ByHeader(h), Else(ByFirstRecord(h), AegisPrefix(h, h.lines))))

StartKind == [regf |-> "registry_hive", task |-> "scheduled_task", journal |-> "journal_export"]
ClassifyFile(h) ==
    IF h.start \in DOMAIN StartKind THEN StartKind[h.start]
    ELSE IF h.start \in {"empty", "xml"} \/ ExecutablePrefix(h) \/ h.nul THEN None ELSE TextKind(h)

(***************************************************************************)
(* What must hold of the kind of a file, whatever the order of the tests:  *)
(* an image is no log whatever it embeds; the generic envelopes need their *)
(* product; a declaration stands above the first record, and that above    *)
(* anything quoted further down; and a file of which the first record is   *)
(* known is not left out.                                                  *)
(***************************************************************************)
Aegis == {"aegis_core", "aegis_python"}
ByContext == {"qcloud_go", "qcloud_scanner", "qcloud_ydeyes"}
Established(h) == Marked(h) # None \/ ByHeader(h) # None \/ FirstLine(h) \in FirstRecords \ {"go", "scanner", "eyes"}
TextFile(h) == h.start \in {"mz", "lines"} /\ ~h.nul

KindFits(h, kind) ==
    /\ h.start \in {"empty", "elf", "pe", "xml"} => kind = None
    /\ kind \in ByContext => "yunjing" \in h.context
    /\ kind \in Aegis => /\ "aegis" \in h.context \/ "aegis_known" \in ToSet(h.lines)
                         /\ ~Established(h)
    /\ TextFile(h) /\ Established(h) => kind # None
    /\ Marked(h) = None /\ ByHeader(h) # None /\ TextFile(h) => kind = ByHeader(h)
=================================================================================
