------------------------------- MODULE LogParsers -------------------------------
(***************************************************************************)
(* The parsers of the text formats (ingest/logsources/parsers): what each  *)
(* does with the next line.  A row is the numbers of its lines and of the  *)
(* line whose timestamp it bears, 0 for none; the columns are left out.    *)
(* The characters of a record are counted as its lines are.                *)
(***************************************************************************)
EXTENDS Sniff

CONSTANT MaxMore     \* lines a logical record may have, or may go on for

ASSUME ParserAssumption == MaxMore \in Nat \ {0}

Fresh == [rows |-> <<>>, open |-> <<>>, time |-> 0, more |-> 0, stamp |-> 0, fields |-> FALSE,
          errors |-> {}, notes |-> {}, raised |-> FALSE]

Emit(p, lines, time) == [p EXCEPT !.rows = Append(@, [lines |-> lines, time |-> time])]
Reject(p, n) == [p EXCEPT !.errors = @ \cup {n}]
Ignore(p, n) == [p EXCEPT !.notes = @ \cup {n}]
Raise(p) == [p EXCEPT !.raised = TRUE]

Flush(p) == IF p.open = <<>> THEN p ELSE [Emit(p, p.open, p.time) EXCEPT !.open = <<>>, !.time = 0]
Open(p, n, time) == [Flush(p) EXCEPT !.open = <<n>>, !.time = time, !.more = 0]
Attach(p, n) == [p EXCEPT !.open = Append(@, n)]
GoOn(p, n, limit) == IF p.more >= limit THEN Raise(p) ELSE [Attach(p, n) EXCEPT !.more = @ + 1]

(* One row for each line that fits, one error for each that does not.      *)
OnePerLine(p, n, s, shapes) ==
    IF s = "blank" THEN Ignore(p, n) ELSE IF s \in shapes THEN Emit(p, <<n>>, n) ELSE Reject(p, n)

WebAccess(p, n, s) == OnePerLine(p, n, s, {"clf"})
NginxError(p, n, s) == OnePerLine(p, n, s, {"nginx"})
ApacheError(p, n, s) == OnePerLine(p, n, s, {"apache"})
MysqlError(p, n, s) == OnePerLine(p, n, s, {"mysql_error"})
Postgresql(p, n, s) == OnePerLine(p, n, s, {"postgresql"})
Mssql(p, n, s) == OnePerLine(p, n, s, {"mssql", "aegis_core"})
Auditd(p, n, s) == OnePerLine(p, n, s, {"auditd"})
Journal(p, n, s) == OnePerLine(p, n, s, {"json"})
Syslog(p, n, s) == OnePerLine(p, n, s, {"rfc5424", "bsd"})

(* A statement without a timestamp bears the last one that could be read.  *)
MysqlGeneral(p, n, s) ==
    LET stamp == IF s = "general_stamped" THEN n ELSE p.stamp
    IN  IF s \in {"blank", "general_header"} THEN Ignore(p, n)
        ELSE IF s \in {"general_stamped", "general_undated", "general_more"}
             THEN [Emit(p, <<n>>, stamp) EXCEPT !.stamp = stamp] ELSE Reject(p, n)

(* The columns are those of the last #Fields: line.                        *)
W3C(p, n, s, declarations) ==
    IF s \in declarations THEN [Ignore(p, n) EXCEPT !.fields = TRUE]
    ELSE IF s = "blank" \/ s \in Hashed THEN Ignore(p, n)
    ELSE IF p.fields /\ s = "columns" THEN Emit(p, <<n>>, n) ELSE Reject(p, n)

AnyFields == {"iis_fields", "err_fields", "track_fields", "exch_fields", "odd_fields"}
Iis(p, n, s) == W3C(p, n, s, AnyFields)
IisHttperr(p, n, s) == W3C(p, n, s, AnyFields)

(* A quoted field takes the lines up to its end, whatever they look like.  *)
Exchange(p, n, s) ==
    IF p.open # <<>>
    THEN IF s = "quote_close" /\ p.more < MaxMore THEN Flush(Attach(p, n)) ELSE GoOn(p, n, MaxMore)
    ELSE IF s = "quote_open" /\ p.fields THEN Open(p, n, n)
    ELSE W3C(p, n, s, AnyFields)

(* Mutant: the lines after a full record are left out of it.               *)
TomcatCapped(p, n, s) ==
    IF s = "tomcat" THEN Open(p, n, n)
    ELSE IF s = "blank" THEN Ignore(p, n)
    ELSE IF p.open = <<>> THEN Reject(p, n)
    ELSE IF p.more >= MaxMore THEN Ignore(p, n) ELSE GoOn(p, n, MaxMore)

Tomcat(p, n, s) ==
    IF s = "tomcat" THEN Open(p, n, n)
    ELSE IF s = "blank" THEN Ignore(p, n)
    ELSE IF p.open = <<>> THEN Reject(p, n) ELSE GoOn(p, n, MaxMore)

OracleAlert(p, n, s) ==
    IF s \in {"oracle_time", "oracle_undated"} THEN Open(p, n, IF s = "oracle_time" THEN n ELSE 0)
    ELSE IF s = "blank" THEN Ignore(p, n)
    ELSE IF p.open = <<>> THEN Reject(p, n) ELSE GoOn(p, n, MaxMore)

(* The lines that name the user and the times are columns of the record.   *)
MysqlSlow(p, n, s) ==
    IF s = "slow_time" THEN Open(p, n, n)
    ELSE IF p.open = <<>> THEN (IF s = "blank" THEN Ignore(p, n) ELSE Reject(p, n))
    ELSE IF s \in {"slow_user", "slow_query"} THEN Attach(p, n)
    ELSE IF s \in Hashed \cup {"slow_set"} THEN Ignore(p, n) ELSE GoOn(p, n, MaxMore)

(* The limit counts the first line of a record here.                       *)
QCloud(p, n, s, heads) ==
    IF s = "blank" THEN Ignore(p, n)
    ELSE IF s \in heads THEN Open(p, n, n)
    ELSE IF p.open = <<>> THEN Reject(p, n) ELSE GoOn(p, n, MaxMore - 1)

Ydservice(p, n, s) == QCloud(p, n, s, {"yd"})
GoComponent(p, n, s) == QCloud(p, n, s, {"go"})
Scanner(p, n, s) == QCloud(p, n, s, {"scanner"})
Ydeyes(p, n, s) == QCloud(p, n, s, {"eyes", "scanner"})

(* A damaged header ends the record before it and starts none.             *)
AegisLines(p, n, s) ==
    IF s \in AegisHeaders \ {"aegis_undated"} THEN Open(p, n, n)
    ELSE IF s \in {"aegis_undated", "damaged"} THEN Reject(Flush(p), n)
    ELSE IF p.open # <<>> THEN GoOn(p, n, MaxMore - 1)
    ELSE IF s = "blank" THEN Ignore(p, n) ELSE Reject(p, n)

TextKinds == {"web_access", "web_error_nginx", "web_error_apache", "web_error_tomcat", "iis", "iis_httperr",
              "exchange_message_tracking", "exchange_generic", "mysql_error", "mysql_general", "mysql_slow",
              "postgresql", "mssql", "oracle_alert", "auditd", "journal_export", "syslog", "qcloud_ydservice",
              "qcloud_go", "qcloud_scanner", "qcloud_ydeyes", "aegis_core", "aegis_python"}

ParseLine(kind, p, n, s) ==
    CASE kind = "web_access" -> WebAccess(p, n, s)
      [] kind = "web_error_nginx" -> NginxError(p, n, s)
      [] kind = "web_error_apache" -> ApacheError(p, n, s)
      [] kind = "web_error_tomcat" -> Tomcat(p, n, s)
      [] kind = "iis" -> Iis(p, n, s)
      [] kind = "iis_httperr" -> IisHttperr(p, n, s)
      [] kind \in {"exchange_message_tracking", "exchange_generic"} -> Exchange(p, n, s)
      [] kind = "mysql_error" -> MysqlError(p, n, s)
      [] kind = "mysql_general" -> MysqlGeneral(p, n, s)
      [] kind = "mysql_slow" -> MysqlSlow(p, n, s)
      [] kind = "postgresql" -> Postgresql(p, n, s)
      [] kind = "mssql" -> Mssql(p, n, s)
      [] kind = "oracle_alert" -> OracleAlert(p, n, s)
      [] kind = "auditd" -> Auditd(p, n, s)
      [] kind = "journal_export" -> Journal(p, n, s)
      [] kind = "syslog" -> Syslog(p, n, s)
      [] kind = "qcloud_ydservice" -> Ydservice(p, n, s)
      [] kind = "qcloud_go" -> GoComponent(p, n, s)
      [] kind = "qcloud_scanner" -> Scanner(p, n, s)
      [] kind = "qcloud_ydeyes" -> Ydeyes(p, n, s)
      [] OTHER -> AegisLines(p, n, s)

(* The end of the file completes the record that is open; a field whose    *)
(* quotes never close is an error of its own.                              *)
Exchanges == {"exchange_message_tracking", "exchange_generic"}

(* Mutant: a record that the end of the file cuts off is forgotten.        *)
CutOffForgotten(kind, p) == IF kind \in Exchanges THEN [p EXCEPT !.open = <<>>] ELSE Flush(p)

EndOfLines(kind, p) ==
    IF kind \in Exchanges THEN [p EXCEPT !.errors = @ \cup ToSet(p.open), !.open = <<>>] ELSE Flush(p)
=================================================================================
