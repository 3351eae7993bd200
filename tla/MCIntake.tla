-------------------------------- MODULE MCIntake --------------------------------
(* Intake with two small trees that may change, and with one file of any   *)
(* short content.                                                          *)
EXTENDS Intake

Entries(is, in, to, suffix) == [is |-> is, in |-> in, to |-> to, suffix |-> suffix]
Text(context, lines) == [start |-> "lines", nul |-> FALSE, context |-> context, lines |-> lines]
Source(root, host, codec) == [root |-> root, host |-> host, codec |-> codec]

(* Hard links, links to a file and back up the tree, an event log, a file  *)
(* that is empty and one whose suffix is skipped.                          *)
Tree == ("a" :> Entries("file", "top", 1, "log")) @@ ("sub" :> Entries("dir", "top", "below", "")) @@
        ("up" :> Entries("link", "below", "top", "")) @@ ("again" :> Entries("link", "below", "a", "log")) @@
        ("hard" :> Entries("file", "below", 1, "log")) @@ ("e" :> Entries("file", "below", 2, "evtx"))
Few == ("a" :> Entries("file", "top", 1, "log")) @@ ("z" :> Entries("file", "top", 3, "log")) @@
       ("x" :> Entries("file", "top", 2, "skip"))
TreeContents == <<Text({}, <<"clf">>), Text({}, <<"clf", "text">>), [Text({}, <<>>) EXCEPT !.start = "empty"]>>
TreeSources == {<<Source("top", "h", "c"), Source("below", "h", "c")>>,
                <<Source("top", "h", "c"), Source("below", "g", "d")>>,
                <<Source("below", "h", "c"), Source("top", "h", "d")>>}
TreeWorlds ==
    {[entries |-> Tree, contents |-> TreeContents, platform |-> p, specs |-> s] :
        p \in {"posix", "windows", "inodeless"}, s \in TreeSources}
    \cup {[entries |-> Few, contents |-> TreeContents, platform |-> "posix",
           specs |-> <<Source("a", "h", "c"), Source("top", "h", "c"), Source("gone", "h", "c")>>]}

(* The vocabularies of the formats, each with lines that are foreign to it.*)
Vocabulary == {{"tomcat", "blank", "text", "clf"}, {"oracle_time", "oracle_undated", "text", "blank"},
               {"slow_time", "slow_user", "slow_set", "text"}, {"yd", "scanner", "eyes", "text"},
               {"aegis_core", "aegis_undated", "damaged", "blank"}, {"aegis_known", "clf", "http_software", "mssql"},
               {"general_header", "general_stamped", "general_undated", "general_more"},
               {"iis_fields", "columns", "ragged", "iis_software"},
               {"exch_fields", "columns", "quote_open", "quote_close"}}
OneFile == "f" :> Entries("file", "top", 1, "log")
Contents ==
    {Text({}, lines) : lines \in UNION {[1..4 -> v] : v \in Vocabulary}}
    \cup {Text({"yunjing"}, lines) : lines \in [1..4 -> {"go", "scanner", "eyes", "text"}]}
    \cup {Text({"aegis"}, lines) : lines \in [1..4 -> {"aegis_core", "aegis_undated", "text", "clf"}]}
    \cup {[start |-> start, nul |-> nul, context |-> {"aegis"}, lines |-> lines] :
              start \in {"regf", "elf", "pe", "mz", "xml", "task", "journal", "lines"}, nul \in BOOLEAN,
              lines \in {<<"clf", "aegis_known">>, <<"text", "aegis_core">>, <<"json", "text">>}}
    \cup {Text({}, <<s, "text">>) : s \in FirstRecords}
FileWorlds ==
    {[entries |-> OneFile, contents |-> <<c>>, platform |-> "posix", specs |-> <<Source("f", "h", "c")>>] : c \in Contents}

SmallWorlds == TreeWorlds \cup FileWorlds
===================================================================================
