----------------------------- MODULE MCFileStaging -----------------------------
(* FileStaging on short texts and short event logs.                        *)
EXTENDS FileStaging

Basic == [kind |-> "text", format |-> "arrow", backend |-> "auto", component |-> TRUE, prepared |-> FALSE,
          headers |-> "none", keepRaw |-> FALSE, text |-> <<>>, bytes |-> PlainUtf8, items |-> <<>>]

Texts(alphabet, n) == UNION {[1..k -> alphabet] : k \in 0..n}
WebTexts == Texts({"a", "alien", "reject", "lf"}, 3) \cup {t \in Texts({"a", "lf"}, 6) : Len(t) > 3}
    \cup {<<"a", "lf", "a", "a", "lf", "a", "lf", "alien">>, <<"a", "a", "lf", "a", "a", "lf", "alien", "lf">>}
EndedTexts == Texts({"a", "cr", "lf"}, 5)

Items(kinds, n) == UNION {[1..k -> kinds] : k \in 0..n}
Small == [kind |-> "row", size |-> 1]
Big == [kind |-> "row", size |-> 2]
Huge == [kind |-> "row", size |-> 4]
Odd(kind) == [kind |-> kind, size |-> 0]

TextPlans ==
    {[Basic EXCEPT !.kind = k, !.text = t, !.items = Parsed(t), !.format = f, !.prepared = p] :
        k \in {"web", "text"}, t \in EndedTexts, f \in {"arrow", "ndjson"}, p \in {FALSE}}
    \cup {[Basic EXCEPT !.kind = "web", !.text = t, !.items = Parsed(t), !.backend = b, !.prepared = p] :
            t \in WebTexts, b \in {"auto", "native"}, p \in BOOLEAN}
    \cup {[Basic EXCEPT !.kind = k, !.bytes = b, !.text = <<"a">>, !.items = Parsed(<<"a">>), !.backend = n, !.component = c] :
            k \in {"web", "text"}, b \in FileBytes, n \in {"python", "auto", "native"}, c \in BOOLEAN}
LogPlans ==
    {[Basic EXCEPT !.kind = "evtx", !.items = s, !.headers = h, !.format = f] :
        s \in Items({Small, Big, Huge, Odd("corrupt"), Odd("lost"), Odd("stuck"), Odd("stop")}, 3),
        h \in {"all", "some"}, f \in {"arrow"}}
    \cup {[Basic EXCEPT !.kind = "evtx", !.items = s, !.headers = h, !.keepRaw = TRUE, !.format = f] :
            s \in Items({Small, Odd("corrupt"), Odd("envelope"), Odd("stuck")}, 2),
            h \in {"all", "none"}, f \in {"arrow", "ndjson"}}
OtherPlans ==
    {[Basic EXCEPT !.kind = "unsigned", !.items = s] : s \in Items({Small, Odd("reject"), Odd("stop")}, 2)}
    \cup {[Basic EXCEPT !.kind = "unknown"]}

AllPlans == TextPlans \cup LogPlans \cup OtherPlans
================================================================================
