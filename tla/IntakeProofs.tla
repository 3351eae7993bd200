------------------------------ MODULE IntakeProofs ------------------------------
(***************************************************************************)
(* What a scan owes the analyst, for all trees, contents and sources, and  *)
(* however files move meanwhile: no file is taken twice for a host, none   *)
(* that stayed in place is missed, at whatever depth, and the kind of a    *)
(* file is justified by its head.                                          *)
(***************************************************************************)
EXTENDS Intake, SumTheorems

-----------------------------------------------------------------------------
(* Classification.                                                         *)

(* The kinds that a declaration, a marker or a first record stands for are *)
(* known, and not those that need the product, but by a first record.      *)
LEMMA HeaderKinds ==
    ASSUME NEW h
    PROVE  /\ Marked(h) \in {None, "mysql_slow", "mysql_general"}
           /\ ByHeader(h) \in {None, "iis_httperr", "iis", "exchange_generic", "exchange_message_tracking"}
BY DEF Marked, ByHeader, SoftwareKind, FieldsKind

(* Aegis needs its product in the head, or a logger of its own.            *)
LEMMA AegisNeedsProduct ==
    ASSUME NEW h, NEW lines
    PROVE  /\ AegisPrefix(h, lines) \in Aegis \cup {None}
           /\ AegisPrefix(h, lines) # None =>
                  \E i \in DOMAIN lines : /\ lines[i] \in AegisHeaders
                                          /\ lines[i] = "aegis_known" \/ "aegis" \in h.context
BY DEF AegisPrefix, Aegis, None

(* A first record that says what it is decides.                            *)
LEMMA RecordDecides ==
    ASSUME NEW h
    PROVE  LET s == FirstLine(h)
               kind == ByFirstRecord(h)
           IN  /\ kind \in ByContext => "yunjing" \in h.context
               /\ kind \in Aegis => kind = AegisPrefix(h, <<s>>)
               /\ s \in FirstRecords \ {"go", "scanner", "eyes"} => kind # None
<1> DEFINE s == FirstLine(h)
<1>1. AegisPrefix(h, <<s>>) \in {"aegis_core", "aegis_python", "unknown"}
  BY AegisNeedsProduct DEF Aegis, None
<1>2. CASE AegisPrefix(h, <<s>>) # None
  BY <1>1, <1>2 DEF ByFirstRecord, ByContext, Aegis, None
<1>3. CASE AegisPrefix(h, <<s>>) = None /\ s \in DOMAIN RecordKind
  BY <1>3 DEF ByFirstRecord, RecordKind, ByContext, Aegis, None
<1>4. CASE AegisPrefix(h, <<s>>) = None /\ s \notin DOMAIN RecordKind
  <2>1. s \notin FirstRecords \ {"go", "scanner", "eyes"}
    BY <1>4 DEF RecordKind, FirstRecords
  <2> QED
    BY <1>4, <2>1 DEF ByFirstRecord, QcloudKind, LooksLikeQcloudLog, ByContext, Aegis, None
<1> QED
  BY <1>2, <1>3, <1>4

(* The first record is a line of the head, if there is one.                *)
LEMMA FirstLineIsLine ==
    ASSUME NEW h \in FileHead
    PROVE  FirstLine(h) \in ToSet(h.lines) \cup {"nothing"}
<1> DEFINE stops == {i \in DOMAIN h.lines : Stops(h.lines[i])} \cup {Len(h.lines) + 1}
<1>1. h.lines \in Seq(Shape)
  BY DEF FileHead
<1>2. stops \subseteq Nat /\ stops # {}
  BY <1>1
<1>3. StopAt(h) \in stops
  BY <1>2, LeastIsElement DEF StopAt
<1> QED
  BY <1>1, <1>3 DEF FirstLine, ToSet

(* What is found in a text fits it.                                        *)
LEMMA TextKindFits ==
    ASSUME NEW h \in FileHead, h.start \notin {"empty", "elf", "pe", "xml"}
    PROVE  KindFits(h, TextKind(h))
<1> DEFINE s == FirstLine(h)
<1>1. CASE Marked(h) # None
  <2>1. TextKind(h) = Marked(h)
    BY <1>1 DEF TextKind, Else
  <2> QED
    BY <1>1, <2>1, HeaderKinds DEF KindFits, ByContext, Aegis, None
<1>2. CASE Marked(h) = None /\ ByHeader(h) # None
  <2>1. TextKind(h) = ByHeader(h)
    BY <1>2 DEF TextKind, Else
  <2> QED
    BY <1>2, <2>1, HeaderKinds DEF KindFits, ByContext, Aegis, None
<1>3. CASE Marked(h) = None /\ ByHeader(h) = None /\ ByFirstRecord(h) # None
  <2>1. TextKind(h) = ByFirstRecord(h)
    BY <1>3 DEF TextKind, Else
  <2>2. ASSUME ByFirstRecord(h) \in Aegis
        PROVE  /\ "aegis" \in h.context \/ "aegis_known" \in ToSet(h.lines)
               /\ ~Established(h)
    <3>1. AegisPrefix(h, <<s>>) # None
      BY <2>2, RecordDecides DEF Aegis, None
    <3>2. s \in AegisHeaders /\ (s = "aegis_known" \/ "aegis" \in h.context)
      <4>1. DOMAIN <<s>> = {1} /\ <<s>>[1] = s
        OBVIOUS
      <4> QED
        BY <3>1, <4>1, AegisNeedsProduct
    <3> QED
      BY <1>3, <3>2, FirstLineIsLine DEF Established, AegisHeaders, FirstRecords
  <2> QED
    BY <1>3, <2>1, <2>2, RecordDecides DEF KindFits
<1>4. CASE Marked(h) = None /\ ByHeader(h) = None /\ ByFirstRecord(h) = None
  <2>1. TextKind(h) = AegisPrefix(h, h.lines)
    BY <1>4 DEF TextKind, Else
  <2>2. ~Established(h)
    BY <1>4, RecordDecides DEF Established
  <2>3. AegisPrefix(h, h.lines) # None => "aegis" \in h.context \/ "aegis_known" \in ToSet(h.lines)
    BY AegisNeedsProduct DEF ToSet
  <2>4. AegisPrefix(h, h.lines) \in Aegis \cup {None}
    BY AegisNeedsProduct
  <2> QED
    BY <1>4, <2>1, <2>2, <2>3, <2>4 DEF KindFits, ByContext, Aegis, None
<1> QED
  BY <1>1, <1>2, <1>3, <1>4

(* And so does the kind of any file.                                       *)
LEMMA ClassifyFits ==
    ASSUME NEW h \in FileHead
    PROVE  KindFits(h, ClassifyFile(h))
<1>1. CASE h.start \in DOMAIN StartKind
  <2>1. h.start \in {"regf", "task", "journal"} /\ ClassifyFile(h) \in {"registry_hive", "scheduled_task", "journal_export"}
    BY <1>1 DEF ClassifyFile, StartKind
  <2> QED
    BY <2>1 DEF KindFits, TextFile, ByContext, Aegis
<1>2. CASE h.start \notin DOMAIN StartKind /\ (h.start \in {"empty", "xml"} \/ ExecutablePrefix(h) \/ h.nul)
  <2>1. ClassifyFile(h) = None /\ ~TextFile(h)
    BY <1>2 DEF ClassifyFile, ExecutablePrefix, TextFile
  <2> QED
    BY <2>1 DEF KindFits, ByContext, Aegis, None
<1>3. CASE h.start \notin DOMAIN StartKind /\ ~(h.start \in {"empty", "xml"} \/ ExecutablePrefix(h) \/ h.nul)
  BY <1>3, TextKindFits DEF ClassifyFile, ExecutablePrefix
<1> QED
  BY <1>1, <1>2, <1>3

(* A prefix of a head is one.                                              *)
LEMMA PrefixIsHead ==
    ASSUME NEW h \in FileHead
    PROVE  Prefix(h) \in FileHead
<1> DEFINE n == Min({Peek, Len(h.lines)})
<1>1. h.lines \in Seq(Shape) /\ Peek \in Nat /\ Len(h.lines) \in Nat
  BY DiscoveryAssumption DEF FileHead
<1>2. n \in Nat /\ n <= Len(h.lines)
  BY <1>1, LeastIsElement, {Peek, Len(h.lines)} \subseteq Nat
<1> HIDE DEF n
<1>3. SubSeq(h.lines, 1, n) \in Seq(Shape)
  BY <1>1, <1>2
<1>4. Prefix(h) = [h EXCEPT !.lines = SubSeq(h.lines, 1, n)]
  BY DEF Prefix, n
<1> QED
  BY <1>3, <1>4 DEF FileHead

-----------------------------------------------------------------------------
(* The tree.                                                               *)

(* Nothing but the place of one entry changes, and that only once.         *)
LEMMA TreeMoves ==
    ASSUME TypeOK, TreeChanges
    PROVE  \E x \in DOMAIN world.entries \ moved :
               /\ moved' = moved \cup {x} /\ Entry(x).is # "dir"
               /\ DOMAIN world' = DOMAIN world
               /\ world'.contents = world.contents /\ world'.specs = world.specs
               /\ world'.platform = world.platform
               /\ DOMAIN world'.entries = DOMAIN world.entries
               /\ DOMAIN Entry(x)' = DOMAIN Entry(x) /\ Entry(x)'.in \notin DOMAIN world.entries
               /\ Entry(x)'.is = Entry(x).is /\ Entry(x)'.to = Entry(x).to /\ Entry(x)'.suffix = Entry(x).suffix
               /\ \A e \in DOMAIN world.entries : e # x => Entry(e)' = Entry(e)
<1>1. PICK x \in DOMAIN world.entries \ moved, d \in Directories \cup {Gone} :
          /\ Entry(x).is # "dir" /\ world' = [world EXCEPT !.entries[x].in = d] /\ moved' = moved \cup {x}
  BY DEF TreeChanges
<1>2. d \notin DOMAIN world.entries
  BY DEF TypeOK, World, Directories, Entry
<1>3. world' = [world EXCEPT !.entries = [world.entries EXCEPT ![x] = [world.entries[x] EXCEPT !.in = d]]]
  BY <1>1
<1>4. DOMAIN world = {"entries", "contents", "specs", "platform"}
      /\ DOMAIN world.entries[x] = {"is", "in", "to", "suffix"}
  BY <1>1 DEF TypeOK, World
<1>5. /\ world'.entries = [world.entries EXCEPT ![x] = [world.entries[x] EXCEPT !.in = d]]
      /\ DOMAIN world' = DOMAIN world /\ world'.contents = world.contents
      /\ world'.specs = world.specs /\ world'.platform = world.platform
  BY <1>3, <1>4
<1>6. /\ world'.entries[x] = [world.entries[x] EXCEPT !.in = d]
      /\ DOMAIN world'.entries = DOMAIN world.entries
      /\ \A e \in DOMAIN world.entries : e # x => world'.entries[e] = world.entries[e]
  BY <1>1, <1>5
<1>7. /\ world'.entries[x].in = d /\ DOMAIN world'.entries[x] = DOMAIN world.entries[x]
      /\ world'.entries[x].is = world.entries[x].is /\ world'.entries[x].to = world.entries[x].to
      /\ world'.entries[x].suffix = world.entries[x].suffix
  BY <1>4, <1>6
<1> QED
  BY <1>1, <1>2, <1>5, <1>6, <1>7 DEF Entry

(* What has not moved is where it was, and leads where it did.             *)
LEMMA TreeStays ==
    ASSUME TypeOK, TreeChanges
    PROVE  /\ World(world') /\ moved \subseteq moved' /\ moved' \subseteq DOMAIN world.entries
           /\ world'.contents = world.contents /\ world'.specs = world.specs
           /\ world'.platform = world.platform
           /\ DOMAIN world'.entries = DOMAIN world.entries
           /\ \A e \in DOMAIN world.entries :
                  /\ Entry(e)'.is = Entry(e).is /\ Entry(e)'.to = Entry(e).to
                  /\ Entry(e)'.suffix = Entry(e).suffix
                  /\ e \notin moved' \/ Entry(e).is = "dir" => Entry(e)'.in = Entry(e).in
           /\ Listable' = Listable
<1>1. PICK x \in DOMAIN world.entries \ moved :
               /\ moved' = moved \cup {x} /\ Entry(x).is # "dir"
               /\ DOMAIN world' = DOMAIN world
               /\ world'.contents = world.contents /\ world'.specs = world.specs
               /\ world'.platform = world.platform
               /\ DOMAIN world'.entries = DOMAIN world.entries
               /\ DOMAIN Entry(x)' = DOMAIN Entry(x) /\ Entry(x)'.in \notin DOMAIN world.entries
               /\ Entry(x)'.is = Entry(x).is /\ Entry(x)'.to = Entry(x).to /\ Entry(x)'.suffix = Entry(x).suffix
               /\ \A e \in DOMAIN world.entries : e # x => Entry(e)' = Entry(e)
  BY TreeMoves
<1>2. \A e \in DOMAIN world.entries :
          /\ Entry(e)'.is = Entry(e).is /\ Entry(e)'.to = Entry(e).to
          /\ Entry(e)'.suffix = Entry(e).suffix /\ DOMAIN Entry(e)' = DOMAIN Entry(e)
          /\ Entry(e)'.in = Entry(e).in \/ Entry(e)'.in \notin DOMAIN world.entries
  BY <1>1
<1>3. World(world')
  BY <1>1, <1>2 DEF TypeOK, World, Entry
<1>4. Listable' = Listable
  BY <1>1, <1>2 DEF Listable
<1> QED
  BY <1>1, <1>2, <1>3, <1>4 DEF TypeOK

(* Where an entry and what it links to have not moved, the file is there   *)
(* that was.                                                               *)
LEMMA FilesStay ==
    ASSUME TypeOK, TreeChanges, NEW e \in DOMAIN world.entries
    PROVE  /\ Resolved(e)' = Resolved(e)
           /\ Undisturbed(e)' => Undisturbed(e) /\ FileOf(e)' = FileOf(e)
           /\ e \notin moved' /\ FileOf(e) # 0 /\ FileOf(e)' # 0 => FileOf(e)' = FileOf(e)
  BY TreeStays DEF Undisturbed, Resolved, FileOf

(* A file that is there is what the resolved name leads to.                *)
LEMMA FileIsThere ==
    ASSUME TypeOK, NEW e \in DOMAIN world.entries, FileOf(e) # 0
    PROVE  /\ Resolved(e) \in DOMAIN world.entries /\ FileOf(e) = Entry(Resolved(e)).to
           /\ FileOf(e) \in DOMAIN world.contents
           /\ Entry(e).in # Gone /\ Entry(e).is # "dir"
  BY DEF FileOf, Resolved, TypeOK, World, Entry

-----------------------------------------------------------------------------
(* The walk.                                                               *)

(* Elements of a stack and of its front.                                   *)
LEMMA StackOf ==
    ASSUME NEW S, NEW q \in Seq(S), q # <<>>
    PROVE  /\ Last(q) \in S /\ Front(q) \in Seq(S)
           /\ ToSet(q) = ToSet(Front(q)) \cup {Last(q)}
<1>1. Front(q) \in Seq(S) /\ Len(Front(q)) = Len(q) - 1 /\ \A i \in 1..Len(q) - 1 : Front(q)[i] = q[i]
  BY DEF Front
<1>2. Last(q) = q[Len(q)] /\ Len(q) \in 1..Len(q) /\ Len(q) \in Nat \ {0}
  BY DEF Last
<1>3. ToSet(Front(q)) = {q[i] : i \in 1..Len(q) - 1}
  BY <1>1 DEF ToSet
<1>4. ToSet(q) = {q[i] : i \in 1..Len(q)} /\ 1..Len(q) = (1..Len(q) - 1) \cup {Len(q)}
  BY <1>2 DEF ToSet
<1> QED
  BY <1>1, <1>2, <1>3, <1>4

(* A sequence is one of its own elements.                                  *)
LEMMA SelfTyped ==
    ASSUME NEW S, NEW q \in Seq(S)
    PROVE  q \in Seq(ToSet(q))
<1>1. Len(q) \in Nat /\ DOMAIN q = 1..Len(q) /\ q \in [1..Len(q) -> ToSet(q)]
  BY DEF ToSet
<1> QED
  BY <1>1

(* What is appended is there, and nothing else has changed.                *)
LEMMA Appended ==
    ASSUME NEW q, q \in Seq(ToSet(q)), NEW x
    PROVE  /\ Append(q, x) \in Seq(ToSet(Append(q, x)))
           /\ DOMAIN Append(q, x) = DOMAIN q \cup {Len(q) + 1} /\ Len(q) + 1 \notin DOMAIN q
           /\ Append(q, x)[Len(q) + 1] = x
           /\ \A i \in DOMAIN q : Append(q, x)[i] = q[i]
           /\ ToSet(Append(q, x)) = ToSet(q) \cup {x}
<1> DEFINE S == ToSet(q) \cup {x}
           r == Append(q, x)
<1>1. q \in Seq(S) /\ x \in S
  OBVIOUS
<1>2. /\ r \in Seq(S) /\ Len(q) \in Nat /\ DOMAIN q = 1..Len(q) /\ DOMAIN r = 1..Len(q) + 1
      /\ r[Len(q) + 1] = x /\ \A i \in DOMAIN q : r[i] = q[i]
  BY <1>1
<1>3. DOMAIN r = DOMAIN q \cup {Len(q) + 1} /\ Len(q) + 1 \notin DOMAIN q
  BY <1>2
<1>4. ToSet(r) = S
  BY <1>2, <1>3 DEF ToSet
<1> QED
  BY <1>1, <1>2, <1>3, <1>4

(* An entry that was listed and not moved is where it was listed; taken,   *)
(* it is known by what it is.                                              *)
LEMMA TakenIsKnown ==
    ASSUME TypeOK, ListingInv, NEW e \in listing, ~Descends(e), ~Stale(e)
    PROVE  Known([key |-> Key(e), name |-> e, in |-> current, file |-> FileSeen(e)])
<1>1. e \in DOMAIN world.entries /\ Entry(e).is \in {"file", "link"}
  BY DEF TypeOK, World, Entry, Descends
<1>2. Key(e) = <<Key(e)[1], Key(e)[2], Key(e)[3], Key(e)[4]>> /\ Key(e)[1] = Identity(e)
  BY DEF Key
<1>3. CASE world.platform = "inodeless"
  <2>1. ~Cached(e) /\ FileOf(e) # 0 /\ FileSeen(e) = FileOf(e)
    BY <1>3 DEF Cached, Stale, FileSeen
  <2>2. Identity(e) = <<Entry(Resolved(e)).in, Resolved(e)>>
    BY <1>3, <2>1 DEF Identity, Path
  <2> QED
    BY <1>1, <1>2, <1>3, <2>1, <2>2, FileIsThere DEF Known
<1>4. CASE world.platform # "inodeless" /\ ~(Cached(e) /\ Entry(e).in # current)
  <2>1. Identity(e) = <<FileSeen(e)>>
    BY <1>4 DEF Identity
  <2> QED
    BY <1>1, <1>2, <1>4, <2>1 DEF Known
<1>5. CASE world.platform # "inodeless" /\ Cached(e) /\ Entry(e).in # current
  <2>1. e \in moved /\ world.platform = "windows"
    BY <1>5 DEF ListingInv, Cached
  <2>2. Identity(e) = Path(e) /\ Len(Path(e)) = 2
    BY <1>5 DEF Identity, Path
  <2> QED
    BY <1>1, <1>2, <1>5, <2>1, <2>2 DEF Known
<1> QED
  BY <1>3, <1>4, <1>5

(* What is known stays so while files move.                                *)
LEMMA KnownStays ==
    ASSUME TypeOK, TreeChanges, NEW s, Known(s)
    PROVE  Known(s)'
<1>1. Resolved(s.name)' = Resolved(s.name) /\ (Undisturbed(s.name)' => Undisturbed(s.name))
  BY FilesStay DEF Known
<1>2. ASSUME world.platform = "inodeless", Undisturbed(s.name)'
      PROVE  Entry(Resolved(s.name))'.in = Entry(Resolved(s.name)).in
  BY <1>1, <1>2, TreeStays DEF Known, Undisturbed
<1> QED
  BY <1>1, <1>2, TreeStays DEF Known

(* A file that is due is taken with its number, or was before.             *)
LEMMA DueIsTaken ==
    ASSUME TypeOK, ListingInv, SeenInv, NEW e \in listing, TakeFile(e), Due(e)
    PROVE  Taken(e, spec)'
<1>1. e \in DOMAIN world.entries /\ ~Descends(e) /\ ~Stale(e) /\ FileOf(e) # 0 /\ e \notin moved
  BY DEF TakeFile, Due, Undisturbed, TypeOK
<1>2. Entry(e).in = current
  BY <1>1 DEF ListingInv
<1>3. FileSeen(e) = FileOf(e)
  BY <1>1 DEF FileSeen, Cached, FileOf, Resolved
<1>4. Wanted(e)
  BY <1>3 DEF Wanted, Due
<1>5. UNCHANGED <<world, moved, spec>>
  BY DEF TakeFile
<1>6. Key(e)[2] = Host(spec)
  BY DEF Key, Host
<1>7. CASE \A i \in DOMAIN seen : seen[i].key # Key(e)
  <2>1. seen' = Append(seen, [key |-> Key(e), name |-> e, in |-> current, file |-> FileSeen(e)])
    BY <1>4, <1>7 DEF TakeFile
  <2>2. Len(seen) + 1 \in DOMAIN seen' /\ seen'[Len(seen) + 1] = [key |-> Key(e), name |-> e, in |-> current, file |-> FileSeen(e)]
    BY <2>1, Appended DEF TypeOK
  <2>3. seen'[Len(seen) + 1].file = FileOf(e) /\ seen'[Len(seen) + 1].key[2] = Host(spec)
    BY <1>3, <1>6, <2>2
  <2>4. FileOf(e)' = FileOf(e) /\ Host(spec)' = Host(spec)
    BY <1>5 DEF FileOf, Entry, Host
  <2> QED
    BY <2>2, <2>3, <2>4 DEF Taken
<1>8. CASE \E i \in DOMAIN seen : seen[i].key = Key(e)
  <2>1. PICK i \in DOMAIN seen : seen[i].key = Key(e)
    BY <1>8
  <2>2. seen' = seen /\ Known(seen[i])
    BY <2>1 DEF TakeFile, SeenInv
  <2>3. seen[i].key[1] = Identity(e)
    BY <2>1 DEF Key
  <2>4. CASE world.platform = "inodeless"
    <3>1. Identity(e) = <<Entry(Resolved(e)).in, Resolved(e)>>
      BY <1>1, <2>4 DEF Identity, Path
    <3>2. seen[i].key[1][2] = Resolved(seen[i].name) /\ seen[i].file = Entry(Resolved(seen[i].name)).to
      BY <2>2, <2>4 DEF Known
    <3>3. seen[i].file = FileOf(e)
      BY <1>1, <2>3, <3>1, <3>2, FileIsThere
    <3> QED
      BY <1>5, <1>6, <2>1, <2>2, <3>3 DEF Taken, FileOf, Entry, Host
  <2>5. CASE world.platform # "inodeless"
    <3>1. Identity(e) = <<FileOf(e)>>
      BY <1>2, <1>3, <2>5 DEF Identity
    <3>2. Len(seen[i].key[1]) = 1
      BY <2>3, <3>1
    <3>3. seen[i].key[1] = <<seen[i].file>>
      BY <2>2, <2>5, <3>2 DEF Known
    <3>4. seen[i].file = FileOf(e)
      BY <2>3, <3>1, <3>3
    <3> QED
      BY <1>5, <1>6, <2>1, <2>2, <3>4 DEF Taken, FileOf, Entry, Host
  <2> QED
    BY <2>4, <2>5
<1> QED
  BY <1>7, <1>8

-----------------------------------------------------------------------------
(* The invariant, one conjunct at a time.  A step of the scan is one of    *)
(* the walk, one of the tree, or none.                                     *)
ScanMoves == Walk \/ TreeChanges \/ UNCHANGED scanVars

(* All but the tree leave it alone.                                        *)
LEMMA WalkLeavesTree ==
    ASSUME Walk
    PROVE  UNCHANGED <<world, moved>>
BY DEF Walk, BeginSource, SourceMissing, ListDirectory, CannotList, EndSource, EndScan, TakeDirectory,
       PassEntry, TakeFile, Classify

(* Only the taking of a file changes what is seen, by a record more.       *)
LEMMA SeenGrows ==
    ASSUME TypeOK, Walk
    PROVE  \/ UNCHANGED seen
           \/ \E e \in listing :
                  /\ TakeFile(e) /\ \A i \in DOMAIN seen : seen[i].key # Key(e)
                  /\ seen' = Append(seen, [key |-> Key(e), name |-> e, in |-> current, file |-> FileSeen(e)])
<1>1. CASE \E e \in DOMAIN world.entries : TakeFile(e)
  <2>1. PICK e \in DOMAIN world.entries : TakeFile(e)
    BY <1>1
  <2>2. e \in listing
    BY <2>1 DEF TakeFile
  <2>3. CASE Wanted(e) /\ \A i \in DOMAIN seen : seen[i].key # Key(e)
    <3>1. seen' = Append(seen, [key |-> Key(e), name |-> e, in |-> current, file |-> FileSeen(e)])
      BY <2>1, <2>3 DEF TakeFile
    <3> QED
      BY <2>1, <2>2, <2>3, <3>1
  <2>4. CASE ~(Wanted(e) /\ \A i \in DOMAIN seen : seen[i].key # Key(e))
    BY <2>1, <2>4 DEF TakeFile
  <2> QED
    BY <2>3, <2>4
<1>2. CASE ~\E e \in DOMAIN world.entries : TakeFile(e)
  BY <1>2 DEF Walk, BeginSource, SourceMissing, ListDirectory, CannotList, EndSource, EndScan, TakeDirectory,
              PassEntry, Classify
<1> QED
  BY <1>1, <1>2

(* What is seen stays seen.                                                *)
LEMMA SeenStays ==
    ASSUME TypeOK, ScanMoves
    PROVE  /\ seen' \in Seq(ToSet(seen'))
           /\ \A i \in DOMAIN seen : i \in DOMAIN seen' /\ seen'[i] = seen[i]
<1>1. CASE UNCHANGED seen
  BY <1>1 DEF TypeOK
<1>2. CASE ~UNCHANGED seen
  <2>1. Walk
    BY <1>2 DEF ScanMoves, TreeChanges, scanVars
  <2>2. PICK e \in listing :
            seen' = Append(seen, [key |-> Key(e), name |-> e, in |-> current, file |-> FileSeen(e)])
    BY <1>2, <2>1, SeenGrows
  <2> QED
    BY <2>2, Appended DEF TypeOK
<1> QED
  BY <1>1, <1>2

(* Type correctness.                                                       *)
LEMMA TypeKept ==
    ASSUME TypeOK, ListingInv, ScanMoves
    PROVE  TypeOK'
<1>1. World(world') /\ moved' \subseteq DOMAIN world'.entries /\ world'.specs = world.specs /\ Listable' = Listable
  <2>1. CASE TreeChanges
    BY <2>1, TreeStays
  <2>2. CASE ~TreeChanges
    BY <2>2, WalkLeavesTree DEF ScanMoves, scanVars, TypeOK, Listable, Entry
  <2> QED
    BY <2>1, <2>2
<1>2. seen' \in Seq(ToSet(seen'))
  BY SeenStays
<1>3. Len(world.specs) \in Nat /\ DOMAIN world.specs = 1..Len(world.specs)
  BY DEF TypeOK, World
<1>4. spec' \in 1..Len(world.specs) + 1
  <2>1. CASE EndSource
    BY <1>3, <2>1 DEF EndSource, TypeOK, ListingInv
  <2>2. CASE ~EndSource
    BY <2>2 DEF ScanMoves, Walk, BeginSource, SourceMissing, ListDirectory, CannotList, EndScan, TakeDirectory,
                PassEntry, TakeFile, Classify, TreeChanges, scanVars, TypeOK
  <2> QED
    BY <2>1, <2>2
<1>5. scan' \in {"idle", "walking", "classifying", "scanned", "raised"}
  BY DEF ScanMoves, Walk, BeginSource, SourceMissing, ListDirectory, CannotList, EndSource, EndScan,
         TakeDirectory, PassEntry, TakeFile, Classify, TreeChanges, scanVars, TypeOK
<1>6. stack' \in Seq(Listable)
  <2>1. CASE BeginSource
    <3>1. Root \in Listable
      BY <1>3, <2>1 DEF BeginSource, Root, Listable, TypeOK
    <3>2. <<Root>> \in Seq(Listable)
      BY <3>1
    <3>3. stack' = <<Root>> \/ stack' = stack
      BY <2>1 DEF BeginSource
    <3> QED
      BY <3>2, <3>3 DEF TypeOK
  <2>2. CASE ListDirectory \/ CannotList
    BY <2>2, StackOf DEF ListDirectory, CannotList, TypeOK
  <2>3. CASE \E e \in DOMAIN world.entries : TakeDirectory(e)
    BY <2>3 DEF TakeDirectory, Descends, Listable, TypeOK
  <2>4. CASE UNCHANGED stack
    BY <2>4 DEF TypeOK
  <2> QED
    BY <2>1, <2>2, <2>3, <2>4 DEF ScanMoves, Walk, SourceMissing, EndSource, EndScan, PassEntry, TakeFile,
                                  Classify, TreeChanges, scanVars
<1>7. listing' \subseteq DOMAIN world.entries
  BY DEF ScanMoves, Walk, BeginSource, SourceMissing, ListDirectory, CannotList, EndSource, EndScan, In,
         TakeDirectory, PassEntry, TakeFile, Classify, TreeChanges, scanVars, TypeOK
<1>8. DOMAIN world'.entries = DOMAIN world.entries
  <2>1. CASE TreeChanges
    BY <2>1, TreeStays
  <2> QED
    BY <2>1, WalkLeavesTree DEF ScanMoves, scanVars
<1>9. DOMAIN kinds' = IF scan' \in {"classifying", "scanned"} THEN DOMAIN seen' ELSE {}
  <2>1. CASE EndSource
    BY <2>1 DEF EndSource, TypeOK
  <2>2. CASE \E i \in DOMAIN kinds : Classify(i)
    BY <2>2 DEF Classify, TypeOK
  <2>3. CASE \E e \in DOMAIN world.entries : TakeFile(e)
    BY <2>3 DEF TakeFile, TypeOK
  <2>4. CASE UNCHANGED <<kinds, seen>> /\ (scan \in {"classifying", "scanned"} <=> scan' \in {"classifying", "scanned"})
    BY <2>4 DEF TypeOK
  <2> QED
    BY <2>1, <2>2, <2>3, <2>4 DEF ScanMoves, Walk, BeginSource, SourceMissing, ListDirectory, CannotList,
                                  EndScan, TakeDirectory, PassEntry, TreeChanges, scanVars
<1> QED
  BY <1>1, <1>2, <1>4, <1>5, <1>6, <1>7, <1>8, <1>9 DEF TypeOK

(* A listing is of the directory at hand.                                  *)
LEMMA ListingKept ==
    ASSUME TypeOK, ListingInv, ScanMoves
    PROVE  ListingInv'
<1>1. CASE TreeChanges
  BY <1>1, TreeStays DEF ListingInv, TreeChanges, Exhausted, TypeOK
<1>2. CASE ~TreeChanges
  <2>1. UNCHANGED <<world, moved>>
    BY <1>2, WalkLeavesTree DEF ScanMoves, scanVars
  <2>2. Len(world.specs) \in Nat
    BY DEF TypeOK, World
  <2>3. \A e \in listing' : e \in moved \/ Entry(e).in = current'
    <3>1. CASE BeginSource
      BY <3>1 DEF BeginSource, ListingInv
    <3>2. CASE ListDirectory
      BY <3>2 DEF ListDirectory, In
    <3>3. CASE listing' \subseteq listing /\ current' = current
      BY <3>3 DEF ListingInv
    <3> QED
      BY <1>2, <3>1, <3>2, <3>3 DEF ScanMoves, Walk, SourceMissing, CannotList, EndSource, EndScan,
                                    TakeDirectory, PassEntry, TakeFile, Classify, scanVars
  <2>4. /\ scan' = "walking" => spec' <= Len(world.specs)
        /\ scan' = "classifying" => spec' = Len(world.specs) + 1
        /\ scan' = "idle" => Exhausted'
    BY <1>2, <2>2 DEF ScanMoves, Walk, BeginSource, SourceMissing, ListDirectory, CannotList, EndSource, EndScan,
                TakeDirectory, PassEntry, TakeFile, Classify, scanVars, ListingInv, Exhausted, TypeOK
  <2> QED
    BY <2>1, <2>3, <2>4 DEF ListingInv, Entry
<1> QED
  BY <1>1, <1>2

(* No two records have one key, and each is known by what it is.           *)
LEMMA SeenKept ==
    ASSUME TypeOK, ListingInv, SeenInv, ScanMoves
    PROVE  SeenInv'
<1>1. CASE TreeChanges
  <2>1. seen' = seen
    BY <1>1 DEF TreeChanges
  <2>2. \A i \in DOMAIN seen : Known(seen[i])'
    BY <1>1, <2>1, KnownStays DEF SeenInv
  <2> QED
    BY <2>1, <2>2 DEF SeenInv
<1>2. CASE ~TreeChanges
  <2>1. UNCHANGED <<world, moved>>
    BY <1>2, WalkLeavesTree DEF ScanMoves, scanVars
  <2>2. ASSUME NEW s, Known(s)
        PROVE  Known(s)'
    BY <2>1, <2>2 DEF Known, Resolved, Undisturbed, Entry
  <2>3. CASE UNCHANGED seen
    BY <2>2, <2>3 DEF SeenInv
  <2>4. CASE ~UNCHANGED seen
    <3>1. PICK e \in listing :
                  /\ TakeFile(e) /\ \A i \in DOMAIN seen : seen[i].key # Key(e)
                  /\ seen' = Append(seen, [key |-> Key(e), name |-> e, in |-> current, file |-> FileSeen(e)])
      BY <1>2, <2>4, SeenGrows DEF ScanMoves, scanVars
    <3> DEFINE s == [key |-> Key(e), name |-> e, in |-> current, file |-> FileSeen(e)]
    <3>2. Known(s)
      BY <3>1, TakenIsKnown DEF TakeFile
    <3>3. s.key = Key(e)
      OBVIOUS
    <3> HIDE DEF s
    <3>4. /\ DOMAIN seen' = DOMAIN seen \cup {Len(seen) + 1} /\ Len(seen) + 1 \notin DOMAIN seen
          /\ seen'[Len(seen) + 1] = s /\ \A i \in DOMAIN seen : seen'[i] = seen[i]
      BY <3>1, Appended DEF s, TypeOK
    <3>5. \A i \in DOMAIN seen' : Known(seen'[i])
      BY <3>2, <3>4 DEF SeenInv
    <3>6. \A i, j \in DOMAIN seen' : seen'[i].key = seen'[j].key => i = j
      BY <3>1, <3>3, <3>4 DEF SeenInv
    <3> QED
      BY <2>1, <3>5, <3>6 DEF SeenInv, Known, Resolved, Undisturbed, Entry
  <2> QED
    BY <2>3, <2>4
<1> QED
  BY <1>1, <1>2

-----------------------------------------------------------------------------
(* What is covered.                                                        *)

(* A step that disturbs nothing that is due, keeps what is taken and looks *)
(* at some of the entries that were left, leaves a source covered.         *)
LEMMA CoveredStays ==
    ASSUME NEW k, NEW ds, NEW left, NEW todo, NEW left2, NEW todo2, Covered(k, ds, left, todo),
           world'.specs = world.specs, DOMAIN world'.entries = DOMAIN world.entries,
           \A e \in DOMAIN world.entries :
               /\ Descends(e)' <=> Descends(e)
               /\ Entry(e)'.to = Entry(e).to
               /\ Descends(e) \/ Due(e)' => Entry(e)'.in = Entry(e).in
               /\ Due(e)' => Due(e) /\ (Taken(e, k) => Taken(e, k)'),
           left2 \subseteq left, todo \subseteq todo2,
           \A e \in left \ left2 : (Descends(e) => Entry(e).to \in todo2) /\ (Due(e)' => Taken(e, k)')
    PROVE  Covered(k, ds, left2, todo2)'
<1> DEFINE root == world.specs[k].root
<1>1. root' = root
  OBVIOUS
<1>2. IF root \in DOMAIN world.entries THEN root \in left2 \/ (Due(root)' => Taken(root, k)')
      ELSE root \in ds \cup todo2
  BY DEF Covered
<1>3. ASSUME NEW e \in DOMAIN world.entries \ left2, Entry(e)'.in \in ds
      PROVE  /\ Descends(e)' => Entry(e)'.to \in ds \cup todo2
             /\ Due(e)' => Taken(e, k)'
  <2>1. CASE e \in left
    BY <1>3, <2>1
  <2>2. CASE e \notin left
    <3>1. Entry(e).in \in ds =>
              /\ Descends(e) => Entry(e).to \in ds \cup todo
              /\ Due(e) => Taken(e, k)
      BY <1>3, <2>2 DEF Covered
    <3> QED
      BY <1>3, <3>1
  <2> QED
    BY <2>1, <2>2
<1> QED
  BY <1>1, <1>2, <1>3 DEF Covered, Descends, Entry, Due, Undisturbed, Resolved, FileOf, Taken, Host

(* No step disturbs what is due, nor loses what is taken.                  *)
LEMMA DueStays ==
    ASSUME TypeOK, ScanMoves, NEW e \in DOMAIN world.entries
    PROVE  /\ world'.specs = world.specs /\ DOMAIN world'.entries = DOMAIN world.entries
           /\ Descends(e)' <=> Descends(e)
           /\ Entry(e)'.to = Entry(e).to
           /\ Descends(e) \/ Due(e)' => Entry(e)'.in = Entry(e).in
           /\ \A k : Due(e)' => Due(e) /\ (Taken(e, k) => Taken(e, k)')
<1>1. CASE TreeChanges
  <2>1. Due(e)' => Due(e) /\ FileOf(e)' = FileOf(e) /\ Entry(e)'.in = Entry(e).in
    BY <1>1, FilesStay, TreeStays DEF Due, Undisturbed
  <2>2. seen' = seen
    BY <1>1 DEF TreeChanges
  <2> QED
    BY <1>1, <2>1, <2>2, TreeStays DEF Descends, Taken, Host
<1>2. CASE ~TreeChanges
  <2>1. UNCHANGED <<world, moved>>
    BY <1>2, WalkLeavesTree DEF ScanMoves, scanVars
  <2>2. /\ FileOf(e)' = FileOf(e) /\ Entry(e)' = Entry(e)
        /\ Due(e)' <=> Due(e)
    BY <2>1 DEF FileOf, Entry, Due, Undisturbed, Resolved
  <2>3. \A k : Taken(e, k) => Taken(e, k)'
    BY <2>1, <2>2, SeenStays DEF Taken, Host
  <2> QED
    BY <2>1, <2>2, <2>3 DEF Descends
<1> QED
  BY <1>1, <1>2

(* A source that was covered is, so far as a step looks at what was left.  *)
LEMMA StepCovers ==
    ASSUME TypeOK, ScanMoves, NEW k, NEW ds, NEW left, NEW todo, NEW left2, NEW todo2,
           Covered(k, ds, left, todo), left2 \subseteq left, todo \subseteq todo2, left \subseteq DOMAIN world.entries,
           \A e \in left \ left2 : (Descends(e) => Entry(e).to \in todo2) /\ (Due(e)' => Taken(e, k)')
    PROVE  Covered(k, ds, left2, todo2)'
<1>1. world'.specs = world.specs /\ DOMAIN world'.entries = DOMAIN world.entries
  <2>1. CASE TreeChanges
    BY <2>1, TreeStays
  <2> QED
    BY <2>1, WalkLeavesTree DEF ScanMoves, scanVars
<1> QED
  BY <1>1, DueStays, CoveredStays

(* A directory that is listed is gone into, but for its entries.           *)
LEMMA ListedCovers ==
    ASSUME NEW k, NEW ds, NEW d, NEW todo, Covered(k, ds, {}, todo \cup {d})
    PROVE  Covered(k, ds \cup {d}, In(d), todo)
BY DEF Covered, In

(* A source that is begun is covered but for its root.                     *)
LEMMA BeginCovers ==
    ASSUME TypeOK, ListingInv, BeginSource
    PROVE  Covered(spec, {}, listing, ToSet(stack))'
<1>1. UNCHANGED <<world, spec>> /\ listing = {} /\ stack = <<>>
  BY DEF BeginSource, ListingInv, Exhausted
<1>2. CASE Root \in Directories /\ stack' = <<Root>> /\ listing' = listing
  <2>1. Root \notin DOMAIN world.entries
    BY <1>2 DEF Directories, TypeOK, World, Entry
  <2>2. Root \in ToSet(<<Root>>)
    BY DEF ToSet
  <2> QED
    BY <1>1, <1>2, <2>1, <2>2 DEF Covered, Root
<1>3. CASE Root \in DOMAIN world.entries /\ listing' = {Root}
  BY <1>1, <1>3 DEF Covered, Root
<1> QED
  BY <1>2, <1>3 DEF BeginSource


(* So does the source at hand, by what is left of its listing.             *)
LEMMA WalkCovers ==
    ASSUME TypeOK, ScanMoves, spec' = spec, NEW ds, NEW left, NEW todo,
           Covered(spec, ds, left, todo), listing' \subseteq left, todo \subseteq ToSet(stack)',
           left \subseteq DOMAIN world.entries,
           \A e \in left \ listing' : (Descends(e) => Entry(e).to \in ToSet(stack)') /\ (Due(e)' => Taken(e, spec)')
    PROVE  Covered(spec, ds, listing, ToSet(stack))'
<1>1. PICK k, left2, todo2 : k = spec /\ left2 = listing' /\ todo2 = ToSet(stack)'
  OBVIOUS
<1>2. Covered(k, ds, left, todo)
  BY <1>1
<1>3. \A e \in left \ left2 : (Descends(e) => Entry(e).to \in todo2) /\ (Due(e)' => Taken(e, k)')
  BY <1>1 DEF Taken, Host
<1>4. Covered(k, ds, left2, todo2)'
  BY <1>1, <1>2, <1>3, StepCovers
<1> QED
  BY <1>1, <1>4, ZenonT(40) DEF Covered, Descends, Entry, Due, Undisturbed, Resolved, FileOf, Taken, Host

(* The walk of a source covers it.                                         *)
LEMMA SourceCovered ==
    ASSUME TypeOK, ListingInv, SeenInv, CoverInv, ScanMoves, denied' = {}, scan' = "walking"
    PROVE  \E ds \in SUBSET Listable : Covered(spec, ds, listing, ToSet(stack))'
<1>1. CASE BeginSource
  BY <1>1, BeginCovers
<1>2. CASE ~BeginSource
  <2>1. scan = "walking" /\ denied = {} /\ spec' = spec /\ ~CannotList
    <3>1. ~CannotList
      BY DEF CannotList
    <3> QED
      BY <1>2, <3>1 DEF ScanMoves, Walk, SourceMissing, ListDirectory, EndSource, EndScan, TakeDirectory, PassEntry,
                        TakeFile, Classify, TreeChanges, scanVars
  <2>2. PICK ds \in SUBSET Listable : Covered(spec, ds, listing, ToSet(stack))
    BY <2>1 DEF CoverInv
  <2>3. listing \subseteq DOMAIN world.entries
    BY DEF TypeOK
  <2>4. CASE ListDirectory
    <3>1. PICK d \in Listable : d = Last(stack) /\ ToSet(stack) = ToSet(Front(stack)) \cup {d} /\ listing = {}
      BY <2>4, StackOf DEF ListDirectory, TypeOK
    <3>2. Covered(spec, ds \cup {d}, In(d), ToSet(Front(stack)))
      BY <2>2, <3>1, ListedCovers
    <3>3. listing' = In(d) /\ ToSet(stack)' = ToSet(Front(stack)) /\ In(d) \subseteq DOMAIN world.entries
      BY <2>4, <3>1 DEF ListDirectory, In
    <3>4. Covered(spec, ds \cup {d}, listing, ToSet(stack))'
      BY <2>1, <3>2, <3>3, WalkCovers
    <3> QED
      BY <3>1, <3>4
  <2>5. ASSUME listing' \subseteq listing, ToSet(stack) \subseteq ToSet(stack)',
               \A e \in listing \ listing' :
                   (Descends(e) => Entry(e).to \in ToSet(stack)') /\ (Due(e)' => Taken(e, spec)')
        PROVE  Covered(spec, ds, listing, ToSet(stack))'
    BY <2>1, <2>2, <2>3, <2>5, WalkCovers
  <2>6. ASSUME NEW e \in DOMAIN world.entries, TakeDirectory(e)
        PROVE  Covered(spec, ds, listing, ToSet(stack))'
    <3>1. e \in listing /\ Descends(e) /\ listing' = listing \ {e} /\ stack' = Append(stack, Entry(e).to)
      BY <2>6 DEF TakeDirectory
    <3>2. stack \in Seq(ToSet(stack))
      BY SelfTyped DEF TypeOK
    <3>3. ToSet(stack)' = ToSet(stack) \cup {Entry(e).to}
      BY <3>1, <3>2, Appended
    <3>4. ~Due(e)'
      BY <2>3, <3>1, FileIsThere, DueStays DEF Due, Descends
    <3> QED
      BY <2>5, <3>1, <3>3, <3>4
  <2>7. ASSUME NEW e \in DOMAIN world.entries, PassEntry(e)
        PROVE  Covered(spec, ds, listing, ToSet(stack))'
    <3>1. e \in listing /\ ~Descends(e) /\ Stale(e) /\ listing' = listing \ {e} /\ stack' = stack
      BY <2>7 DEF PassEntry
    <3>2. ~Due(e)
      BY <3>1 DEF Due, Undisturbed, Stale, ListingInv
    <3>3. ~Due(e)'
      BY <3>2, DueStays
    <3> QED
      BY <2>5, <3>1, <3>3
  <2>8. ASSUME NEW e \in DOMAIN world.entries, TakeFile(e)
        PROVE  Covered(spec, ds, listing, ToSet(stack))'
    <3>1. e \in listing /\ ~Descends(e) /\ listing' = listing \ {e} /\ stack' = stack
      BY <2>8 DEF TakeFile
    <3>2. Due(e)' => Taken(e, spec)'
      BY <2>8, <3>1, DueStays, DueIsTaken
    <3> QED
      BY <2>5, <3>1, <3>2
  <2>9. CASE UNCHANGED <<listing, stack>>
    BY <2>5, <2>9
  <2> QED
    BY <1>2, <2>1, <2>2, <2>4, <2>6, <2>7, <2>8, <2>9
    DEF ScanMoves, Walk, SourceMissing, EndSource, EndScan, Classify, TreeChanges, scanVars
<1> QED
  BY <1>1, <1>2

(* Every source that was walked is covered.                                *)
LEMMA CoverKept ==
    ASSUME TypeOK, ListingInv, SeenInv, CoverInv, ScanMoves
    PROVE  CoverInv'
<1> SUFFICES ASSUME denied' = {} PROVE CoverInv'
  BY DEF CoverInv
<1>1. denied = {}
  BY DEF ScanMoves, Walk, BeginSource, SourceMissing, ListDirectory, CannotList, EndSource, EndScan, TakeDirectory,
         PassEntry, TakeFile, Classify, TreeChanges, scanVars
<1>2. Listable' = Listable
  <2>1. CASE TreeChanges
    BY <2>1, TreeStays
  <2> QED
    BY <2>1, WalkLeavesTree DEF ScanMoves, scanVars, Listable, Entry
<1>3. ASSUME NEW k \in 1..spec' - 1
      PROVE  \E ds \in SUBSET Listable : Covered(k, ds, {}, {})'
  <2>1. PICK ds \in SUBSET Listable : Covered(k, ds, {}, {})
    <3>1. CASE k \in 1..spec - 1
      BY <1>1, <3>1 DEF CoverInv
    <3>2. CASE k \notin 1..spec - 1
      <4>1. EndSource
        BY <1>3, <3>2 DEF ScanMoves, Walk, BeginSource, SourceMissing, ListDirectory, CannotList, EndScan,
                          TakeDirectory, PassEntry, TakeFile, Classify, TreeChanges, scanVars
      <4>2. spec \in Nat /\ k = spec
        BY <1>3, <3>2, <4>1 DEF EndSource, TypeOK, World
      <4>3. scan = "walking" /\ listing = {} /\ ToSet(stack) = {}
        BY <4>1 DEF EndSource, Exhausted, ToSet
      <4> QED
        BY <1>1, <4>2, <4>3 DEF CoverInv
    <3> QED
      BY <3>1, <3>2
  <2>2. Covered(k, ds, {}, {})'
    BY <2>1, StepCovers
  <2> QED
    BY <2>2
<1>4. scan' = "walking" => \E ds \in SUBSET Listable : Covered(spec, ds, listing, ToSet(stack))'
  BY SourceCovered
<1> QED
  BY <1>2, <1>3, <1>4 DEF CoverInv

-----------------------------------------------------------------------------
(* What was taken and has gone.                                            *)

(* A file that goes while its name stays goes with what the name links to. *)
LEMMA FilesLost ==
    ASSUME TypeOK, TreeChanges, NEW e \in DOMAIN world.entries, e \notin moved', FileOf(e)' = 0, FileOf(e) # 0
    PROVE  Entry(e).is = "link" /\ Entry(e).to \in moved'
<1>1. PICK x \in DOMAIN world.entries \ moved :
               /\ moved' = moved \cup {x}
               /\ \A y \in DOMAIN world.entries : y # x => Entry(y)' = Entry(y)
  BY TreeMoves
<1>2. Entry(e)' = Entry(e) /\ Resolved(e) \in DOMAIN world.entries /\ FileOf(e) = Entry(Resolved(e)).to
  BY <1>1, FileIsThere
<1>3. Resolved(e) = x
  <2> SUFFICES ASSUME Resolved(e) # x PROVE FALSE
    OBVIOUS
  <2>1. PICK y \in DOMAIN world.entries : y = Resolved(e) /\ Entry(y)' = Entry(y)
    BY <1>1, <1>2
  <2>2. DOMAIN world'.entries = DOMAIN world.entries
    BY TreeStays
  <2> QED
    BY <1>2, <2>1, <2>2 DEF FileOf, Resolved
<1> QED
  BY <1>1, <1>2, <1>3 DEF Resolved

(* And does not come back, for what has moved moves no more.               *)
LEMMA FilesStayLost ==
    ASSUME TypeOK, TreeChanges, NEW e \in DOMAIN world.entries, e \notin moved', FileOf(e) = 0,
           Entry(e).in = Gone \/ (Entry(e).is = "link" /\ Entry(e).to \in moved)
    PROVE  FileOf(e)' = 0
<1>1. PICK x \in DOMAIN world.entries \ moved :
               /\ moved' = moved \cup {x}
               /\ DOMAIN world'.entries = DOMAIN world.entries
               /\ \A y \in DOMAIN world.entries : y # x => Entry(y)' = Entry(y)
  BY TreeMoves
<1>2. Entry(e)' = Entry(e)
  BY <1>1
<1>3. CASE Entry(e).in = Gone
  BY <1>2, <1>3 DEF FileOf
<1>4. CASE Entry(e).in # Gone
  <2>1. Entry(e).is = "link" /\ Entry(e).to \in moved
    BY <1>4
  <2>2. Entry(e).to \in DOMAIN world.entries /\ Entry(Entry(e).to)' = Entry(Entry(e).to)
    BY <1>1, <2>1 DEF TypeOK
  <2>3. PICK t \in DOMAIN world.entries : t = Entry(e).to /\ Entry(t)' = Entry(t)
    BY <1>1, <2>1 DEF TypeOK
  <2>4. FileOf(e) = IF Entry(e).in # Gone /\ Entry(t).in # Gone /\ Entry(t).is = "file" THEN Entry(t).to ELSE 0
    BY <2>1, <2>2, <2>3 DEF FileOf
  <2>5. FileOf(e)' = IF Entry(e)'.in # Gone /\ Entry(t)'.in # Gone /\ Entry(t)'.is = "file" THEN Entry(t)'.to ELSE 0
    BY <1>1, <1>2, <2>1, <2>2, <2>3 DEF FileOf
  <2> QED
    BY <1>2, <2>3, <2>4, <2>5
<1> QED
  BY <1>3, <1>4

(* A file that went while its name stayed.                                 *)
LEMMA LostKept ==
    ASSUME TypeOK, SeenInv, LostInv, ScanMoves
    PROVE  LostInv'
<1>1. \A i \in DOMAIN seen : seen[i].name \in DOMAIN world.entries
  BY DEF SeenInv, Known
<1>2. CASE TreeChanges
  <2>1. seen' = seen
    BY <1>2 DEF TreeChanges
  <2>2. ASSUME NEW i \in DOMAIN seen, seen[i].name \notin moved', FileOf(seen[i].name)' = 0
        PROVE  LET e == seen[i].name IN Entry(e)'.in = Gone \/ (Entry(e)'.is = "link" /\ Entry(e)'.to \in moved')
    <3>1. PICK e \in DOMAIN world.entries : e = seen[i].name
      BY <1>1
    <3>2. Entry(e)'.in = Entry(e).in /\ Entry(e)'.is = Entry(e).is /\ Entry(e)'.to = Entry(e).to /\ moved \subseteq moved'
      BY <1>2, <2>2, <3>1, TreeStays
    <3>3. CASE FileOf(e) # 0
      BY <1>2, <2>1, <2>2, <3>1, <3>2, <3>3, FilesLost
    <3>4. CASE FileOf(e) = 0
      BY <2>1, <2>2, <3>1, <3>2, <3>4 DEF LostInv
    <3> QED
      BY <2>1, <3>1, <3>3, <3>4
  <2> QED
    BY <2>1, <2>2 DEF LostInv
<1>3. CASE ~TreeChanges
  <2>1. UNCHANGED <<world, moved>>
    BY <1>3, WalkLeavesTree DEF ScanMoves, scanVars
  <2>2. ASSUME NEW i \in DOMAIN seen', seen'[i].name \notin moved, FileOf(seen'[i].name) = 0
        PROVE  LET e == seen'[i].name IN Entry(e).in = Gone \/ (Entry(e).is = "link" /\ Entry(e).to \in moved)
    <3>1. CASE i \in DOMAIN seen
      BY <2>2, <3>1, SeenStays DEF LostInv
    <3>2. CASE i \notin DOMAIN seen
      <4>1. Walk
        BY <1>3, <3>2 DEF ScanMoves, scanVars
      <4>2. PICK e \in listing :
                  /\ TakeFile(e)
                  /\ seen' = Append(seen, [key |-> Key(e), name |-> e, in |-> current, file |-> FileSeen(e)])
        BY <3>2, <4>1, SeenGrows
      <4>3. seen'[i].name = e
        BY <3>2, <4>2, Appended DEF TypeOK
      <4>4. Cached(e)
        BY <2>2, <4>2, <4>3 DEF TakeFile, Stale
      <4>5. e \in DOMAIN world.entries
        BY DEF TypeOK
      <4> QED
        BY <2>2, <4>3, <4>4, <4>5 DEF Cached, FileOf, TypeOK, World, Entry
    <3> QED
      BY <3>1, <3>2
  <2> QED
    BY <2>1, <2>2 DEF LostInv, FileOf, Entry
<1> QED
  BY <1>2, <1>3

(* The kind of a file is that of its head.                                 *)
LEMMA KindKept ==
    ASSUME TypeOK, SeenInv, LostInv, KindInv, ScanMoves
    PROVE  KindInv'
<1>1. CASE TreeChanges
  <2>1. UNCHANGED <<seen, kinds>>
    BY <1>1 DEF TreeChanges
  <2>2. ASSUME NEW i \in DOMAIN kinds, StillThere(i)', seen[i].name \notin moved'
        PROVE  StillThere(i) /\ FileOf(seen[i].name)' = FileOf(seen[i].name) /\ seen[i].name \notin moved
    <3>1. PICK e \in DOMAIN world.entries : e = seen[i].name /\ i \in DOMAIN seen
      BY DEF SeenInv, Known, TypeOK
    <3>2. Entry(e)'.in = Entry(e).in /\ moved \subseteq moved'
      BY <1>1, <2>2, <3>1, TreeStays
    <3>3. Entry(e)'.in = seen[i].in /\ FileOf(e)' # 0
      BY <2>1, <2>2, <3>1 DEF StillThere
    <3>4. FileOf(e) # 0
      BY <1>1, <2>2, <3>1, <3>2, <3>3, FilesStayLost DEF LostInv
    <3>5. FileOf(e)' = FileOf(e)
      BY <1>1, <2>2, <3>1, <3>3, <3>4, FilesStay
    <3> QED
      BY <2>1, <2>2, <3>1, <3>2, <3>3, <3>4, <3>5 DEF StillThere
  <2>3. world'.contents = world.contents
    BY <1>1, TreeStays
  <2> QED
    BY <2>1, <2>2, <2>3 DEF KindInv, Prefix
<1>2. CASE ~TreeChanges
  <2>1. UNCHANGED <<world, moved>>
    BY <1>2, WalkLeavesTree DEF ScanMoves, scanVars
  <2>2. CASE UNCHANGED <<seen, kinds>>
    BY <2>1, <2>2, ZenonT(40) DEF KindInv, StillThere, FileOf, Entry, Prefix
  <2>3. CASE EndSource
    <3>1. UNCHANGED <<seen, kinds>> \/ \A i \in DOMAIN kinds' : kinds'[i] \in {"pending", "evtx"}
      BY <2>3 DEF EndSource
    <3> QED
      BY <2>2, <3>1 DEF KindInv
  <2>4. CASE \E i \in DOMAIN kinds : Classify(i)
    <3>1. PICK j \in DOMAIN kinds : Classify(j)
      BY <2>4
    <3>2. /\ kinds' = [kinds EXCEPT ![j] = IF StillThere(j) THEN ClassifyFile(Prefix(world.contents[FileOf(seen[j].name)]))
                                           ELSE None]
          /\ seen' = seen
      BY <3>1 DEF Classify
    <3>3. \A i \in DOMAIN kinds : kinds'[i] \notin {"pending", "evtx"} /\ StillThere(i) /\ seen[i].name \notin moved =>
                          kinds'[i] = ClassifyFile(Prefix(world.contents[FileOf(seen[i].name)]))
      BY <3>2 DEF KindInv
    <3>4. DOMAIN kinds' = DOMAIN kinds
      BY <3>2
    <3>5. ASSUME NEW i
          PROVE  /\ StillThere(i)' <=> StillThere(i)
                 /\ Prefix(world.contents[FileOf(seen[i].name)])' = Prefix(world.contents[FileOf(seen[i].name)])
                 /\ seen'[i].name \notin moved' <=> seen[i].name \notin moved
      <4>1. \A e : FileOf(e)' = FileOf(e) /\ Entry(e)' = Entry(e)
        BY <2>1 DEF FileOf, Entry
      <4>2. seen'[i] = seen[i] /\ world' = world /\ moved' = moved
        BY <2>1, <3>2
      <4> QED
        BY <4>1, <4>2 DEF StillThere, Prefix
    <3> QED
      BY <3>3, <3>4, <3>5 DEF KindInv, Prefix
  <2>5. CASE \E e \in DOMAIN world.entries : TakeFile(e)
    <3>1. kinds' = kinds /\ DOMAIN kinds = {}
      BY <2>5 DEF TakeFile, TypeOK
    <3> QED
      BY <3>1 DEF KindInv
  <2> QED
    BY <1>2, <2>2, <2>3, <2>4, <2>5
    DEF ScanMoves, Walk, BeginSource, SourceMissing, ListDirectory, CannotList, EndScan, TakeDirectory, PassEntry, scanVars
<1> QED
  BY <1>1, <1>2

-----------------------------------------------------------------------------
(* Theorems.                                                               *)

(* A scan begins with nothing taken.                                       *)
LEMMA ScanBegins ==
    ASSUME ScanInit
    PROVE  DiscoveryInv
<1>1. World(world) /\ seen = <<>> /\ kinds = <<>> /\ stack = <<>> /\ listing = {} /\ spec = 1 /\ scan = "idle" /\ moved = {}
  BY DiscoveryAssumption DEF ScanInit
<1>2. Len(world.specs) \in Nat
  BY <1>1 DEF World
<1>3. TypeOK
  BY <1>1, <1>2 DEF TypeOK
<1>4. ListingInv /\ SeenInv /\ LostInv /\ KindInv
  BY <1>1 DEF ListingInv, SeenInv, LostInv, KindInv, Exhausted
<1>5. CoverInv
  BY <1>1 DEF CoverInv
<1> QED
  BY <1>3, <1>4, <1>5 DEF DiscoveryInv

(* At every point of the walk, however files move: what was taken is known *)
(* by what it is, and what was gone into is covered (scan_sources).        *)
THEOREM DiscoveryInvariance == Spec => []DiscoveryInv
<1>1. Init => DiscoveryInv
  BY ScanBegins DEF Init
<1>2. DiscoveryInv /\ [Next]_vars => DiscoveryInv'
  <2> SUFFICES ASSUME DiscoveryInv, [Next]_vars PROVE DiscoveryInv'
    OBVIOUS
  <2>1. ScanMoves
    BY DEF Next, ScanStep, ParseStep, OpenFile, PassFile, NextLine, EndFile, NextFile, Disturb, vars, ScanMoves
  <2>2. TypeOK /\ ListingInv /\ SeenInv /\ CoverInv /\ LostInv /\ KindInv
    BY DEF DiscoveryInv
  <2> QED
    BY <2>1, <2>2, TypeKept, ListingKept, SeenKept, CoverKept, LostKept, KindKept DEF DiscoveryInv
<1> QED
  BY <1>1, <1>2, PTL DEF Spec

(* What is under a directory lies in one of those that were gone into.     *)
LEMMA UnderIsCovered ==
    ASSUME TypeOK, NEW k \in DOMAIN world.specs, NEW ds, Covered(k, ds, {}, {}), NEW e \in DOMAIN world.entries,
           world.specs[k].root = e \/ Under(e, world.specs[k].root), Due(e)
    PROVE  Taken(e, k)
<1> DEFINE root == world.specs[k].root
<1>1. CASE root = e
  BY <1>1 DEF Covered
<1>2. CASE root \in DOMAIN world.entries /\ root # e
  <2>1. Closed({root})
    BY <1>2 DEF Closed, TypeOK, World, Entry
  <2>2. Entry(e).in = root
    BY <1>2, <2>1 DEF Under
  <2> QED
    BY <1>2, <2>2 DEF TypeOK, World, Entry
<1>3. CASE root \notin DOMAIN world.entries
  <2> DEFINE gone == ds \cap (Places \cup {root})
  <2>1. root \in gone
    BY <1>3 DEF Covered
  <2>2. Closed(gone)
    BY DEF Closed, Covered, Places, Descends
  <2>3. Entry(e).in \in gone
    BY <1>3, <2>1, <2>2 DEF Under
  <2> QED
    BY <2>3 DEF Covered
<1> QED
  BY <1>1, <1>2, <1>3

(* No file is taken twice for a host, and none that stayed where it was    *)
(* under a source that could be listed is missed, at whatever depth, with  *)
(* whatever links, on every platform (scan_sources, physical_identity).    *)
THEOREM ScansTakeOnce == Spec => []ScanTakesOnce
<1>1. DiscoveryInv => ScanTakesOnce
  <2> SUFFICES ASSUME DiscoveryInv, Walked PROVE ScanTakesOnce
    BY DEF ScanTakesOnce, TakenOnce
  <2>1. TypeOK /\ ListingInv /\ SeenInv /\ CoverInv
    BY DEF DiscoveryInv
  <2>2. ASSUME NEW i \in DOMAIN seen, NEW j \in DOMAIN seen, i # j, SameFile(seen[i], seen[j])
        PROVE  \/ world.platform # "posix" /\ ~(Undisturbed(seen[i].name) /\ Undisturbed(seen[j].name))
               \/ world.platform = "inodeless" /\ Resolved(seen[i].name) # Resolved(seen[j].name)
    <3>1. Known(seen[i]) /\ Known(seen[j]) /\ seen[i].key # seen[j].key
      BY <2>1, <2>2 DEF SeenInv
    <3>2. seen[i].key[1] # seen[j].key[1]
      BY <2>2, <3>1 DEF Known, SameFile
    <3>3. CASE world.platform = "inodeless"
      BY <3>1, <3>2, <3>3 DEF Known
    <3>4. CASE world.platform # "inodeless"
      <4>1. \/ seen[i].key[1] = <<seen[i].file>>
            \/ world.platform = "windows" /\ seen[i].name \in moved
        BY <3>1, <3>4 DEF Known
      <4>2. \/ seen[j].key[1] = <<seen[j].file>>
            \/ world.platform = "windows" /\ seen[j].name \in moved
        BY <3>1, <3>4 DEF Known
      <4> QED
        BY <2>2, <3>2, <4>1, <4>2 DEF SameFile, Undisturbed
    <3> QED
      BY <3>3, <3>4
  <2>3. ASSUME denied = {}, NEW k \in DOMAIN world.specs, NEW e \in DOMAIN world.entries,
               Due(e), world.specs[k].root = e \/ Under(e, world.specs[k].root)
        PROVE  Taken(e, k)
    <3>1. k \in 1..spec - 1
      BY <2>1 DEF Walked, ListingInv, TypeOK, World
    <3>2. PICK ds \in SUBSET Listable : Covered(k, ds, {}, {})
      BY <2>1, <2>3, <3>1 DEF CoverInv
    <3> QED
      BY <2>1, <2>3, <3>2, UnderIsCovered
  <2> QED
    BY <2>2, <2>3 DEF ScanTakesOnce, TakenOnce
<1> QED
  BY <1>1, DiscoveryInvariance, PTL

(* The kind of a file that stayed in place is justified by its head, for   *)
(* every head (classify_file).                                             *)
THEOREM KindsJustified == Spec => []KindsAreJustified
<1>1. DiscoveryInv => KindsAreJustified
  <2> SUFFICES ASSUME DiscoveryInv, NEW i \in DOMAIN kinds, kinds[i] \notin {"pending", "evtx"}, StillThere(i),
                      seen[i].name \notin moved
               PROVE  KindFits(Prefix(world.contents[FileOf(seen[i].name)]), kinds[i])
    BY DEF KindsAreJustified
  <2>1. TypeOK /\ SeenInv /\ KindInv
    BY DEF DiscoveryInv
  <2>2. seen[i].name \in DOMAIN world.entries
    BY <2>1 DEF TypeOK, SeenInv, Known
  <2>3. world.contents[FileOf(seen[i].name)] \in FileHead
    BY <2>1, <2>2, FileIsThere DEF StillThere, TypeOK, World
  <2>4. kinds[i] = ClassifyFile(Prefix(world.contents[FileOf(seen[i].name)]))
    BY <2>1 DEF KindInv
  <2> QED
    BY <2>3, <2>4, PrefixIsHead, ClassifyFits
<1> QED
  BY <1>1, DiscoveryInvariance, PTL

-----------------------------------------------------------------------------
(* The lines of a file.                                                    *)

(* With a row more, its lines are in a row.                                *)
LEMMA RowsAfter ==
    ASSUME NEW kind, NEW lines, NEW p \in Parser, NEW q \in Parser, NEW n \in Nat, Accounted(kind, lines, p, n),
           NEW ls \in Seq(Nat), NEW t \in Nat, TimeFits(kind, lines, ls[1], t),
           q.rows = Append(p.rows, [lines |-> ls, time |-> t]), ToSet(ls) \cap InRows(p) = {}
    PROVE  /\ InRows(q) = InRows(p) \cup ToSet(ls)
           /\ \A j, k \in DOMAIN q.rows : j # k => ToSet(q.rows[j].lines) \cap ToSet(q.rows[k].lines) = {}
           /\ \A k \in DOMAIN q.rows : TimeFits(kind, lines, q.rows[k].lines[1], q.rows[k].time)
<1> DEFINE r == [lines |-> ls, time |-> t]
           last == Len(p.rows) + 1
<1>1. p.rows \in Seq(ToSet(p.rows)) /\ q.rows = Append(p.rows, r)
  BY SelfTyped DEF Parser
<1>2. /\ DOMAIN q.rows = DOMAIN p.rows \cup {last} /\ last \notin DOMAIN p.rows
      /\ q.rows[last] = r /\ \A i \in DOMAIN p.rows : q.rows[i] = p.rows[i]
  <2> HIDE DEF r
  <2> QED
    BY <1>1, Appended
<1> HIDE DEF last
<1>3. r.lines = ls /\ r.time = t
  OBVIOUS
<1> HIDE DEF r
<1>4. InRows(q) = InRows(p) \cup ToSet(ls)
  BY <1>2, <1>3 DEF InRows
<1>5. \A k \in DOMAIN p.rows : ToSet(p.rows[k].lines) \cap ToSet(ls) = {}
  BY DEF InRows
<1>6. /\ \A j, k \in DOMAIN p.rows : j # k => ToSet(p.rows[j].lines) \cap ToSet(p.rows[k].lines) = {}
      /\ \A k \in DOMAIN p.rows : TimeFits(kind, lines, p.rows[k].lines[1], p.rows[k].time)
  BY DEF Accounted
<1> QED
  BY <1>2, <1>3, <1>4, <1>5, <1>6

(* The record that is open becomes a row.                                  *)
LEMMA FlushIs ==
    ASSUME NEW p \in Parser, p.open # <<>>
    PROVE  LET q == Flush(p)
           IN  /\ q \in Parser /\ q.rows = Append(p.rows, [lines |-> p.open, time |-> p.time])
               /\ q.open = <<>> /\ q.time = 0 /\ q.stamp = p.stamp /\ q.raised = p.raised
               /\ q.errors = p.errors /\ q.notes = p.notes
<1> DEFINE q == Flush(p)
           r == [lines |-> p.open, time |-> p.time]
<1>1. r \in [lines : Seq(Nat), time : Nat] /\ p.rows \in Seq([lines : Seq(Nat), time : Nat])
  BY DEF Parser
<1> HIDE DEF r
<1>2. Append(p.rows, r) \in Seq([lines : Seq(Nat), time : Nat])
  BY <1>1
<1>3. q = [[p EXCEPT !.rows = Append(p.rows, r)] EXCEPT !.open = <<>>, !.time = 0]
  BY DEF Flush, Emit, r
<1>4. q \in Parser
  <2>1. PICK rows \in Seq([lines : Seq(Nat), time : Nat]) : rows = Append(p.rows, r)
    BY <1>2
  <2>2. [p EXCEPT !.rows = rows] \in Parser
    BY DEF Parser
  <2>3. PICK a \in Parser : a = [p EXCEPT !.rows = rows]
    BY <2>2
  <2>4. <<>> \in Seq(Nat)
    OBVIOUS
  <2>5. \A o \in Seq(Nat) : [a EXCEPT !.open = o, !.time = 0] \in Parser
    BY DEF Parser
  <2> QED
    BY <1>3, <2>1, <2>3, <2>4, <2>5
<1>5. /\ q.rows = Append(p.rows, r) /\ q.open = <<>> /\ q.time = 0 /\ q.stamp = p.stamp /\ q.raised = p.raised
      /\ q.errors = p.errors /\ q.notes = p.notes
  BY <1>2, <1>3 DEF Parser
<1> HIDE DEF q
<1> QED
  BY <1>4, <1>5 DEF q, r

(* It is a row with the time of its first line.                            *)
LEMMA FlushCounts ==
    ASSUME NEW kind, NEW lines, NEW p \in Parser, NEW n \in Nat, Accounted(kind, lines, p, n)
    PROVE  /\ Flush(p) \in Parser /\ Accounted(kind, lines, Flush(p), n) /\ Flush(p).open = <<>>
           /\ Flush(p).stamp = p.stamp /\ Flush(p).raised = p.raised
<1>1. CASE p.open = <<>>
  BY <1>1 DEF Flush
<1>2. CASE p.open # <<>>
  <2>1. PICK q : q = Flush(p)
    OBVIOUS
  <2>2. /\ q \in Parser /\ q.rows = Append(p.rows, [lines |-> p.open, time |-> p.time])
        /\ q.open = <<>> /\ q.time = 0 /\ q.stamp = p.stamp /\ q.raised = p.raised
        /\ q.errors = p.errors /\ q.notes = p.notes
    BY <1>2, <2>1, FlushIs
  <2>3. p.open \in Seq(Nat) /\ p.time \in Nat
    BY DEF Parser
  <2>4. TimeFits(kind, lines, p.open[1], p.time) /\ ToSet(p.open) \cap InRows(p) = {}
    BY <1>2 DEF Accounted, TimeFits
  <2>5. /\ InRows(q) = InRows(p) \cup ToSet(p.open)
        /\ \A j, k \in DOMAIN q.rows : j # k => ToSet(q.rows[j].lines) \cap ToSet(q.rows[k].lines) = {}
        /\ \A k \in DOMAIN q.rows : TimeFits(kind, lines, q.rows[k].lines[1], q.rows[k].time)
    BY <2>2, <2>3, <2>4, RowsAfter
  <2>6. ToSet(q.open) = {}
    BY <2>2 DEF ToSet
  <2>7. Accounted(kind, lines, q, n)
    BY <2>2, <2>5, <2>6 DEF Accounted
  <2> QED
    BY <2>1, <2>2, <2>7
<1> QED
  BY <1>1, <1>2

(* A line that is a row of its own.                                        *)
LEMMA EmitCounts ==
    ASSUME NEW kind, NEW lines, NEW p \in Parser, NEW n \in Nat, Accounted(kind, lines, p, n),
           NEW t \in Nat, TimeFits(kind, lines, n + 1, t)
    PROVE  LET q == Emit(p, <<n + 1>>, t)
           IN  /\ q \in Parser /\ Accounted(kind, lines, q, n + 1)
               /\ q.open = p.open /\ q.stamp = p.stamp /\ q.raised = p.raised
<1> DEFINE ls == <<n + 1>>
           q == Emit(p, ls, t)
           r == [lines |-> ls, time |-> t]
<1>1. ls \in Seq(Nat) /\ ls[1] = n + 1 /\ ToSet(ls) = {n + 1}
  BY DEF ToSet
<1> HIDE DEF ls
<1>2. r \in [lines : Seq(Nat), time : Nat] /\ p.rows \in Seq([lines : Seq(Nat), time : Nat])
  BY <1>1 DEF Parser
<1>3. q \in Parser
  <2> HIDE DEF r
  <2>1. Append(p.rows, r) \in Seq([lines : Seq(Nat), time : Nat])
    BY <1>2
  <2>2. PICK rows \in Seq([lines : Seq(Nat), time : Nat]) : rows = Append(p.rows, r)
    BY <2>1
  <2>3. q = [p EXCEPT !.rows = rows]
    BY <2>2 DEF Emit, r
  <2> QED
    BY <2>3 DEF Parser
<1>4. /\ q.rows = Append(p.rows, r) /\ q.open = p.open /\ q.time = p.time /\ q.stamp = p.stamp /\ q.raised = p.raised
      /\ q.errors = p.errors /\ q.notes = p.notes
  BY DEF Parser, Emit
<1> HIDE DEF q
<1>5. n + 1 \notin InRows(p) \cup ToSet(p.open) \cup p.errors \cup p.notes
  BY DEF Accounted
<1>6. /\ InRows(q) = InRows(p) \cup ToSet(ls)
      /\ \A j, k \in DOMAIN q.rows : j # k => ToSet(q.rows[j].lines) \cap ToSet(q.rows[k].lines) = {}
      /\ \A k \in DOMAIN q.rows : TimeFits(kind, lines, q.rows[k].lines[1], q.rows[k].time)
  <2>1. TimeFits(kind, lines, ls[1], t) /\ ToSet(ls) \cap InRows(p) = {}
    BY <1>1, <1>5
  <2>2. q.rows = Append(p.rows, [lines |-> ls, time |-> t])
    BY <1>4
  <2> HIDE DEF r
  <2> QED
    BY <1>1, <1>3, <2>1, <2>2, RowsAfter
<1>7. 1..n + 1 = 1..n \cup {n + 1}
  OBVIOUS
<1>8. Accounted(kind, lines, q, n + 1)
  <2>1. PICK x : x = n + 1 /\ ToSet(ls) = {x} /\ x \notin InRows(p) \cup ToSet(p.open) \cup p.errors \cup p.notes
    BY <1>1, <1>5
  <2>2. /\ InRows(q) \cup ToSet(q.open) \cup q.errors \cup q.notes = 1..n + 1
        /\ (InRows(q) \cup ToSet(q.open)) \cap (q.errors \cup q.notes) = {}
        /\ InRows(q) \cap ToSet(q.open) = {} /\ q.errors \cap q.notes = {}
    BY <1>4, <1>6, <1>7, <2>1 DEF Accounted
  <2>3. q.open # <<>> => q.time \in {0, q.open[1]}
    BY <1>4 DEF Accounted
  <2> QED
    BY <1>6, <2>2, <2>3 DEF Accounted
<1> QED
  BY <1>3, <1>4, <1>8 DEF q, ls

(* A line that is an error.                                                *)
LEMMA RejectCounts ==
    ASSUME NEW kind, NEW lines, NEW p \in Parser, NEW n \in Nat, Accounted(kind, lines, p, n)
    PROVE  LET q == Reject(p, n + 1)
           IN  /\ q \in Parser /\ Accounted(kind, lines, q, n + 1)
               /\ q.open = p.open /\ q.stamp = p.stamp /\ q.raised = p.raised
<1> DEFINE q == Reject(p, n + 1)
<1>1. q \in Parser
  <2>1. p.errors \cup {n + 1} \in SUBSET Nat
    BY DEF Parser
  <2> QED
    BY <2>1 DEF Parser, Reject
<1>2. /\ q.rows = p.rows /\ q.open = p.open /\ q.time = p.time /\ q.stamp = p.stamp /\ q.raised = p.raised
      /\ q.errors = p.errors \cup {n + 1} /\ q.notes = p.notes
  BY DEF Parser, Reject
<1> HIDE DEF q
<1>3. n + 1 \notin InRows(p) \cup ToSet(p.open) \cup p.errors \cup p.notes
  BY DEF Accounted
<1>4. InRows(q) = InRows(p) /\ 1..n + 1 = 1..n \cup {n + 1}
  BY <1>2 DEF InRows
<1>5. Accounted(kind, lines, q, n + 1)
  <2>1. /\ InRows(q) \cup ToSet(q.open) \cup q.errors \cup q.notes = 1..n + 1
        /\ (InRows(q) \cup ToSet(q.open)) \cap (q.errors \cup q.notes) = {}
        /\ InRows(q) \cap ToSet(q.open) = {} /\ q.errors \cap q.notes = {}
    BY <1>2, <1>3, <1>4 DEF Accounted
  <2>2. /\ \A j, k \in DOMAIN q.rows : j # k => ToSet(q.rows[j].lines) \cap ToSet(q.rows[k].lines) = {}
        /\ \A k \in DOMAIN q.rows : TimeFits(kind, lines, q.rows[k].lines[1], q.rows[k].time)
        /\ q.open # <<>> => q.time \in {0, q.open[1]}
    BY <1>2 DEF Accounted
  <2> QED
    BY <2>1, <2>2 DEF Accounted
<1> QED
  BY <1>1, <1>2, <1>5 DEF q

(* A line that is none.                                                    *)
LEMMA IgnoreCounts ==
    ASSUME NEW kind, NEW lines, NEW p \in Parser, NEW n \in Nat, Accounted(kind, lines, p, n)
    PROVE  LET q == Ignore(p, n + 1)
           IN  /\ q \in Parser /\ Accounted(kind, lines, q, n + 1)
               /\ q.open = p.open /\ q.stamp = p.stamp /\ q.raised = p.raised
<1> DEFINE q == Ignore(p, n + 1)
<1>1. q \in Parser
  <2>1. p.notes \cup {n + 1} \in SUBSET Nat
    BY DEF Parser
  <2> QED
    BY <2>1 DEF Parser, Ignore
<1>2. /\ q.rows = p.rows /\ q.open = p.open /\ q.time = p.time /\ q.stamp = p.stamp /\ q.raised = p.raised
      /\ q.errors = p.errors /\ q.notes = p.notes \cup {n + 1}
  BY DEF Parser, Ignore
<1> HIDE DEF q
<1>3. n + 1 \notin InRows(p) \cup ToSet(p.open) \cup p.errors \cup p.notes
  BY DEF Accounted
<1>4. InRows(q) = InRows(p) /\ 1..n + 1 = 1..n \cup {n + 1}
  BY <1>2 DEF InRows
<1>5. Accounted(kind, lines, q, n + 1)
  <2>1. /\ InRows(q) \cup ToSet(q.open) \cup q.errors \cup q.notes = 1..n + 1
        /\ (InRows(q) \cup ToSet(q.open)) \cap (q.errors \cup q.notes) = {}
        /\ InRows(q) \cap ToSet(q.open) = {} /\ q.errors \cap q.notes = {}
    BY <1>2, <1>3, <1>4 DEF Accounted
  <2>2. /\ \A j, k \in DOMAIN q.rows : j # k => ToSet(q.rows[j].lines) \cap ToSet(q.rows[k].lines) = {}
        /\ \A k \in DOMAIN q.rows : TimeFits(kind, lines, q.rows[k].lines[1], q.rows[k].time)
        /\ q.open # <<>> => q.time \in {0, q.open[1]}
    BY <1>2 DEF Accounted
  <2> QED
    BY <2>1, <2>2 DEF Accounted
<1> QED
  BY <1>1, <1>2, <1>5 DEF q

(* A line of the record that is open.                                      *)
LEMMA AttachCounts ==
    ASSUME NEW kind, NEW lines, NEW p \in Parser, NEW n \in Nat, Accounted(kind, lines, p, n), p.open # <<>>
    PROVE  LET q == Attach(p, n + 1)
           IN  /\ q \in Parser /\ Accounted(kind, lines, q, n + 1) /\ q.stamp = p.stamp /\ q.raised = p.raised
<1> DEFINE q == Attach(p, n + 1)
           x == n + 1
<1>0. x \in Nat /\ p.open \in Seq(Nat)
  BY DEF Parser
<1>1. q \in Parser
  <2>0. Append(p.open, x) \in Seq(Nat)
    BY <1>0
  <2>1. PICK o \in Seq(Nat) : o = Append(p.open, x)
    BY <2>0
  <2>2. q = [p EXCEPT !.open = o]
    BY <2>1 DEF Attach
  <2> QED
    BY <2>2 DEF Parser
<1>2. /\ q.rows = p.rows /\ q.open = Append(p.open, x) /\ q.time = p.time /\ q.stamp = p.stamp /\ q.raised = p.raised
      /\ q.errors = p.errors /\ q.notes = p.notes
  BY DEF Parser, Attach
<1> HIDE DEF q
<1>3. x \notin InRows(p) \cup ToSet(p.open) \cup p.errors \cup p.notes
  BY DEF Accounted
<1>4. InRows(q) = InRows(p) /\ 1..n + 1 = 1..n \cup {x}
  BY <1>2 DEF InRows
<1>5. ToSet(q.open) = ToSet(p.open) \cup {x}
  BY <1>0, <1>2, SelfTyped, Appended
<1>6. q.open[1] = p.open[1]
  BY <1>0, <1>2
<1>7. p.time \in {0, p.open[1]}
  BY DEF Accounted
<1> HIDE DEF x
<1>8. Accounted(kind, lines, q, n + 1)
  <2>1. /\ InRows(q) \cup ToSet(q.open) \cup q.errors \cup q.notes = 1..n + 1
        /\ (InRows(q) \cup ToSet(q.open)) \cap (q.errors \cup q.notes) = {}
        /\ InRows(q) \cap ToSet(q.open) = {} /\ q.errors \cap q.notes = {}
    BY <1>2, <1>3, <1>4, <1>5 DEF Accounted
  <2>2. /\ \A j, k \in DOMAIN q.rows : j # k => ToSet(q.rows[j].lines) \cap ToSet(q.rows[k].lines) = {}
        /\ \A k \in DOMAIN q.rows : TimeFits(kind, lines, q.rows[k].lines[1], q.rows[k].time)
    BY <1>2 DEF Accounted
  <2> QED
    BY <1>2, <1>6, <1>7, <2>1, <2>2 DEF Accounted
<1> QED
  BY <1>1, <1>2, <1>8 DEF q, x

(* What is counted does not depend on the rest of the state of a parser.   *)
LEMMA SameCounts ==
    ASSUME NEW kind, NEW lines, NEW p, NEW q, NEW n, Accounted(kind, lines, p, n),
           q.rows = p.rows, q.open = p.open, q.time = p.time, q.errors = p.errors, q.notes = p.notes
    PROVE  Accounted(kind, lines, q, n)
<1>1. InRows(q) = InRows(p)
  BY DEF InRows
<1>2. PICK r, o, i : r = p.rows /\ o = p.open /\ i = InRows(p)
  OBVIOUS
<1>3. /\ i \cup ToSet(o) \cup p.errors \cup p.notes = 1..n
      /\ (i \cup ToSet(o)) \cap (p.errors \cup p.notes) = {}
      /\ i \cap ToSet(o) = {} /\ p.errors \cap p.notes = {}
  BY <1>2 DEF Accounted
<1>4. /\ \A j, k \in DOMAIN r : j # k => ToSet(r[j].lines) \cap ToSet(r[k].lines) = {}
      /\ \A k \in DOMAIN r : TimeFits(kind, lines, r[k].lines[1], r[k].time)
      /\ o # <<>> => p.time \in {0, o[1]}
  BY <1>2 DEF Accounted
<1> QED
  BY <1>1, <1>2, <1>3, <1>4 DEF Accounted

(* It goes on, or the record is too large and the parser gives up.         *)
LEMMA GoOnCounts ==
    ASSUME NEW kind, NEW lines, NEW p \in Parser, NEW n \in Nat, Accounted(kind, lines, p, n), p.open # <<>>, NEW limit
    PROVE  LET q == GoOn(p, n + 1, limit)
           IN  q \in Parser /\ (~q.raised => Accounted(kind, lines, q, n + 1)) /\ q.stamp = p.stamp
<1> DEFINE a == Attach(p, n + 1)
<1>1. CASE p.more >= limit
  BY <1>1 DEF GoOn, Raise, Parser
<1>2. CASE ~(p.more >= limit)
  <2> DEFINE q == [a EXCEPT !.more = @ + 1]
  <2>1. GoOn(p, n + 1, limit) = q
    BY <1>2 DEF GoOn
  <2>2. a \in Parser /\ Accounted(kind, lines, a, n + 1) /\ a.stamp = p.stamp
    BY AttachCounts
  <2> HIDE DEF a
  <2>3. q \in Parser
    <3>1. PICK m \in Nat : m = a.more + 1
      BY <2>2 DEF Parser
    <3>2. q = [a EXCEPT !.more = m]
      BY <3>1
    <3> QED
      BY <2>2, <3>2 DEF Parser
  <2>4. /\ q.rows = a.rows /\ q.open = a.open /\ q.time = a.time /\ q.errors = a.errors /\ q.notes = a.notes
        /\ q.stamp = a.stamp
    BY <2>2 DEF Parser
  <2> HIDE DEF q
  <2> QED
    BY <2>1, <2>2, <2>3, <2>4, SameCounts
<1> QED
  BY <1>1, <1>2

(* A line that begins a record, and ends the one before.                   *)
LEMMA OpenCounts ==
    ASSUME NEW kind, NEW lines, NEW p \in Parser, NEW n \in Nat, Accounted(kind, lines, p, n), NEW t \in {0, n + 1}
    PROVE  LET q == Open(p, n + 1, t)
           IN  q \in Parser /\ Accounted(kind, lines, q, n + 1) /\ q.stamp = p.stamp /\ q.raised = p.raised
<1> DEFINE f == Flush(p)
           q == Open(p, n + 1, t)
           x == <<n + 1>>
<1>1. f \in Parser /\ Accounted(kind, lines, f, n) /\ f.open = <<>> /\ f.stamp = p.stamp /\ f.raised = p.raised
  BY FlushCounts
<1>2. x \in Seq(Nat) /\ x[1] = n + 1 /\ ToSet(x) = {n + 1}
  BY DEF ToSet
<1>3. q = [f EXCEPT !.open = x, !.time = t, !.more = 0]
  BY DEF Open
<1> HIDE DEF f, q, x
<1>4. q \in Parser
  BY <1>1, <1>2, <1>3, t \in Nat DEF Parser
<1>5. /\ q.rows = f.rows /\ q.open = x /\ q.time = t /\ q.stamp = f.stamp /\ q.raised = f.raised
      /\ q.errors = f.errors /\ q.notes = f.notes
  BY <1>1, <1>3 DEF Parser
<1>6. n + 1 \notin InRows(f) \cup f.errors \cup f.notes /\ ToSet(f.open) = {}
  BY <1>1 DEF Accounted, ToSet
<1>7. InRows(q) = InRows(f) /\ 1..n + 1 = 1..n \cup {n + 1}
  BY <1>5 DEF InRows
<1>8. Accounted(kind, lines, q, n + 1)
  <2>1. PICK m : m = n + 1 /\ ToSet(x) = {m} /\ m \notin InRows(f) \cup f.errors \cup f.notes
    BY <1>2, <1>6
  <2>2. /\ InRows(q) \cup ToSet(q.open) \cup q.errors \cup q.notes = 1..n + 1
        /\ (InRows(q) \cup ToSet(q.open)) \cap (q.errors \cup q.notes) = {}
        /\ InRows(q) \cap ToSet(q.open) = {} /\ q.errors \cap q.notes = {}
    BY <1>1, <1>5, <1>6, <1>7, <2>1 DEF Accounted
  <2>3. /\ \A j, k \in DOMAIN q.rows : j # k => ToSet(q.rows[j].lines) \cap ToSet(q.rows[k].lines) = {}
        /\ \A k \in DOMAIN q.rows : TimeFits(kind, lines, q.rows[k].lines[1], q.rows[k].time)
    BY <1>1, <1>5 DEF Accounted
  <2>4. q.time \in {0, q.open[1]}
    BY <1>2, <1>5
  <2> QED
    BY <2>2, <2>3, <2>4 DEF Accounted
<1> QED
  BY <1>1, <1>4, <1>5, <1>8 DEF q

(* What holds of a parser between two lines is kept by the next one.       *)
Keeps(kind, lines, q, n) ==
    /\ q \in Parser
    /\ ~q.raised => /\ Accounted(kind, lines, q, n)
                    /\ kind = "mysql_general" => Stamped(lines, q, n)

(* For the kinds whose rows bear the time of their own line.               *)
LEMMA LineCounts ==
    ASSUME NEW kind, kind # "mysql_general", NEW lines, NEW p \in Parser, NEW n \in Nat, Accounted(kind, lines, p, n), NEW s
    PROVE  \A shapes : Keeps(kind, lines, OnePerLine(p, n + 1, s, shapes), n + 1)
<1>1. TimeFits(kind, lines, n + 1, n + 1) /\ n + 1 \in Nat
  BY DEF TimeFits
<1> QED
  BY <1>1, EmitCounts, RejectCounts, IgnoreCounts DEF OnePerLine, Keeps

(* With columns that are declared.                                         *)
LEMMA ColumnsCount ==
    ASSUME NEW kind, kind # "mysql_general", NEW lines, NEW p \in Parser, NEW n \in Nat, Accounted(kind, lines, p, n), NEW s,
           NEW declarations
    PROVE  Keeps(kind, lines, W3C(p, n + 1, s, declarations), n + 1)
<1>1. TimeFits(kind, lines, n + 1, n + 1) /\ n + 1 \in Nat
  BY DEF TimeFits
<1>2. CASE s \in declarations
  <2> DEFINE a == Ignore(p, n + 1)
             q == [a EXCEPT !.fields = TRUE]
  <2>1. a \in Parser /\ Accounted(kind, lines, a, n + 1)
    BY IgnoreCounts
  <2>2. W3C(p, n + 1, s, declarations) = q
    BY <1>2 DEF W3C
  <2> HIDE DEF a
  <2>3. q \in Parser /\ q.rows = a.rows /\ q.open = a.open /\ q.time = a.time /\ q.errors = a.errors /\ q.notes = a.notes
    BY <2>1 DEF Parser
  <2> HIDE DEF q
  <2> QED
    BY <2>1, <2>2, <2>3, SameCounts DEF Keeps
<1>3. CASE s \notin declarations
  BY <1>1, <1>3, EmitCounts, RejectCounts, IgnoreCounts DEF W3C, Keeps
<1> QED
  BY <1>2, <1>3

(* With fields that may hold lines.                                        *)
LEMMA ExchangeCounts ==
    ASSUME NEW kind, kind # "mysql_general", NEW lines, NEW p \in Parser, NEW n \in Nat, Accounted(kind, lines, p, n), NEW s
    PROVE  Keeps(kind, lines, Exchange(p, n + 1, s), n + 1)
<1>1. CASE p.open # <<>>
  <2>1. CASE s = "quote_close" /\ p.more < MaxMore
    <3> DEFINE a == Attach(p, n + 1)
    <3>1. a \in Parser /\ Accounted(kind, lines, a, n + 1) /\ n + 1 \in Nat
      BY <1>1, AttachCounts
    <3>2. Exchange(p, n + 1, s) = Flush(a)
      BY <1>1, <2>1 DEF Exchange
    <3> HIDE DEF a
    <3> QED
      BY <3>1, <3>2, FlushCounts DEF Keeps
  <2>2. CASE ~(s = "quote_close" /\ p.more < MaxMore)
    <3>1. Exchange(p, n + 1, s) = GoOn(p, n + 1, MaxMore)
      BY <1>1, <2>2 DEF Exchange
    <3>2. \A limit : Keeps(kind, lines, GoOn(p, n + 1, limit), n + 1)
      BY <1>1, GoOnCounts DEF Keeps
    <3> QED
      BY <3>1, <3>2
  <2> QED
    BY <2>1, <2>2
<1>2. CASE p.open = <<>> /\ s = "quote_open" /\ p.fields
  <2>1. Exchange(p, n + 1, s) = Open(p, n + 1, n + 1)
    BY <1>2 DEF Exchange
  <2> QED
    BY <2>1, OpenCounts DEF Keeps
<1>3. CASE p.open = <<>> /\ ~(s = "quote_open" /\ p.fields)
  <2>1. Exchange(p, n + 1, s) = W3C(p, n + 1, s, AnyFields)
    BY <1>3 DEF Exchange
  <2> QED
    BY <2>1, ColumnsCount
<1> QED
  BY <1>1, <1>2, <1>3

(* With records of several lines.                                          *)
LEMMA RecordsCount ==
    ASSUME NEW kind, kind # "mysql_general", NEW lines, NEW p \in Parser, NEW n \in Nat, Accounted(kind, lines, p, n), NEW s
    PROVE  /\ Keeps(kind, lines, Tomcat(p, n + 1, s), n + 1)
           /\ Keeps(kind, lines, OracleAlert(p, n + 1, s), n + 1)
           /\ Keeps(kind, lines, MysqlSlow(p, n + 1, s), n + 1)
           /\ \A heads : Keeps(kind, lines, QCloud(p, n + 1, s, heads), n + 1)
<1>1. \A t \in {0, n + 1} : Keeps(kind, lines, Open(p, n + 1, t), n + 1)
  BY OpenCounts DEF Keeps
<1>2. Keeps(kind, lines, Reject(p, n + 1), n + 1) /\ Keeps(kind, lines, Ignore(p, n + 1), n + 1)
  BY RejectCounts, IgnoreCounts DEF Keeps
<1>3. p.open # <<>> => /\ \A limit : Keeps(kind, lines, GoOn(p, n + 1, limit), n + 1)
                       /\ Keeps(kind, lines, Attach(p, n + 1), n + 1)
  BY GoOnCounts, AttachCounts DEF Keeps
<1>4. Keeps(kind, lines, Tomcat(p, n + 1, s), n + 1)
  BY <1>1, <1>2, <1>3 DEF Tomcat
<1>5. Keeps(kind, lines, OracleAlert(p, n + 1, s), n + 1)
  BY <1>1, <1>2, <1>3 DEF OracleAlert
<1>6. Keeps(kind, lines, MysqlSlow(p, n + 1, s), n + 1)
  BY <1>1, <1>2, <1>3 DEF MysqlSlow
<1>7. \A heads : Keeps(kind, lines, QCloud(p, n + 1, s, heads), n + 1)
  BY <1>1, <1>2, <1>3 DEF QCloud
<1> QED
  BY <1>4, <1>5, <1>6, <1>7

(* With damaged headers.                                                   *)
LEMMA AegisCounts ==
    ASSUME NEW kind, kind # "mysql_general", NEW lines, NEW p \in Parser, NEW n \in Nat, Accounted(kind, lines, p, n), NEW s
    PROVE  Keeps(kind, lines, AegisLines(p, n + 1, s), n + 1)
<1>1. CASE s \in {"aegis_undated", "damaged"}
  <2>1. AegisLines(p, n + 1, s) = Reject(Flush(p), n + 1)
    BY <1>1 DEF AegisLines, AegisHeaders
  <2>2. Flush(p) \in Parser /\ Accounted(kind, lines, Flush(p), n)
    BY FlushCounts
  <2> QED
    BY <2>1, <2>2, RejectCounts DEF Keeps
<1>2. CASE s \notin {"aegis_undated", "damaged"}
  <2>1. Keeps(kind, lines, Open(p, n + 1, n + 1), n + 1)
    BY OpenCounts DEF Keeps
  <2>2. Keeps(kind, lines, Reject(p, n + 1), n + 1) /\ Keeps(kind, lines, Ignore(p, n + 1), n + 1)
    BY RejectCounts, IgnoreCounts DEF Keeps
  <2>3. p.open # <<>> => \A limit : Keeps(kind, lines, GoOn(p, n + 1, limit), n + 1)
    BY GoOnCounts DEF Keeps
  <2> QED
    BY <1>2, <2>1, <2>2, <2>3 DEF AegisLines
<1> QED
  BY <1>1, <1>2

(* With timestamps that hold for the statements after them.                *)
LEMMA StatementsCount ==
    ASSUME NEW kind, kind = "mysql_general", NEW lines, NEW p \in Parser, NEW n \in Nat, Accounted(kind, lines, p, n),
           Stamped(lines, p, n)
    PROVE  Keeps(kind, lines, MysqlGeneral(p, n + 1, lines[n + 1]), n + 1)
<1> DEFINE s == lines[n + 1]
           stamp == IF s = "general_stamped" THEN n + 1 ELSE p.stamp
<1>1. Stamps(lines, n + 1) = Stamps(lines, n) \cup (IF s = "general_stamped" THEN {n + 1} ELSE {})
  <2>1. 1..n + 1 = 1..n \cup {n + 1}
    OBVIOUS
  <2> QED
    BY <2>1 DEF Stamps
<1>2. stamp = IF Stamps(lines, n + 1) = {} THEN 0 ELSE Max(Stamps(lines, n + 1))
  <2>1. CASE s = "general_stamped"
    <3>1. n + 1 \in Stamps(lines, n + 1) /\ \A y \in Stamps(lines, n + 1) : y \in Nat /\ n + 1 >= y
      BY <1>1, <2>1 DEF Stamps
    <3> QED
      BY <2>1, <3>1 DEF Max
  <2>2. CASE s # "general_stamped"
    BY <1>1, <2>2 DEF Stamped
  <2> QED
    BY <2>1, <2>2
<1>3. stamp \in Nat
  BY DEF Parser
<1> HIDE DEF stamp
<1>4. TimeFits(kind, lines, n + 1, stamp)
  BY <1>2 DEF TimeFits
<1>5. CASE s \in {"blank", "general_header"}
  <2>1. MysqlGeneral(p, n + 1, s) = Ignore(p, n + 1)
    BY <1>5 DEF MysqlGeneral
  <2>2. stamp = p.stamp
    BY <1>5 DEF stamp
  <2> QED
    BY <1>2, <2>1, <2>2, IgnoreCounts DEF Keeps, Stamped
<1>6. CASE s \in {"general_stamped", "general_undated", "general_more"}
  <2> DEFINE a == Emit(p, <<n + 1>>, stamp)
             q == [a EXCEPT !.stamp = stamp]
  <2>1. a \in Parser /\ Accounted(kind, lines, a, n + 1)
    BY <1>3, <1>4, EmitCounts
  <2>2. MysqlGeneral(p, n + 1, s) = q
    BY <1>6 DEF MysqlGeneral, stamp
  <2> HIDE DEF a
  <2>3. /\ q \in Parser /\ q.rows = a.rows /\ q.open = a.open /\ q.time = a.time /\ q.errors = a.errors /\ q.notes = a.notes
        /\ q.stamp = stamp
    BY <1>3, <2>1 DEF Parser
  <2> HIDE DEF q
  <2> QED
    BY <1>2, <2>1, <2>2, <2>3, SameCounts DEF Keeps, Stamped
<1>7. CASE s \notin {"blank", "general_header", "general_stamped", "general_undated", "general_more"}
  <2>1. MysqlGeneral(p, n + 1, s) = Reject(p, n + 1)
    BY <1>7 DEF MysqlGeneral
  <2>2. stamp = p.stamp
    BY <1>7 DEF stamp
  <2> QED
    BY <1>2, <2>1, <2>2, RejectCounts DEF Keeps, Stamped
<1> QED
  BY <1>5, <1>6, <1>7

(* Whatever the kind.                                                      *)
LEMMA ParseCounts ==
    ASSUME NEW kind, NEW lines, NEW p \in Parser, NEW n \in Nat, Accounted(kind, lines, p, n),
           kind = "mysql_general" => Stamped(lines, p, n)
    PROVE  Keeps(kind, lines, ParseLine(kind, p, n + 1, lines[n + 1]), n + 1)
<1> DEFINE s == lines[n + 1]
           q == ParseLine(kind, p, n + 1, s)
<1>1. CASE kind = "mysql_general"
  <2>1. q = MysqlGeneral(p, n + 1, s)
    BY <1>1 DEF ParseLine
  <2> QED
    BY <1>1, <2>1, StatementsCount
<1>2. CASE kind # "mysql_general"
  <2>1. \A shapes : Keeps(kind, lines, OnePerLine(p, n + 1, s, shapes), n + 1)
    BY <1>2, LineCounts
  <2>2. \A declarations : Keeps(kind, lines, W3C(p, n + 1, s, declarations), n + 1)
    BY <1>2, ColumnsCount
  <2>3. Keeps(kind, lines, Exchange(p, n + 1, s), n + 1)
    BY <1>2, ExchangeCounts
  <2>4. /\ Keeps(kind, lines, Tomcat(p, n + 1, s), n + 1)
        /\ Keeps(kind, lines, OracleAlert(p, n + 1, s), n + 1)
        /\ Keeps(kind, lines, MysqlSlow(p, n + 1, s), n + 1)
        /\ \A heads : Keeps(kind, lines, QCloud(p, n + 1, s, heads), n + 1)
    BY <1>2, RecordsCount
  <2>5. Keeps(kind, lines, AegisLines(p, n + 1, s), n + 1)
    BY <1>2, AegisCounts
  <2>6. \/ \E shapes : q = OnePerLine(p, n + 1, s, shapes)
        \/ q = W3C(p, n + 1, s, AnyFields)
        \/ q \in {Exchange(p, n + 1, s), Tomcat(p, n + 1, s), OracleAlert(p, n + 1, s), MysqlSlow(p, n + 1, s)}
        \/ \E heads : q = QCloud(p, n + 1, s, heads)
        \/ q = AegisLines(p, n + 1, s)
    BY <1>2 DEF ParseLine, WebAccess, NginxError, ApacheError, MysqlError, Postgresql, Mssql, Auditd, Journal, Syslog,
                Iis, IisHttperr, Ydservice, GoComponent, Scanner, Ydeyes
  <2> HIDE DEF q
  <2>7. ASSUME \E shapes : q = OnePerLine(p, n + 1, s, shapes) PROVE Keeps(kind, lines, q, n + 1)
    BY <2>1, <2>7
  <2>8. ASSUME \E heads : q = QCloud(p, n + 1, s, heads) PROVE Keeps(kind, lines, q, n + 1)
    BY <2>4, <2>8
  <2>9. Keeps(kind, lines, q, n + 1)
    BY <2>2, <2>3, <2>4, <2>5, <2>6, <2>7, <2>8
  <2> QED
    BY <2>9 DEF q
<1> QED
  BY <1>1, <1>2

(* The end of a file leaves nothing open.                                  *)
LEMMA EndCounts ==
    ASSUME NEW kind, NEW lines, NEW p \in Parser, NEW n \in Nat, ~p.raised, Accounted(kind, lines, p, n),
           kind = "mysql_general" => Stamped(lines, p, n)
    PROVE  Keeps(kind, lines, EndOfLines(kind, p), n) /\ EndOfLines(kind, p).open = <<>>
<1>1. CASE kind \notin Exchanges
  <2>1. EndOfLines(kind, p) = Flush(p)
    BY <1>1 DEF EndOfLines
  <2> QED
    BY <2>1, FlushCounts DEF Keeps, Stamped
<1>2. CASE kind \in Exchanges
  <2> DEFINE x == p.errors \cup ToSet(p.open)
             q == [p EXCEPT !.errors = x, !.open = <<>>]
  <2>1. EndOfLines(kind, p) = q /\ kind # "mysql_general"
    BY <1>2 DEF EndOfLines, Exchanges
  <2>2. x \in SUBSET Nat
    BY DEF Parser, ToSet
  <2>3. ASSUME NEW o \in Seq(Nat), NEW e \in SUBSET Nat
        PROVE  LET r == [p EXCEPT !.errors = e, !.open = o]
               IN  r \in Parser /\ r.rows = p.rows /\ r.open = o /\ r.errors = e /\ r.notes = p.notes
    BY DEF Parser
  <2>4. q \in Parser /\ q.rows = p.rows /\ q.open = <<>> /\ q.errors = x /\ q.notes = p.notes
    <3>1. <<>> \in Seq(Nat)
      OBVIOUS
    <3> HIDE DEF x
    <3> QED
      BY <2>2, <2>3, <3>1
  <2> HIDE DEF q
  <2>5. ToSet(q.open) = {} /\ InRows(q) = InRows(p)
    BY <2>4 DEF ToSet, InRows
  <2>6. Accounted(kind, lines, q, n)
    BY <2>4, <2>5 DEF Accounted
  <2> QED
    BY <2>1, <2>4, <2>6 DEF Keeps
<1> QED
  BY <1>1, <1>2

(* The tree is still when the files are parsed.                            *)
LEMMA StillAtFile ==
    ASSUME UNCHANGED scanVars
    PROVE  /\ StillThere(file') = StillThere(file)'
           /\ file' = file => UNCHANGED <<AtFile, Lines, Readable, StillThere(file), kinds[file]>>
BY DEF scanVars, StillThere, FileOf, Entry, Lines, AtFile, Readable

(* A file that is there has lines.                                         *)
LEMMA LinesAreSequence ==
    ASSUME DiscoveryInv, ParseInv, AtFile, StillThere(file)
    PROVE  Lines \in Seq(Shape) /\ DOMAIN Lines = 1..Len(Lines) /\ Len(Lines) \in Nat
<1>1. TypeOK /\ SeenInv /\ file \in DOMAIN seen
  BY DEF DiscoveryInv, TypeOK, ParseInv, AtFile
<1>2. seen[file].name \in DOMAIN world.entries
  BY <1>1 DEF SeenInv, Known
<1>3. world.contents[FileOf(seen[file].name)] \in FileHead
  BY <1>1, <1>2, FileIsThere DEF StillThere, TypeOK, World
<1> QED
  BY <1>3 DEF Lines, FileHead

(* A parser that has read nothing.                                         *)
LEMMA FreshCounts ==
    ASSUME NEW kind, NEW lines
    PROVE  Fresh \in Parser /\ Accounted(kind, lines, Fresh, 0) /\ Stamped(lines, Fresh, 0) /\ ~Fresh.raised
<1>1. Fresh \in Parser
  BY DEF Fresh, Parser
<1>2. Accounted(kind, lines, Fresh, 0) /\ Stamped(lines, Fresh, 0)
  BY DEF Fresh, Accounted, Stamped, Stamps, InRows, ToSet
<1> QED
  BY <1>1, <1>2 DEF Fresh

(* What holds between two lines, a step of the parser keeps.               *)
LEMMA ParseKept ==
    ASSUME DiscoveryInv, ParseInv, [Next]_vars
    PROVE  ParseInv'
<1>1. CASE OpenFile
  <2>1. UNCHANGED scanVars /\ file' = file /\ line' = 1 /\ parse' = Fresh /\ AtFile /\ StillThere(file)
    BY <1>1 DEF OpenFile, Readable
  <2>2. Len(Lines) \in Nat
    BY <2>1, LinesAreSequence
  <2>3. AtFile' /\ StillThere(file)' /\ Lines' = Lines /\ kinds[file]' = kinds[file]
    BY <2>1, StillAtFile
  <2>4. LinesRead' = 0
    BY <2>1, <2>2, <2>3 DEF LinesRead
  <2>5. PICK fresh \in Parser : parse' = fresh /\ Accounted(kinds[file], Lines, fresh, 0) /\ Stamped(Lines, fresh, 0)
    BY <2>1, FreshCounts
  <2>6. Accounted(kinds[file], Lines, parse, LinesRead)' /\ Stamped(Lines, parse, LinesRead)'
    BY <2>3, <2>4, <2>5
  <2> QED
    BY <2>1, <2>2, <2>3, <2>5, <2>6 DEF ParseInv
<1>2. CASE PassFile \/ NextFile
  BY <1>2, FreshCounts DEF PassFile, NextFile, ParseInv
<1>3. CASE NextLine
  <2>1. /\ UNCHANGED scanVars /\ file' = file /\ line' = line + 1 /\ AtFile /\ StillThere(file) /\ line \in Nat /\ line > 0
        /\ ~parse.raised /\ line <= Len(Lines) /\ parse' = ParseLine(kinds[file], parse, line, Lines[line])
    BY <1>3 DEF NextLine, Reading, ParseInv
  <2>2. Len(Lines) \in Nat
    BY <2>1, LinesAreSequence
  <2>3. AtFile' /\ StillThere(file)' /\ Lines' = Lines /\ kinds[file]' = kinds[file]
    BY <2>1, StillAtFile
  <2>4. LinesRead = line - 1 /\ LinesRead' = line
    BY <2>1, <2>2, <2>3 DEF LinesRead
  <2>5. PICK n \in Nat : n = line - 1 /\ line = n + 1
    BY <2>1
  <2>6. Keeps(kinds[file], Lines, parse', n + 1)
    <3>1. Accounted(kinds[file], Lines, parse, n) /\ (kinds[file] = "mysql_general" => Stamped(Lines, parse, n)) /\ parse \in Parser
      BY <2>1, <2>4, <2>5 DEF ParseInv
    <3>2. Keeps(kinds[file], Lines, ParseLine(kinds[file], parse, n + 1, Lines[n + 1]), n + 1)
      BY <3>1, ParseCounts
    <3> QED
      BY <2>1, <2>5, <3>2
  <2>7. ~parse'.raised => /\ Accounted(kinds[file], Lines, parse, LinesRead)'
                          /\ kinds[file] = "mysql_general" => Stamped(Lines, parse, LinesRead)'
    BY <2>3, <2>4, <2>5, <2>6 DEF Keeps
  <2>8. parse' \in Parser
    BY <2>6 DEF Keeps
  <2>9. line' \in Nat /\ line' <= Len(Lines) + 1
    BY <2>1, <2>2
  <2> QED
    BY <2>1, <2>2, <2>3, <2>7, <2>8, <2>9 DEF ParseInv
<1>4. CASE EndFile
  <2>1. /\ UNCHANGED scanVars /\ file' = file /\ line' = line + 1 /\ AtFile /\ StillThere(file) /\ line \in Nat /\ line > 0
        /\ ~parse.raised /\ line = Len(Lines) + 1 /\ parse' = EndOfLines(kinds[file], parse)
    BY <1>4 DEF EndFile, Reading, ParseInv
  <2>2. Len(Lines) \in Nat
    BY <2>1, LinesAreSequence
  <2>3. AtFile' /\ StillThere(file)' /\ Lines' = Lines /\ kinds[file]' = kinds[file]
    BY <2>1, StillAtFile
  <2>4. LinesRead = Len(Lines) /\ LinesRead' = Len(Lines)
    BY <2>1, <2>2, <2>3 DEF LinesRead
  <2>5. PICK n \in Nat : n = Len(Lines)
    BY <2>2
  <2>6. Keeps(kinds[file], Lines, parse', n) /\ parse'.open = <<>>
    <3>1. Accounted(kinds[file], Lines, parse, n) /\ (kinds[file] = "mysql_general" => Stamped(Lines, parse, n)) /\ parse \in Parser
      BY <2>1, <2>4, <2>5 DEF ParseInv
    <3> QED
      BY <2>1, <3>1, EndCounts
  <2>7. ~parse'.raised => /\ Accounted(kinds[file], Lines, parse, LinesRead)'
                          /\ kinds[file] = "mysql_general" => Stamped(Lines, parse, LinesRead)'
    BY <2>3, <2>4, <2>5, <2>6 DEF Keeps
  <2>8. parse' \in Parser
    BY <2>6 DEF Keeps
  <2>9. line' \in Nat /\ line' <= Len(Lines) + 2
    BY <2>1, <2>2
  <2> QED
    BY <2>1, <2>2, <2>3, <2>6, <2>7, <2>8, <2>9 DEF ParseInv
<1>5. CASE (ScanStep \/ Disturb) /\ line = 0
  BY <1>5 DEF ScanStep, Disturb, ParseInv
<1>6. CASE (ScanStep \/ Disturb) /\ line # 0
  <2>1. scan = "scanned"
    BY <1>6 DEF ParseInv, AtFile
  <2>2. FALSE
    BY <1>6, <2>1 DEF ScanStep, Disturb, TreeChanges, Walk, BeginSource, SourceMissing, ListDirectory, CannotList, EndSource,
                      EndScan, TakeDirectory, PassEntry, TakeFile, Classify
  <2> QED
    BY <2>2
<1>7. CASE UNCHANGED vars
  <2>1. UNCHANGED <<scanVars, file, line, parse>>
    BY <1>7 DEF vars
  <2>2. UNCHANGED <<AtFile, Lines, StillThere(file), kinds[file]>>
    BY <2>1, StillAtFile
  <2>3. LinesRead' = LinesRead
    BY <2>1, <2>2 DEF LinesRead
  <2>4. /\ Accounted(kinds[file], Lines, parse, LinesRead) => Accounted(kinds[file], Lines, parse, LinesRead)'
        /\ Stamped(Lines, parse, LinesRead) => Stamped(Lines, parse, LinesRead)'
    BY <2>1, <2>2, <2>3
  <2> QED
    BY <2>1, <2>2, <2>4 DEF ParseInv
<1> QED
  BY <1>1, <1>2, <1>3, <1>4, <1>5, <1>6, <1>7 DEF Next, ParseStep

(* Between two lines, every line that was read is in one row, in the       *)
(* record that is open, an error or none (iter_records of the parsers).    *)
THEOREM ParseInvariance == Spec => []ParseInv
<1>1. Init => ParseInv
  BY FreshCounts DEF Init, ParseInv
<1> QED
  BY <1>1, ParseKept, DiscoveryInvariance, PTL DEF Spec

(* Every line of a file that is read to its end is in one row, or counted  *)
(* as an error, or is blank or a directive, and in no two of them, and a   *)
(* row bears its own time, or the last one there was: for every text, every*)
(* kind and every limit.                                                   *)
THEOREM LinesAreAccountedFor == Spec => []LinesAccountedFor
<1>1. DiscoveryInv /\ ParseInv => LinesAccountedFor
  <2> SUFFICES ASSUME DiscoveryInv, ParseInv, Read, ~parse.raised PROVE LinesAccountedFor
    BY DEF LinesAccountedFor
  <2>1. AtFile /\ StillThere(file) /\ line = Len(Lines) + 2 /\ LinesRead = Len(Lines) /\ DOMAIN Lines = 1..Len(Lines)
    <3>1. AtFile /\ StillThere(file) /\ line > Len(Lines) + 1 /\ line <= Len(Lines) + 2 /\ line \in Nat
      BY DEF Read, ParseInv
    <3> QED
      BY <3>1, LinesAreSequence DEF LinesRead
  <2>2. Accounted(kinds[file], Lines, parse, Len(Lines)) /\ parse.open = <<>>
    BY <2>1 DEF ParseInv, Read
  <2>3. ToSet(parse.open) = {}
    BY <2>2 DEF ToSet
  <2> DEFINE inRows == [k \in DOMAIN parse.rows |-> ToSet(parse.rows[k].lines)]
             taken == UNION {inRows[k] : k \in DOMAIN inRows}
  <2>4. taken = InRows(parse)
    BY DEF InRows
  <2>5. /\ taken \cup parse.errors \cup parse.notes = DOMAIN Lines
        /\ taken \cap parse.errors = {} /\ (taken \cup parse.errors) \cap parse.notes = {}
    <3> HIDE DEF taken
    <3> QED
      BY <2>1, <2>2, <2>3, <2>4 DEF Accounted
  <2>6. \A j, k \in DOMAIN inRows : j # k => inRows[j] \cap inRows[k] = {}
    BY <2>2 DEF Accounted
  <2>7. \A k \in DOMAIN parse.rows : TimeFits(kinds[file], Lines, parse.rows[k].lines[1], parse.rows[k].time)
    BY <2>2 DEF Accounted
  <2> HIDE DEF inRows, taken
  <2>8. \A k \in DOMAIN parse.rows :
            LET head == parse.rows[k].lines[1]
            IN  parse.rows[k].time \in {0, head}
                \/ (kinds[file] = "mysql_general" /\ parse.rows[k].time =
                       Max({i \in 1..head : Lines[i] = "general_stamped"}))
    BY <2>7 DEF TimeFits, Stamps
  <2> QED
    BY <2>5, <2>6, <2>8 DEF LinesAccountedFor, inRows, taken
<1> QED
  BY <1>1, DiscoveryInvariance, ParseInvariance, PTL

-----------------------------------------------------------------------------
(* Records of several lines.                                               *)

(* A line more belongs to the record, or does not.                         *)
LEMMA RecordGrows ==
    ASSUME NEW kind, NEW lines, NEW head \in Nat, NEW n \in Nat, head <= n
    PROVE  IF Belongs(kind, lines[n + 1]) /\ \A b \in head + 1..n + 1 : lines[b] \notin Bars(kind)
           THEN RecordTo(kind, lines, head, n + 1) = RecordTo(kind, lines, head, n) \cup {n + 1}
           ELSE RecordTo(kind, lines, head, n + 1) = RecordTo(kind, lines, head, n)
<1>1. head + 1..n + 1 = (head + 1..n) \cup {n + 1}
  OBVIOUS
<1> QED
  BY <1>1 DEF RecordTo

(* A record ends before a line that bars it, and with the file.            *)
LEMMA RecordEnds ==
    ASSUME NEW kind, NEW lines, NEW head \in Nat, NEW n \in Nat, NEW last \in Nat, head <= n, n <= last,
           n = last \/ lines[n + 1] \in Bars(kind)
    PROVE  RecordTo(kind, lines, head, n) = RecordTo(kind, lines, head, last)
<1>1. ASSUME NEW j \in head + 1..last, \A b \in head + 1..j : lines[b] \notin Bars(kind)
      PROVE  j \in head + 1..n
  <2>1. j > n => n + 1 \in head + 1..j /\ n # last
    OBVIOUS
  <2> QED
    BY <1>1, <2>1
<1>2. head + 1..n \subseteq head + 1..last
  OBVIOUS
<1> QED
  BY <1>1, <1>2 DEF RecordTo

(* A line more begins a record, or does not.                               *)
LEMMA HeadsGrow ==
    ASSUME NEW kind, NEW lines, NEW n \in Nat
    PROVE  IF lines[n + 1] \in Starts(kind)
           THEN HeadsTo(kind, lines, n + 1) = HeadsTo(kind, lines, n) \cup {n + 1}
           ELSE HeadsTo(kind, lines, n + 1) = HeadsTo(kind, lines, n)
<1>1. 1..n + 1 = (1..n) \cup {n + 1}
  OBVIOUS
<1> QED
  BY <1>1 DEF HeadsTo

(* What is open begins with the first line of a record, after those of all *)
(* rows.                                                                   *)
LEMMA OpenBegins ==
    ASSUME NEW kind, NEW lines, NEW p \in Parser, NEW n \in Nat, Whole(kind, lines, p, n)
    PROVE  /\ \A k \in DOMAIN p.rows : p.rows[k].lines[1] \in 1..n
           /\ p.open # <<>> => /\ p.open \in Seq(Nat) /\ p.open[1] \in 1..n
                               /\ p.open[1] \in HeadsTo(kind, lines, n)
<1>1. HeadsTo(kind, lines, n) \subseteq 1..n
  BY DEF HeadsTo
<1>2. p.open \in Seq(Nat)
  BY DEF Parser
<1>3. \A k \in DOMAIN p.rows : p.rows[k].lines[1] \in HeadsTo(kind, lines, n)
  BY DEF Whole, HeadsOf
<1>4. p.open # <<>> => p.open[1] \in HeadsTo(kind, lines, n)
  BY DEF Whole
<1> QED
  BY <1>1, <1>2, <1>3, <1>4

(* The record that is open has ended, and becomes a row.                   *)
LEMMA FlushWhole ==
    ASSUME NEW kind, NEW lines, Len(lines) \in Nat, NEW p \in Parser, NEW n \in Nat, n <= Len(lines),
           Whole(kind, lines, p, n), ~p.raised,
           p.open # <<>> => n = Len(lines) \/ lines[n + 1] \in Bars(kind)
    PROVE  Flush(p) \in Parser /\ Flush(p).open = <<>> /\ ~Flush(p).raised /\ Whole(kind, lines, Flush(p), n)
<1>1. CASE p.open = <<>>
  BY <1>1 DEF Flush
<1>2. CASE p.open # <<>>
  <2>1. PICK q : q = Flush(p)
    OBVIOUS
  <2>2. PICK r : r = [lines |-> p.open, time |-> p.time]
    OBVIOUS
  <2>3. q \in Parser /\ q.rows = Append(p.rows, r) /\ q.open = <<>> /\ q.raised = p.raised
    BY <1>2, <2>1, <2>2, FlushIs
  <2>4. r.lines = p.open
    BY <2>2
  <2>5. p.rows \in Seq(ToSet(p.rows))
    BY SelfTyped DEF Parser
  <2>6. PICK last : last = Len(p.rows) + 1
    OBVIOUS
  <2>7. /\ DOMAIN q.rows = DOMAIN p.rows \cup {last} /\ last \notin DOMAIN p.rows
        /\ q.rows[last] = r /\ \A i \in DOMAIN p.rows : q.rows[i] = p.rows[i] /\ i < last
    <3>1. Len(p.rows) \in Nat /\ DOMAIN p.rows = 1..Len(p.rows)
      BY <2>5
    <3> QED
      BY <2>3, <2>5, <2>6, <3>1, Appended
  <2>8. PICK head \in Nat : head = p.open[1] /\ head <= n
    BY <1>2, OpenBegins
  <2>9. IsRecord(kind, lines, p.open, n)
    BY <1>2 DEF Whole
  <2>10. RecordTo(kind, lines, head, n) = RecordTo(kind, lines, head, Len(lines))
    BY <1>2, <2>8, RecordEnds
  <2>11. IsRecord(kind, lines, p.open, Len(lines))
    BY <2>8, <2>9, <2>10 DEF IsRecord
  <2>12. \A k \in DOMAIN q.rows : IsRecord(kind, lines, q.rows[k].lines, Len(lines))
    BY <2>4, <2>7, <2>11 DEF Whole
  <2>13. \A j, k \in DOMAIN q.rows : j < k => q.rows[j].lines[1] < q.rows[k].lines[1]
    <3>1. ASSUME NEW j \in DOMAIN q.rows, NEW k \in DOMAIN q.rows, j < k
          PROVE  q.rows[j].lines[1] < q.rows[k].lines[1]
      <4>1. CASE k = last
        <5>1. j \in DOMAIN p.rows
          BY <2>7, <3>1, <4>1, <2>6
        <5> QED
          BY <1>2, <2>4, <2>7, <4>1, <5>1 DEF Whole
      <4>2. CASE k # last
        <5>1. k \in DOMAIN p.rows /\ k < last
          BY <2>7, <4>2
        <5>2. j \in DOMAIN p.rows
          <6>1. j \in Nat /\ k \in Nat /\ last \in Nat
            BY <2>5, <2>6, <2>7
          <6> QED
            BY <2>7, <3>1, <5>1, <6>1
        <5> QED
          BY <2>7, <3>1, <5>1, <5>2 DEF Whole
      <4> QED
        BY <4>1, <4>2
    <3> QED
      BY <3>1
  <2>14. HeadsOf(q.rows) = HeadsOf(p.rows) \cup {p.open[1]}
    BY <2>4, <2>7 DEF HeadsOf
  <2>15. HeadsTo(kind, lines, n) = HeadsOf(q.rows) \cup (IF q.open = <<>> THEN {} ELSE {q.open[1]})
    BY <1>2, <2>3, <2>14 DEF Whole
  <2> QED
    BY <2>1, <2>3, <2>12, <2>13, <2>15 DEF Whole
<1> QED
  BY <1>1, <1>2

(* A line that begins a record, and ends the one before.                   *)
LEMMA OpenWhole ==
    ASSUME NEW kind, NEW lines, Len(lines) \in Nat, NEW p \in Parser, NEW n \in Nat, n < Len(lines),
           Whole(kind, lines, p, n), ~p.raised, lines[n + 1] \in Starts(kind), NEW t \in Nat
    PROVE  Whole(kind, lines, Open(p, n + 1, t), n + 1)
<1>1. PICK f \in Parser : f = Flush(p) /\ f.open = <<>> /\ ~f.raised /\ Whole(kind, lines, f, n)
  BY FlushWhole DEF Bars
<1>2. PICK m \in Nat : m = n + 1
  OBVIOUS
<1>3. PICK x : x = <<m>>
  OBVIOUS
<1>4. x \in Seq(Nat) /\ x[1] = m /\ ToSet(x) = {m} /\ x # <<>> /\ DOMAIN x = {1}
  BY <1>3 DEF ToSet
<1>5. PICK q : q = Open(p, m, t)
  OBVIOUS
<1>6. q.rows = f.rows /\ q.open = x /\ q.raised = f.raised
  BY <1>1, <1>3, <1>5 DEF Open, Parser
<1>7. RecordTo(kind, lines, m, m) = {m}
  <2>1. m + 1..m = {}
    OBVIOUS
  <2> QED
    BY <2>1 DEF RecordTo
<1>8. IsRecord(kind, lines, x, m)
  BY <1>4, <1>7 DEF IsRecord
<1>9. HeadsTo(kind, lines, m) = HeadsTo(kind, lines, n) \cup {m}
  BY <1>2, HeadsGrow
<1>10. HeadsTo(kind, lines, n) = HeadsOf(f.rows)
  BY <1>1 DEF Whole
<1>11. \A k \in DOMAIN f.rows : f.rows[k].lines[1] < m
  <2>1. \A k \in DOMAIN f.rows : f.rows[k].lines[1] \in 1..n
    BY <1>1, OpenBegins
  <2> QED
    BY <1>2, <2>1
<1>12. m + 1..m = {}
  OBVIOUS
<1>13. /\ \A k \in DOMAIN q.rows : IsRecord(kind, lines, q.rows[k].lines, Len(lines))
       /\ \A j, k \in DOMAIN q.rows : j < k => q.rows[j].lines[1] < q.rows[k].lines[1]
  BY <1>1, <1>6 DEF Whole
<1> QED
  BY <1>1, <1>2, <1>4, <1>5, <1>6, <1>8, <1>9, <1>10, <1>11, <1>12, <1>13 DEF Whole

(* A line that is no part of a record and ends none.                       *)
LEMMA SkipWhole ==
    ASSUME NEW kind, NEW lines, NEW p \in Parser, NEW n \in Nat, Whole(kind, lines, p, n), ~p.raised,
           lines[n + 1] \notin Starts(kind),
           p.open # <<>> => lines[n + 1] \notin Bars(kind) /\ ~Belongs(kind, lines[n + 1]),
           NEW q, q.rows = p.rows, q.open = p.open, q.raised = p.raised
    PROVE  Whole(kind, lines, q, n + 1)
<1>1. HeadsTo(kind, lines, n + 1) = HeadsTo(kind, lines, n)
  BY HeadsGrow
<1>2. CASE p.open = <<>>
  BY <1>1, <1>2 DEF Whole
<1>3. CASE p.open # <<>>
  <2>0. p.open[1] \in 1..n
    BY <1>3, OpenBegins
  <2>1. PICK head \in Nat : head = p.open[1] /\ head <= n
    BY <2>0
  <2>2. RecordTo(kind, lines, head, n + 1) = RecordTo(kind, lines, head, n)
    BY <1>3, <2>1, RecordGrows
  <2>3. IsRecord(kind, lines, p.open, n + 1)
    BY <1>3, <2>1, <2>2 DEF Whole, IsRecord
  <2>4. \A b \in head + 1..n + 1 : lines[b] \notin Bars(kind)
    <3>1. head + 1..n + 1 = (head + 1..n) \cup {n + 1}
      BY <2>1
    <3> QED
      BY <1>3, <2>1, <3>1 DEF Whole
  <2> QED
    BY <1>1, <1>3, <2>1, <2>3, <2>4 DEF Whole
<1> QED
  BY <1>2, <1>3

(* A line of the record that is open.                                      *)
LEMMA AttachWhole ==
    ASSUME NEW kind, NEW lines, NEW p \in Parser, NEW n \in Nat, Whole(kind, lines, p, n), ~p.raised, p.open # <<>>,
           lines[n + 1] \notin Starts(kind), lines[n + 1] \notin Bars(kind), Belongs(kind, lines[n + 1]),
           NEW q, q.rows = p.rows, q.open = Append(p.open, n + 1), q.raised = p.raised
    PROVE  Whole(kind, lines, q, n + 1)
<1>1. HeadsTo(kind, lines, n + 1) = HeadsTo(kind, lines, n)
  BY HeadsGrow
<1>2. PICK head \in Nat : head = p.open[1] /\ head <= n
  BY OpenBegins
<1>3. PICK m \in Nat : m = n + 1
  OBVIOUS
<1>4. PICK o \in Seq(Nat) : o = p.open
  BY OpenBegins
<1>5. PICK x : x = Append(o, m)
  OBVIOUS
<1>6. x \in Seq(Nat) /\ x # <<>> /\ x[1] = head /\ ToSet(x) = ToSet(o) \cup {m}
  BY <1>2, <1>4, <1>5, SelfTyped, Appended
<1>7. /\ DOMAIN x = DOMAIN o \cup {Len(o) + 1} /\ x[Len(o) + 1] = m /\ \A i \in DOMAIN o : x[i] = o[i]
      /\ DOMAIN o = 1..Len(o) /\ Len(o) \in Nat
  BY <1>4, <1>5, SelfTyped, Appended
<1>8. IsRecord(kind, lines, o, n) /\ \A b \in head + 1..n : lines[b] \notin Bars(kind)
  BY <1>2, <1>4 DEF Whole
<1>9. \A b \in head + 1..m : lines[b] \notin Bars(kind)
  <2>1. head + 1..m = (head + 1..n) \cup {m}
    BY <1>2, <1>3
  <2> QED
    BY <1>3, <1>8, <2>1
<1>10. RecordTo(kind, lines, head, m) = RecordTo(kind, lines, head, n) \cup {m}
  BY <1>2, <1>3, <1>9, RecordGrows
<1>11. \A i \in DOMAIN o : o[i] < m
  <2>1. \A y \in RecordTo(kind, lines, head, n) : y < m
    BY <1>2, <1>3 DEF RecordTo
  <2>2. ToSet(o) = RecordTo(kind, lines, head, n)
    BY <1>2, <1>4, <1>8 DEF IsRecord
  <2> QED
    BY <2>1, <2>2 DEF ToSet
<1>12. \A j, k \in DOMAIN x : j < k => x[j] < x[k]
  BY <1>7, <1>8, <1>11 DEF IsRecord
<1>13. IsRecord(kind, lines, x, m)
  BY <1>2, <1>4, <1>6, <1>8, <1>10, <1>12 DEF IsRecord
<1>14. q.open = x
  BY <1>3, <1>4, <1>5
<1> QED
  BY <1>1, <1>2, <1>3, <1>4, <1>6, <1>9, <1>13, <1>14 DEF Whole

(* A parser that gives up leaves the record as it is.                      *)
LEMMA RaiseWhole ==
    ASSUME NEW kind, NEW lines, NEW p \in Parser, NEW n \in Nat, Whole(kind, lines, p, n), p.open # <<>>,
           lines[n + 1] \notin Starts(kind),
           NEW q, q.rows = p.rows, q.open = p.open, q.raised
    PROVE  Whole(kind, lines, q, n + 1)
<1>1. HeadsTo(kind, lines, n + 1) = HeadsTo(kind, lines, n)
  BY HeadsGrow
<1> QED
  BY <1>1 DEF Whole

(* What the steps of a parser do to the fields of its state.               *)
LEMMA SkipIs ==
    ASSUME NEW p \in Parser, NEW n \in Nat, NEW q, q \in {Reject(p, n), Ignore(p, n)}
    PROVE  q.rows = p.rows /\ q.open = p.open /\ q.raised = p.raised
BY DEF Parser, Reject, Ignore

(* A line attached.                                                        *)
LEMMA AttachIs ==
    ASSUME NEW p \in Parser, NEW n \in Nat
    PROVE  LET q == Attach(p, n) IN q.rows = p.rows /\ q.open = Append(p.open, n) /\ q.raised = p.raised
BY DEF Parser, Attach

(* A line attached if the record is not too large.                         *)
LEMMA GoOnIs ==
    ASSUME NEW p \in Parser, ~p.raised, NEW n \in Nat, NEW limit, NEW q, q = GoOn(p, n, limit)
    PROVE  /\ q.rows = p.rows
           /\ \/ q.raised /\ q.open = p.open
              \/ q.raised = p.raised /\ q.open = Append(p.open, n)
<1>1. CASE p.more >= limit
  <2>1. q = [p EXCEPT !.raised = TRUE]
    BY <1>1 DEF GoOn, Raise
  <2>2. q.rows = p.rows /\ q.open = p.open
    BY <2>1 DEF Parser
  <2>3. q.raised
    BY <2>1 DEF Parser
  <2> QED
    BY <2>2, <2>3
<1>2. CASE ~(p.more >= limit)
  <2>1. q = [[p EXCEPT !.open = Append(@, n)] EXCEPT !.more = @ + 1]
    BY <1>2 DEF GoOn, Attach
  <2> QED
    BY <2>1 DEF Parser
<1> QED
  BY <1>1, <1>2

(* A parser that goes on with a record, or gives up.                       *)
LEMMA GoOnWhole ==
    ASSUME NEW kind, NEW lines, NEW p \in Parser, NEW n \in Nat, Whole(kind, lines, p, n), ~p.raised, p.open # <<>>,
           lines[n + 1] \notin Starts(kind), lines[n + 1] \notin Bars(kind), Belongs(kind, lines[n + 1]), NEW limit
    PROVE  Whole(kind, lines, GoOn(p, n + 1, limit), n + 1)
<1>1. PICK q : q = GoOn(p, n + 1, limit)
  OBVIOUS
<1>2. q.rows = p.rows
      /\ \/ q.raised /\ q.open = p.open
         \/ q.raised = p.raised /\ q.open = Append(p.open, n + 1)
  <2>1. n + 1 \in Nat
    OBVIOUS
  <2> QED
    BY <1>1, <2>1, GoOnIs
<1>3. CASE q.raised /\ q.open = p.open
  BY <1>1, <1>2, <1>3, RaiseWhole
<1>4. CASE q.raised = p.raised /\ q.open = Append(p.open, n + 1)
  BY <1>1, <1>2, <1>4, AttachWhole
<1> QED
  BY <1>2, <1>3, <1>4

(* A line before the first record, or between two.                         *)
LEMMA LooseWhole ==
    ASSUME NEW kind, NEW lines, NEW p \in Parser, NEW n \in Nat, Whole(kind, lines, p, n), ~p.raised,
           lines[n + 1] \notin Starts(kind),
           p.open # <<>> => lines[n + 1] \notin Bars(kind) /\ ~Belongs(kind, lines[n + 1])
    PROVE  Whole(kind, lines, Reject(p, n + 1), n + 1) /\ Whole(kind, lines, Ignore(p, n + 1), n + 1)
<1>1. ASSUME NEW q, q \in {Reject(p, n + 1), Ignore(p, n + 1)} PROVE Whole(kind, lines, q, n + 1)
  <2>1. n + 1 \in Nat
    OBVIOUS
  <2>2. q.rows = p.rows /\ q.open = p.open /\ q.raised = p.raised
    BY <1>1, <2>1, SkipIs
  <2> QED
    BY <2>2, SkipWhole
<1> QED
  BY <1>1

(* The formats whose records go on until the next one.                     *)
LEMMA PlainWhole ==
    ASSUME NEW kind, NEW lines, Len(lines) \in Nat, NEW p \in Parser, NEW n \in Nat, n < Len(lines),
           Whole(kind, lines, p, n), ~p.raised, Bars(kind) = Starts(kind), "blank" \notin Starts(kind),
           \A s : Belongs(kind, s) <=> s # "blank", NEW t \in Nat, NEW limit,
           NEW q, IF lines[n + 1] \in Starts(kind) THEN q = Open(p, n + 1, t)
                  ELSE IF lines[n + 1] = "blank" THEN q = Ignore(p, n + 1)
                  ELSE IF p.open = <<>> THEN q = Reject(p, n + 1) ELSE q = GoOn(p, n + 1, limit)
    PROVE  Whole(kind, lines, q, n + 1)
<1>1. CASE lines[n + 1] \in Starts(kind)
  BY <1>1, OpenWhole
<1>2. CASE lines[n + 1] \notin Starts(kind) /\ (lines[n + 1] = "blank" \/ p.open = <<>>)
  BY <1>2, LooseWhole
<1>3. CASE lines[n + 1] \notin Starts(kind) /\ lines[n + 1] # "blank" /\ p.open # <<>>
  BY <1>3, GoOnWhole
<1> QED
  BY <1>1, <1>2, <1>3

(* The slow log of MySQL, whose records skip the directives.               *)
LEMMA SlowWhole ==
    ASSUME NEW kind, kind = "mysql_slow", NEW lines, Len(lines) \in Nat, NEW p \in Parser, NEW n \in Nat,
           n < Len(lines), Whole(kind, lines, p, n), ~p.raised
    PROVE  Whole(kind, lines, MysqlSlow(p, n + 1, lines[n + 1]), n + 1)
<1>1. PICK s : s = lines[n + 1]
  OBVIOUS
<1>2. Starts(kind) = {"slow_time"} /\ Bars(kind) = {"slow_time"}
  BY DEF Starts, Bars, Aegis
<1>3. Belongs(kind, s) <=> s \in {"slow_user", "slow_query"} \/ s \notin Hashed \cup {"slow_set"}
  BY DEF Belongs, Aegis
<1>4. CASE s = "slow_time"
  <2>1. MysqlSlow(p, n + 1, s) = Open(p, n + 1, n + 1)
    BY <1>4 DEF MysqlSlow
  <2>2. n + 1 \in Nat /\ lines[n + 1] \in Starts(kind)
    BY <1>1, <1>2, <1>4
  <2>3. Whole(kind, lines, Open(p, n + 1, n + 1), n + 1)
    BY <2>2, OpenWhole
  <2> QED
    BY <1>1, <2>1, <2>3
<1>5. CASE s # "slow_time" /\ p.open = <<>>
  <2>1. MysqlSlow(p, n + 1, s) \in {Ignore(p, n + 1), Reject(p, n + 1)}
    BY <1>5 DEF MysqlSlow
  <2> QED
    BY <1>1, <1>2, <1>5, <2>1, LooseWhole
<1>6. CASE s # "slow_time" /\ p.open # <<>> /\ s \in {"slow_user", "slow_query"}
  <2>1. PICK q : q = MysqlSlow(p, n + 1, s) /\ q = Attach(p, n + 1)
    BY <1>6 DEF MysqlSlow
  <2>2. q.rows = p.rows /\ q.open = Append(p.open, n + 1) /\ q.raised = p.raised
    BY <2>1, AttachIs
  <2>3. Whole(kind, lines, q, n + 1)
    BY <1>1, <1>2, <1>3, <1>6, <2>2, AttachWhole
  <2> QED
    BY <1>1, <2>1, <2>3
<1>7. CASE s # "slow_time" /\ p.open # <<>> /\ s \notin {"slow_user", "slow_query"} /\ s \in Hashed \cup {"slow_set"}
  <2>1. MysqlSlow(p, n + 1, s) = Ignore(p, n + 1)
    BY <1>7 DEF MysqlSlow
  <2> QED
    BY <1>1, <1>2, <1>3, <1>7, <2>1, LooseWhole
<1>8. CASE s # "slow_time" /\ p.open # <<>> /\ s \notin {"slow_user", "slow_query"} /\ s \notin Hashed \cup {"slow_set"}
  <2>1. MysqlSlow(p, n + 1, s) = GoOn(p, n + 1, MaxMore)
    BY <1>8 DEF MysqlSlow
  <2> QED
    BY <1>1, <1>2, <1>3, <1>8, <2>1, GoOnWhole
<1> QED
  BY <1>4, <1>5, <1>6, <1>7, <1>8

(* The logs of Aegis, where a damaged header ends a record.                *)
LEMMA AegisWhole ==
    ASSUME NEW kind, kind \in Aegis, NEW lines, Len(lines) \in Nat, NEW p \in Parser, NEW n \in Nat,
           n < Len(lines), Whole(kind, lines, p, n), ~p.raised
    PROVE  Whole(kind, lines, AegisLines(p, n + 1, lines[n + 1]), n + 1)
<1>1. PICK s : s = lines[n + 1]
  OBVIOUS
<1>2. /\ Starts(kind) = AegisHeaders \ {"aegis_undated"}
      /\ Bars(kind) = Starts(kind) \cup {"aegis_undated", "damaged"}
  BY DEF Starts, Bars, Aegis
<1>3. Belongs(kind, s)
  BY DEF Belongs, Aegis
<1>4. CASE s \in Starts(kind)
  <2>1. AegisLines(p, n + 1, s) = Open(p, n + 1, n + 1)
    BY <1>2, <1>4 DEF AegisLines
  <2>2. n + 1 \in Nat
    OBVIOUS
  <2>3. Whole(kind, lines, Open(p, n + 1, n + 1), n + 1)
    BY <1>1, <1>4, <2>2, OpenWhole
  <2> QED
    BY <1>1, <2>1, <2>3
<1>5. CASE s \in {"aegis_undated", "damaged"}
  <2>1. s \notin Starts(kind) /\ s \in Bars(kind)
    BY <1>2, <1>5 DEF AegisHeaders
  <2>2. AegisLines(p, n + 1, s) = Reject(Flush(p), n + 1)
    BY <1>2, <1>5, <2>1 DEF AegisLines
  <2>3. PICK f \in Parser : f = Flush(p) /\ f.open = <<>> /\ ~f.raised /\ Whole(kind, lines, f, n)
    BY <1>1, <2>1, FlushWhole
  <2>4. Whole(kind, lines, Reject(f, n + 1), n + 1)
    BY <1>1, <2>1, <2>3, LooseWhole
  <2> QED
    BY <1>1, <2>2, <2>3, <2>4
<1>6. CASE s \notin Bars(kind) /\ p.open # <<>>
  <2>1. AegisLines(p, n + 1, s) = GoOn(p, n + 1, MaxMore - 1)
    BY <1>2, <1>6 DEF AegisLines
  <2>2. s \notin Starts(kind)
    BY <1>2, <1>6
  <2>3. \A limit : Whole(kind, lines, GoOn(p, n + 1, limit), n + 1)
    BY <1>1, <1>3, <1>6, <2>2, GoOnWhole
  <2> QED
    BY <1>1, <2>1, <2>3
<1>7. CASE s \notin Bars(kind) /\ p.open = <<>>
  <2>1. AegisLines(p, n + 1, s) \in {Ignore(p, n + 1), Reject(p, n + 1)}
    BY <1>2, <1>7 DEF AegisLines
  <2> QED
    BY <1>1, <1>2, <1>7, <2>1, LooseWhole
<1> QED
  BY <1>2, <1>4, <1>5, <1>6, <1>7

(* Whatever the format, if its records may take several lines.             *)
LEMMA ParseWhole ==
    ASSUME NEW kind \in Logical, NEW lines, Len(lines) \in Nat, NEW p \in Parser, NEW n \in Nat, n < Len(lines),
           Whole(kind, lines, p, n), ~p.raised
    PROVE  Whole(kind, lines, ParseLine(kind, p, n + 1, lines[n + 1]), n + 1)
<1>1. PICK s, q : s = lines[n + 1] /\ q = ParseLine(kind, p, n + 1, s)
  OBVIOUS
<1>2. CASE kind \in Aegis
  <2>1. q = AegisLines(p, n + 1, s)
    BY <1>1, <1>2 DEF ParseLine, Aegis
  <2> QED
    BY <1>1, <1>2, <2>1, AegisWhole
<1>3. CASE kind = "mysql_slow"
  <2>1. q = MysqlSlow(p, n + 1, s)
    BY <1>1, <1>3 DEF ParseLine
  <2> QED
    BY <1>1, <1>3, <2>1, SlowWhole
<1>4. CASE kind \notin Aegis \cup {"mysql_slow"}
  <2>1. Bars(kind) = Starts(kind) /\ "blank" \notin Starts(kind)
    BY <1>4 DEF Bars, Starts, Logical, Aegis
  <2>2. \A x : Belongs(kind, x) <=> x # "blank"
    BY <1>4 DEF Belongs
  <2>3. \E t, limit :
            /\ t \in Nat
            /\ IF s \in Starts(kind) THEN q = Open(p, n + 1, t)
               ELSE IF s = "blank" THEN q = Ignore(p, n + 1)
               ELSE IF p.open = <<>> THEN q = Reject(p, n + 1) ELSE q = GoOn(p, n + 1, limit)
    <3>0. n + 1 \in Nat /\ 0 \in Nat
      OBVIOUS
    <3>1. CASE kind = "web_error_tomcat"
      <4>1. q = Tomcat(p, n + 1, s) /\ Starts(kind) = {"tomcat"}
        BY <1>1, <3>1 DEF ParseLine, Starts
      <4> QED
        BY <3>0, <4>1 DEF Tomcat
    <3>2. CASE kind = "oracle_alert"
      <4>1. q = OracleAlert(p, n + 1, s) /\ Starts(kind) = {"oracle_time", "oracle_undated"}
        BY <1>1, <3>2 DEF ParseLine, Starts
      <4> QED
        BY <3>0, <4>1 DEF OracleAlert
    <3>3. CASE kind \in {"qcloud_ydservice", "qcloud_go", "qcloud_scanner", "qcloud_ydeyes"}
      <4>1. q = QCloud(p, n + 1, s, Starts(kind))
        BY <1>1, <3>3 DEF ParseLine, Starts, Ydservice, GoComponent, Scanner, Ydeyes
      <4> QED
        BY <2>1, <3>0, <4>1 DEF QCloud
    <3> QED
      BY <1>4, <3>1, <3>2, <3>3 DEF Logical
  <2>4. Whole(kind, lines, q, n + 1)
    BY <1>1, <2>1, <2>2, <2>3, PlainWhole
  <2> QED
    BY <1>1, <2>4
<1> QED
  BY <1>2, <1>3, <1>4

(* At the end of the file the record that is open is a whole one.          *)
LEMMA EndWhole ==
    ASSUME NEW kind \in Logical, NEW lines, NEW p \in Parser, NEW n \in Nat, n = Len(lines),
           Whole(kind, lines, p, n), ~p.raised
    PROVE  Whole(kind, lines, EndOfLines(kind, p), n)
<1>1. EndOfLines(kind, p) = Flush(p)
  BY DEF EndOfLines, Exchanges, Logical, Aegis
<1>2. Len(lines) \in Nat /\ n <= Len(lines)
  OBVIOUS
<1> QED
  BY <1>1, <1>2, FlushWhole

(* What holds of records between two lines, a step of the parser keeps.    *)
LEMMA WholeKept ==
    ASSUME DiscoveryInv, ParseInv, WholeInv, [Next]_vars
    PROVE  WholeInv'
<1>1. CASE OpenFile
  <2>1. UNCHANGED scanVars /\ file' = file /\ line' = 1 /\ parse' = Fresh /\ AtFile /\ StillThere(file)
    BY <1>1 DEF OpenFile, Readable
  <2>2. Len(Lines) \in Nat
    BY <2>1, LinesAreSequence
  <2>3. Lines' = Lines /\ kinds[file]' = kinds[file]
    BY <2>1, StillAtFile
  <2>4. LinesRead' = 0
    BY <2>1, <2>2, <2>3 DEF LinesRead
  <2>5. \A kind, lines : Whole(kind, lines, Fresh, 0)
    BY DEF Whole, Fresh, HeadsTo, HeadsOf
  <2> QED
    BY <2>1, <2>3, <2>4, <2>5 DEF WholeInv
<1>2. CASE PassFile \/ NextFile
  BY <1>2 DEF PassFile, NextFile, WholeInv
<1>3. CASE NextLine
  <2>1. /\ UNCHANGED scanVars /\ file' = file /\ line' = line + 1 /\ AtFile /\ StillThere(file) /\ line \in Nat /\ line > 0
        /\ ~parse.raised /\ line <= Len(Lines) /\ parse' = ParseLine(kinds[file], parse, line, Lines[line])
        /\ parse \in Parser
    BY <1>3 DEF NextLine, Reading, ParseInv
  <2>2. Len(Lines) \in Nat
    BY <2>1, LinesAreSequence
  <2>3. Lines' = Lines /\ kinds[file]' = kinds[file]
    BY <2>1, StillAtFile
  <2>4. LinesRead = line - 1 /\ LinesRead' = line
    BY <2>1, <2>2, <2>3 DEF LinesRead
  <2>5. PICK n \in Nat : n = line - 1 /\ line = n + 1 /\ n < Len(Lines)
    BY <2>1, <2>2
  <2>6. ASSUME kinds[file] \in Logical PROVE Whole(kinds[file], Lines, parse', n + 1)
    <3>1. Whole(kinds[file], Lines, parse, n)
      BY <2>1, <2>4, <2>5, <2>6 DEF WholeInv
    <3>2. Whole(kinds[file], Lines, ParseLine(kinds[file], parse, n + 1, Lines[n + 1]), n + 1)
      BY <2>1, <2>2, <2>5, <2>6, <3>1, ParseWhole
    <3> QED
      BY <2>1, <2>5, <3>2
  <2> QED
    BY <2>3, <2>4, <2>5, <2>6 DEF WholeInv
<1>4. CASE EndFile
  <2>1. /\ UNCHANGED scanVars /\ file' = file /\ line' = line + 1 /\ AtFile /\ StillThere(file) /\ line \in Nat /\ line > 0
        /\ ~parse.raised /\ line = Len(Lines) + 1 /\ parse' = EndOfLines(kinds[file], parse) /\ parse \in Parser
    BY <1>4 DEF EndFile, Reading, ParseInv
  <2>2. Len(Lines) \in Nat
    BY <2>1, LinesAreSequence
  <2>3. Lines' = Lines /\ kinds[file]' = kinds[file]
    BY <2>1, StillAtFile
  <2>4. LinesRead = Len(Lines) /\ LinesRead' = Len(Lines)
    BY <2>1, <2>2, <2>3 DEF LinesRead
  <2>5. ASSUME kinds[file] \in Logical PROVE Whole(kinds[file], Lines, parse', Len(Lines))
    BY <2>1, <2>2, <2>4, <2>5, EndWhole DEF WholeInv
  <2> QED
    BY <2>3, <2>4, <2>5 DEF WholeInv
<1>5. CASE (ScanStep \/ Disturb) /\ line = 0
  BY <1>5 DEF ScanStep, Disturb, WholeInv
<1>6. CASE (ScanStep \/ Disturb) /\ line # 0
  <2>1. scan = "scanned"
    BY <1>6 DEF ParseInv, AtFile
  <2> QED
    BY <1>6, <2>1 DEF ScanStep, Disturb, TreeChanges, Walk, BeginSource, SourceMissing, ListDirectory, CannotList, EndSource,
                      EndScan, TakeDirectory, PassEntry, TakeFile, Classify
<1>7. CASE UNCHANGED vars
  <2>1. UNCHANGED <<scanVars, file, line, parse>>
    BY <1>7 DEF vars
  <2>2. UNCHANGED <<Lines, kinds[file]>>
    BY <2>1, StillAtFile
  <2>3. LinesRead' = LinesRead
    BY <2>1, <2>2 DEF LinesRead
  <2> QED
    BY <2>1, <2>2, <2>3 DEF WholeInv
<1> QED
  BY <1>1, <1>2, <1>3, <1>4, <1>5, <1>6, <1>7 DEF Next, ParseStep

(* Of a format whose records take several lines the rows are the records   *)
(* that have ended, in order, and what is open is the next as far as it    *)
(* was read.                                                               *)
THEOREM WholeInvariance == Spec => []WholeInv
<1>1. Init => WholeInv
  BY DEF Init, WholeInv
<1> QED
  BY <1>1, WholeKept, DiscoveryInvariance, ParseInvariance, PTL DEF Spec

(* A row is a whole logical record, rows are in the order of the file, and *)
(* a parser that gives up at a record too large has emitted those before   *)
(* it and nothing of that one.                                             *)
THEOREM RowsAreWholeRecords == Spec => []RowsAreWhole
<1>1. DiscoveryInv /\ ParseInv /\ WholeInv => RowsAreWhole
  <2> SUFFICES ASSUME DiscoveryInv, ParseInv, WholeInv, Read, kinds[file] \in Logical PROVE RowsAreWhole
    BY DEF RowsAreWhole
  <2>1. AtFile /\ StillThere(file) /\ line > 0 /\ line \in Nat /\ line <= Len(Lines) + 2 /\ parse \in Parser
    BY DEF Read, ParseInv
  <2>2. Len(Lines) \in Nat
    BY <2>1, LinesAreSequence
  <2>3. PICK n \in Nat : n = LinesRead /\ Whole(kinds[file], Lines, parse, n)
    <3>1. LinesRead \in Nat
      BY <2>1, <2>2 DEF LinesRead
    <3> QED
      BY <2>1, <3>1 DEF WholeInv
  <2>4. PICK heads : heads = HeadsTo(kinds[file], Lines, n)
    OBVIOUS
  <2>5. /\ \A k \in DOMAIN parse.rows : IsRecord(kinds[file], Lines, parse.rows[k].lines, Len(Lines))
        /\ \A j, k \in DOMAIN parse.rows : j < k => parse.rows[j].lines[1] < parse.rows[k].lines[1]
    BY <2>3 DEF Whole
  <2>6. CASE ~parse.raised
    <3>1. parse.open = <<>>
      <4>1. line = Len(Lines) + 2
        BY <2>1, <2>2, <2>6 DEF Read
      <4> QED
        BY <2>1, <2>6, <4>1 DEF ParseInv
    <3>2. heads = HeadsOf(parse.rows)
      BY <2>3, <2>4, <3>1 DEF Whole
    <3> QED
      BY <2>3, <2>4, <2>5, <2>6, <3>2 DEF RowsAreWhole
  <2>7. CASE parse.raised
    <3>1. parse.open # <<>>
      BY <2>3, <2>7 DEF Whole
    <3>0. parse.open[1] \in 1..n /\ parse.open[1] \in HeadsTo(kinds[file], Lines, n)
      BY <2>1, <2>3, <3>1, OpenBegins
    <3>2. PICK top \in Nat : top = parse.open[1] /\ top \in heads
      BY <2>4, <3>0
    <3>3. heads = HeadsOf(parse.rows) \cup {top}
      BY <2>3, <2>4, <3>1, <3>2 DEF Whole
    <3>4. \A y \in HeadsOf(parse.rows) : y \in Nat /\ y < top
      <4>1. \A k \in DOMAIN parse.rows : parse.rows[k].lines[1] \in 1..n
        BY <2>1, <2>3, OpenBegins
      <4>2. \A k \in DOMAIN parse.rows : parse.rows[k].lines[1] < top
        BY <2>3, <3>1, <3>2 DEF Whole
      <4> QED
        BY <4>1, <4>2 DEF HeadsOf
    <3>5. Max(heads) = top
      <4>1. top \in heads /\ \A y \in heads : y \in Nat /\ top >= y
        BY <3>2, <3>3, <3>4
      <4>2. ASSUME NEW z \in heads, \A y \in heads : z >= y
            PROVE  z = top
        <5>1. z \in Nat /\ top \in Nat /\ top >= z
          BY <3>2, <4>1
        <5>2. z >= top
          BY <4>1, <4>2
        <5> QED
          BY <5>1, <5>2
      <4> QED
        BY <4>1, <4>2 DEF Max
    <3>6. HeadsOf(parse.rows) = heads \ {top} /\ heads # {}
      BY <3>2, <3>3, <3>4
    <3> QED
      BY <2>3, <2>4, <2>5, <2>7, <3>5, <3>6 DEF RowsAreWhole
  <2> QED
    BY <2>6, <2>7
<1> QED
  BY <1>1, DiscoveryInvariance, ParseInvariance, WholeInvariance, PTL
================================================================================
