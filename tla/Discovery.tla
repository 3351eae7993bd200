------------------------------- MODULE Discovery -------------------------------
(***************************************************************************)
(* scan_sources (ingest/scan.py): the walk over the source trees of an     *)
(* import, the identity by which a file is taken once, and the threads     *)
(* that look into every file that is not an event log.  The tree may       *)
(* change meanwhile.                                                       *)
(***************************************************************************)
EXTENDS Sniff

CONSTANTS
    Worlds,        \* the trees, contents and --source options to start from: see World
    Peek,          \* the lines of a file that the head holds
    MaxMoves,      \* entries that are moved or removed while the scan runs
    MaxDenied      \* directories that cannot be listed

Gone == "gone"

(* entries: name |-> the directory it is in, what it is, and what it leads *)
(* to: a directory, the number of a file, or, for a link, a name.  A name  *)
(* is none of a directory.                                                 *)
(* contents: a sequence of FileHead.  specs: [root, host, codec], the root *)
(* a directory, or a name.  platform: where the listing of a directory says*)
(* which file an entry is, where only a stat does, and where nothing does. *)
World(w) ==
    /\ DOMAIN w = {"entries", "contents", "specs", "platform"}
    /\ \A e \in DOMAIN w.entries :
         /\ DOMAIN w.entries[e] = {"is", "in", "to", "suffix"}
         /\ w.entries[e].is \in {"dir", "file", "link"}
         /\ w.entries[e].in \notin DOMAIN w.entries
         /\ w.entries[e].is = "dir" => w.entries[e].to \notin DOMAIN w.entries
         /\ w.entries[e].is = "file" => w.entries[e].to \in DOMAIN w.contents
    /\ Gone \notin DOMAIN w.entries
    /\ 0 \notin DOMAIN w.contents
    /\ \A i \in DOMAIN w.contents : w.contents[i] \in FileHead
    /\ w.specs \in Seq(ToSet(w.specs))
    /\ w.platform \in {"posix", "windows", "inodeless"}

ASSUME DiscoveryAssumption ==
    /\ \A w \in Worlds : World(w)
    /\ Peek \in Nat \ {0} /\ MaxMoves \in Nat /\ MaxDenied \in Nat

VARIABLES
    world,      \* never changes but for the entries
    moved,      \* the names that are not where they were
    denied,     \* the directories that could not be listed
    scan,       \* "idle", "walking", "classifying", "scanned" or "raised"
    spec,       \* the source at hand
    stack,      \* directories of it still to be listed
    listing,    \* of the directory at hand: the entries not looked at
    current,    \* that directory
    seen,       \* the files taken
    kinds       \* what the threads found, by place in seen

scanVars == <<world, moved, denied, scan, spec, stack, listing, current, seen, kinds>>

Entry(e) == world.entries[e]
In(d) == {e \in DOMAIN world.entries : Entry(e).in = d}
Directories == {Entry(e).in : e \in DOMAIN world.entries} \ {Gone}

(* stat of a name follows a link; 0 for what is missing or no regular file.*)
FileOf(e) ==
    LET target == IF Entry(e).is = "link" /\ Entry(e).to \in DOMAIN world.entries THEN Entry(e).to ELSE e
    IN  IF Entry(e).in # Gone /\ Entry(target).in # Gone /\ Entry(target).is = "file" THEN Entry(target).to ELSE 0
Resolved(e) == IF Entry(e).is = "link" THEN Entry(e).to ELSE e

ScanInit ==
    /\ world \in Worlds
    /\ moved = {} /\ denied = {}
    /\ scan = "idle" /\ spec = 1 /\ stack = <<>> /\ listing = {} /\ current = Gone
    /\ seen = <<>> /\ kinds = <<>>

(* A file or a link goes elsewhere, or for good.                           *)
TreeChanges ==
    /\ scan \in {"idle", "walking", "classifying"} /\ Cardinality(moved) < MaxMoves
    /\ \E e \in DOMAIN world.entries \ moved, d \in Directories \cup {Gone} :
         /\ d # Entry(e).in /\ Entry(e).is # "dir"
         /\ world' = [world EXCEPT !.entries[e].in = d]
         /\ moved' = moved \cup {e}
    /\ UNCHANGED <<denied, scan, spec, stack, listing, current, seen, kinds>>

(***************************************************************************)
(* The walk.                                                               *)
(***************************************************************************)
Root == world.specs[spec].root
Exhausted == stack = <<>> /\ listing = {}

BeginSource ==
    /\ scan = "idle" /\ spec <= Len(world.specs)
    /\ \/ Root \in Directories /\ stack' = <<Root>> /\ UNCHANGED <<listing, current>>
       \/ /\ Root \in DOMAIN world.entries /\ FileOf(Root) # 0
          /\ listing' = {Root} /\ current' = Entry(Root).in /\ UNCHANGED stack
    /\ scan' = "walking"
    /\ UNCHANGED <<world, moved, denied, spec, seen, kinds>>

SourceMissing ==
    /\ scan = "idle" /\ spec <= Len(world.specs)
    /\ Root \notin Directories /\ (Root \in DOMAIN world.entries => FileOf(Root) = 0)
    /\ scan' = "raised"
    /\ UNCHANGED <<world, moved, denied, spec, stack, listing, current, seen, kinds>>

ListDirectory ==
    /\ scan = "walking" /\ listing = {} /\ stack # <<>>
    /\ current' = Last(stack) /\ listing' = In(Last(stack)) /\ stack' = Front(stack)
    /\ UNCHANGED <<world, moved, denied, scan, spec, seen, kinds>>

(* It has no permission, or is gone.                                       *)
CannotList ==
    /\ scan = "walking" /\ listing = {} /\ stack # <<>> /\ Cardinality(denied) < MaxDenied
    /\ denied' = denied \cup {Last(stack)} /\ stack' = Front(stack)
    /\ UNCHANGED <<world, moved, scan, spec, listing, current, seen, kinds>>

(* Mutant: a link to a directory is gone into.                             *)
FollowsLinks(e) == Entry(e).is = "dir" \/ (Entry(e).is = "link" /\ Entry(e).to \in Directories)

(* A link to a directory is not gone into.                                 *)
Descends(e) == Entry(e).is = "dir"

TakeDirectory(e) ==
    /\ scan = "walking" /\ e \in listing /\ Descends(e)
    /\ stack' = Append(stack, Entry(e).to) /\ listing' = listing \ {e}
    /\ UNCHANGED <<world, moved, denied, scan, spec, current, seen, kinds>>

(* On Windows a listing holds the stat of every file, which needs no other.*)
Cached(e) == world.platform = "windows" /\ Entry(e).is = "file" /\ e # Root
Stale(e) == ~Cached(e) /\ (Entry(e).in # current \/ FileOf(e) = 0)
FileSeen(e) == IF Cached(e) THEN Entry(e).to ELSE FileOf(e)

(* The stat fails, or it is no regular file.                               *)
PassEntry(e) ==
    /\ scan = "walking" /\ e \in listing /\ ~Descends(e) /\ Stale(e)
    /\ listing' = listing \ {e}
    /\ UNCHANGED <<world, moved, denied, scan, spec, stack, current, seen, kinds>>

Path(e) == IF FileOf(e) = 0 THEN <<current, e>> ELSE <<Entry(Resolved(e)).in, Resolved(e)>>

(* Mutant: a file is known by its path alone.                              *)
IdentityByPath(e) == Path(e)

(* The number of the file, from the listing or from a second stat; its     *)
(* path where there are no numbers, or where that stat fails.              *)
Identity(e) ==
    IF world.platform = "inodeless" \/ (Cached(e) /\ Entry(e).in # current) THEN Path(e) ELSE <<FileSeen(e)>>

Evtx(e) == Entry(e).suffix = "evtx"
Wanted(e) == Evtx(e) \/ (Entry(e).suffix # "skip" /\ world.contents[FileSeen(e)].start # "empty")
Key(e) == <<Identity(e), world.specs[spec].host, IF Evtx(e) THEN world.specs[spec].codec ELSE Gone, Evtx(e)>>

TakeFile(e) ==
    /\ scan = "walking" /\ e \in listing /\ ~Descends(e) /\ ~Stale(e)
    /\ seen' = IF Wanted(e) /\ \A i \in DOMAIN seen : seen[i].key # Key(e)
               THEN Append(seen, [key |-> Key(e), name |-> e, in |-> current, file |-> FileSeen(e)]) ELSE seen
    /\ listing' = listing \ {e}
    /\ UNCHANGED <<world, moved, denied, scan, spec, stack, current, kinds>>

EndSource ==
    /\ scan = "walking" /\ Exhausted
    /\ spec' = spec + 1
    /\ scan' = IF spec = Len(world.specs) THEN "classifying" ELSE "idle"
    /\ kinds' = IF spec = Len(world.specs) THEN [i \in DOMAIN seen |-> IF seen[i].key[4] THEN "evtx" ELSE "pending"] ELSE kinds
    /\ UNCHANGED <<world, moved, denied, stack, listing, current, seen>>

(***************************************************************************)
(* The threads that classify.  A head that cannot be read is unknown.      *)
(***************************************************************************)
Prefix(head) == [head EXCEPT !.lines = SubSeq(@, 1, Min({Peek, Len(@)}))]
StillThere(i) == Entry(seen[i].name).in = seen[i].in /\ FileOf(seen[i].name) # 0

Classify(i) ==
    /\ scan = "classifying" /\ i \in DOMAIN kinds /\ kinds[i] = "pending"
    /\ kinds' = [kinds EXCEPT ![i] = IF StillThere(i) THEN ClassifyFile(Prefix(world.contents[FileOf(seen[i].name)]))
                                     ELSE None]
    /\ UNCHANGED <<world, moved, denied, scan, spec, stack, listing, current, seen>>

EndScan ==
    /\ scan = "classifying" /\ "pending" \notin ToSet(kinds)
    /\ scan' = "scanned"
    /\ UNCHANGED <<world, moved, denied, spec, stack, listing, current, seen, kinds>>

Walk ==
    \/ BeginSource \/ SourceMissing \/ ListDirectory \/ CannotList \/ EndSource \/ EndScan
    \/ \E e \in DOMAIN world.entries : TakeDirectory(e) \/ PassEntry(e) \/ TakeFile(e)
    \/ \E i \in DOMAIN kinds : Classify(i)

(***************************************************************************)
(* What a scan owes the analyst.  Under(e, d): e is in d, or in a          *)
(* directory under it.                                                     *)
(***************************************************************************)
Places == {Entry(e).in : e \in DOMAIN world.entries} \cup {Entry(e).to : e \in {x \in DOMAIN world.entries : Entry(x).is = "dir"}}
Closed(ds) == \A e \in DOMAIN world.entries : Entry(e).is = "dir" /\ Entry(e).in \in ds => Entry(e).to \in ds
Under(e, d) == \A ds \in SUBSET (Places \cup {d}) : d \in ds /\ Closed(ds) => Entry(e).in \in ds
Undisturbed(e) == {e, Resolved(e)} \cap moved = {}
SameFile(a, b) == a.file = b.file /\ \A k \in 2..4 : a.key[k] = b.key[k]
Host(k) == world.specs[k].host

(* No file is taken twice for one host, unless it moved, or has two names  *)
(* that nothing connects; and every file that stayed where it was, under a *)
(* source that could be listed, is taken for the host of that source.      *)
Walked == scan = "classifying" /\ \A i \in DOMAIN kinds : kinds[i] \in {"evtx", "pending"}
Due(e) == /\ Undisturbed(e) /\ FileOf(e) # 0
          /\ Entry(e).suffix # "skip" /\ world.contents[FileOf(e)].start # "empty"
Taken(e, k) == \E i \in DOMAIN seen : seen[i].file = FileOf(e) /\ seen[i].key[2] = Host(k)
TakenOnce ==
    Walked =>
        /\ \A i, j \in DOMAIN seen :
             i # j /\ SameFile(seen[i], seen[j]) =>
                 \/ world.platform # "posix" /\ ~(Undisturbed(seen[i].name) /\ Undisturbed(seen[j].name))
                 \/ world.platform = "inodeless" /\ Resolved(seen[i].name) # Resolved(seen[j].name)
        /\ denied = {} =>
             \A k \in DOMAIN world.specs, e \in DOMAIN world.entries :
                 Due(e) /\ (world.specs[k].root = e \/ Under(e, world.specs[k].root)) => Taken(e, k)

(***************************************************************************)
(* Why it does: what is known at every point of the walk.                  *)
(***************************************************************************)
Listable == {Entry(e).to : e \in {x \in DOMAIN world.entries : Entry(x).is = "dir"}} \cup
            {world.specs[k].root : k \in DOMAIN world.specs}
TypeOK ==
    /\ World(world) /\ moved \subseteq DOMAIN world.entries
    /\ scan \in {"idle", "walking", "classifying", "scanned", "raised"}
    /\ spec \in 1..Len(world.specs) + 1
    /\ stack \in Seq(Listable) /\ listing \subseteq DOMAIN world.entries
    /\ seen \in Seq(ToSet(seen))
    /\ DOMAIN kinds = IF scan \in {"classifying", "scanned"} THEN DOMAIN seen ELSE {}

(* What has been listed and not looked at is where it was, or has moved.   *)
ListingInv ==
    /\ scan = "walking" => spec <= Len(world.specs)
    /\ scan = "classifying" => spec = Len(world.specs) + 1
    /\ scan = "idle" => Exhausted
    /\ \A e \in listing : e \in moved \/ Entry(e).in = current

(* What a file is known by: its number; or its path, where there are no    *)
(* numbers, or where it went between the listing and the stat.             *)
Known(s) ==
    /\ s.name \in DOMAIN world.entries
    /\ s.key = <<s.key[1], s.key[2], s.key[3], s.key[4]>>
    /\ IF world.platform = "inodeless"
       THEN /\ Resolved(s.name) \in DOMAIN world.entries /\ s.file = Entry(Resolved(s.name)).to
            /\ s.key[1] = <<s.key[1][1], Resolved(s.name)>>
            /\ Undisturbed(s.name) => s.key[1] = <<Entry(Resolved(s.name)).in, Resolved(s.name)>>
       ELSE \/ s.key[1] = <<s.file>>
            \/ world.platform = "windows" /\ s.name \in moved /\ Len(s.key[1]) = 2
SeenInv ==
    /\ \A i \in DOMAIN seen : Known(seen[i])
    /\ \A i, j \in DOMAIN seen : seen[i].key = seen[j].key => i = j

(* A source is covered by the directories that were gone into, up to what  *)
(* is left of a listing and what is to be listed.                          *)
Covered(k, ds, left, todo) ==
    LET root == world.specs[k].root
    IN  /\ IF root \in DOMAIN world.entries THEN root \in left \/ (Due(root) => Taken(root, k))
           ELSE root \in ds \cup todo
        /\ \A e \in DOMAIN world.entries \ left :
             Entry(e).in \in ds =>
                 /\ Descends(e) => Entry(e).to \in ds \cup todo
                 /\ Due(e) => Taken(e, k)
CoverInv ==
    denied = {} =>
        /\ \A k \in 1..spec - 1 : \E ds \in SUBSET Listable : Covered(k, ds, {}, {})
        /\ scan = "walking" => \E ds \in SUBSET Listable : Covered(spec, ds, listing, ToSet(stack))

(* A file that is missing while its name is not moved does not come back:  *)
(* it is a link to one that went for good.                                 *)
LostInv ==
    \A i \in DOMAIN seen :
        seen[i].name \notin moved /\ FileOf(seen[i].name) = 0 =>
            Entry(seen[i].name).in = Gone \/ (Entry(seen[i].name).is = "link" /\ Entry(seen[i].name).to \in moved)

KindInv ==
    \A i \in DOMAIN kinds :
        kinds[i] \notin {"pending", "evtx"} /\ StillThere(i) /\ seen[i].name \notin moved =>
            kinds[i] = ClassifyFile(Prefix(world.contents[FileOf(seen[i].name)]))

DiscoveryInv == TypeOK /\ ListingInv /\ SeenInv /\ CoverInv /\ LostInv /\ KindInv
=================================================================================
