--------------------------- MODULE FileStagingProofs ---------------------------
(***************************************************************************)
(* What the report of a file says is true, for every file, every limit,    *)
(* both formats and whichever write fails.                                 *)
(***************************************************************************)
EXTENDS FileStaging, SumTheorems, SequenceTheorems

Sized(X) == \A x \in X : x.size \in Nat

-----------------------------------------------------------------------------
(* The size of some rows is a sum, ...                                     *)
Plus(X) == [p \in Nat \X X |-> p[1] + p[2].size]
SizeEq(s, h) == h = [V \in SUBSET DOMAIN s |-> IF V = {} THEN 0 ELSE h[V \ {Max(V)}] + s[Max(V)].size]

(* ... computed by a fold whose step is a function.                        *)
LEMMA SizeIsFold ==
    ASSUME NEW X, Sized(X), NEW s \in Seq(X)
    PROVE  SizeOf(s) = FoldBy(Plus(X), 0, s) /\ SizeOf(s) \in Nat
<1> DEFINE D == DOMAIN s
           g == SeqFoldOf(Plus(X), 0, s, D)
           h == CHOOSE f : SizeEq(s, f)
<1>0. Indices(D)
  BY IndicesOfSeq
<1>1. Plus(X) \in [Nat \X X -> Nat] /\ 0 \in Nat
  BY DEF Plus, Sized
<1>2. /\ g = [V \in SUBSET D |-> IF V = {} THEN 0 ELSE Plus(X)[<<g[Before(V)], s[Max(V)]>>]]
      /\ \A V \in SUBSET D : V # {} => g[Before(V)] \in Nat /\ s[Max(V)] \in X
  BY <1>1, FoldEquation
<1>3. g[D] \in Nat
  BY <1>1, FoldStays
<1> HIDE DEF g
<1>4. SizeEq(s, g)
  <2>1. \A V \in SUBSET D : V # {} => Plus(X)[<<g[Before(V)], s[Max(V)]>>] = g[Before(V)] + s[Max(V)].size
    BY <1>2 DEF Plus
  <2> QED
    BY <1>2, <2>1 DEF SizeEq, Before
<1>5. SizeEq(s, h)
  BY <1>4
<1> HIDE DEF h
<1>6. InStep(g, h, D)
  BY <1>4, <1>5 DEF InStep, SizeEq, Before
<1>7. g[D] = h[D]
  BY <1>0, <1>6, StepsAgree
<1>8. SizeOf(s) = h[D]
  BY DEF SizeOf, FoldLeft, MapThenFoldSet, SizeEq, h
<1> QED
  BY <1>3, <1>7, <1>8, FoldIsLast DEF g

(* The sizes of no rows and of one more.                                   *)
LEMMA SizeEmpty == SizeOf(<<>>) = 0
<1>1. Sized({}) /\ <<>> \in Seq({})
  BY DEF Sized
<1>2. SizeOf(<<>>) = FoldBy(Plus({}), 0, <<>>)
  BY <1>1, SizeIsFold
<1>3. FoldBy(Plus({}), 0, <<>>) = 0
  BY FoldEmpty
<1> QED
  BY <1>2, <1>3

(* Sequences are joined in any order.                                      *)
LEMMA JoinedInAnyOrder ==
    ASSUME NEW S
    PROVE  \A p, q, r \in Seq(S) : (p \o q) \o r = p \o (q \o r)
<1> SUFFICES ASSUME NEW p \in Seq(S), NEW q \in Seq(S), NEW r \in Seq(S)
             PROVE  (p \o q) \o r = p \o (q \o r)
  OBVIOUS
<1> QED
  BY ConcatAssociative

(* One more row adds its size.                                             *)
LEMMA SizeAppend ==
    ASSUME NEW X, Sized(X), NEW s \in Seq(X), NEW x \in X
    PROVE  SizeOf(Append(s, x)) = SizeOf(s) + x.size
<1>1. Append(s, x) \in Seq(X)
  OBVIOUS
<1>2. SizeOf(s) \in Nat /\ SizeOf(s) = FoldBy(Plus(X), 0, s)
  BY SizeIsFold
<1>3. SizeOf(Append(s, x)) = FoldBy(Plus(X), 0, Append(s, x))
  BY <1>1, SizeIsFold
<1>4. PICK G, b : G = Plus(X) /\ b = 0
  OBVIOUS
<1>5. FoldBy(G, b, Append(s, x)) = G[<<FoldBy(G, b, s), x>>]
  BY FoldAppend
<1> QED
  BY <1>2, <1>3, <1>4, <1>5 DEF Plus

-----------------------------------------------------------------------------
(* The parts that items are packed into, one item after the other.         *)
PackStep(parts, item, limit) ==
    IF parts = <<>> \/ SizeOf(Last(parts)) + item.size > limit
    THEN Append(parts, <<item>>)
    ELSE Append(Front(parts), Append(Last(parts), item))
Packing(X, limit) == [p \in Seq(Seq(X)) \X X |-> PackStep(p[1], p[2], limit)]
PackEq(s, limit, h) ==
    h = [V \in SUBSET DOMAIN s |-> IF V = {} THEN <<>> ELSE PackStep(h[V \ {Max(V)}], s[Max(V)], limit)]

(* Parts stay parts.                                                       *)
LEMMA PackTyped ==
    ASSUME NEW X, NEW limit
    PROVE  Packing(X, limit) \in [Seq(Seq(X)) \X X -> Seq(Seq(X))] /\ <<>> \in Seq(Seq(X))
<1> SUFFICES ASSUME NEW parts \in Seq(Seq(X)), NEW x \in X
             PROVE  PackStep(parts, x, limit) \in Seq(Seq(X))
  BY DEF Packing
<1>1. <<x>> \in Seq(X) /\ Append(parts, <<x>>) \in Seq(Seq(X))
  OBVIOUS
<1>2. ASSUME parts # <<>> PROVE Append(Front(parts), Append(Last(parts), x)) \in Seq(Seq(X))
  <2>1. Front(parts) \in Seq(Seq(X)) /\ Last(parts) \in Seq(X)
    BY <1>2, FrontAndLast
  <2> QED
    BY <2>1
<1> QED
  BY <1>1, <1>2 DEF PackStep

(* They are a fold whose step is a function.                               *)
LEMMA PackedIsFold ==
    ASSUME NEW X, NEW s \in Seq(X), NEW limit
    PROVE  Packed(s, limit) = FoldBy(Packing(X, limit), <<>>, s) /\ Packed(s, limit) \in Seq(Seq(X))
<1> DEFINE D == DOMAIN s
           g == SeqFoldOf(Packing(X, limit), <<>>, s, D)
           h == CHOOSE f : PackEq(s, limit, f)
<1>0. Indices(D)
  BY IndicesOfSeq
<1>1. Packing(X, limit) \in [Seq(Seq(X)) \X X -> Seq(Seq(X))] /\ <<>> \in Seq(Seq(X))
  BY PackTyped
<1>2. /\ g = [V \in SUBSET D |-> IF V = {} THEN <<>> ELSE Packing(X, limit)[<<g[Before(V)], s[Max(V)]>>]]
      /\ \A V \in SUBSET D : V # {} => g[Before(V)] \in Seq(Seq(X)) /\ s[Max(V)] \in X
  BY <1>1, FoldEquation
<1>3. g[D] \in Seq(Seq(X))
  BY <1>1, FoldStays
<1> HIDE DEF g
<1>4. PackEq(s, limit, g)
  <2>1. \A a \in Seq(Seq(X)), x \in X : Packing(X, limit)[<<a, x>>] = PackStep(a, x, limit)
    BY DEF Packing
  <2>2. \A V \in SUBSET D : V # {} => Packing(X, limit)[<<g[Before(V)], s[Max(V)]>>] = PackStep(g[Before(V)], s[Max(V)], limit)
    BY <1>2, <2>1
  <2> QED
    BY <1>2, <2>2 DEF PackEq, Before
<1>5. PackEq(s, limit, h)
  BY <1>4
<1> HIDE DEF h
<1>6. InStep(g, h, D)
  BY <1>4, <1>5 DEF InStep, PackEq, Before
<1>7. g[D] = h[D]
  BY <1>0, <1>6, StepsAgree
<1>8. Packed(s, limit) = h[D]
  BY DEF Packed, FoldLeft, MapThenFoldSet, PackEq, PackStep, h
<1> QED
  BY <1>3, <1>7, <1>8, FoldIsLast DEF g

(* No item, and one item more.                                             *)
LEMMA PackedEmpty == ASSUME NEW limit PROVE Packed(<<>>, limit) = <<>>
<1>1. <<>> \in Seq({})
  OBVIOUS
<1>2. PICK G, b : G = Packing({}, limit) /\ b = <<>>
  OBVIOUS
<1>3. Packed(<<>>, limit) = FoldBy(G, b, <<>>)
  BY <1>1, <1>2, PackedIsFold
<1>4. FoldBy(G, b, <<>>) = b
  BY FoldEmpty
<1> QED
  BY <1>2, <1>3, <1>4

(* An item more either fits into the last slice or begins one.             *)
LEMMA PackedAppend ==
    ASSUME NEW X, NEW s \in Seq(X), NEW x \in X, NEW limit
    PROVE  Packed(Append(s, x), limit) = PackStep(Packed(s, limit), x, limit)
<1>0. Append(s, x) \in Seq(X)
  OBVIOUS
<1>1. PICK t \in Seq(X) : t = Append(s, x)
  BY <1>0
<1>2. PICK G, b : G = Packing(X, limit) /\ b = <<>>
  OBVIOUS
<1>3. Packed(s, limit) = FoldBy(G, b, s) /\ Packed(s, limit) \in Seq(Seq(X))
  BY <1>2, PackedIsFold
<1>4. Packed(t, limit) = FoldBy(G, b, t)
  BY <1>2, PackedIsFold
<1>5. FoldBy(G, b, Append(s, x)) = G[<<FoldBy(G, b, s), x>>]
  BY FoldAppend
<1>6. G[<<Packed(s, limit), x>>] = PackStep(Packed(s, limit), x, limit)
  BY <1>2, <1>3 DEF Packing
<1> QED
  BY <1>1, <1>3, <1>4, <1>5, <1>6

(* The parts hold every item once and in order, and each keeps to the      *)
(* limit or is a single item.                                              *)
THEOREM PackedIsWhole ==
    ASSUME NEW X, Sized(X), NEW s \in Seq(X), NEW limit \in Nat
    PROVE  /\ Packed(s, limit) \in Seq(Seq(X))
           /\ FlattenSeq(Packed(s, limit)) = s
           /\ \A k \in DOMAIN Packed(s, limit) : Fits(Packed(s, limit)[k], limit)
<1> DEFINE Fine(t) == FlattenSeq(Packed(t, limit)) = t /\ \A k \in DOMAIN Packed(t, limit) : Fits(Packed(t, limit)[k], limit)
           Reached == {t \in Seq(X) : Fine(t)}
<1>1. <<>> \in Reached
  <2>1. DOMAIN <<>> = {}
    OBVIOUS
  <2>2. Fine(<<>>)
    BY <2>1, PackedEmpty, FlattenEmpty
  <2> HIDE DEF Fine
  <2> QED
    BY <2>2
<1>2. ASSUME NEW t \in Seq(X), NEW x \in X, t \in Reached PROVE Append(t, x) \in Reached
  <2>1. PICK parts, u : parts = Packed(t, limit) /\ u = Packed(Append(t, x), limit)
    OBVIOUS
  <2>2. parts \in Seq(Seq(X)) /\ u = PackStep(parts, x, limit)
    BY <2>1, PackedIsFold, PackedAppend
  <2>3. FlattenSeq(parts) = t /\ \A k \in DOMAIN parts : Fits(parts[k], limit)
    BY <1>2, <2>1
  <2>4. <<x>> \in Seq(X) /\ Append(t, x) \in Seq(X)
    OBVIOUS
  <2>5. ASSUME u = Append(parts, <<x>>) PROVE FlattenSeq(u) = Append(t, x) /\ \A k \in DOMAIN u : Fits(u[k], limit)
    <3>1. FlattenSeq(u) = FlattenSeq(parts) \o <<x>>
      BY <2>2, <2>4, <2>5, FlattenAppend
    <3>2. t \o <<x>> = Append(t, x)
      OBVIOUS
    <3>3. Fits(<<x>>, limit)
      BY DEF Fits
    <3>4. \A k \in DOMAIN u : u[k] = <<x>> \/ (k \in DOMAIN parts /\ u[k] = parts[k])
      BY <2>2, <2>5
    <3> QED
      BY <2>3, <3>1, <3>2, <3>3, <3>4
  <2>6. ASSUME parts # <<>>, SizeOf(Last(parts)) + x.size <= limit, u = Append(Front(parts), Append(Last(parts), x))
        PROVE  FlattenSeq(u) = Append(t, x) /\ \A k \in DOMAIN u : Fits(u[k], limit)
    <3>a. Front(parts) \in Seq(Seq(X)) /\ Last(parts) \in Seq(X) /\ parts = Append(Front(parts), Last(parts))
      BY <2>2, <2>6, FrontAndLast
    <3>1. PICK f \in Seq(Seq(X)), l \in Seq(X) : f = Front(parts) /\ l = Last(parts) /\ parts = Append(f, l)
      BY <3>a
    <3>0. Append(l, x) \in Seq(X)
      OBVIOUS
    <3>2. PICK m \in Seq(X) : m = Append(l, x)
      BY <3>0
    <3>3. FlattenSeq(parts) = FlattenSeq(f) \o l /\ FlattenSeq(u) = FlattenSeq(f) \o m
      BY <2>6, <3>1, <3>2, FlattenAppend
    <3>4. FlattenSeq(f) \in Seq(X)
      BY FlattenTyped
    <3>5. \A v \in Seq(X) : v \o m = Append(v \o l, x)
      BY <3>2
    <3>6. Fits(m, limit)
      <4>1. SizeOf(m) = SizeOf(l) + x.size
        BY <3>2, SizeAppend
      <4> QED
        BY <2>6, <3>1, <4>1 DEF Fits
    <3>7. \A k \in DOMAIN u : u[k] = m \/ (k \in DOMAIN parts /\ u[k] = parts[k])
      BY <2>6, <3>1, <3>2
    <3>8. FlattenSeq(u) = Append(t, x)
      BY <2>3, <3>3, <3>4, <3>5
    <3> QED
      BY <2>3, <3>6, <3>7, <3>8
  <2>7. u = Append(parts, <<x>>) \/ (parts # <<>> /\ SizeOf(Last(parts)) + x.size <= limit /\ u = Append(Front(parts), Append(Last(parts), x)))
    <3>1. CASE parts = <<>>
      BY <2>2, <3>1 DEF PackStep
    <3>2. CASE parts # <<>>
      <4>1. Last(parts) \in Seq(X)
        BY <2>2, <3>2, FrontAndLast
      <4>2. SizeOf(Last(parts)) \in Nat /\ x.size \in Nat
        BY <4>1, SizeIsFold DEF Sized
      <4> QED
        BY <2>2, <3>2, <4>2 DEF PackStep
    <3> QED
      BY <3>1, <3>2
  <2>8. Fine(Append(t, x))
    BY <2>1, <2>5, <2>6, <2>7
  <2> HIDE DEF Fine
  <2> QED
    BY <2>4, <2>8
<1>3. s \in Reached
  <2> HIDE DEF Reached
  <2> QED
    BY <1>1, <1>2, ItemByItem
<1> QED
  BY <1>3, PackedIsFold

-----------------------------------------------------------------------------
(* The size of two sequences in one.                                       *)
LEMMA SizeConcat ==
    ASSUME NEW X, Sized(X), NEW s \in Seq(X), NEW t \in Seq(X)
    PROVE  SizeOf(s \o t) = SizeOf(s) + SizeOf(t)
<1> DEFINE Reached == {u \in Seq(X) : SizeOf(s \o u) = SizeOf(s) + SizeOf(u)}
<1>1. <<>> \in Reached
  <2>1. s \o <<>> = s /\ <<>> \in Seq(X)
    OBVIOUS
  <2>2. SizeOf(s) \in Nat /\ SizeOf(<<>>) = 0
    BY SizeIsFold, SizeEmpty
  <2>3. SizeOf(s \o <<>>) = SizeOf(s) + SizeOf(<<>>)
    BY <2>1, <2>2
  <2> QED
    BY <2>1, <2>3
<1>2. ASSUME NEW u \in Seq(X), NEW x \in X, u \in Reached PROVE Append(u, x) \in Reached
  <2>1. PICK v, w : v = s \o u /\ w = Append(u, x)
    OBVIOUS
  <2>2. v \in Seq(X) /\ w \in Seq(X) /\ s \o w = Append(v, x)
    BY <2>1
  <2>3. SizeOf(Append(v, x)) = SizeOf(v) + x.size
    BY <2>2, SizeAppend
  <2>4. SizeOf(w) = SizeOf(u) + x.size
    BY <2>1, SizeAppend
  <2>5. SizeOf(v) = SizeOf(s) + SizeOf(u)
    BY <1>2, <2>1
  <2>6. SizeOf(s) \in Nat /\ SizeOf(u) \in Nat /\ x.size \in Nat
    BY SizeIsFold DEF Sized
  <2>7. SizeOf(s \o w) = SizeOf(s) + SizeOf(w)
    BY <2>2, <2>3, <2>4, <2>5, <2>6
  <2> QED
    BY <2>1, <2>2, <2>7
<1>3. t \in Reached
  <2> HIDE DEF Reached
  <2> QED
    BY <1>1, <1>2, ItemByItem
<1> QED
  BY <1>3

-----------------------------------------------------------------------------
(* The rows of shards, and what is read back of them.                      *)
RowsOf(files, chunks) == [k \in DOMAIN chunks |-> files[chunks[k].path].rows]

(* What is read back of some shards is the same while the rows of these    *)
(* shards are.                                                             *)
LEMMA ReadBackStays ==
    ASSUME NEW files, NEW others, NEW chunks, RowsOf(files, chunks) = RowsOf(others, chunks)
    PROVE  ReadBack(files, chunks) = ReadBack(others, chunks)
  BY DEF ReadBack, RowsOf

(* It is made of rows.                                                     *)
LEMMA ReadBackTyped ==
    ASSUME NEW R, NEW chunks \in Seq(Shard), NEW files, \A k \in DOMAIN chunks : files[chunks[k].path].rows \in Seq(R)
    PROVE  RowsOf(files, chunks) \in Seq(Seq(R)) /\ ReadBack(files, chunks) \in Seq(R)
<1>1. RowsOf(files, chunks) \in Seq(Seq(R))
  <2>1. PICK n \in Nat : DOMAIN chunks = 1..n
    BY DOMAIN chunks = 1..Len(chunks)
  <2>2. PICK f : f = RowsOf(files, chunks)
    OBVIOUS
  <2>3. f = [k \in 1..n |-> f[k]] /\ \A k \in 1..n : f[k] \in Seq(R)
    BY <2>1, <2>2 DEF RowsOf
  <2> QED
    BY <2>2, <2>3
<1>2. FlattenSeq(RowsOf(files, chunks)) \in Seq(R)
  BY <1>1, FlattenTyped
<1> QED
  BY <1>1, <1>2 DEF ReadBack, RowsOf

(* One more shard comes last.                                              *)
LEMMA ReadBackGrows ==
    ASSUME NEW R, NEW chunks \in Seq(Shard), NEW files, \A k \in DOMAIN chunks : files[chunks[k].path].rows \in Seq(R),
           NEW c \in Shard, files[c.path].rows \in Seq(R)
    PROVE  ReadBack(files, Append(chunks, c)) = ReadBack(files, chunks) \o files[c.path].rows
<1>1. PICK s, t, r : s = RowsOf(files, chunks) /\ t = RowsOf(files, Append(chunks, c)) /\ r = files[c.path].rows
  OBVIOUS
<1>2. s \in Seq(Seq(R)) /\ r \in Seq(R)
  BY <1>1, ReadBackTyped
<1>3. t = Append(s, r)
  <2>1. PICK n \in Nat : n = Len(chunks)
    OBVIOUS
  <2>2. PICK d : d = Append(chunks, c)
    OBVIOUS
  <2>3. /\ d \in Seq(Shard) /\ DOMAIN d = 1..n + 1 /\ d[n + 1] = c /\ DOMAIN chunks = 1..n
        /\ \A k \in 1..n : d[k] = chunks[k]
    BY <2>1, <2>2
  <2>4. t = [k \in 1..n + 1 |-> files[d[k].path].rows] /\ s = [k \in 1..n |-> files[chunks[k].path].rows]
    BY <1>1, <2>2, <2>3 DEF RowsOf
  <2>5. Len(s) = n /\ \A k \in 1..n : t[k] = s[k]
    BY <2>3, <2>4
  <2>6. t[n + 1] = r
    BY <1>1, <2>3, <2>4
  <2>7. PICK a : a = Append(s, r)
    OBVIOUS
  <2>8. a \in Seq(Seq(R)) /\ DOMAIN a = 1..n + 1 /\ a[n + 1] = r /\ \A k \in 1..n : a[k] = s[k]
    <3>1. a \in Seq(Seq(R)) /\ Len(a) = n + 1
      BY <1>2, <2>5, <2>7
    <3>2. a[n + 1] = r /\ \A k \in 1..n : a[k] = s[k]
      BY <1>2, <2>5, <2>7
    <3> QED
      BY <3>1, <3>2
  <2>9. \A k \in 1..n + 1 : k \in 1..n \/ k = n + 1
    BY <2>1
  <2>10. a = [k \in 1..n + 1 |-> a[k]] /\ t = [k \in 1..n + 1 |-> t[k]]
    BY <2>4, <2>8
  <2>11. \A k \in 1..n + 1 : a[k] = t[k]
    BY <2>5, <2>6, <2>8, <2>9
  <2>12. a = t
    BY <2>10, <2>11
  <2> QED
    BY <2>7, <2>12
<1>4. FlattenSeq(t) = FlattenSeq(s) \o r
  BY <1>2, <1>3, FlattenAppend
<1> QED
  BY <1>1, <1>4 DEF ReadBack, RowsOf

-----------------------------------------------------------------------------
(* A writer that did not fail, field by field: its buffer, its shards, its *)
(* count, the shard it writes, the path of it, and the files.              *)
W(a, b, c, d, e, f) ==
    [rows |-> a, chunks |-> b, count |-> c, live |-> d, path |-> e, files |-> f, failed |-> FALSE, aborted |-> FALSE]

(* What it has on the disk, and the rows of that.                          *)
Disk(R, b, d, e, f) ==
    /\ b \in Seq(Shard) /\ d \in Nat \cup {NoShard} /\ e \in Nat
    /\ DOMAIN f = 0..Len(b) - 1 \cup ({d} \ {NoShard})
    /\ f \in [DOMAIN f -> [rows : Seq(R), whole : BOOLEAN]]
    /\ d # NoShard => d = Len(b) /\ e = d
    /\ \A k \in DOMAIN b :
         /\ b[k] = [path |-> k - 1, size |-> SizeOf(f[k - 1].rows), records |-> Len(f[k - 1].rows)]
         /\ f[k - 1].whole
    /\ \A p \in DOMAIN f : Fits(f[p].rows, ChunkBytes)
OnDisk(b, d, f) == ReadBack(f, b) \o (IF d = NoShard THEN <<>> ELSE f[d].rows)
Sound(o, R)     == IsWriter(o, R) /\ Consistent(o)

(* The files with a shard more, with more rows in one, with one finished.  *)
Opened(f, n)     == [x \in DOMAIN f \cup {n} |-> IF x = n THEN [rows |-> <<>>, whole |-> FALSE] ELSE f[x]]
Written(f, e, r) == [f EXCEPT ![e].rows = @ \o r]
Finished(f, e)   == [f EXCEPT ![e].whole = TRUE]
ShardAt(f, e)    == [path |-> e, size |-> SizeOf(f[e].rows), records |-> Len(f[e].rows)]

(* The same, as the invariant has it.                                      *)
LEMMA SoundFields ==
    ASSUME NEW R, NEW o, Sound(o, R)
    PROVE  /\ o = W(o.rows, o.chunks, o.count, o.live, o.path, o.files)
           /\ o.rows \in Seq(R) /\ o.count \in Nat /\ Fits(o.rows, BatchLimit)
           /\ Disk(R, o.chunks, o.live, o.path, o.files)
           /\ Stored(o) = OnDisk(o.chunks, o.live, o.files)
<1>1. o \in Writer(R, {o.files})
  BY DEF Sound, IsWriter
<1>2. /\ o = [rows |-> o.rows, chunks |-> o.chunks, count |-> o.count, live |-> o.live, path |-> o.path,
              files |-> o.files, failed |-> o.failed, aborted |-> o.aborted]
      /\ o.rows \in Seq(R) /\ o.chunks \in Seq(Shard) /\ o.count \in Nat /\ o.live \in Nat \cup {NoShard} /\ o.path \in Nat
  BY <1>1 DEF Writer
<1>3. ~o.failed /\ ~o.aborted /\ o.failed \in BOOLEAN /\ o.aborted \in BOOLEAN
  BY <1>1 DEF Sound, Consistent, Writer
<1>4. o = W(o.rows, o.chunks, o.count, o.live, o.path, o.files)
  BY <1>2, <1>3 DEF W
<1>5. Disk(R, o.chunks, o.live, o.path, o.files)
  BY <1>2 DEF Disk, Sound, IsWriter, Consistent
<1> QED
  BY <1>2, <1>4, <1>5 DEF Sound, Consistent, Stored, OnDisk

(* A sound writer from its fields.                                         *)
LEMMA SoundW ==
    ASSUME NEW R, NEW a \in Seq(R), Fits(a, BatchLimit), NEW b, NEW c \in Nat, NEW d, NEW e, NEW f, Disk(R, b, d, e, f)
    PROVE  Sound(W(a, b, c, d, e, f), R) /\ Stored(W(a, b, c, d, e, f)) = OnDisk(b, d, f)
<1>1. PICK o : o = W(a, b, c, d, e, f)
  OBVIOUS
<1>2. o.rows = a /\ o.chunks = b /\ o.count = c /\ o.live = d /\ o.path = e /\ o.files = f /\ o.failed = FALSE /\ o.aborted = FALSE
  BY <1>1 DEF W
<1>3. o \in Writer(R, {f})
  BY <1>1 DEF W, Writer, Disk
<1>4. IsWriter(o, R)
  BY <1>2, <1>3 DEF IsWriter, Disk
<1>5. Consistent(o)
  BY <1>2 DEF Consistent, Disk
<1>6. Stored(o) = OnDisk(b, d, f)
  BY <1>2 DEF Stored, OnDisk
<1> QED
  BY <1>1, <1>4, <1>5, <1>6 DEF Sound

(* The files of the shards that are finished, and the one that is not.     *)
LEMMA DiskFiles ==
    ASSUME NEW R, NEW b, NEW d, NEW e, NEW f, Disk(R, b, d, e, f)
    PROVE  /\ \A k \in DOMAIN b : b[k].path = k - 1 /\ k - 1 \in DOMAIN f /\ k - 1 < Len(b) /\ f[b[k].path].rows \in Seq(R)
           /\ \A p \in DOMAIN f : f[p].rows \in Seq(R) /\ f[p].whole \in BOOLEAN /\ f[p] = [rows |-> f[p].rows, whole |-> f[p].whole]
           /\ d # NoShard => d \in DOMAIN f /\ d = e /\ d = Len(b)
           /\ Len(b) \in Nat /\ ReadBack(f, b) \in Seq(R) /\ OnDisk(b, d, f) \in Seq(R)
<1>1. Len(b) \in Nat /\ DOMAIN b = 1..Len(b)
  BY DEF Disk
<1>2. \A p \in DOMAIN f : f[p].rows \in Seq(R) /\ f[p].whole \in BOOLEAN /\ f[p] = [rows |-> f[p].rows, whole |-> f[p].whole]
  <2> SUFFICES ASSUME NEW p \in DOMAIN f
               PROVE  f[p].rows \in Seq(R) /\ f[p].whole \in BOOLEAN /\ f[p] = [rows |-> f[p].rows, whole |-> f[p].whole]
    OBVIOUS
  <2>1. f[p] \in [rows : Seq(R), whole : BOOLEAN]
    BY DEF Disk
  <2> QED
    BY <2>1
<1>3. \A k \in DOMAIN b : b[k].path = k - 1 /\ k - 1 \in DOMAIN f /\ k - 1 < Len(b)
  BY <1>1 DEF Disk
<1>4. \A k \in DOMAIN b : f[b[k].path].rows \in Seq(R)
  BY <1>2, <1>3
<1>5. d # NoShard => d \in DOMAIN f /\ d = e /\ d = Len(b)
  BY DEF Disk
<1>6. ReadBack(f, b) \in Seq(R)
  <2>1. b \in Seq(Shard)
    BY DEF Disk
  <2> QED
    BY <1>4, <2>1, ReadBackTyped
<1>7. OnDisk(b, d, f) \in Seq(R)
  BY <1>2, <1>5, <1>6 DEF OnDisk
<1> QED
  BY <1>1, <1>2, <1>3, <1>4, <1>5, <1>6, <1>7

(* A shard is opened, ...                                                  *)
LEMMA DiskOpen ==
    ASSUME NEW R, NEW b, NEW e, NEW f, Disk(R, b, NoShard, e, f), NEW n, n = Len(b)
    PROVE  Disk(R, b, n, n, Opened(f, n)) /\ OnDisk(b, n, Opened(f, n)) = OnDisk(b, NoShard, f)
<1>0. PICK g : g = Opened(f, n)
  OBVIOUS
<1>1. /\ \A k \in DOMAIN b : b[k].path = k - 1 /\ k - 1 \in DOMAIN f /\ k - 1 < n
      /\ \A p \in DOMAIN f : f[p].rows \in Seq(R) /\ f[p].whole \in BOOLEAN /\ f[p] = [rows |-> f[p].rows, whole |-> f[p].whole]
      /\ n \in Nat /\ ReadBack(f, b) \in Seq(R)
  BY DiskFiles
<1>2. n # NoShard /\ DOMAIN f = 0..n - 1 /\ b \in Seq(Shard)
  BY <1>1 DEF Disk, NoShard
<1>3. DOMAIN g = 0..n - 1 \cup {n} /\ g[n] = [rows |-> <<>>, whole |-> FALSE] /\ \A p \in 0..n - 1 : g[p] = f[p]
  BY <1>0, <1>1, <1>2 DEF Opened
<1>4. g \in [DOMAIN g -> [rows : Seq(R), whole : BOOLEAN]]
  <2>1. \A p \in 0..n - 1 : f[p] \in [rows : Seq(R), whole : BOOLEAN]
    BY <1>2 DEF Disk
  <2>2. [rows |-> <<>>, whole |-> FALSE] \in [rows : Seq(R), whole : BOOLEAN]
    OBVIOUS
  <2>3. \A p \in DOMAIN g : g[p] \in [rows : Seq(R), whole : BOOLEAN]
    BY <1>3, <2>1, <2>2
  <2>4. g = [p \in DOMAIN g |-> g[p]]
    BY <1>0 DEF Opened
  <2> QED
    BY <2>3, <2>4
<1>5. \A k \in DOMAIN b : k - 1 \in 0..n - 1 /\ g[k - 1] = f[k - 1]
  BY <1>1, <1>2, <1>3
<1>6. \A p \in DOMAIN g : Fits(g[p].rows, ChunkBytes)
  <2>1. Fits(<<>>, ChunkBytes)
    BY SizeEmpty, WriterAssumption DEF Fits
  <2>2. \A p \in 0..n - 1 : Fits(f[p].rows, ChunkBytes)
    BY <1>2 DEF Disk
  <2>3. g[n].rows = <<>>
    BY <1>3
  <2> QED
    BY <1>3, <2>1, <2>2, <2>3
<1>7. Disk(R, b, n, n, g)
  <2>1. \A k \in DOMAIN b :
          /\ b[k] = [path |-> k - 1, size |-> SizeOf(g[k - 1].rows), records |-> Len(g[k - 1].rows)]
          /\ g[k - 1].whole
    BY <1>5 DEF Disk
  <2>2. n \in Nat \cup {NoShard} /\ DOMAIN g = 0..Len(b) - 1 \cup ({n} \ {NoShard})
    BY <1>1, <1>2, <1>3
  <2> QED
    BY <1>1, <1>2, <1>4, <1>6, <2>1, <2>2 DEF Disk
<1>8. ReadBack(g, b) = ReadBack(f, b)
  <2>1. \A k \in DOMAIN b : g[b[k].path].rows = f[b[k].path].rows
    BY <1>1, <1>5
  <2>2. RowsOf(g, b) = RowsOf(f, b)
    BY <2>1 DEF RowsOf
  <2> QED
    BY <2>2, ReadBackStays
<1>9. OnDisk(b, n, g) = OnDisk(b, NoShard, f)
  BY <1>2, <1>3, <1>8 DEF OnDisk
<1> QED
  BY <1>0, <1>7, <1>9

(* ... written to, ...                                                     *)
LEMMA DiskWrite ==
    ASSUME NEW R, NEW b, NEW d, NEW e, NEW f, Disk(R, b, d, e, f), d # NoShard,
           NEW r \in Seq(R), Fits(f[e].rows \o r, ChunkBytes)
    PROVE  Disk(R, b, d, e, Written(f, e, r)) /\ OnDisk(b, d, Written(f, e, r)) = OnDisk(b, d, f) \o r
<1>0. PICK g : g = Written(f, e, r)
  OBVIOUS
<1>1. /\ \A k \in DOMAIN b : b[k].path = k - 1 /\ k - 1 \in DOMAIN f /\ k - 1 < Len(b)
      /\ \A p \in DOMAIN f : f[p].rows \in Seq(R) /\ f[p].whole \in BOOLEAN /\ f[p] = [rows |-> f[p].rows, whole |-> f[p].whole]
      /\ d \in DOMAIN f /\ d = e /\ e = Len(b) /\ Len(b) \in Nat /\ ReadBack(f, b) \in Seq(R)
  BY DiskFiles
<1>2. PICK m \in Seq(R) : m = f[e].rows /\ m \o r \in Seq(R)
  <2>1. f[e].rows \in Seq(R)
    BY <1>1
  <2> QED
    BY <2>1
<1>3. DOMAIN g = DOMAIN f /\ \A p \in DOMAIN f : p # e => g[p] = f[p]
  BY <1>0 DEF Written
<1>4. g[e].rows = m \o r /\ g[e] = [rows |-> m \o r, whole |-> f[e].whole]
  <2>1. f[e] = [rows |-> f[e].rows, whole |-> f[e].whole] /\ e \in DOMAIN f
    BY <1>1
  <2>2. g[e] = [f[e] EXCEPT !.rows = @ \o r]
    BY <1>0, <2>1 DEF Written
  <2> QED
    BY <1>2, <2>1, <2>2
<1>5. g \in [DOMAIN g -> [rows : Seq(R), whole : BOOLEAN]]
  <2>1. \A p \in DOMAIN f : f[p] \in [rows : Seq(R), whole : BOOLEAN]
    BY DEF Disk
  <2>2. g[e] \in [rows : Seq(R), whole : BOOLEAN]
    <3>1. f[e].whole \in BOOLEAN
      BY <1>1
    <3>2. \A x \in Seq(R), y \in BOOLEAN : [rows |-> x, whole |-> y] \in [rows : Seq(R), whole : BOOLEAN]
      OBVIOUS
    <3>3. [rows |-> m \o r, whole |-> f[e].whole] \in [rows : Seq(R), whole : BOOLEAN]
      BY <1>2, <3>1, <3>2
    <3> QED
      BY <1>4, <3>3
  <2>3. \A p \in DOMAIN g : g[p] \in [rows : Seq(R), whole : BOOLEAN]
    BY <1>3, <2>1, <2>2
  <2>4. g = [p \in DOMAIN g |-> g[p]]
    BY <1>0 DEF Written
  <2> QED
    BY <2>3, <2>4
<1>6. \A k \in DOMAIN b : k - 1 # e /\ g[k - 1] = f[k - 1]
  BY <1>1, <1>3
<1>7. Disk(R, b, d, e, g)
  <2>1. \A k \in DOMAIN b :
          /\ b[k] = [path |-> k - 1, size |-> SizeOf(g[k - 1].rows), records |-> Len(g[k - 1].rows)]
          /\ g[k - 1].whole
    BY <1>6 DEF Disk
  <2>2. \A p \in DOMAIN g : Fits(g[p].rows, ChunkBytes)
    BY <1>2, <1>3, <1>4 DEF Disk
  <2>3. b \in Seq(Shard) /\ d \in Nat \cup {NoShard} /\ e \in Nat /\ DOMAIN g = 0..Len(b) - 1 \cup ({d} \ {NoShard})
    BY <1>3 DEF Disk
  <2> QED
    BY <1>1, <1>5, <2>1, <2>2, <2>3 DEF Disk
<1>8. ReadBack(g, b) = ReadBack(f, b)
  <2>1. \A k \in DOMAIN b : g[b[k].path].rows = f[b[k].path].rows
    BY <1>1, <1>6
  <2>2. RowsOf(g, b) = RowsOf(f, b)
    BY <2>1 DEF RowsOf
  <2> QED
    BY <2>2, ReadBackStays
<1>9. \A s \in Seq(R) : s \o (m \o r) = (s \o m) \o r
  BY JoinedInAnyOrder
<1>10. OnDisk(b, d, g) = ReadBack(f, b) \o (m \o r) /\ OnDisk(b, d, f) = ReadBack(f, b) \o m
  BY <1>1, <1>2, <1>4, <1>8 DEF OnDisk
<1>11. ReadBack(f, b) \in Seq(R)
  BY <1>1
<1>12. OnDisk(b, d, g) = OnDisk(b, d, f) \o r
  BY <1>9, <1>10, <1>11
<1> QED
  BY <1>0, <1>7, <1>12

(* ... and finished.                                                       *)
LEMMA DiskClose ==
    ASSUME NEW R, Sized(R), NEW b, NEW d, NEW e, NEW f, Disk(R, b, d, e, f), d # NoShard
    PROVE  LET s == Append(b, ShardAt(f, e))
           IN  Disk(R, s, NoShard, e, Finished(f, e)) /\ OnDisk(s, NoShard, Finished(f, e)) = OnDisk(b, d, f)
<1>0. PICK g, c, s : g = Finished(f, e) /\ c = ShardAt(f, e) /\ s = Append(b, c)
  OBVIOUS
<1>1. /\ \A k \in DOMAIN b : b[k].path = k - 1 /\ k - 1 \in DOMAIN f /\ k - 1 < Len(b) /\ f[b[k].path].rows \in Seq(R)
      /\ \A p \in DOMAIN f : f[p].rows \in Seq(R) /\ f[p].whole \in BOOLEAN /\ f[p] = [rows |-> f[p].rows, whole |-> f[p].whole]
      /\ d \in DOMAIN f /\ d = e /\ e = Len(b) /\ Len(b) \in Nat /\ ReadBack(f, b) \in Seq(R)
  BY DiskFiles
<1>2. DOMAIN g = DOMAIN f /\ \A p \in DOMAIN f : p # e => g[p] = f[p]
  BY <1>0 DEF Finished
<1>3. g[e].rows = f[e].rows /\ g[e] = [rows |-> f[e].rows, whole |-> TRUE]
  <2>1. f[e] = [rows |-> f[e].rows, whole |-> f[e].whole] /\ e \in DOMAIN f
    BY <1>1
  <2>2. g[e] = [f[e] EXCEPT !.whole = TRUE]
    BY <1>0, <2>1 DEF Finished
  <2> QED
    BY <2>1, <2>2
<1>4. g \in [DOMAIN g -> [rows : Seq(R), whole : BOOLEAN]]
  <2>1. \A p \in DOMAIN f : f[p] \in [rows : Seq(R), whole : BOOLEAN]
    BY DEF Disk
  <2>2. g[e] \in [rows : Seq(R), whole : BOOLEAN]
    <3>1. f[e].rows \in Seq(R)
      BY <1>1
    <3>2. \A x \in Seq(R), y \in BOOLEAN : [rows |-> x, whole |-> y] \in [rows : Seq(R), whole : BOOLEAN]
      OBVIOUS
    <3>3. [rows |-> f[e].rows, whole |-> TRUE] \in [rows : Seq(R), whole : BOOLEAN]
      BY <3>1, <3>2
    <3> QED
      BY <1>3, <3>3
  <2>3. \A p \in DOMAIN g : g[p] \in [rows : Seq(R), whole : BOOLEAN]
    BY <1>2, <2>1, <2>2
  <2>4. g = [p \in DOMAIN g |-> g[p]]
    BY <1>0 DEF Finished
  <2> QED
    BY <2>3, <2>4
<1>5. \A p \in DOMAIN f : g[p].rows = f[p].rows
  BY <1>2, <1>3
<1>6. c \in Shard /\ c = [path |-> e, size |-> SizeOf(f[e].rows), records |-> Len(f[e].rows)]
      /\ f[e].rows \in Seq(R) /\ b \in Seq(Shard)
  <2>1. f[e].rows \in Seq(R) /\ e \in Nat
    BY <1>1
  <2>2. SizeOf(f[e].rows) \in Nat /\ Len(f[e].rows) \in Nat
    BY <2>1, SizeIsFold
  <2> QED
    BY <1>0, <2>1, <2>2 DEF Shard, ShardAt, Disk
<1>7. /\ s \in Seq(Shard) /\ Len(s) = Len(b) + 1 /\ s[e + 1] = c
      /\ \A k \in DOMAIN s : (k \in DOMAIN b /\ s[k] = b[k]) \/ k = e + 1
  BY <1>0, <1>1, <1>6
<1>8. Disk(R, s, NoShard, e, g)
  <2>1. ASSUME NEW k \in DOMAIN s
        PROVE  /\ s[k] = [path |-> k - 1, size |-> SizeOf(g[k - 1].rows), records |-> Len(g[k - 1].rows)]
               /\ g[k - 1].whole
    <3>1. CASE k = e + 1
      <4>1. k - 1 = e
        BY <1>1, <3>1
      <4> QED
        BY <1>3, <1>6, <1>7, <3>1, <4>1
    <3>2. CASE k \in DOMAIN b /\ s[k] = b[k]
      <4>1. k - 1 \in DOMAIN f /\ k - 1 # e
        BY <1>1, <3>2
      <4>2. g[k - 1] = f[k - 1]
        BY <1>2, <4>1
      <4> QED
        BY <3>2, <4>2 DEF Disk
    <3> QED
      BY <1>7, <3>1, <3>2
  <2>2. \A p \in DOMAIN g : Fits(g[p].rows, ChunkBytes)
    BY <1>2, <1>5 DEF Disk
  <2>3. DOMAIN g = 0..Len(s) - 1 /\ e \in Nat
    <3>1. DOMAIN f = 0..e - 1 \cup {e}
      BY <1>1 DEF Disk
    <3> QED
      BY <1>1, <1>2, <1>7, <3>1
  <2> QED
    BY <1>4, <1>7, <2>1, <2>2, <2>3 DEF Disk
<1>9. ReadBack(g, s) = ReadBack(f, b) \o f[e].rows
  <2>1. ReadBack(g, b) = ReadBack(f, b)
    <3>1. \A k \in DOMAIN b : g[b[k].path].rows = f[b[k].path].rows
      BY <1>1, <1>5
    <3>2. RowsOf(g, b) = RowsOf(f, b)
      BY <3>1 DEF RowsOf
    <3> QED
      BY <3>2, ReadBackStays
  <2>2. \A k \in DOMAIN b : g[b[k].path].rows \in Seq(R)
    BY <1>1, <1>5
  <2>3. c.path = e /\ g[c.path].rows = f[e].rows
    BY <1>3, <1>6
  <2>4. ReadBack(g, Append(b, c)) = ReadBack(g, b) \o g[c.path].rows
    BY <1>6, <2>2, <2>3, ReadBackGrows
  <2> QED
    BY <1>0, <2>1, <2>3, <2>4
<1>10. \A q \in Seq(R) : q \o <<>> = q
  OBVIOUS
<1>11. ReadBack(f, b) \o f[e].rows \in Seq(R)
  BY <1>1, <1>6
<1>12. OnDisk(s, NoShard, g) = OnDisk(b, d, f)
  BY <1>1, <1>9, <1>10, <1>11 DEF OnDisk
<1> QED
  BY <1>0, <1>8, <1>12

-----------------------------------------------------------------------------
(* The operations of a writer, as far as they do not fail.                 *)
Kept(R, x, o) == Sound(x, R) /\ Stored(x) = Stored(o) /\ x.rows = o.rows /\ x.count = o.count

(* A shard is opened.                                                      *)
LEMMA OpenShardKeeps ==
    ASSUME NEW R, NEW o, Sound(o, R), o.live = NoShard, NEW x \in OpenShard(o), ~x.failed
    PROVE  Kept(R, x, o) /\ x.live # NoShard /\ x.files[x.path].rows = <<>>
<1>1. PICK a, b, c, d, e, f : a = o.rows /\ b = o.chunks /\ c = o.count /\ d = o.live /\ e = o.path /\ f = o.files
  OBVIOUS
<1>2. /\ o = W(a, b, c, d, e, f) /\ d = NoShard
      /\ a \in Seq(R) /\ c \in Nat /\ Fits(a, BatchLimit) /\ Disk(R, b, d, e, f)
      /\ Stored(o) = OnDisk(b, d, f)
  BY <1>1, SoundFields
<1>3. PICK n, g : n = Len(b) /\ g = Opened(f, n)
  OBVIOUS
<1>4. Disk(R, b, n, n, g) /\ OnDisk(b, n, g) = OnDisk(b, NoShard, f)
  BY <1>2, <1>3, DiskOpen
<1>5. x = W(a, b, c, n, n, g)
  <2>1. ShardPath(o) = n
    BY <1>1, <1>3 DEF ShardPath
  <2>2. PICK named : named = [o EXCEPT !.path = n]
    OBVIOUS
  <2>3. named = W(a, b, c, d, n, f)
    BY <1>2, <2>2 DEF W
  <2>4. PICK y : y = MarkFailed([named EXCEPT !.files = Without(@, n)])
    OBVIOUS
  <2>5. y.failed = TRUE
    BY <2>3, <2>4 DEF W, MarkFailed
  <2>6. x = [named EXCEPT !.live = n, !.files = [p \in DOMAIN @ \cup {n} |-> IF p = n THEN [rows |-> <<>>, whole |-> FALSE] ELSE @[p]]] \/ x = y
    BY <2>1, <2>2, <2>4 DEF OpenShard
  <2>7. named.files = f
    BY <2>3 DEF W
  <2>8. x = [named EXCEPT !.live = n, !.files = g]
    BY <1>3, <2>5, <2>6, <2>7 DEF Opened
  <2> QED
    BY <2>3, <2>8 DEF W
<1>6. Sound(x, R) /\ Stored(x) = OnDisk(b, n, g)
  BY <1>2, <1>4, <1>5, SoundW
<1>7. x.rows = a /\ x.count = c /\ x.live = n /\ x.path = n /\ x.files = g
  BY <1>5 DEF W
<1>8. n # NoShard /\ g[n].rows = <<>>
  <2>1. n \in Nat
    BY <1>2, <1>3, DiskFiles
  <2> QED
    BY <1>3, <2>1 DEF NoShard, Opened
<1> QED
  BY <1>1, <1>2, <1>4, <1>6, <1>7, <1>8 DEF Kept

(* One is finished.                                                        *)
LEMMA ClosedKeeps ==
    ASSUME NEW R, Sized(R), NEW o, Sound(o, R), o.live # NoShard
    PROVE  Kept(R, Closed(o), o) /\ Closed(o).live = NoShard
<1>1. PICK a, b, c, d, e, f : a = o.rows /\ b = o.chunks /\ c = o.count /\ d = o.live /\ e = o.path /\ f = o.files
  OBVIOUS
<1>2. /\ o = W(a, b, c, d, e, f) /\ d # NoShard
      /\ a \in Seq(R) /\ c \in Nat /\ Fits(a, BatchLimit) /\ Disk(R, b, d, e, f)
      /\ Stored(o) = OnDisk(b, d, f)
  BY <1>1, SoundFields
<1>3. PICK g, s : g = Finished(f, e) /\ s = Append(b, ShardAt(f, e))
  OBVIOUS
<1>4. Disk(R, s, NoShard, e, g) /\ OnDisk(s, NoShard, g) = OnDisk(b, d, f)
  BY <1>2, <1>3, DiskClose
<1>5. PICK x : x = Closed(o)
  OBVIOUS
<1>6. x = W(a, s, c, NoShard, e, g)
  <2>1. x = [o EXCEPT !.live = NoShard, !.files[e].whole = TRUE, !.chunks = s]
    BY <1>1, <1>3, <1>5 DEF Closed, ShardAt
  <2>2. x = [o EXCEPT !.live = NoShard, !.files = g, !.chunks = s]
    BY <1>1, <1>2, <1>3, <2>1 DEF W, Finished
  <2> QED
    BY <1>2, <2>2 DEF W
<1>7. Sound(x, R) /\ Stored(x) = OnDisk(s, NoShard, g)
  BY <1>2, <1>4, <1>6, SoundW
<1>8. x.rows = a /\ x.count = c /\ x.live = NoShard
  BY <1>6 DEF W
<1> QED
  BY <1>1, <1>2, <1>4, <1>5, <1>7, <1>8 DEF Kept

(* Closing the shard that may be open keeps what is stored, if it succeeds. *)
LEMMA CloseShardKeeps ==
    ASSUME NEW R, Sized(R), NEW o, Sound(o, R), NEW format, NEW x \in CloseShard(format, o), ~x.failed
    PROVE  Kept(R, x, o) /\ x.live = NoShard
<1>1. CASE o.live = NoShard
  <2>1. x = o
    BY <1>1 DEF CloseShard, CloseArrow, CloseNdjson
  <2> QED
    BY <1>1, <2>1 DEF Kept
<1>2. CASE o.live # NoShard
  <2>1. x = Closed(o) \/ x = MarkFailed([o EXCEPT !.live = NoShard]) \/ x = [o EXCEPT !.failed = TRUE]
    BY <1>2 DEF CloseShard, CloseArrow, CloseNdjson
  <2>2. o = W(o.rows, o.chunks, o.count, o.live, o.path, o.files)
    BY SoundFields
  <2>3. [o EXCEPT !.failed = TRUE].failed = TRUE /\ MarkFailed([o EXCEPT !.live = NoShard]).failed = TRUE
    BY <2>2 DEF W, MarkFailed
  <2>4. x = Closed(o)
    BY <2>1, <2>3
  <2> QED
    BY <1>2, <2>4, ClosedKeeps
<1> QED
  BY <1>1, <1>2

(* A writer after a write.                                                 *)
Wrote(o, r) == [o EXCEPT !.files[o.path].rows = @ \o r]

(* Rows are written to the shard that is open.                             *)
LEMMA WriteKeeps ==
    ASSUME NEW R, NEW o, Sound(o, R), o.live # NoShard, NEW r \in Seq(R), Fits(o.files[o.path].rows \o r, ChunkBytes)
    PROVE  LET x == Wrote(o, r)
           IN  /\ Sound(x, R) /\ Stored(x) = Stored(o) \o r /\ x.rows = o.rows /\ x.count = o.count
               /\ x.live # NoShard /\ x.failed = FALSE
<1>0. PICK x : x = Wrote(o, r)
  OBVIOUS
<1>1. PICK a, b, c, d, e, f : a = o.rows /\ b = o.chunks /\ c = o.count /\ d = o.live /\ e = o.path /\ f = o.files
  OBVIOUS
<1>2. /\ o = W(a, b, c, d, e, f) /\ d # NoShard
      /\ a \in Seq(R) /\ c \in Nat /\ Fits(a, BatchLimit) /\ Disk(R, b, d, e, f)
      /\ Stored(o) = OnDisk(b, d, f)
  BY <1>1, SoundFields
<1>3. PICK g : g = Written(f, e, r)
  OBVIOUS
<1>4. Disk(R, b, d, e, g) /\ OnDisk(b, d, g) = OnDisk(b, d, f) \o r
  <2>1. Fits(f[e].rows \o r, ChunkBytes)
    BY <1>1
  <2> QED
    BY <1>2, <1>3, <2>1, DiskWrite
<1>5. x = W(a, b, c, d, e, g)
  <2>1. x = [o EXCEPT !.files = g]
    BY <1>0, <1>1, <1>2, <1>3 DEF W, Written, Wrote
  <2> QED
    BY <1>2, <2>1 DEF W
<1>6. Sound(x, R) /\ Stored(x) = OnDisk(b, d, g)
  BY <1>2, <1>4, <1>5, SoundW
<1>7. x.rows = a /\ x.count = c /\ x.live = d /\ x.failed = FALSE
  BY <1>5 DEF W
<1> QED
  BY <1>0, <1>1, <1>2, <1>4, <1>6, <1>7

(* Rows are stored, in a shard that has room for them.                     *)
LEMMA StoreKeeps ==
    ASSUME NEW R, Sized(R), NEW o, Sound(o, R), NEW r \in Seq(R), Fits(r, ChunkBytes), NEW format,
           NEW x \in Store(format, o, r), ~x.failed
    PROVE  Sound(x, R) /\ Stored(x) = Stored(o) \o r /\ x.rows = o.rows /\ x.count = o.count /\ x.live # NoShard
<1> DEFINE rotated == IF Full(o, r) THEN CloseShard(format, o) ELSE {o}
           opened  == Then(rotated, LAMBDA y : IF y.live = NoShard THEN OpenShard(y) ELSE {y})
<1>1. PICK z \in opened : ~z.failed /\ (x = Wrote(z, r) \/ x = MarkFailed(z))
  <2>1. x \in Then(opened, LAMBDA y : {Wrote(y, r), MarkFailed(y)})
    BY DEF Store, Wrote
  <2> HIDE DEF opened
  <2> QED
    BY <2>1 DEF Then
<1>2. PICK y \in rotated : ~y.failed /\ z \in (IF y.live = NoShard THEN OpenShard(y) ELSE {y})
  <2> HIDE DEF rotated
  <2> QED
    BY <1>1 DEF Then
<1> HIDE DEF opened
<1>3. Kept(R, y, o) /\ (y.live = NoShard \/ (y = o /\ ~Full(o, r)))
  <2>1. CASE Full(o, r)
    <3>1. y \in CloseShard(format, o)
      BY <1>2, <2>1
    <3> QED
      BY <1>2, <3>1, CloseShardKeeps
  <2>2. CASE ~Full(o, r)
    <3>1. y = o
      BY <1>2, <2>2
    <3> QED
      BY <2>2, <3>1 DEF Kept
  <2> QED
    BY <2>1, <2>2
<1>4. /\ Kept(R, z, o) /\ z.live # NoShard
      /\ z.files[z.path].rows = <<>> \/ (z = o /\ ~Full(o, r))
  <2>1. CASE y.live = NoShard
    <3>1. z \in OpenShard(y) /\ Sound(y, R)
      BY <1>2, <1>3, <2>1 DEF Kept
    <3>2. Kept(R, z, y) /\ z.live # NoShard /\ z.files[z.path].rows = <<>>
      BY <1>1, <2>1, <3>1, OpenShardKeeps
    <3> QED
      BY <1>3, <3>2 DEF Kept
  <2>2. CASE y.live # NoShard
    <3>1. z = y
      BY <1>2, <2>2
    <3> QED
      BY <1>3, <2>2, <3>1
  <2> QED
    BY <2>1, <2>2
<1> HIDE DEF rotated
<1>5. Sound(z, R) /\ z.files[z.path].rows \in Seq(R)
  <2>1. Sound(z, R)
    BY <1>4 DEF Kept
  <2>2. Disk(R, z.chunks, z.live, z.path, z.files)
    BY <2>1, SoundFields
  <2>3. z.live \in DOMAIN z.files /\ z.live = z.path /\ \A p \in DOMAIN z.files : z.files[p].rows \in Seq(R)
    BY <1>4, <2>2, DiskFiles
  <2> QED
    BY <2>1, <2>3
<1>6. Fits(z.files[z.path].rows \o r, ChunkBytes)
  <2>1. PICK m \in Seq(R) : m = z.files[z.path].rows
    BY <1>5
  <2>2. CASE m = <<>>
    <3>1. <<>> \o r = r
      OBVIOUS
    <3> QED
      BY <2>1, <2>2, <3>1
  <2>3. CASE z = o /\ ~Full(o, r)
    <3>1. ~(SizeOf(m) + SizeOf(r) > ChunkBytes)
      BY <1>4, <2>1, <2>3 DEF Full
    <3>2. SizeOf(m \o r) = SizeOf(m) + SizeOf(r) /\ SizeOf(m) \in Nat /\ SizeOf(r) \in Nat
      BY SizeConcat, SizeIsFold
    <3>3. Fits(m \o r, ChunkBytes)
      BY <3>1, <3>2, WriterAssumption DEF Fits
    <3> QED
      BY <2>1, <3>3
  <2> QED
    BY <1>4, <2>1, <2>2, <2>3
<1>7. x = Wrote(z, r)
  <2>1. z = W(z.rows, z.chunks, z.count, z.live, z.path, z.files)
    BY <1>5, SoundFields
  <2>2. MarkFailed(z).failed = TRUE
    BY <2>1 DEF W, MarkFailed
  <2> QED
    BY <1>1, <2>2
<1>8. Sound(x, R) /\ Stored(x) = Stored(z) \o r /\ x.rows = z.rows /\ x.count = z.count /\ x.live # NoShard
  BY <1>4, <1>5, <1>6, <1>7, WriteKeeps
<1> QED
  BY <1>4, <1>8 DEF Kept

-----------------------------------------------------------------------------
(* A writer with another buffer and count, and what is asked of it.        *)
Rebuffered(o, a, n) == [o EXCEPT !.rows = a, !.count = n]
Holds(R, x, stored, rows, count) == Sound(x, R) /\ Stored(x) = stored /\ x.rows = rows /\ x.count = count

(* A writer whose buffer or count is another.                              *)
LEMMA OtherBuffer ==
    ASSUME NEW R, NEW o, Sound(o, R), NEW a, a \in Seq(R), Fits(a, BatchLimit), NEW n, n \in Nat
    PROVE  Holds(R, Rebuffered(o, a, n), Stored(o), a, n) /\ Rebuffered(o, a, n).failed = FALSE
<1>1. PICK r, b, c, d, e, f : r = o.rows /\ b = o.chunks /\ c = o.count /\ d = o.live /\ e = o.path /\ f = o.files
  OBVIOUS
<1>2. /\ o = W(r, b, c, d, e, f) /\ Disk(R, b, d, e, f)
      /\ Stored(o) = OnDisk(b, d, f)
  BY <1>1, SoundFields
<1>3. PICK x : x = Rebuffered(o, a, n)
  OBVIOUS
<1>4. x = W(a, b, n, d, e, f)
  BY <1>2, <1>3 DEF W, Rebuffered
<1>5. Sound(x, R) /\ Stored(x) = OnDisk(b, d, f)
  BY <1>2, <1>4, SoundW
<1>6. x.rows = a /\ x.count = n /\ x.failed = FALSE
  BY <1>4 DEF W
<1> QED
  BY <1>2, <1>3, <1>5, <1>6 DEF Holds

(* What a writer holds is made of rows.                                    *)
LEMMA StoredTyped ==
    ASSUME NEW R, NEW o, Sound(o, R)
    PROVE  Stored(o) \in Seq(R) /\ AllRows(o) \in Seq(R) /\ o.rows \in Seq(R) /\ o.count \in Nat
<1>1. Disk(R, o.chunks, o.live, o.path, o.files) /\ Stored(o) = OnDisk(o.chunks, o.live, o.files) /\ o.rows \in Seq(R) /\ o.count \in Nat
  BY SoundFields
<1>2. Stored(o) \in Seq(R)
  BY <1>1, DiskFiles
<1> QED
  BY <1>1, <1>2 DEF AllRows

(* A batch fits a shard.                                                   *)
LEMMA BatchFits ==
    ASSUME NEW X, Sized(X), NEW s \in Seq(X), Fits(s, BatchLimit)
    PROVE  Fits(s, ChunkBytes) /\ BatchLimit \in Nat \ {0}
<1>1. BatchLimit \in Nat \ {0} /\ BatchLimit <= ChunkBytes /\ ChunkBytes \in Nat
  BY WriterAssumption DEF BatchLimit
<1>2. SizeOf(s) \in Nat
  BY SizeIsFold
<1> QED
  BY <1>1, <1>2 DEF Fits

(* The buffer goes to the disk, and is empty then.                         *)
LEMMA FlushKeeps ==
    ASSUME NEW R, Sized(R), NEW o, Sound(o, R), NEW x \in FlushBatch(o), ~x.failed
    PROVE  Sound(x, R) /\ AllRows(x) = AllRows(o) /\ x.rows = <<>> /\ x.count = o.count
<1>1. CASE o.rows = <<>>
  BY <1>1 DEF FlushBatch
<1>2. CASE o.rows # <<>>
  <2>1. PICK y \in Store("arrow", o, o.rows) : ~y.failed /\ x = [y EXCEPT !.rows = <<>>]
    <3>1. x \in Then(Store("arrow", o, o.rows), LAMBDA y : {[y EXCEPT !.rows = <<>>]})
      BY <1>2 DEF FlushBatch
    <3> QED
      BY <3>1 DEF Then
  <2>2. o.rows \in Seq(R) /\ Fits(o.rows, ChunkBytes)
    BY SoundFields, BatchFits
  <2>3. Sound(y, R) /\ Stored(y) = Stored(o) \o o.rows /\ y.count = o.count
    BY <2>1, <2>2, StoreKeeps
  <2>4. PICK a, n : a = <<>> /\ n = y.count
    OBVIOUS
  <2>5. a \in Seq(R) /\ Fits(a, BatchLimit) /\ n \in Nat
    <3>1. Fits(<<>>, BatchLimit)
      BY SizeEmpty, WriterAssumption DEF Fits, BatchLimit
    <3> QED
      BY <2>3, <2>4, <3>1, StoredTyped
  <2>6. x = Rebuffered(y, a, n)
    <3>1. PICK r, b, d, e, f : r = y.rows /\ b = y.chunks /\ d = y.live /\ e = y.path /\ f = y.files
      OBVIOUS
    <3>2. y = W(r, b, n, d, e, f)
      BY <2>3, <2>4, <3>1, SoundFields
    <3>3. x = [y EXCEPT !.rows = a]
      BY <2>1, <2>4
    <3>4. x = W(a, b, n, d, e, f)
      BY <3>2, <3>3 DEF W
    <3>5. PICK u : u = Rebuffered(y, a, n)
      OBVIOUS
    <3>6. u = W(a, b, n, d, e, f)
      BY <3>2, <3>5 DEF Rebuffered, W
    <3> QED
      BY <3>4, <3>5, <3>6
  <2>8. Holds(R, x, Stored(y), a, n)
    <3>1. Sound(y, R)
      BY <2>3
    <3>2. Holds(R, Rebuffered(y, a, n), Stored(y), a, n)
      BY <2>5, <3>1, OtherBuffer
    <3> QED
      BY <2>6, <3>2
  <2>9. Stored(x) \in Seq(R) /\ \A q \in Seq(R) : q \o <<>> = q
    BY <2>8, StoredTyped DEF Holds
  <2> QED
    BY <2>3, <2>4, <2>8, <2>9 DEF AllRows, Holds
<1> QED
  BY <1>1, <1>2

-----------------------------------------------------------------------------
(* A writer that took rows holds them after those it held.                 *)
Took(R, x, o, rows) == Sound(x, R) /\ AllRows(x) = AllRows(o) \o rows /\ x.count = o.count + Len(rows)

(* One row is buffered; the buffer is written before and after, if need be. *)
LEMMA ArrowWriteTakes ==
    ASSUME NEW R, Sized(R), NEW o, Sound(o, R), NEW row \in R, NEW x \in ArrowWrite(o, row), ~x.failed
    PROVE  Took(R, x, o, <<row>>)
<1> DEFINE room == IF o.rows # <<>> /\ SizeOf(o.rows) + row.size > BatchLimit THEN FlushBatch(o) ELSE {o}
           more(y) == Rebuffered(y, Append(y.rows, row), y.count + 1)
           kept == Then(room, LAMBDA y : {more(y)})
<1>1. PICK z \in kept : ~z.failed /\ x \in (IF SizeOf(z.rows) >= BatchLimit THEN FlushBatch(z) ELSE {z})
  <2>1. x \in Then(kept, LAMBDA y : IF SizeOf(y.rows) >= BatchLimit THEN FlushBatch(y) ELSE {y})
    BY DEF ArrowWrite, Rebuffered
  <2> HIDE DEF kept
  <2> QED
    BY <2>1 DEF Then
<1>2. PICK y \in room : ~y.failed /\ z = more(y)
  <2> HIDE DEF room, more
  <2> QED
    BY <1>1 DEF Then
<1> HIDE DEF kept
<1>3. /\ Sound(y, R) /\ AllRows(y) = AllRows(o) /\ y.count = o.count
      /\ y.rows = <<>> \/ (y = o /\ ~(SizeOf(o.rows) + row.size > BatchLimit))
  <2>1. CASE o.rows # <<>> /\ SizeOf(o.rows) + row.size > BatchLimit
    <3>1. y \in FlushBatch(o)
      BY <1>2, <2>1
    <3> QED
      BY <1>2, <3>1, FlushKeeps
  <2>2. CASE ~(o.rows # <<>> /\ SizeOf(o.rows) + row.size > BatchLimit)
    <3>1. y = o
      BY <1>2, <2>2
    <3> QED
      BY <2>2, <3>1
  <2> QED
    BY <2>1, <2>2
<1> HIDE DEF room
<1>4. PICK a, n : a = Append(y.rows, row) /\ n = y.count + 1
  OBVIOUS
<1>5. Stored(y) \in Seq(R) /\ y.rows \in Seq(R) /\ y.count \in Nat
  BY <1>3, StoredTyped
<1>6. a \in Seq(R) /\ n \in Nat /\ Fits(a, BatchLimit)
  <2>1. CASE y.rows = <<>>
    <3>1. Len(a) = 1
      BY <1>4, <2>1
    <3> QED
      BY <1>4, <1>5, <3>1 DEF Fits
  <2>2. CASE y = o /\ ~(SizeOf(o.rows) + row.size > BatchLimit)
    <3>1. SizeOf(a) = SizeOf(o.rows) + row.size
      BY <1>4, <1>5, <2>2, SizeAppend
    <3>2. SizeOf(o.rows) \in Nat /\ row.size \in Nat
      BY <1>5, <2>2, SizeIsFold DEF Sized
    <3>3. BatchLimit \in Nat
      BY WriterAssumption DEF BatchLimit
    <3>4. SizeOf(a) <= BatchLimit
      BY <2>2, <3>1, <3>2, <3>3
    <3> QED
      BY <1>4, <1>5, <3>4 DEF Fits
  <2> QED
    BY <1>3, <2>1, <2>2
<1>7. Holds(R, z, Stored(y), a, n)
  <2>1. Holds(R, Rebuffered(y, a, n), Stored(y), a, n)
    BY <1>3, <1>6, OtherBuffer
  <2>2. z = Rebuffered(y, a, n)
    BY <1>2, <1>4
  <2> QED
    BY <2>1, <2>2
<1>8. AllRows(z) = AllRows(y) \o <<row>> /\ z.count = n /\ Sound(z, R)
  <2>a. Append(y.rows, row) = y.rows \o <<row>>
    BY <1>5, AppendIsConcat
  <2>b. <<row>> \in Seq(R)
    OBVIOUS
  <2>1. PICK r \in Seq(R) : r = <<row>>
    BY <2>b
  <2>2. a = y.rows \o r
    BY <1>4, <2>a, <2>1
  <2>c. PICK s \in Seq(R), u \in Seq(R) : s = Stored(y) /\ u = y.rows
    BY <1>5
  <2>d. (s \o u) \o r = s \o (u \o r)
    BY JoinedInAnyOrder
  <2>3. Stored(y) \o (y.rows \o r) = (Stored(y) \o y.rows) \o r
    BY <2>c, <2>d
  <2> QED
    BY <1>7, <2>1, <2>2, <2>3 DEF Holds, AllRows
<1>9. Sound(x, R) /\ AllRows(x) = AllRows(z) /\ x.count = z.count
  <2>1. CASE x \in FlushBatch(z)
    BY <1>8, <2>1, FlushKeeps
  <2>2. CASE x = z
    BY <1>8, <2>2
  <2> QED
    BY <1>1, <2>1, <2>2
<1>10. Len(<<row>>) = 1
  OBVIOUS
<1> QED
  BY <1>3, <1>4, <1>8, <1>9, <1>10 DEF Took

(* NDJSON is written row by row.                                           *)
LEMMA NdjsonWriteTakes ==
    ASSUME NEW R, Sized(R), NEW o, Sound(o, R), o.rows = <<>>, NEW row \in R, NEW x \in NdjsonWrite(o, row), ~x.failed
    PROVE  Took(R, x, o, <<row>>) /\ x.rows = <<>>
<1>1. PICK y \in Store("ndjson", o, <<row>>) : ~y.failed /\ x = [y EXCEPT !.count = @ + 1]
  <2>1. x \in Then(Store("ndjson", o, <<row>>), LAMBDA y : {[y EXCEPT !.count = @ + 1]})
    BY DEF NdjsonWrite
  <2> QED
    BY <2>1 DEF Then
<1>a. <<row>> \in Seq(R) /\ Len(<<row>>) = 1
  OBVIOUS
<1>2. PICK r : r = <<row>> /\ r \in Seq(R) /\ Len(r) = 1
  BY <1>a
<1>3. Fits(r, ChunkBytes)
  BY <1>2 DEF Fits
<1>4. Sound(y, R) /\ Stored(y) = Stored(o) \o r /\ y.rows = <<>> /\ y.count = o.count
  <2>1. y \in Store("ndjson", o, r) /\ r \in Seq(R) /\ ~y.failed
    BY <1>1, <1>2
  <2>2. Sound(y, R) /\ Stored(y) = Stored(o) \o r /\ y.rows = o.rows /\ y.count = o.count
    BY <1>3, <2>1, StoreKeeps
  <2> QED
    BY <2>2
<1>5. PICK a, n, m : a = <<>> /\ n = m + 1 /\ m = y.count
  OBVIOUS
<1>6. a \in Seq(R) /\ Fits(a, BatchLimit) /\ n \in Nat /\ m \in Nat
  <2>1. Fits(<<>>, BatchLimit)
    BY SizeEmpty, WriterAssumption DEF Fits, BatchLimit
  <2> QED
    BY <1>4, <1>5, <2>1, StoredTyped
<1>7. x = Rebuffered(y, a, n)
  <2>1. PICK b, d, e, f : b = y.chunks /\ d = y.live /\ e = y.path /\ f = y.files
    OBVIOUS
  <2>2. y = W(a, b, m, d, e, f)
    BY <1>4, <1>5, <2>1, SoundFields
  <2>b. x = [y EXCEPT !.count = n]
    BY <1>1, <1>5
  <2>3. x = W(a, b, n, d, e, f)
    BY <2>2, <2>b DEF W
  <2>4. PICK u : u = Rebuffered(y, a, n)
    OBVIOUS
  <2>5. u = W(a, b, n, d, e, f)
    BY <2>2, <2>4 DEF Rebuffered, W
  <2> QED
    BY <2>3, <2>4, <2>5
<1>8. Holds(R, x, Stored(y), a, n)
  <2>1. Holds(R, Rebuffered(y, a, n), Stored(y), a, n)
    BY <1>4, <1>6, OtherBuffer
  <2> QED
    BY <1>7, <2>1
<1>9. AllRows(x) = AllRows(o) \o r
  <2>1. Stored(o) \in Seq(R) /\ Stored(y) \in Seq(R)
    BY <1>4, StoredTyped
  <2>2. \A q \in Seq(R) : q \o <<>> = q
    OBVIOUS
  <2>3. AllRows(o) = Stored(o) /\ AllRows(x) = Stored(y)
    BY <1>5, <1>8, <2>1, <2>2 DEF AllRows, Holds
  <2> QED
    BY <1>4, <2>3
<1> QED
  BY <1>2, <1>4, <1>5, <1>8, <1>9 DEF Took, Holds

-----------------------------------------------------------------------------
(* The outcomes of a batch of the native parser, slice by slice.           *)
BatchStep(outcomes, part) ==
    Then(outcomes, LAMBDA x : Store("arrow", [x EXCEPT !.count = @ + Len(part)], part))
BatchEq(o, parts, n, f) == f = [k \in 0..n |-> IF k = 0 THEN FlushBatch(o) ELSE BatchStep(f[k - 1], parts[k])]

(* There is such a function.                                               *)
LEMMA BatchExists ==
    ASSUME NEW o, NEW parts, NEW n \in Nat
    PROVE  \E f : BatchEq(o, parts, n, f)
<1> DEFINE Reached == {k \in Nat : \E f : BatchEq(o, parts, k, f)}
<1>1. 0 \in Reached
  <2>1. PICK f : f = [k \in 0..0 |-> FlushBatch(o)]
    OBVIOUS
  <2>2. f = [k \in 0..0 |-> IF k = 0 THEN FlushBatch(o) ELSE BatchStep(f[k - 1], parts[k])]
    BY <2>1
  <2>3. BatchEq(o, parts, 0, f)
    BY <2>2 DEF BatchEq
  <2> QED
    BY <2>3
<1>2. ASSUME NEW k \in 0..n - 1, k \in Reached PROVE k + 1 \in Reached
  <2>1. PICK f : BatchEq(o, parts, k, f)
    BY <1>2
  <2> DEFINE h == [i \in 0..k + 1 |-> IF i = 0 THEN FlushBatch(o) ELSE BatchStep(f[i - 1], parts[i])]
  <2>2. ASSUME NEW i \in 0..k PROVE h[i] = f[i]
    <3>1. i \in 0..k + 1
      OBVIOUS
    <3>2. f[i] = IF i = 0 THEN FlushBatch(o) ELSE BatchStep(f[i - 1], parts[i])
      BY <2>1 DEF BatchEq
    <3> QED
      BY <3>1, <3>2
  <2>3. ASSUME NEW i \in 0..k + 1 PROVE h[i] = IF i = 0 THEN FlushBatch(o) ELSE BatchStep(h[i - 1], parts[i])
    <3>1. ASSUME i # 0 PROVE h[i - 1] = f[i - 1]
      <4>1. PICK j \in 0..k : j = i - 1
        BY <3>1
      <4>2. h[j] = f[j]
        BY <2>2
      <4> QED
        BY <4>1, <4>2
    <3> QED
      BY <3>1
  <2>4. BatchEq(o, parts, k + 1, h)
    <3> HIDE DEF h
    <3>1. PICK g : g = [i \in 0..k + 1 |-> IF i = 0 THEN FlushBatch(o) ELSE BatchStep(h[i - 1], parts[i])]
      OBVIOUS
    <3>2. h = [i \in 0..k + 1 |-> h[i]]
      BY DEF h
    <3>3. h = [i \in 0..k + 1 |-> IF i = 0 THEN FlushBatch(o) ELSE BatchStep(h[i - 1], parts[i])]
      BY <2>3, <3>2
    <3> QED
      BY <3>3 DEF BatchEq
  <2> QED
    BY <2>4
<1>3. n \in Reached
  <2>1. \A k \in 0..n : k \in Reached
    <3> HIDE DEF Reached
    <3> QED
      BY <1>1, <1>2, UpTo
  <2> QED
    BY <2>1
<1> QED
  BY <1>3

(* A slice is stored whole, after what the writer held.                    *)
LEMMA SliceTaken ==
    ASSUME NEW R, Sized(R), NEW y, Sound(y, R), y.rows = <<>>, NEW part \in Seq(R), Fits(part, BatchLimit),
           NEW x \in Store("arrow", [y EXCEPT !.count = @ + Len(part)], part), ~x.failed
    PROVE  Took(R, x, y, part) /\ x.rows = <<>>
<1>1. PICK a, n, m : a = <<>> /\ m = y.count /\ n = m + Len(part)
  OBVIOUS
<1>2. a \in Seq(R) /\ Fits(a, BatchLimit) /\ n \in Nat /\ m \in Nat
  <2>1. Fits(<<>>, BatchLimit)
    BY SizeEmpty, WriterAssumption DEF Fits, BatchLimit
  <2>2. y.count \in Nat /\ Len(part) \in Nat
    BY StoredTyped
  <2> QED
    BY <1>1, <2>1, <2>2
<1>3. PICK u : u = [y EXCEPT !.count = @ + Len(part)]
  OBVIOUS
<1>4. u = Rebuffered(y, a, n)
  <2>1. PICK b, d, e, f : b = y.chunks /\ d = y.live /\ e = y.path /\ f = y.files
    OBVIOUS
  <2>2. y = W(a, b, m, d, e, f)
    BY <1>1, <2>1, SoundFields
  <2>3. u = [y EXCEPT !.count = n]
    BY <1>1, <1>3
  <2>4. u = W(a, b, n, d, e, f)
    BY <2>2, <2>3 DEF W
  <2>5. PICK v : v = Rebuffered(y, a, n)
    OBVIOUS
  <2>6. v = W(a, b, n, d, e, f)
    BY <2>2, <2>5 DEF Rebuffered, W
  <2> QED
    BY <2>4, <2>5, <2>6
<1>5. Holds(R, u, Stored(y), a, n)
  <2>1. Holds(R, Rebuffered(y, a, n), Stored(y), a, n)
    BY <1>2, OtherBuffer
  <2> QED
    BY <1>4, <2>1
<1>6. Sound(x, R) /\ Stored(x) = Stored(y) \o part /\ x.rows = <<>> /\ x.count = n
  <2>1. x \in Store("arrow", u, part) /\ Sound(u, R)
    BY <1>3, <1>5 DEF Holds
  <2>2. Fits(part, ChunkBytes)
    BY BatchFits
  <2>3. Sound(x, R) /\ Stored(x) = Stored(u) \o part /\ x.rows = u.rows /\ x.count = u.count
    BY <2>1, <2>2, StoreKeeps
  <2> QED
    BY <1>1, <1>5, <2>3 DEF Holds
<1>7. AllRows(y) = Stored(y) /\ AllRows(x) = Stored(x)
  <2>1. Stored(x) \in Seq(R) /\ Stored(y) \in Seq(R)
    BY <1>6, StoredTyped
  <2>2. \A q \in Seq(R) : q \o <<>> = q
    OBVIOUS
  <2> QED
    BY <1>6, <2>1, <2>2 DEF AllRows
<1> QED
  BY <1>1, <1>6, <1>7 DEF Took

(* Rows taken one after the other are taken together.                      *)
LEMMA TookAgain ==
    ASSUME NEW R, NEW o, Sound(o, R), NEW s \in Seq(R), NEW t \in Seq(R), NEW y, NEW x, Took(R, y, o, s), Took(R, x, y, t)
    PROVE  Took(R, x, o, s \o t)
<1>1. PICK a \in Seq(R), b \in Seq(R), c \in Seq(R) : a = AllRows(o) /\ b = AllRows(y) /\ c = AllRows(x)
  BY StoredTyped DEF Took
<1>2. b = a \o s /\ c = b \o t
  BY <1>1 DEF Took
<1>3. (a \o s) \o t = a \o (s \o t)
  BY JoinedInAnyOrder, SMTT(30)
<1>4. Len(s \o t) = Len(s) + Len(t) /\ Len(s) \in Nat /\ Len(t) \in Nat
  OBVIOUS
<1>5. x.count = o.count + Len(s \o t)
  <2>1. x.count = y.count + Len(t) /\ y.count = o.count + Len(s) /\ o.count \in Nat
    BY StoredTyped DEF Took
  <2> QED
    BY <1>4, <2>1
<1> QED
  BY <1>1, <1>2, <1>3, <1>5 DEF Took

(* No row, or some.                                                        *)
LEMMA TookNone ==
    ASSUME NEW R, NEW o, Sound(o, R), NEW x, Sound(x, R), AllRows(x) = AllRows(o), x.count = o.count
    PROVE  Took(R, x, o, <<>>)
<1>1. AllRows(o) \in Seq(R) /\ o.count \in Nat
  BY StoredTyped
<1>2. \A q \in Seq(R) : q \o <<>> = q
  OBVIOUS
<1>3. Len(<<>>) = 0
  OBVIOUS
<1> QED
  BY <1>1, <1>2, <1>3 DEF Took

(* A batch is taken whole.                                                 *)
LEMMA ArrowWriteBatchTakes ==
    ASSUME NEW R, Sized(R), NEW o, Sound(o, R), NEW rows \in Seq(R), NEW x \in ArrowWriteBatch(o, rows), ~x.failed
    PROVE  Took(R, x, o, rows)
<1>1. PICK parts, n : parts = Slices(rows) /\ n = Len(parts)
  OBVIOUS
<1>2. parts \in Seq(Seq(R)) /\ n \in Nat /\ FlattenSeq(parts) = rows /\ \A k \in DOMAIN parts : Fits(parts[k], BatchLimit)
  <2>1. BatchLimit \in Nat
    BY WriterAssumption DEF BatchLimit
  <2>2. /\ Packed(rows, BatchLimit) \in Seq(Seq(R)) /\ FlattenSeq(Packed(rows, BatchLimit)) = rows
        /\ \A k \in DOMAIN Packed(rows, BatchLimit) : Fits(Packed(rows, BatchLimit)[k], BatchLimit)
    BY <2>1, PackedIsWhole
  <2> QED
    BY <1>1, <2>2 DEF Slices
<1>3. PICK f : BatchEq(o, parts, n, f) /\ x \in f[n]
  <2>1. \E f : BatchEq(o, parts, n, f)
    BY <1>2, BatchExists
  <2>2. ArrowWriteBatch(o, rows) = (CHOOSE f : BatchEq(o, parts, n, f))[n]
    BY <1>1 DEF ArrowWriteBatch, BatchEq, BatchStep
  <2> QED
    BY <2>1, <2>2
<1>4. DOMAIN parts = 1..n
  BY <1>1, <1>2
<1> DEFINE part(k) == SubSeq(parts, 1, k)
           Fine(y, k) == Took(R, y, o, FlattenSeq(part(k))) /\ y.rows = <<>>
           Reached == {k \in 0..n : \A y \in f[k] : ~y.failed => Fine(y, k)}
<1>5. 0 \in Reached
  <2>1. f[0] = FlushBatch(o) /\ 0 \in 0..n
    BY <1>2, <1>3 DEF BatchEq
  <2>2. part(0) = <<>>
    BY <1>2
  <2>3. FlattenSeq(part(0)) = <<>>
    BY <2>2, FlattenEmpty
  <2>4. ASSUME NEW y \in f[0], ~y.failed PROVE Fine(y, 0)
    <3>1. Sound(y, R) /\ AllRows(y) = AllRows(o) /\ y.rows = <<>> /\ y.count = o.count
      BY <2>1, <2>4, FlushKeeps
    <3>2. Took(R, y, o, <<>>)
      BY <3>1, TookNone
    <3> QED
      BY <2>3, <3>1, <3>2
  <2> HIDE DEF Fine
  <2> QED
    BY <2>1, <2>4
<1>6. ASSUME NEW k \in 0..n - 1, k \in Reached PROVE k + 1 \in Reached
  <2>1. k + 1 \in 0..n /\ k + 1 \in DOMAIN parts /\ k \in 0..n
    BY <1>2, <1>4
  <2>2. f[k + 1] = BatchStep(f[k], parts[k + 1])
    <3>1. PICK j \in 0..n : j = k + 1 /\ j - 1 = k /\ j # 0
      BY <2>1
    <3>2. f[j] = IF j = 0 THEN FlushBatch(o) ELSE BatchStep(f[j - 1], parts[j])
      BY <1>3 DEF BatchEq
    <3> QED
      BY <3>1, <3>2
  <2>3. PICK p : p = parts[k + 1]
    OBVIOUS
  <2>4. p \in Seq(R) /\ Fits(p, BatchLimit)
    BY <1>2, <2>1, <2>3
  <2>5. PICK s, t : s = part(k) /\ t = part(k + 1)
    OBVIOUS
  <2>6. s \in Seq(Seq(R)) /\ t = Append(s, p)
    BY <1>1, <1>2, <2>3, <2>5
  <2>7. FlattenSeq(t) = FlattenSeq(s) \o p /\ FlattenSeq(s) \in Seq(R)
    BY <2>4, <2>6, FlattenAppend, FlattenTyped
  <2>8. ASSUME NEW y \in f[k + 1], ~y.failed PROVE Fine(y, k + 1)
    <3>1. PICK z \in f[k] : ~z.failed /\ y \in Store("arrow", [z EXCEPT !.count = @ + Len(p)], p)
      <4>1. PICK F : F = f[k]
        OBVIOUS
      <4>2. y \in BatchStep(F, p)
        BY <2>2, <2>3, <4>1
      <4>3. PICK z \in F : y \in (IF z.failed THEN {z} ELSE Store("arrow", [z EXCEPT !.count = @ + Len(p)], p))
        BY <4>2 DEF BatchStep, Then
      <4>4. ~z.failed /\ y \in Store("arrow", [z EXCEPT !.count = @ + Len(p)], p)
        BY <2>8, <4>3
      <4> QED
        BY <4>1, <4>4
    <3>2. Took(R, z, o, FlattenSeq(s)) /\ z.rows = <<>>
      BY <1>6, <2>5, <3>1
    <3>3. Sound(z, R)
      BY <3>2 DEF Took
    <3>4. Took(R, y, z, p) /\ y.rows = <<>>
      BY <2>4, <2>8, <3>1, <3>2, <3>3, SliceTaken
    <3>5. Took(R, y, o, FlattenSeq(s) \o p)
      BY <2>4, <2>7, <3>2, <3>4, TookAgain
    <3> QED
      BY <2>5, <2>7, <3>4, <3>5
  <2> HIDE DEF Fine
  <2> QED
    BY <2>1, <2>8
<1>7. \A k \in 0..n : k \in Reached
  <2> HIDE DEF Reached
  <2> QED
    BY <1>2, <1>5, <1>6, UpTo
<1>8. Took(R, x, o, FlattenSeq(part(n)))
  BY <1>2, <1>3, <1>7
<1>9. part(n) = parts
  BY <1>1, <1>2
<1> QED
  BY <1>2, <1>8, <1>9

-----------------------------------------------------------------------------
(* A writer, failed or not, has the field that tells.                      *)
Flagged(x) == "failed" \in DOMAIN x

(* Every outcome of a write and of a flush does.                           *)
LEMMA StoreFlagged ==
    ASSUME NEW o, Flagged(o), NEW format, NEW r, NEW x \in Store(format, o, r)
    PROVE  Flagged(x)
<1> DEFINE rotated == IF Full(o, r) THEN CloseShard(format, o) ELSE {o}
           opened  == Then(rotated, LAMBDA y : IF y.live = NoShard THEN OpenShard(y) ELSE {y})
<1>1. PICK z \in opened : x = z \/ x = Wrote(z, r) \/ x = MarkFailed(z)
  <2>1. x \in Then(opened, LAMBDA y : {Wrote(y, r), MarkFailed(y)})
    BY DEF Store, Wrote
  <2> HIDE DEF opened
  <2> QED
    BY <2>1 DEF Then
<1>2. PICK y \in rotated : z = y \/ z \in OpenShard(y)
  <2> HIDE DEF rotated
  <2> QED
    BY <1>1 DEF Then
<1> HIDE DEF opened
<1>3. Flagged(y)
  <2>1. y = o \/ y \in CloseShard(format, o)
    BY <1>2
  <2>2. y = o \/ y = Closed(o) \/ y = MarkFailed([o EXCEPT !.live = NoShard]) \/ y = [o EXCEPT !.failed = TRUE]
    BY <2>1 DEF CloseShard, CloseArrow, CloseNdjson
  <2> QED
    BY <2>2 DEF Flagged, Closed, MarkFailed
<1>4. Flagged(z)
  BY <1>2, <1>3 DEF Flagged, OpenShard, MarkFailed
<1> QED
  BY <1>1, <1>4 DEF Flagged, Wrote, MarkFailed

(* So does every outcome of a flush.                                       *)
LEMMA FlushFlagged ==
    ASSUME NEW o, Flagged(o), NEW x \in FlushBatch(o)
    PROVE  Flagged(x)
<1>1. CASE x = o
  BY <1>1
<1>2. CASE o.rows # <<>>
  <2>1. x \in Then(Store("arrow", o, o.rows), LAMBDA y : {[y EXCEPT !.rows = <<>>]})
    BY <1>2 DEF FlushBatch
  <2>2. PICK y \in Store("arrow", o, o.rows) : x = y \/ x = [y EXCEPT !.rows = <<>>]
    BY <2>1 DEF Then
  <2>3. Flagged(y)
    BY StoreFlagged
  <2> QED
    BY <2>2, <2>3 DEF Flagged
<1> QED
  BY <1>1, <1>2 DEF FlushBatch

(* A writer that was closed holds what it held, all of it in finished      *)
(* shards.                                                                 *)
LEMMA CloseWriterKeeps ==
    ASSUME NEW R, Sized(R), NEW o, Sound(o, R), NEW format, format # "arrow" => o.rows = <<>>,
           NEW x \in CloseWriter(format, o), ~x.failed
    PROVE  Sound(x, R) /\ AllRows(x) = AllRows(o) /\ x.count = o.count /\ x.live = NoShard /\ x.rows = <<>>
<1>1. CASE format # "arrow"
  <2>1. x \in CloseShard(format, o)
    BY <1>1 DEF CloseWriter, CloseShard
  <2>2. Kept(R, x, o) /\ x.live = NoShard
    BY <2>1, CloseShardKeeps
  <2> QED
    BY <1>1, <2>2 DEF Kept, AllRows
<1>2. CASE format = "arrow"
  <2>0. ~o.failed /\ ~o.aborted /\ Flagged(o)
    <3>1. PICK a, b, c, d, e, f : o = W(a, b, c, d, e, f)
      BY SoundFields
    <3> QED
      BY <3>1 DEF W, Flagged
  <2> DEFINE tried == Then(FlushBatch(o), CloseArrow)
  <2>1. PICK z \in tried : x \in (IF z.failed THEN DiscardCurrent(z) ELSE {z})
    <3>1. x \in UNION {IF z.failed THEN DiscardCurrent(z) ELSE {z} : z \in tried}
      BY <1>2, <2>0 DEF CloseWriter, ArrowClose
    <3> HIDE DEF tried
    <3> QED
      BY <3>1
  <2>2. PICK y \in FlushBatch(o) : IF y.failed THEN z = y ELSE z \in CloseArrow(y)
    BY <2>1 DEF Then
  <2> HIDE DEF tried
  <2>3. Flagged(z)
    <3>1. Flagged(y)
      BY <2>0, FlushFlagged
    <3>2. z = y \/ z = Closed(y) \/ z = MarkFailed([y EXCEPT !.live = NoShard])
      BY <2>2 DEF CloseArrow
    <3> QED
      BY <3>1, <3>2 DEF Flagged, Closed, MarkFailed
  <2>4. ~z.failed
    <3>1. SUFFICES ASSUME z.failed PROVE x.failed
      OBVIOUS
    <3>2. x \in DiscardCurrent(z)
      BY <2>1, <3>1
    <3>3. x = [[z EXCEPT !.live = NoShard] EXCEPT !.files = Without(@, z.path)] \/ x = [z EXCEPT !.live = NoShard]
      BY <3>2 DEF DiscardCurrent
    <3>4. x.failed = z.failed
      BY <2>3, <3>3 DEF Flagged
    <3> QED
      BY <3>1, <3>4
  <2>5. x = z /\ ~y.failed /\ z \in CloseShard("arrow", y)
    BY <2>1, <2>2, <2>4 DEF CloseShard
  <2>6. Sound(y, R) /\ AllRows(y) = AllRows(o) /\ y.rows = <<>> /\ y.count = o.count
    BY <2>5, FlushKeeps
  <2>7. Kept(R, z, y) /\ z.live = NoShard
    BY <2>4, <2>5, <2>6, CloseShardKeeps
  <2> QED
    BY <2>5, <2>6, <2>7 DEF Kept, AllRows
<1> QED
  BY <1>1, <1>2

(* A new writer holds nothing.                                             *)
LEMMA NewWriterHoldsNothing ==
    ASSUME NEW R
    PROVE  Sound(NewWriter, R) /\ AllRows(NewWriter) = <<>> /\ NewWriter.count = 0 /\ NewWriter.rows = <<>>
<1>1. PICK a, b, c, d, e, f : a = <<>> /\ b = <<>> /\ c = 0 /\ d = NoShard /\ e = 0 /\ f = <<>>
  OBVIOUS
<1>2. NewWriter = W(a, b, c, d, e, f)
  BY <1>1 DEF NewWriter, W
<1>3. DOMAIN b = {} /\ DOMAIN f = {} /\ Len(b) = 0
  BY <1>1
<1>4. Disk(R, b, d, e, f)
  <2>1. b \in Seq(Shard) /\ d \in Nat \cup {NoShard} /\ e \in Nat
    BY <1>1
  <2>2. f \in [DOMAIN f -> [rows : Seq(R), whole : BOOLEAN]]
    BY <1>1, <1>3
  <2>3. DOMAIN f = 0..Len(b) - 1 \cup ({d} \ {NoShard})
    BY <1>1, <1>3
  <2> QED
    BY <1>1, <1>3, <2>1, <2>2, <2>3 DEF Disk
<1>5. OnDisk(b, d, f) = <<>>
  <2>1. RowsOf(f, b) = <<>>
    BY <1>1, <1>3 DEF RowsOf
  <2>2. FlattenSeq(RowsOf(f, b)) = <<>>
    BY <2>1, FlattenEmpty
  <2>3. ReadBack(f, b) = <<>>
    BY <2>2 DEF ReadBack, RowsOf
  <2>4. <<>> \o <<>> = <<>>
    OBVIOUS
  <2> QED
    BY <1>1, <2>3, <2>4 DEF OnDisk
<1>6. a \in Seq(R) /\ Fits(a, BatchLimit) /\ c \in Nat
  <2>1. Fits(<<>>, BatchLimit)
    BY SizeEmpty, WriterAssumption DEF Fits, BatchLimit
  <2> QED
    BY <1>1, <2>1
<1>7. Sound(NewWriter, R) /\ Stored(NewWriter) = OnDisk(b, d, f)
  BY <1>2, <1>4, <1>6, SoundW
<1>8. <<>> \o <<>> = <<>> /\ NewWriter.rows = <<>> /\ NewWriter.count = 0
  BY DEF NewWriter
<1> QED
  BY <1>5, <1>7, <1>8 DEF AllRows

-----------------------------------------------------------------------------
(* No rows, for no items and for one that is not accepted.                 *)
LEMMA RowsOfNone ==
    ASSUME NEW p, NEW n \in Nat, NEW m \in Nat, m <= n + 1, NEW lo, NEW hi,
           \A k \in m..n : p.items[k].kind \notin Good
    PROVE  AreRows(p, <<>>, m, n, lo, hi)
<1>1. PICK rows : rows = <<>>
  OBVIOUS
<1>2. DOMAIN rows = {}
  BY <1>1
<1>3. {k \in m..n : p.items[k].kind \in Good} = {}
  OBVIOUS
<1>4. AreRows(p, rows, m, n, lo, hi)
  BY <1>2, <1>3 DEF AreRows
<1> QED
  BY <1>1, <1>4

(* One row, for an item that is.                                           *)
LEMMA RowsOfOne ==
    ASSUME NEW p, NEW n \in Nat, NEW lo \in Int, NEW hi \in Int, NEW row \in SourceRow,
           row.at = n, row.version \in lo..hi, p.items[n].kind \in Good
    PROVE  AreRows(p, <<row>>, n, n, lo, hi)
<1>1. PICK rows : rows = <<row>>
  OBVIOUS
<1>2. DOMAIN rows = {1} /\ rows[1] = row
  BY <1>1
<1>3. {k \in n..n : p.items[k].kind \in Good} = {n}
  OBVIOUS
<1>4. {rows[k].at : k \in DOMAIN rows} = {n}
  BY <1>2
<1>5. AreRows(p, rows, n, n, lo, hi)
  BY <1>2, <1>3, <1>4 DEF AreRows
<1> QED
  BY <1>1, <1>5

(* The rows of some items, followed by those of the next.                  *)
LEMMA RowsJoined ==
    ASSUME NEW p, NEW s \in Seq(SourceRow), NEW t \in Seq(SourceRow), NEW a \in Nat, NEW b \in Nat, NEW c \in Nat,
           NEW n, n = b + 1, a <= n, b <= c, NEW lo \in Int, NEW hi \in Int,
           AreRows(p, s, a, b, lo, hi), AreRows(p, t, n, c, lo, hi)
    PROVE  AreRows(p, s \o t, a, c, lo, hi)
<1>0. s \o t \in Seq(SourceRow)
  OBVIOUS
<1>c. Len(s) \in Nat /\ Len(t) \in Nat
  OBVIOUS
<1>1. PICK u \in Seq(SourceRow), i \in Nat, j \in Nat : u = s \o t /\ i = Len(s) /\ j = Len(t)
  BY <1>0, <1>c
<1>2. /\ DOMAIN s = 1..i /\ DOMAIN t = 1..j /\ DOMAIN u = 1..i + j
      /\ \A k \in 1..i : u[k] = s[k]
      /\ \A k \in 1..j : u[k + i] = t[k]
      /\ \A k \in 1..i + j : k \notin 1..i => \E m \in 1..j : m = k - i /\ u[k] = t[m]
  <2>1. DOMAIN s = 1..i /\ DOMAIN t = 1..j /\ DOMAIN u = 1..i + j
    BY <1>1
  <2>2. \A k \in 1..i : u[k] = s[k]
    BY <1>1
  <2>3. \A k \in 1..j : u[k + i] = t[k]
    BY <1>1
  <2>4. ASSUME NEW k \in 1..i + j, k \notin 1..i PROVE \E m \in 1..j : m = k - i /\ u[k] = t[m]
    <3>1. k - i \in 1..j
      BY <2>4
    <3>2. PICK m \in 1..j : m = k - i
      BY <3>1
    <3>3. u[m + i] = t[m] /\ m + i = k
      BY <2>3, <3>2
    <3> QED
      BY <3>2, <3>3
  <2> QED
    BY <2>1, <2>2, <2>3, <2>4
<1>3. /\ \A k \in 1..i : s[k] \in SourceRow
      /\ \A k \in 1..j : t[k] \in SourceRow
  BY <1>2
<1>4. /\ \A k \in 1..i : s[k].at \in Nat /\ s[k].at \in a..b /\ p.items[s[k].at].kind \in Good /\ s[k].version \in lo..hi
      /\ \A k \in 1..j : t[k].at \in Nat /\ t[k].at \in n..c /\ p.items[t[k].at].kind \in Good /\ t[k].version \in lo..hi
  BY <1>2, <1>3 DEF AreRows, SourceRow
<1>a. /\ \A k, l \in 1..i : k < l => s[k].at < s[l].at
      /\ \A k, l \in 1..j : k < l => t[k].at < t[l].at
  BY <1>2 DEF AreRows
<1>b. /\ {s[k].at : k \in 1..i} = {x \in a..b : p.items[x].kind \in Good}
      /\ {t[k].at : k \in 1..j} = {x \in n..c : p.items[x].kind \in Good}
  BY <1>2 DEF AreRows
<1>5. {u[k].at : k \in DOMAIN u} = {k \in a..c : p.items[k].kind \in Good}
  <2>1. ASSUME NEW k \in 1..i + j PROVE u[k].at \in {x \in a..c : p.items[x].kind \in Good}
    <3>1. CASE k \in 1..i
      BY <1>2, <1>4, <3>1
    <3>2. CASE k \notin 1..i
      <4>1. PICK m \in 1..j : u[k] = t[m]
        BY <1>2, <3>2
      <4>2. t[m].at \in n..c /\ p.items[t[m].at].kind \in Good
        BY <1>4
      <4>3. n..c \subseteq a..c
        OBVIOUS
      <4> QED
        BY <4>1, <4>2, <4>3
    <3> QED
      BY <3>1, <3>2
  <2>2. ASSUME NEW x \in a..c, p.items[x].kind \in Good PROVE \E k \in 1..i + j : u[k].at = x
    <3>1. CASE x <= b
      <4>1. PICK k \in 1..i : s[k].at = x
        BY <1>b, <2>2, <3>1
      <4> QED
        BY <1>2, <4>1
    <3>2. CASE x > b
      <4>1. x \in n..c
        BY <3>2
      <4>2. PICK k \in 1..j : t[k].at = x
        BY <1>b, <2>2, <4>1
      <4>3. k + i \in 1..i + j
        OBVIOUS
      <4> QED
        BY <1>2, <4>2, <4>3
    <3> QED
      BY <3>1, <3>2
  <2>3. {u[k].at : k \in 1..i + j} \subseteq {x \in a..c : p.items[x].kind \in Good}
    BY <2>1
  <2>4. {x \in a..c : p.items[x].kind \in Good} \subseteq {u[k].at : k \in 1..i + j}
    BY <2>2
  <2> QED
    BY <1>2, <2>3, <2>4
<1>6. ASSUME NEW k \in 1..i + j, NEW l \in 1..i + j, k < l PROVE u[k].at < u[l].at
  <2>1. CASE l \in 1..i
    <3>1. k \in 1..i
      BY <1>6, <2>1
    <3> QED
      BY <1>2, <1>a, <1>6, <2>1, <3>1
  <2>2. CASE l \notin 1..i /\ k \in 1..i
    <3>1. PICK y \in 1..j : u[l] = t[y]
      BY <1>2, <2>2
    <3>2. s[k].at \in Nat /\ t[y].at \in Nat /\ s[k].at <= b /\ b < t[y].at
      <4>1. s[k].at \in Nat /\ s[k].at \in a..b
        BY <1>4, <2>2
      <4>2. t[y].at \in Nat /\ t[y].at \in n..c
        BY <1>4
      <4> QED
        BY <4>1, <4>2
    <3>3. u[k].at = s[k].at /\ u[l].at = t[y].at
      BY <1>2, <2>2, <3>1
    <3>4. s[k].at < t[y].at
      BY <3>2
    <3> QED
      BY <3>3, <3>4
  <2>3. CASE l \notin 1..i /\ k \notin 1..i
    <3>1. PICK x \in 1..j, y \in 1..j : x = k - i /\ y = l - i /\ u[k] = t[x] /\ u[l] = t[y]
      BY <1>2, <2>3
    <3>2. x < y
      BY <1>6, <3>1
    <3> QED
      BY <1>a, <3>1, <3>2
  <2> QED
    BY <2>1, <2>2, <2>3
<1>7. \A k \in 1..i + j : u[k].version \in lo..hi
  BY <1>2, <1>4
<1>8. AreRows(p, u, a, c, lo, hi)
  BY <1>2, <1>5, <1>6, <1>7 DEF AreRows
<1> QED
  BY <1>1, <1>8

(* Whatever is of one version is of a range with that version.             *)
LEMMA RowsWider ==
    ASSUME NEW p, NEW s, NEW a, NEW b, NEW v \in Int, NEW w \in Int, NEW lo \in Int, NEW hi \in Int,
           lo <= v, w <= hi, AreRows(p, s, a, b, v, w)
    PROVE  AreRows(p, s, a, b, lo, hi)
  BY DEF AreRows

-----------------------------------------------------------------------------
(* The rows of a native batch are a fold whose step is a function.         *)
RowsStep(rows, k) == IF plan.items[k].kind = "row" THEN Append(rows, Row(k)) ELSE rows
Adding   == [p \in Seq(SourceRow) \X DOMAIN plan.items |-> RowsStep(p[1], p[2])]
Span(n)  == [i \in 1..n |-> at + i - 1]
RowsEq(s, f) ==
    f = [V \in SUBSET DOMAIN s |-> IF V = {} THEN <<>> ELSE RowsStep(f[V \ {Max(V)}], s[Max(V)])]

(* What is known of the plan and of an item of it.                         *)
LEMMA ItemTyped ==
    ASSUME TypeOK
    PROVE  /\ plan \in Plan /\ Len(plan.items) \in Nat /\ DOMAIN plan.items = 1..Len(plan.items) /\ Len(plan.items) < MaxAttempts
           /\ \A k \in 1..Len(plan.items) : plan.items[k].size \in Nat /\ Row(k) \in SourceRow
<1>1. plan \in Plan /\ Len(plan.items) < MaxAttempts
  BY StagingAssumption DEF TypeOK
<1>2. plan.items \in Seq([kind : STRING, size : Nat])
  BY <1>1 DEF Plan
<1>3. Len(plan.items) \in Nat /\ DOMAIN plan.items = 1..Len(plan.items)
  BY <1>2
<1>4. ASSUME NEW k \in 1..Len(plan.items) PROVE plan.items[k].size \in Nat
  <2>1. plan.items[k] \in [kind : STRING, size : Nat]
    BY <1>2, <1>3, IndicesOfSeq
  <2> QED
    BY <2>1
<1>5. ASSUME NEW k \in 1..Len(plan.items) PROVE Row(k) \in SourceRow
  BY <1>4 DEF Row, SourceRow, TypeOK
<1> QED
  BY <1>1, <1>3, <1>4, <1>5

(* The step is one of sequences of rows.                                   *)
LEMMA AddingTyped ==
    ASSUME TypeOK
    PROVE  Adding \in [Seq(SourceRow) \X DOMAIN plan.items -> Seq(SourceRow)] /\ <<>> \in Seq(SourceRow)
<1> SUFFICES ASSUME NEW rows \in Seq(SourceRow), NEW k \in DOMAIN plan.items
             PROVE  RowsStep(rows, k) \in Seq(SourceRow)
  BY DEF Adding
<1>1. PICK row \in SourceRow : row = Row(k)
  BY ItemTyped
<1>2. Append(rows, row) \in Seq(SourceRow)
  OBVIOUS
<1> QED
  BY <1>1, <1>2 DEF RowsStep

(* The items of a batch are items of the plan.                             *)
LEMMA SpanTyped ==
    ASSUME TypeOK, NEW n \in Nat, at + n - 1 <= Len(plan.items)
    PROVE  Span(n) \in Seq(DOMAIN plan.items) /\ (n # 0 => Span(n) = Append(Span(n - 1), at + n - 1))
<1>1. PICK a \in Nat : a = at /\ a >= 1
  BY DEF TypeOK
<1>2. \A i \in 1..n : a + i - 1 \in DOMAIN plan.items
  BY <1>1, ItemTyped
<1>3. Span(n) \in Seq(DOMAIN plan.items)
  <2>1. PICK D, f : D = DOMAIN plan.items /\ f = Span(n)
    OBVIOUS
  <2>2. f = [i \in 1..n |-> a + i - 1] /\ \A i \in 1..n : a + i - 1 \in D
    BY <1>1, <1>2, <2>1 DEF Span
  <2>3. f \in Seq(D)
    BY <2>2
  <2> QED
    BY <2>1, <2>3
<1>4. ASSUME n # 0 PROVE Span(n) = Append(Span(n - 1), at + n - 1)
  <2>1. PICK m \in Nat : m = n - 1 /\ n = m + 1
    BY <1>4
  <2>2. PICK f, g, h, x : f = Span(n) /\ g = Span(m) /\ x = a + n - 1 /\ h = Append(g, x)
    OBVIOUS
  <2>3. f = [i \in 1..m + 1 |-> a + i - 1] /\ g = [i \in 1..m |-> a + i - 1]
    BY <1>1, <2>1, <2>2 DEF Span
  <2>4. g \in Seq(Nat) /\ Len(g) = m /\ x \in Nat
    BY <1>1, <2>2, <2>3
  <2>5. h = [i \in 1..m + 1 |-> IF i = m + 1 THEN x ELSE g[i]]
    BY <2>2, <2>4
  <2>6. \A i \in 1..m + 1 : (IF i = m + 1 THEN x ELSE g[i]) = a + i - 1
    <3>1. \A i \in 1..m : g[i] = a + i - 1
      BY <2>3
    <3>2. x = a + (m + 1) - 1
      BY <2>1, <2>2
    <3> QED
      BY <3>1, <3>2
  <2>7. h = f
    BY <2>3, <2>5, <2>6
  <2> QED
    BY <1>1, <2>1, <2>2, <2>7
<1> QED
  BY <1>3, <1>4

(* The fold over them.                                                     *)
LEMMA RowsToIsFold ==
    ASSUME TypeOK, NEW last \in Nat, NEW n \in Nat, last = at + n - 1, last <= Len(plan.items)
    PROVE  RowsTo(last) = FoldBy(Adding, <<>>, Span(n)) /\ RowsTo(last) \in Seq(SourceRow)
<1>0. PICK s \in Seq(DOMAIN plan.items) : s = Span(n)
  BY SpanTyped
<1> DEFINE D == DOMAIN s
           g == SeqFoldOf(Adding, <<>>, s, D)
           h == CHOOSE f : RowsEq(s, f)
<1>1. Adding \in [Seq(SourceRow) \X DOMAIN plan.items -> Seq(SourceRow)] /\ <<>> \in Seq(SourceRow)
  BY AddingTyped
<1>p. Indices(D)
  BY IndicesOfSeq
<1>2. /\ g = [V \in SUBSET D |-> IF V = {} THEN <<>> ELSE Adding[<<g[Before(V)], s[Max(V)]>>]]
      /\ \A V \in SUBSET D : V # {} => g[Before(V)] \in Seq(SourceRow) /\ s[Max(V)] \in DOMAIN plan.items
  BY <1>1, FoldEquation
<1>3. g[D] \in Seq(SourceRow)
  BY <1>1, FoldStays
<1> HIDE DEF g
<1>4. RowsEq(s, g)
  <2>1. \A a \in Seq(SourceRow), x \in DOMAIN plan.items : Adding[<<a, x>>] = RowsStep(a, x)
    BY DEF Adding
  <2>2. \A V \in SUBSET D : V # {} => Adding[<<g[Before(V)], s[Max(V)]>>] = RowsStep(g[Before(V)], s[Max(V)])
    BY <1>2, <2>1
  <2> QED
    BY <1>2, <2>2 DEF RowsEq, Before
<1>5. RowsEq(s, h)
  BY <1>4
<1> HIDE DEF h
<1>6. InStep(g, h, D)
  BY <1>4, <1>5 DEF InStep, RowsEq, Before
<1>7. g[D] = h[D]
  BY <1>p, <1>6, StepsAgree
<1>8. RowsTo(last) = h[D]
  <2>1. last + 1 - at = n
    BY DEF TypeOK
  <2>2. s = [i \in 1..last + 1 - at |-> at + i - 1]
    BY <1>0, <2>1 DEF Span
  <2> QED
    BY <2>2 DEF RowsTo, FoldLeft, MapThenFoldSet, RowsEq, RowsStep, h
<1>9. RowsTo(last) = FoldBy(Adding, <<>>, s)
  BY <1>7, <1>8, FoldIsLast DEF g
<1> QED
  BY <1>0, <1>3, <1>7, <1>8, <1>9

(* No item, and one item more.                                             *)
LEMMA RowsToStep ==
    ASSUME TypeOK, NEW n \in Nat, NEW last \in Nat, last = at + n - 1, last <= Len(plan.items)
    PROVE  /\ n = 0 => RowsTo(last) = <<>>
           /\ n # 0 => RowsTo(last) = RowsStep(RowsTo(last - 1), last)
<1>1. RowsTo(last) = FoldBy(Adding, <<>>, Span(n))
  BY RowsToIsFold
<1>2. ASSUME n = 0 PROVE RowsTo(last) = <<>>
  <2>1. Span(n) = <<>>
    BY <1>2 DEF Span
  <2>2. PICK G, b : G = Adding /\ b = <<>>
    OBVIOUS
  <2>3. FoldBy(G, b, <<>>) = b
    BY FoldEmpty
  <2> QED
    BY <1>1, <2>1, <2>2, <2>3
<1>3. ASSUME n # 0 PROVE RowsTo(last) = RowsStep(RowsTo(last - 1), last)
  <2>1. PICK m \in Nat, k \in Nat : m = n - 1 /\ k = last - 1 /\ k = at + m - 1
    BY <1>3 DEF TypeOK
  <2>2. PICK s, t, X : s = Span(m) /\ t = Span(n) /\ X = DOMAIN plan.items
    OBVIOUS
  <2>3. k <= Len(plan.items)
    BY <2>1, ItemTyped
  <2>4. s \in Seq(X) /\ t = Append(s, last)
    BY <1>3, <2>1, <2>2, <2>3, SpanTyped DEF TypeOK
  <2>5. last \in X
    BY <1>3, <2>2, ItemTyped DEF TypeOK
  <2>6. PICK G, b : G = Adding /\ b = <<>>
    OBVIOUS
  <2>7. FoldBy(G, b, Append(s, last)) = G[<<FoldBy(G, b, s), last>>]
    BY <2>4, <2>5, FoldAppend
  <2>8. RowsTo(k) = FoldBy(G, b, s) /\ RowsTo(k) \in Seq(SourceRow)
    BY <2>1, <2>2, <2>3, <2>6, RowsToIsFold
  <2>9. G[<<RowsTo(k), last>>] = RowsStep(RowsTo(k), last)
    BY <2>2, <2>5, <2>6, <2>8 DEF Adding
  <2> QED
    BY <1>1, <2>1, <2>2, <2>4, <2>6, <2>7, <2>8, <2>9
<1> QED
  BY <1>2, <1>3

(* They are those of the records among the items, whether or not any was   *)
(* rejected.                                                               *)
BatchOf(n, rows) ==
    /\ rows \in Seq(SourceRow)
    /\ AreRows(plan, rows, at, at + n - 1, version, version)
    /\ Len(rows) <= n
    /\ Len(rows) = n => \A k \in at..at + n - 1 : plan.items[k].kind = "row"

(* One item more in a batch adds one row, or an item that is none.         *)
LEMMA BatchGrows ==
    ASSUME TypeOK, NEW n \in Nat, NEW rows, BatchOf(n, rows), NEW k \in Nat, k = at + n, k <= Len(plan.items),
           plan.items[k].kind \in {"row", "reject"}
    PROVE  BatchOf(n + 1, RowsStep(rows, k))
<1>1. PICK a \in Nat, v \in Int, b \in Nat, c \in Nat : a = at /\ a >= 1 /\ v = version /\ b = a + n - 1 /\ c = a + (n + 1) - 1
  BY DEF TypeOK
<1>2. /\ rows \in Seq(SourceRow) /\ AreRows(plan, rows, a, b, v, v) /\ Len(rows) <= n
      /\ Len(rows) = n => \A i \in a..b : plan.items[i].kind = "row"
  BY <1>1 DEF BatchOf
<1>3. k = b + 1 /\ c = k /\ a <= k /\ b <= k
  BY <1>1
<1>4. CASE plan.items[k].kind = "row"
  <2>a. k \in 1..Len(plan.items)
    BY <1>1, <1>3, ItemTyped
  <2>b. Row(k) \in SourceRow /\ Row(k).at = k /\ Row(k).version = v
    BY <1>1, <2>a, ItemTyped DEF Row
  <2>c. PICK row \in SourceRow : row = Row(k) /\ row.at = k /\ row.version = v
    BY <2>b
  <2>1. PICK t : t = <<row>>
    OBVIOUS
  <2>2. t \in Seq(SourceRow) /\ Len(t) = 1
    BY <2>1
  <2>3. AreRows(plan, t, k, k, v, v)
    <3>1. plan.items[k].kind \in Good
      BY <1>4 DEF Good
    <3>2. row.at = k /\ row.version \in v..v
      BY <1>1, <2>c
    <3>3. AreRows(plan, <<row>>, k, k, v, v)
      BY <1>1, <3>1, <3>2, RowsOfOne
    <3> QED
      BY <2>1, <3>3
  <2>4. AreRows(plan, rows \o t, a, k, v, v)
    BY <1>2, <1>3, <2>2, <2>3, RowsJoined
  <2>5. RowsStep(rows, k) = rows \o t
    BY <1>2, <1>4, <2>c, <2>1, AppendIsConcat DEF RowsStep
  <2>6. rows \o t \in Seq(SourceRow) /\ Len(rows \o t) = Len(rows) + 1
    <3>1. \A q, r \in Seq(SourceRow) : q \o r \in Seq(SourceRow) /\ Len(q \o r) = Len(q) + Len(r)
      OBVIOUS
    <3> QED
      BY <1>2, <2>2, <3>1
  <2>7. ASSUME Len(rows) + 1 = n + 1, NEW i \in a..c PROVE plan.items[i].kind = "row"
    <3>1. CASE i = k
      BY <1>4, <3>1
    <3>2. CASE i # k
      <4>1. i \in a..b /\ Len(rows) = n
        BY <1>2, <1>3, <2>7, <3>2
      <4> QED
        BY <1>2, <4>1
    <3> QED
      BY <3>1, <3>2
  <2>8. Len(rows) + 1 <= n + 1
    BY <1>2
  <2> QED
    BY <1>1, <1>3, <2>4, <2>5, <2>6, <2>7, <2>8 DEF BatchOf
<1>5. CASE plan.items[k].kind # "row"
  <2>1. PICK t : t = <<>>
    OBVIOUS
  <2>2. \A i \in k..k : plan.items[i].kind \notin Good
    BY <1>5 DEF Good
  <2>3. AreRows(plan, t, k, k, v, v)
    <3>1. k <= k + 1
      OBVIOUS
    <3> QED
      BY <2>1, <2>2, <3>1, RowsOfNone
  <2>4. t \in Seq(SourceRow)
    BY <2>1
  <2>5. AreRows(plan, rows \o t, a, k, v, v)
    BY <1>2, <1>3, <2>3, <2>4, RowsJoined
  <2>6. \A q \in Seq(SourceRow) : q \o <<>> = q
    OBVIOUS
  <2>7. RowsStep(rows, k) = rows /\ rows \o t = rows
    BY <1>2, <1>5, <2>1, <2>6 DEF RowsStep
  <2>8. Len(rows) # n + 1 /\ Len(rows) <= n + 1
    BY <1>2
  <2> QED
    BY <1>1, <1>2, <1>3, <2>5, <2>7, <2>8 DEF BatchOf
<1> QED
  BY <1>4, <1>5

(* So the rows of a batch are.                                             *)
LEMMA RowsToAreRows ==
    ASSUME TypeOK, NEW last \in at..Len(plan.items), Readable(last)
    PROVE  BatchOf(last + 1 - at, RowsTo(last))
<1>0. at \in Nat /\ at >= 1 /\ Len(plan.items) \in Nat
  BY ItemTyped DEF TypeOK
<1>1. PICK n \in Nat, a \in Nat : a = at /\ a >= 1 /\ n = last + 1 - at /\ last = a + n - 1 /\ a <= Len(plan.items) /\ last <= Len(plan.items)
  <2>1. last + 1 - at \in Nat
    BY <1>0
  <2> QED
    BY <1>0, <2>1
<1> DEFINE Met == {k \in Nat : BatchOf(k, RowsTo(a + k - 1))}
<1>2. 0 \in Met
  <2>1. PICK e \in Nat : e = a - 1 /\ e = a + 0 - 1 /\ e <= Len(plan.items)
    BY <1>0, <1>1
  <2>2. RowsTo(e) = <<>>
    BY <1>1, <2>1, RowsToStep
  <2>3. AreRows(plan, <<>>, a, e, version, version)
    <3>1. \A k \in a..e : FALSE
      BY <1>1, <2>1
    <3>2. a <= e + 1
      BY <2>1
    <3> QED
      BY <1>1, <3>1, <3>2, RowsOfNone
  <2>4. <<>> \in Seq(SourceRow) /\ Len(<<>>) = 0 /\ \A k \in at..at + 0 - 1 : plan.items[k].kind = "row"
    BY <1>1
  <2>5. BatchOf(0, <<>>)
    BY <1>1, <2>1, <2>3, <2>4 DEF BatchOf
  <2> QED
    BY <2>1, <2>2, <2>5
<1>3. ASSUME NEW k \in 0..n - 1, k \in Met PROVE k + 1 \in Met
  <2>1. PICK m \in Nat, l \in Nat : m = k + 1 /\ l = a + k /\ l = at + m - 1 /\ l - 1 = a + k - 1 /\ l <= last /\ l >= a /\ m # 0
    BY <1>1
  <2>2. l <= Len(plan.items) /\ plan.items[l].kind \in {"row", "reject"}
    BY <1>0, <1>1, <2>1 DEF Readable
  <2>3. RowsTo(l) = RowsStep(RowsTo(l - 1), l)
    BY <2>1, <2>2, RowsToStep
  <2>4. PICK rows : rows = RowsTo(l - 1)
    OBVIOUS
  <2>5. BatchOf(k, rows)
    BY <1>3, <2>1, <2>4
  <2>6. BatchOf(k + 1, RowsStep(rows, l))
    BY <1>1, <2>1, <2>2, <2>5, BatchGrows
  <2> QED
    BY <2>1, <2>3, <2>4, <2>6
<1>4. n \in Met
  <2> HIDE DEF Met
  <2>1. \A k \in 0..n : k \in Met
    BY <1>2, <1>3, UpTo
  <2> QED
    BY <2>1
<1> QED
  BY <1>1, <1>4

-----------------------------------------------------------------------------
(* An error is counted, however many there are.                            *)
LEMMA ErrorsCounted ==
    ASSUME errors \in Nat, NEW n \in Nat
    PROVE  Errors(n) \in Nat /\ (Errors(n) = 0 => errors = 0 /\ n = 0)
<1>a. MaxErrors \in Nat /\ MaxErrors # 0 /\ errors + n \in Nat
  BY StagingAssumption
<1>b. PICK a \in Nat, b \in Nat : a = errors + n /\ b = MaxErrors /\ b # 0
  BY <1>a
<1>1. PICK S : S = {a, b}
  OBVIOUS
<1>2. Min(S) \in S
  BY <1>1, LeastIsElement
<1> QED
  BY <1>b, <1>1, <1>2 DEF Errors

(* The partitions of rows, by the plan.                                    *)
Part(p, row)    == IF p.kind = "web" THEN "web" ELSE ToString(row.size)
Listed(p, rows) == {Part(p, rows[k]) : k \in DOMAIN rows}

(* The partitions of two runs of rows.                                     *)
LEMMA ListedJoined ==
    ASSUME NEW p, NEW R, NEW s \in Seq(R), NEW t \in Seq(R)
    PROVE  Listed(p, s \o t) = Listed(p, s) \cup Listed(p, t)
<1>1. Len(s) \in Nat /\ Len(t) \in Nat /\ s \o t \in Seq(R)
  OBVIOUS
<1>2. PICK u \in Seq(R), i \in Nat, j \in Nat : u = s \o t /\ i = Len(s) /\ j = Len(t)
  BY <1>1
<1>3. DOMAIN s = 1..i /\ DOMAIN t = 1..j /\ DOMAIN u = 1..i + j
  BY <1>2
<1>4. \A k \in 1..i : u[k] = s[k]
  BY <1>2
<1>5. \A k \in 1..j : u[k + i] = t[k]
  BY <1>2
<1>6. ASSUME NEW k \in 1..i + j PROVE Part(p, u[k]) \in Listed(p, s) \cup Listed(p, t)
  <2>1. CASE k \in 1..i
    BY <1>3, <1>4, <2>1 DEF Listed
  <2>2. CASE k \notin 1..i
    <3>1. k - i \in 1..j
      BY <2>2
    <3>2. PICK m \in 1..j : m + i = k
      BY <3>1
    <3> QED
      BY <1>3, <1>5, <3>2 DEF Listed
  <2> QED
    BY <2>1, <2>2
<1>7. ASSUME NEW k \in 1..i PROVE Part(p, s[k]) \in Listed(p, u)
  BY <1>3, <1>4 DEF Listed
<1>8. ASSUME NEW k \in 1..j PROVE Part(p, t[k]) \in Listed(p, u)
  <2>1. k + i \in 1..i + j
    OBVIOUS
  <2> QED
    BY <1>3, <1>5, <2>1 DEF Listed
<1>9. Listed(p, u) \subseteq Listed(p, s) \cup Listed(p, t)
  BY <1>3, <1>6 DEF Listed
<1>10. Listed(p, s) \subseteq Listed(p, u) /\ Listed(p, t) \subseteq Listed(p, u)
  BY <1>3, <1>7, <1>8 DEF Listed
<1> QED
  BY <1>2, <1>9, <1>10

(* A partition is collected for the rows that have it.                     *)
LEMMA CollectedLists ==
    ASSUME NEW R, NEW s \in Seq(R), NEW t \in Seq(R), NEW row, Listed(plan, t) = {Part(plan, row)},
           partitions = Unlisted \/ partitions = Listed(plan, s)
    PROVE  Collected(row) = Unlisted \/ Collected(row) = Listed(plan, s \o t)
<1>1. Listed(plan, s \o t) = Listed(plan, s) \cup Listed(plan, t)
  BY ListedJoined
<1>2. PartitionOf(row) = Part(plan, row)
  BY DEF PartitionOf, Part
<1> QED
  BY <1>1, <1>2 DEF Collected

(* What the writer holds, value by value.                                  *)
Keeping(p, o, a, lo, hi, parts) ==
    /\ Sound(o, SourceRow) /\ o.count = Len(AllRows(o))
    /\ p.format = "ndjson" => o.rows = <<>>
    /\ AreRows(p, AllRows(o), 1, a - 1, lo, hi)
    /\ p.kind = "evtx" \/ parts = Unlisted \/ parts = Listed(p, AllRows(o))

(* The part of the invariant about rows, by what the writer holds.         *)
LEMMA RowsInvIs == RowsInv <=> (Begun => Keeping(plan, out, at, hashed, version, partitions))
  BY DEF RowsInv, Keeping, Sound, Listed, Part, PartitionOf, Evtx

(* The same of the next state.                                             *)
LEMMA RowsInvWillBe == RowsInv' <=> (Begun' => Keeping(plan', out', at', hashed', version', partitions'))
  BY DEF RowsInv, Keeping, Sound, Listed, Part, PartitionOf, Evtx

(* It holds rows more, of the next items.                                  *)
LEMMA KeepingMore ==
    ASSUME NEW p, NEW o, NEW a \in Nat, NEW c \in Nat, 1 <= a, a <= c, NEW lo \in Int, NEW hi \in Int, NEW parts,
           Keeping(p, o, a, lo, hi, parts),
           NEW rows \in Seq(SourceRow), AreRows(p, rows, a, c - 1, lo, hi),
           NEW x, Took(SourceRow, x, o, rows), p.format = "ndjson" => x.rows = <<>>,
           NEW next, p.kind = "evtx" \/ next = Unlisted \/ next = Listed(p, AllRows(o) \o rows)
    PROVE  Keeping(p, x, c, lo, hi, next)
<1>1. PICK s \in Seq(SourceRow) : s = AllRows(o)
  BY StoredTyped DEF Keeping
<1>2. AllRows(x) = s \o rows /\ x.count = o.count + Len(rows) /\ Sound(x, SourceRow)
  BY <1>1 DEF Took
<1>3. PICK b \in Nat, d \in Nat : b = a - 1 /\ d = c - 1 /\ a = b + 1 /\ 1 <= a /\ b <= d
  OBVIOUS
<1>4. AreRows(p, s \o rows, 1, d, lo, hi)
  BY <1>1, <1>3, RowsJoined DEF Keeping
<1>5. Len(s \o rows) = Len(s) + Len(rows)
  BY <1>1
<1>6. o.count = Len(s)
  BY <1>1 DEF Keeping
<1> QED
  BY <1>1, <1>2, <1>3, <1>4, <1>5, <1>6 DEF Keeping

-----------------------------------------------------------------------------
(* Rows are of a sort with a size, and so are shards.                      *)
LEMMA RowsAreSized == Sized(SourceRow) /\ Sized(Shard)
  BY DEF Sized, SourceRow, Shard

(* Nothing is held at first.                                               *)
LEMMA KeepingNothing ==
    ASSUME NEW p, NEW lo, NEW hi, NEW parts, parts = {}
    PROVE  Keeping(p, NewWriter, 1, lo, hi, parts)
<1>1. Sound(NewWriter, SourceRow) /\ AllRows(NewWriter) = <<>> /\ NewWriter.count = 0 /\ NewWriter.rows = <<>>
  BY NewWriterHoldsNothing
<1>2. Len(<<>>) = 0 /\ DOMAIN <<>> = {}
  OBVIOUS
<1>3. PICK n \in Nat, m \in Nat : n = 0 /\ m = 1 /\ n = m - 1
  OBVIOUS
<1>4. \A k \in m..n : p.items[k].kind \notin Good
  BY <1>3
<1>5. AreRows(p, <<>>, m, n, lo, hi)
  BY <1>3, <1>4, RowsOfNone
<1>6. Listed(p, <<>>) = {}
  BY <1>2 DEF Listed
<1> QED
  BY <1>1, <1>2, <1>3, <1>5, <1>6 DEF Keeping

(* The initial states satisfy it.                                          *)
LEMMA InitStaging == Init => StagingInv
<1> SUFFICES ASSUME Init PROVE StagingInv
  OBVIOUS
<1>1. TypeOK
  <2>1. version = 0 /\ signature \in 0..version /\ version \in Nat
    BY DEF Init
  <2>2. hashed \in {Unhashed} \cup 0..version /\ plan \in Plans
    BY DEF Init
  <2>3. pc \in Labels /\ parser \in {"native", "python"}
    BY DEF Init, Labels
  <2>4. at \in Nat \ {0} /\ attempts \in Nat /\ errors \in Nat
    BY DEF Init
  <2>5. cut \in BOOLEAN
    BY DEF Init
  <2> QED
    BY <2>1, <2>2, <2>3, <2>4, <2>5 DEF TypeOK
<1>2. IdleInv
  BY DEF Init, IdleInv
<1>3. ~Begun /\ ~Ended /\ ~Parsing
  BY DEF Init, Begun, Ended, Parsing
<1>4. HashInv
  BY <1>3 DEF Init, HashInv, Unhashed
<1>5. RowsInv /\ ItemsInv /\ EndInv
  BY <1>3 DEF RowsInv, ItemsInv, EndInv
<1>6. ReportInv
  BY <1>3 DEF Init, ReportInv, NoReport
<1> QED
  BY <1>1, <1>2, <1>4, <1>5, <1>6 DEF StagingInv

(* A file that raises, or is about to, leaves no claim but on its report.  *)
LEMMA Stopped ==
    ASSUME StagingInv, TypeOK', pc # "reported", pc' \in {"failing", "raised"},
           UNCHANGED <<plan, signature, hashed, report>>
    PROVE  StagingInv'
<1>1. ~Begun' /\ ~Ended' /\ ~Parsing' /\ ~Parsing
  BY DEF Begun, Ended, Parsing
<1>2. IdleInv'
  BY DEF IdleInv
<1>3. HashInv'
  BY <1>1 DEF StagingInv, HashInv, Signed
<1>4. RowsInv' /\ ItemsInv' /\ EndInv'
  BY <1>1 DEF RowsInv, ItemsInv, EndInv
<1>5. ReportInv'
  BY <1>1 DEF StagingInv, ReportInv
<1> QED
  BY <1>2, <1>3, <1>4, <1>5 DEF StagingInv

(* A report without a hash: no parser was begun.                           *)
LEMMA ReportedAtOnce ==
    ASSUME StagingInv, pc \in {"start", "hashing"}, NEW status, status # "ok", Reported(status, 0),
           UNCHANGED <<scanned, parsing, out, partitions>>
    PROVE  StagingInv'
<1>1. TypeOK'
  BY DEF StagingInv, TypeOK, Labels, Reported, scanned, parsing
<1>2. ~Begun' /\ ~Ended' /\ ~Parsing' /\ pc' = "reported"
  BY DEF StagingInv, HashInv, Begun, Ended, Parsing, Reported, scanned
<1>3. IdleInv'
  BY <1>2 DEF IdleInv
<1>4. HashInv'
  BY <1>2 DEF StagingInv, HashInv, Signed, scanned
<1>5. RowsInv' /\ ItemsInv' /\ EndInv'
  BY <1>2 DEF RowsInv, ItemsInv, EndInv
<1>6. ReportInv'
  <2>1. out.chunks = <<>>
    BY DEF StagingInv, IdleInv, NewWriter
  <2>2. report'.status = status /\ report'.chunks = <<>>
    BY <2>1 DEF Reported
  <2> QED
    BY <1>2, <2>2 DEF ReportInv
<1> QED
  BY <1>1, <1>3, <1>4, <1>5, <1>6 DEF StagingInv

(* The steps before the parser is chosen.                                  *)
LEMMA UnrecognisedKeeps == ASSUME StagingInv, Unrecognised PROVE StagingInv'
  BY ReportedAtOnce DEF Unrecognised

(* A file that cannot be read is reported as failed.                       *)
LEMMA UnreadableKeeps == ASSUME StagingInv, Unreadable PROVE StagingInv'
  BY ReportedAtOnce DEF Unreadable

(* The file is ready, or still to be hashed: nothing has begun.            *)
LEMMA Prepared ==
    ASSUME StagingInv, pc \in {"start", "hashing"}, pc' \in {"hashing", "ready"},
           UNCHANGED <<plan, version, parsing, out, partitions, report>>,
           pc' = "hashing" => hashed' = hashed /\ signature' \in 0..version,
           pc' = "ready" => hashed' \in 0..version /\ signature' = signature /\ (Signed => hashed' = signature)
    PROVE  StagingInv'
<1>1. TypeOK'
  BY DEF StagingInv, TypeOK, Labels, parsing
<1>2. ~Begun' /\ ~Ended' /\ ~Parsing' /\ ~Parsing
  BY DEF Begun, Ended, Parsing
<1>3. IdleInv'
  BY DEF StagingInv, IdleInv, parsing
<1>4. HashInv'
  BY <1>2 DEF StagingInv, HashInv, TypeOK, Unhashed, Signed, Evtx
<1>5. RowsInv' /\ ItemsInv' /\ EndInv'
  BY <1>2 DEF RowsInv, ItemsInv, EndInv
<1>6. ReportInv'
  BY <1>2 DEF StagingInv, ReportInv
<1> QED
  BY <1>1, <1>3, <1>4, <1>5, <1>6 DEF StagingInv

(* A signature and a hash handed over by the scan are taken or refused.    *)
LEMMA ReuseKeeps == ASSUME StagingInv, Reuse PROVE StagingInv'
<1>1. TypeOK'
  BY DEF StagingInv, TypeOK, Labels, Reuse, parsing, scanned
<1>2. CASE version = signature
  BY <1>2, Prepared DEF Reuse, StagingInv, TypeOK
<1>3. CASE version # signature
  BY <1>1, <1>3, Stopped DEF Reuse
<1> QED
  BY <1>2, <1>3

(* The signature is taken before the file is hashed.                       *)
LEMMA StatKeeps == ASSUME StagingInv, Stat PROVE StagingInv'
  BY Prepared DEF Stat, StagingInv, TypeOK

(* Hashing ends well, fails, or finds the file changed.                    *)
LEMMA HashSourceKeeps == ASSUME StagingInv, HashSource PROVE StagingInv'
<1>1. TypeOK'
  BY DEF StagingInv, TypeOK, Labels, HashSource, Reported, parsing
<1>2. CASE ~(Signed /\ version # signature)
  BY <1>2, Prepared DEF HashSource, StagingInv, TypeOK
<1>3. CASE Signed /\ version # signature /\ Evtx
  BY <1>1, <1>3, Stopped DEF HashSource
<1>4. CASE Signed /\ version # signature /\ ~Evtx
  BY <1>4, ReportedAtOnce DEF HashSource, scanned
<1> QED
  BY <1>2, <1>3, <1>4

-----------------------------------------------------------------------------
(* The file is replaced: what was read of it was of a version before.      *)
LEMMA KeepingLonger ==
    ASSUME NEW p, NEW o, NEW a, NEW lo \in Int, NEW hi \in Int, NEW later \in Int, hi <= later, NEW parts,
           Keeping(p, o, a, lo, hi, parts)
    PROVE  Keeping(p, o, a, lo, later, parts)
<1>1. AreRows(p, AllRows(o), 1, a - 1, lo, later)
  BY RowsWider DEF Keeping
<1> QED
  BY <1>1 DEF Keeping

(* The file is replaced, at any moment.                                    *)
LEMMA EvidenceChangesKeeps == ASSUME StagingInv, EvidenceChanges PROVE StagingInv'
<1>0. /\ version' = version + 1 /\ pc \notin {"reported", "raised"}
      /\ UNCHANGED <<plan, pc, signature, hashed, parser, at, attempts, errors, cut, raw, out, partitions, report>>
  BY DEF EvidenceChanges, Over, parsing
<1>1. TypeOK'
  BY <1>0 DEF StagingInv, TypeOK
<1>2. (Begun' <=> Begun) /\ (Ended' <=> Ended) /\ ~Parsing' /\ ~Parsing
  BY <1>0 DEF Begun, Ended, Parsing
<1>3. IdleInv'
  BY <1>0 DEF StagingInv, IdleInv
<1>4. HashInv'
  BY <1>0, <1>2 DEF StagingInv, HashInv, Signed, Evtx
<1>5. RowsInv'
  <2>1. ASSUME Begun PROVE Keeping(plan, out, at, hashed, version', partitions)
    <3>1. Keeping(plan, out, at, hashed, version, partitions)
      BY <2>1, RowsInvIs DEF StagingInv
    <3>2. hashed \in Int /\ version \in Int /\ version' \in Int /\ version <= version'
      BY <1>0 DEF StagingInv, TypeOK, Unhashed
    <3> QED
      BY <3>1, <3>2, KeepingLonger
  <2> QED
    BY <1>0, <1>2, <2>1, RowsInvWillBe
<1>6. ItemsInv'
  BY <1>0, <1>2 DEF StagingInv, ItemsInv, Stops, TooLarge, Evtx
<1>7. EndInv'
  BY <1>0, <1>2 DEF StagingInv, EndInv, Stops, TooLarge, Evtx, Signed
<1>8. ReportInv'
  BY <1>0, <1>2 DEF StagingInv, ReportInv
<1> QED
  BY <1>1, <1>3, <1>4, <1>5, <1>6, <1>7, <1>8 DEF StagingInv

(* A parser begins.                                                        *)
LEMMA Started ==
    ASSUME StagingInv, pc \in {"ready", "indexing"}, pc' \in {"native", "python"}, errors' \in Nat,
           UNCHANGED <<plan, version, signature, hashed, at, attempts, cut, out, partitions, report>>,
           parser' = pc', pc' = "native" => plan.kind = "web" /\ plan.format = "arrow"
    PROVE  StagingInv'
<1>0. /\ out = NewWriter /\ at = 1 /\ attempts = 0 /\ cut = FALSE /\ partitions = {} /\ hashed # Unhashed
      /\ TypeOK /\ Len(plan.items) \in Nat
  BY ItemTyped DEF StagingInv, IdleInv, HashInv
<1>1. TypeOK'
  BY DEF StagingInv, TypeOK, Labels
<1>2. Begun' /\ ~Ended' /\ ~Parsing' /\ ~Parsing
  BY DEF Begun, Ended, Parsing
<1>3. IdleInv'
  BY DEF IdleInv
<1>4. HashInv'
  BY <1>0, <1>2 DEF StagingInv, HashInv, Signed
<1>5. RowsInv'
  BY <1>0, KeepingNothing, RowsInvWillBe
<1>6. ItemsInv'
  <2>1. at' = 1 /\ attempts' = 0 /\ cut' = FALSE /\ plan' = plan
    BY <1>0
  <2>2. at' <= Len(plan'.items) + 1
    BY <1>0, <2>1
  <2>3. \A k \in 1..at' - 1 : FALSE
    BY <2>1
  <2> QED
    BY <2>1, <2>2, <2>3 DEF ItemsInv
<1>7. EndInv'
  BY <1>2 DEF EndInv
<1>8. ReportInv'
  BY <1>2 DEF StagingInv, ReportInv
<1> QED
  BY <1>1, <1>3, <1>4, <1>5, <1>6, <1>7, <1>8 DEF StagingInv

(* A parser is chosen, or none can be.                                     *)
LEMMA SelectParserKeeps == ASSUME StagingInv, SelectParser PROVE StagingInv'
<1>0. UNCHANGED <<plan, version, signature, hashed, at, attempts, errors, cut, raw, out, partitions, report>> /\ pc = "ready"
  BY DEF SelectParser, scanned
<1>1. pc' \in {"raised", "failing", "indexing", "native", "python"} /\ parser' \in {"native", "python"}
  BY DEF SelectParser, StagingInv, TypeOK
<1>2. TypeOK'
  BY <1>0, <1>1 DEF StagingInv, TypeOK, Labels
<1>3. CASE pc' \in {"failing", "raised"}
  BY <1>0, <1>2, <1>3, Stopped
<1>4. CASE pc' \in {"native", "python"}
  <2>1. parser' = pc'
    BY <1>4 DEF SelectParser
  <2>2. pc' = "native" => plan.kind = "web" /\ plan.format = "arrow"
    BY <1>4, <2>1 DEF SelectParser, NativeFits
  <2>3. errors' \in Nat
    BY <1>0 DEF StagingInv, TypeOK
  <2> QED
    BY <1>0, <1>4, <2>1, <2>2, <2>3, Started
<1>5. CASE pc' = "indexing"
  <2>1. Evtx /\ parser' = "python"
    BY <1>0, <1>5 DEF SelectParser
  <2>2. ~Begun' /\ ~Ended' /\ ~Parsing' /\ ~Parsing
    BY <1>0, <1>5 DEF Begun, Ended, Parsing
  <2>3. IdleInv'
    BY <1>0 DEF StagingInv, IdleInv
  <2>4. HashInv'
    BY <1>0, <1>5, <2>1, <2>2 DEF StagingInv, HashInv, Signed, Evtx
  <2>5. RowsInv' /\ ItemsInv' /\ EndInv'
    BY <2>2 DEF RowsInv, ItemsInv, EndInv
  <2>6. ReportInv'
    BY <1>0, <2>2 DEF StagingInv, ReportInv
  <2> QED
    BY <1>2, <2>3, <2>4, <2>5, <2>6 DEF StagingInv
<1> QED
  BY <1>1, <1>3, <1>4, <1>5

(* The pass for the raw XML of an event log comes before the rows.         *)
LEMMA IndexRawKeeps == ASSUME StagingInv, IndexRaw PROVE StagingInv'
<1>0. /\ UNCHANGED <<plan, version, signature, hashed, parser, at, attempts, cut, out, partitions, report>>
      /\ pc = "indexing" /\ errors \in Nat
  BY DEF IndexRaw, scanned, StagingInv, TypeOK
<1>1. CASE pc' = "failing" /\ UNCHANGED errors
  <2>1. TypeOK'
    BY <1>0, <1>1 DEF StagingInv, TypeOK, Labels
  <2> QED
    BY <1>0, <1>1, <2>1, Stopped
<1>2. CASE pc' = "python" /\ \E n \in Nat : errors' = Errors(n)
  <2>1. errors' \in Nat
    BY <1>0, <1>2, ErrorsCounted
  <2>2. parser' = "python"
    BY <1>0 DEF StagingInv, HashInv
  <2> QED
    BY <1>0, <1>2, <2>1, <2>2, Started
<1>3. ASSUME NEW S, errors' = Errors(Cardinality({k \in S : plan.items[k].kind \in {"corrupt", "stop", "stuck"}})), S \subseteq DOMAIN plan.items
      PROVE  \E n \in Nat : errors' = Errors(n)
  <2>1. IsFiniteSet(1..Len(plan.items)) /\ DOMAIN plan.items = 1..Len(plan.items)
    BY ItemTyped, FS_Interval DEF StagingInv
  <2>2. PICK T : T = {k \in S : plan.items[k].kind \in {"corrupt", "stop", "stuck"}}
    OBVIOUS
  <2>3. T \subseteq 1..Len(plan.items)
    BY <1>3, <2>1, <2>2
  <2>4. Cardinality(T) \in Nat
    BY <2>1, <2>3, FS_Subset, FS_CardinalityType
  <2> QED
    BY <1>3, <2>2, <2>4
<1>4. CASE ~(pc' = "failing" /\ UNCHANGED errors)
  <2> DEFINE ends == {k \in DOMAIN plan.items : plan.items[k].kind \in {"stop", "stuck"}}
             reached == {k \in DOMAIN plan.items : \A e \in ends : k <= e}
  <2>1. /\ errors' = Errors(Cardinality({k \in reached : plan.items[k].kind \in {"corrupt", "stop", "stuck"}}))
        /\ pc' = "python"
    BY <1>4 DEF IndexRaw
  <2>2. reached \subseteq DOMAIN plan.items
    OBVIOUS
  <2> HIDE DEF reached
  <2>3. \E n \in Nat : errors' = Errors(n)
    BY <1>3, <2>1, <2>2
  <2> QED
    BY <1>2, <2>1, <2>3
<1> QED
  BY <1>1, <1>4

-----------------------------------------------------------------------------
(* A parser goes on: what it wrote and counted decides.                    *)
LEMMA WentOn ==
    ASSUME StagingInv, pc \in {"native", "python"}, TypeOK', ItemsInv',
           UNCHANGED <<plan, version, pc, signature, hashed, parser, cut, report>>,
           Keeping(plan, out', at', hashed, version, partitions')
    PROVE  StagingInv'
<1>1. Begun' /\ Begun /\ ~Ended' /\ ~Parsing' /\ ~Parsing
  BY DEF Begun, Ended, Parsing
<1>2. IdleInv'
  BY DEF IdleInv
<1>3. HashInv'
  BY <1>1 DEF StagingInv, HashInv, Signed
<1>4. RowsInv'
  BY RowsInvWillBe
<1>5. EndInv'
  BY <1>1 DEF EndInv
<1>6. ReportInv'
  BY <1>1 DEF StagingInv, ReportInv
<1> QED
  BY <1>2, <1>3, <1>4, <1>5, <1>6 DEF StagingInv

(* It comes to its end, or gives up at an item.                            *)
LEMMA CameToEnd ==
    ASSUME StagingInv, pc \in {"native", "python"}, pc' = "closing", errors' \in Nat, cut' \in BOOLEAN,
           UNCHANGED <<plan, version, signature, hashed, parser, at, attempts, out, partitions, report>>,
           errors' = 0 => errors = 0 /\ ~cut',
           cut' => at <= Len(plan.items) /\ (Stops(at) \/ plan.items[at].kind = "stuck"),
           ~cut' => at > Len(plan.items),
           Signed /\ ~Evtx /\ (parser = "native" \/ ~cut') => version = signature
    PROVE  StagingInv'
<1>0. Begun' /\ Begun /\ Ended' /\ ~Parsing' /\ ~Parsing
  BY DEF Begun, Ended, Parsing
<1>1. TypeOK'
  <2>1. /\ plan' \in Plans /\ version' \in Nat /\ signature' \in 0..version' /\ hashed' \in {Unhashed} \cup 0..version'
        /\ parser' \in {"native", "python"} /\ at' \in Nat \ {0} /\ attempts' \in Nat
    BY DEF StagingInv, TypeOK
  <2>2. pc' \in Labels
    BY DEF Labels
  <2> QED
    BY <2>1, <2>2 DEF TypeOK
<1>2. IdleInv'
  BY DEF IdleInv
<1>3. HashInv'
  BY <1>0 DEF StagingInv, HashInv, Signed
<1>4. Keeping(plan, out, at, hashed, version, partitions)
  BY <1>0, RowsInvIs DEF StagingInv
<1>5. RowsInv'
  BY <1>4, RowsInvWillBe
<1>6. ItemsInv'
  BY <1>0 DEF StagingInv, ItemsInv, Stops, TooLarge, Evtx
<1>7. EndInv'
  <2>1. at <= Len(plan.items) + 1 /\ at \in Nat /\ Len(plan.items) \in Nat
    BY <1>0, ItemTyped DEF StagingInv, ItemsInv, TypeOK
  <2>2. ~cut' => at = Len(plan.items) + 1
    BY <2>1
  <2>3. ASSUME Signed, ~Evtx, parser = "native" \/ ~cut', NEW k \in DOMAIN AllRows(out)
        PROVE  AllRows(out)[k].version = hashed
    <3>1. version = signature /\ signature = hashed
      BY <1>0, <2>3 DEF StagingInv, HashInv
    <3>2. AllRows(out)[k].version \in hashed..version
      BY <1>4 DEF Keeping, AreRows
    <3>3. hashed \in Int
      BY DEF StagingInv, TypeOK, Unhashed
    <3> QED
      BY <3>1, <3>2, <3>3
  <2>4. IF cut' THEN at' <= Len(plan'.items) /\ (Stops(at)' \/ plan'.items[at'].kind = "stuck") ELSE at' = Len(plan'.items) + 1
    BY <2>2 DEF Stops, TooLarge
  <2>5. Signed' /\ ~Evtx' /\ (parser' = "native" \/ ~cut') => \A k \in DOMAIN AllRows(out') : AllRows(out')[k].version = hashed'
    BY <2>3 DEF Signed, Evtx
  <2> QED
    BY <2>4, <2>5 DEF EndInv
<1>8. ReportInv'
  BY <1>0 DEF StagingInv, ReportInv
<1> QED
  BY <1>1, <1>2, <1>3, <1>5, <1>6, <1>7, <1>8 DEF StagingInv

(* What is known of the item a parser is at.                               *)
LEMMA ItemAt ==
    ASSUME StagingInv, pc \in {"native", "python"}
    PROVE  /\ at \in Nat /\ 1 <= at /\ at <= Len(plan.items) + 1 /\ Len(plan.items) \in Nat /\ Len(plan.items) < MaxAttempts
           /\ attempts \in Nat /\ errors \in Nat /\ hashed \in Nat /\ version \in Nat /\ hashed <= version
           /\ Keeping(plan, out, at, hashed, version, partitions) /\ Sound(out, SourceRow)
           /\ ~cut /\ parser = pc
           /\ Evtx /\ (at > Len(plan.items) \/ plan.items[at].kind # "stuck") => attempts = at - 1
<1>1. Begun /\ TypeOK
  BY DEF Begun, StagingInv
<1>2. Keeping(plan, out, at, hashed, version, partitions)
  BY <1>1, RowsInvIs DEF StagingInv
<1>3. hashed # Unhashed
  BY <1>1 DEF StagingInv, HashInv
<1>4. hashed \in Nat /\ hashed <= version /\ version \in Nat
  BY <1>1, <1>3 DEF TypeOK
<1>5. Len(plan.items) \in Nat /\ Len(plan.items) < MaxAttempts
  BY <1>1, ItemTyped
<1>6. at \in Nat /\ 1 <= at /\ attempts \in Nat /\ errors \in Nat
  BY <1>1 DEF TypeOK
<1>7. at <= Len(plan.items) + 1 /\ (Evtx /\ (at > Len(plan.items) \/ plan.items[at].kind # "stuck") => attempts = at - 1)
  BY <1>1 DEF StagingInv, ItemsInv
<1>8. ~cut /\ parser = pc
  BY DEF StagingInv, HashInv
<1> QED
  BY <1>2, <1>4, <1>5, <1>6, <1>7, <1>8 DEF Keeping

(* The Python parser comes to the end of the file.                         *)
LEMMA EndOfFileKeeps == ASSUME StagingInv, EndOfFile PROVE StagingInv'
<1>0. /\ UNCHANGED <<plan, version, signature, hashed, parser, at, attempts, errors, cut, out, partitions, report>>
      /\ pc = "python" /\ at > Len(plan.items) /\ pc' = (IF Evtx \/ Unchanged THEN "closing" ELSE "failing")
  BY DEF EndOfFile, scanned, parsing
<1>1. CASE Evtx \/ Unchanged
  <2>1. errors' \in Nat /\ (errors' = 0 => errors = 0) /\ ~cut' /\ cut' \in BOOLEAN
    BY <1>0, ItemAt DEF StagingInv, TypeOK
  <2>2. Signed /\ ~Evtx => version = signature
    BY <1>1 DEF Unchanged
  <2> QED
    BY <1>0, <1>1, <2>1, <2>2, CameToEnd
<1>2. CASE ~(Evtx \/ Unchanged)
  <2>1. TypeOK'
    BY <1>0, <1>2 DEF StagingInv, TypeOK, Labels
  <2> QED
    BY <1>0, <1>2, <2>1, Stopped
<1> QED
  BY <1>1, <1>2

(* So does the native one.                                                 *)
LEMMA NativeEndKeeps == ASSUME StagingInv, NativeEnd PROVE StagingInv'
<1>0. /\ UNCHANGED <<plan, version, signature, hashed, parser, at, attempts, errors, cut, out, partitions, report>>
      /\ pc = "native" /\ at > Len(plan.items) /\ pc' = (IF Unchanged THEN "closing" ELSE "failing")
  BY DEF NativeEnd, scanned, parsing
<1>1. CASE Unchanged
  <2>1. errors' \in Nat /\ (errors' = 0 => errors = 0) /\ ~cut' /\ cut' \in BOOLEAN
    BY <1>0, ItemAt DEF StagingInv, TypeOK
  <2>2. Signed => version = signature
    BY <1>1 DEF Unchanged
  <2> QED
    BY <1>0, <1>1, <2>1, <2>2, CameToEnd
<1>2. CASE ~Unchanged
  <2>1. TypeOK'
    BY <1>0, <1>2 DEF StagingInv, TypeOK, Labels
  <2> QED
    BY <1>0, <1>2, <2>1, Stopped
<1> QED
  BY <1>1, <1>2

(* The native parser gives up at a record.                                 *)
LEMMA NativeRaisesKeeps == ASSUME StagingInv, NativeRaises PROVE StagingInv'
<1>0. /\ UNCHANGED <<plan, version, signature, hashed, parser, at, attempts, out, partitions, report>>
      /\ pc = "native" /\ at <= Len(plan.items) /\ Stops(at)
  BY DEF NativeRaises, scanned
<1>1. CASE Unchanged
  <2>1. pc' = "closing" /\ cut' = TRUE /\ errors' = 1
    BY <1>1 DEF NativeRaises
  <2>2. Signed => version = signature
    BY <1>1 DEF Unchanged
  <2>3. errors' \in Nat /\ errors' # 0 /\ cut' \in BOOLEAN
    BY <2>1
  <2> QED
    BY <1>0, <2>1, <2>2, <2>3, CameToEnd
<1>2. CASE ~Unchanged
  <2>1. pc' = "failing" /\ UNCHANGED <<cut, errors>>
    BY <1>2 DEF NativeRaises
  <2>2. TypeOK'
    BY <1>0, <2>1 DEF StagingInv, TypeOK, Labels
  <2> QED
    BY <1>0, <2>1, <2>2, Stopped
<1> QED
  BY <1>1, <1>2

(* An item that stops the parser, or one the EVTX library is stuck at: an  *)
(* iterator that still advances is never asked too often.                  *)
LEMMA ParserRaisesKeeps == ASSUME StagingInv, ParserRaises PROVE StagingInv'
<1>0. /\ UNCHANGED <<plan, version, signature, hashed, parser, at, attempts, out, partitions, report>>
      /\ pc = "python" /\ at <= Len(plan.items) /\ (Stops(at) \/ ~MayAsk)
  BY DEF ParserRaises, scanned
<1>1. CASE plan.items[at].kind = "stop" /\ ~Evtx /\ ~Unchanged
  <2>1. pc' = "failing" /\ UNCHANGED <<cut, errors>>
    BY <1>1 DEF ParserRaises
  <2>2. TypeOK'
    BY <1>0, <2>1 DEF StagingInv, TypeOK, Labels
  <2> QED
    BY <1>0, <2>1, <2>2, Stopped
<1>2. CASE ~(plan.items[at].kind = "stop" /\ ~Evtx /\ ~Unchanged)
  <2>1. pc' = "closing" /\ cut' = TRUE /\ errors' = (IF Evtx THEN Errors(1) ELSE 1)
    BY <1>2 DEF ParserRaises, GiveUp
  <2>2. errors' \in Nat /\ errors' # 0
    BY <1>0, <2>1, ItemAt, ErrorsCounted
  <2>3. cut' \in BOOLEAN /\ parser # "native"
    BY <1>0, <2>1, ItemAt
  <2>4. Stops(at) \/ plan.items[at].kind = "stuck"
    BY <1>0, ItemAt, StagingAssumption DEF MayAsk
  <2> QED
    BY <1>0, <2>1, <2>2, <2>3, <2>4, CameToEnd
<1> QED
  BY <1>1, <1>2

-----------------------------------------------------------------------------
(* A row is written in either format.                                      *)
LEMMA WriteRowTakes ==
    ASSUME NEW format, NEW o, Sound(o, SourceRow), format # "arrow" => o.rows = <<>>, NEW row \in SourceRow,
           NEW x \in WriteRow(format, o, row), ~x.failed
    PROVE  Took(SourceRow, x, o, <<row>>) /\ (format # "arrow" => x.rows = <<>>)
<1>1. CASE format = "arrow"
  <2>1. x \in ArrowWrite(o, row)
    BY <1>1 DEF WriteRow
  <2> QED
    BY <1>1, <2>1, RowsAreSized, ArrowWriteTakes
<1>2. CASE format # "arrow"
  <2>1. x \in NdjsonWrite(o, row)
    BY <1>2 DEF WriteRow
  <2> QED
    BY <1>2, <2>1, RowsAreSized, NdjsonWriteTakes
<1> QED
  BY <1>1, <1>2

(* A record that is accepted adds a row.                                   *)
LEMMA WriteRecordKeeps == ASSUME StagingInv, WriteRecord PROVE StagingInv'
<1>0. /\ UNCHANGED <<plan, version, signature, hashed, parser, cut, report>>
      /\ pc = "python" /\ at <= Len(plan.items) /\ plan.items[at].kind \in Good /\ ~TooLarge(at)
      /\ attempts' = (IF Evtx THEN attempts + 1 ELSE attempts)
      /\ errors' = (IF Evtx /\ plan.keepRaw /\ at \notin raw THEN Errors(1) ELSE errors)
  BY DEF WriteRecord, AtItem, Asked, scanned
<1>1. /\ at \in Nat /\ 1 <= at /\ Len(plan.items) \in Nat /\ attempts \in Nat /\ errors \in Nat
      /\ hashed \in Nat /\ version \in Nat /\ hashed <= version
      /\ Keeping(plan, out, at, hashed, version, partitions) /\ Sound(out, SourceRow)
      /\ Evtx => attempts = at - 1
  <2>1. plan.items[at].kind # "stuck" /\ pc \in {"native", "python"}
    BY <1>0 DEF Good
  <2> QED
    BY <2>1, ItemAt
<1>2. attempts' \in Nat /\ errors' \in Nat /\ (errors' = 0 => errors = 0)
  BY <1>0, <1>1, ErrorsCounted
<1>3. CASE out'.failed
  <2>1. pc' = "failing" /\ at' = at
    BY <1>3 DEF WriteRecord
  <2>2. TypeOK'
    BY <1>0, <1>2, <2>1 DEF StagingInv, TypeOK, Labels
  <2> QED
    BY <1>0, <2>1, <2>2, Stopped
<1>4. CASE ~out'.failed
  <2>1. at' = at + 1 /\ pc' = pc /\ partitions' = (IF Evtx THEN partitions ELSE Collected(Row(at)))
    BY <1>4 DEF WriteRecord
  <2>2. TypeOK'
    BY <1>0, <1>1, <1>2, <2>1 DEF StagingInv, TypeOK
  <2>a. at \in 1..Len(plan.items) /\ TypeOK
    BY <1>0, <1>1 DEF StagingInv
  <2>b. Row(at) \in SourceRow /\ Row(at).at = at /\ Row(at).version = version
    BY <2>a, ItemTyped DEF Row
  <2>3. PICK row \in SourceRow : row = Row(at) /\ row.at = at /\ row.version = version
    BY <2>b
  <2>4. PICK x, rows : x = out' /\ rows = <<row>>
    OBVIOUS
  <2>5. rows \in Seq(SourceRow)
    BY <2>4
  <2>6. plan.format # "arrow" => out.rows = <<>> /\ plan.format = "ndjson"
    BY <1>1, ItemTyped DEF Keeping, Plan, StagingInv
  <2>7. Took(SourceRow, x, out, rows) /\ (plan.format # "arrow" => x.rows = <<>>)
    <3>1. x \in WriteRow(plan.format, out, row) /\ ~x.failed
      BY <1>4, <2>3, <2>4 DEF WriteRecord
    <3> QED
      BY <1>1, <2>4, <2>6, <3>1, WriteRowTakes
  <2>8. AreRows(plan, rows, at, at, hashed, version)
    BY <1>0, <1>1, <2>3, <2>4, RowsOfOne
  <2>9. Evtx \/ partitions' = Unlisted \/ partitions' = Listed(plan, AllRows(out) \o rows)
    <3>1. ASSUME ~Evtx PROVE partitions' = Unlisted \/ partitions' = Listed(plan, AllRows(out) \o rows)
      <4>1. DOMAIN rows = {1} /\ rows[1] = row
        BY <2>4
      <4>2. Listed(plan, rows) = {Part(plan, row)}
        BY <4>1 DEF Listed
      <4>3. AllRows(out) \in Seq(SourceRow)
        BY <1>1, StoredTyped
      <4>4. partitions = Unlisted \/ partitions = Listed(plan, AllRows(out))
        BY <1>1, <3>1 DEF Keeping, Evtx
      <4>5. Collected(row) = Unlisted \/ Collected(row) = Listed(plan, AllRows(out) \o rows)
        BY <2>5, <4>2, <4>3, <4>4, CollectedLists
      <4> QED
        BY <2>1, <2>3, <3>1, <4>5
    <3> QED
      BY <3>1
  <2>10. Keeping(plan, x, at', hashed, version, partitions')
    <3>1. PICK c \in Nat : c = at + 1 /\ c - 1 = at /\ at <= c
      BY <1>1
    <3>2. PICK next : next = partitions'
      OBVIOUS
    <3>3. AreRows(plan, rows, at, c - 1, hashed, version)
      BY <2>8, <3>1
    <3>4. plan.format = "ndjson" => x.rows = <<>>
      BY <2>7
    <3>5. plan.kind = "evtx" \/ next = Unlisted \/ next = Listed(plan, AllRows(out) \o rows)
      BY <2>9, <3>2 DEF Evtx
    <3>6. hashed \in Int /\ version \in Int /\ at \in Nat /\ 1 <= at /\ Keeping(plan, out, at, hashed, version, partitions)
      BY <1>1
    <3>7. Took(SourceRow, x, out, rows)
      BY <2>7
    <3>8. Keeping(plan, x, c, hashed, version, next)
      BY <2>5, <3>1, <3>3, <3>4, <3>5, <3>6, <3>7, KeepingMore
    <3> QED
      BY <2>1, <3>1, <3>2, <3>8
  <2>11. ItemsInv'
    <3>1. ASSUME NEW k \in 1..at' - 1 PROVE k = at \/ k \in 1..at - 1
      BY <1>1, <2>1
    <3>2. ~Stops(at) /\ plan.items[at].kind # "stuck" /\ plan.items[at].kind \in Good
      BY <1>0 DEF Stops, Good
    <3>3. \A k \in 1..at' - 1 : ~Stops(k) /\ plan.items[k].kind # "stuck"
      BY <1>0, <3>1, <3>2 DEF StagingInv, ItemsInv, Begun
    <3>4. errors' = 0 => ~cut /\ \A k \in 1..at' - 1 : plan.items[k].kind \in Good \cup {"lost"}
      BY <1>0, <1>2, <3>1, <3>2 DEF StagingInv, ItemsInv, Begun
    <3>5. at' <= Len(plan.items) + 1 /\ (Evtx => attempts' = at' - 1)
      BY <1>0, <1>1, <2>1
    <3> QED
      BY <1>0, <2>1, <3>3, <3>4, <3>5 DEF ItemsInv, Stops, TooLarge, Evtx
  <2> QED
    BY <1>0, <2>1, <2>2, <2>4, <2>10, <2>11, WentOn
<1> QED
  BY <1>3, <1>4

(* An item that is passed over.                                            *)
LEMMA KeepingOver ==
    ASSUME NEW p, NEW o, NEW a \in Nat, 1 <= a, NEW c, c = a + 1, NEW lo \in Int, NEW hi \in Int, NEW parts,
           Keeping(p, o, a, lo, hi, parts), p.items[a].kind \notin Good
    PROVE  Keeping(p, o, c, lo, hi, parts)
<1>1. PICK s, t : s \in Seq(SourceRow) /\ s = AllRows(o) /\ t = <<>>
  BY StoredTyped DEF Keeping
<1>2. t \in Seq(SourceRow)
  BY <1>1
<1>3. PICK b \in Nat : b = a - 1 /\ a = b + 1 /\ 1 <= a /\ b <= a /\ a <= a + 1 /\ c - 1 = a
  OBVIOUS
<1>4. AreRows(p, t, a, a, lo, hi)
  <2>1. \A k \in a..a : p.items[k].kind \notin Good
    OBVIOUS
  <2> QED
    BY <1>1, <1>3, <2>1, RowsOfNone
<1>5. AreRows(p, s \o t, 1, a, lo, hi)
  BY <1>1, <1>2, <1>3, <1>4, RowsJoined DEF Keeping
<1>6. \A q \in Seq(SourceRow) : q \o <<>> = q
  OBVIOUS
<1>7. s \o t = s
  BY <1>1, <1>6
<1> QED
  BY <1>1, <1>3, <1>5, <1>7 DEF Keeping

(* A record that yields no row is passed over.                             *)
LEMMA SkipRecordKeeps == ASSUME StagingInv, SkipRecord PROVE StagingInv'
<1>0. /\ UNCHANGED <<plan, version, pc, signature, hashed, parser, cut, out, partitions, report>>
      /\ pc = "python" /\ at <= Len(plan.items) /\ plan.items[at].kind \in {"reject", "corrupt", "envelope", "lost"}
      /\ attempts' = (IF Evtx THEN attempts + 1 ELSE attempts) /\ at' = at + 1
      /\ errors' = (IF plan.items[at].kind = "lost" THEN errors ELSE Errors(1))
  BY DEF SkipRecord, AtItem, Asked, scanned
<1>1. /\ at \in Nat /\ 1 <= at /\ Len(plan.items) \in Nat /\ attempts \in Nat /\ errors \in Nat
      /\ hashed \in Nat /\ version \in Nat
      /\ Keeping(plan, out, at, hashed, version, partitions)
      /\ Evtx => attempts = at - 1
  BY <1>0, ItemAt
<1>2. attempts' \in Nat /\ errors' \in Nat /\ (errors' = 0 => errors = 0 /\ plan.items[at].kind = "lost")
  BY <1>0, <1>1, ErrorsCounted
<1>3. TypeOK'
  BY <1>0, <1>1, <1>2 DEF StagingInv, TypeOK
<1>4. Keeping(plan, out', at', hashed, version, partitions')
  <2>1. plan.items[at].kind \notin Good /\ hashed \in Int /\ version \in Int
    BY <1>0, <1>1 DEF Good
  <2> QED
    BY <1>0, <1>1, <2>1, KeepingOver
<1>5. ItemsInv'
  <2>1. ASSUME NEW k \in 1..at' - 1 PROVE k = at \/ k \in 1..at - 1
    BY <1>0, <1>1
  <2>2. ~Stops(at) /\ plan.items[at].kind # "stuck"
    BY <1>0 DEF Stops, TooLarge, Good
  <2>3. \A k \in 1..at' - 1 : ~Stops(k) /\ plan.items[k].kind # "stuck"
    BY <1>0, <2>1, <2>2 DEF StagingInv, ItemsInv, Begun
  <2>4. errors' = 0 => ~cut /\ \A k \in 1..at' - 1 : plan.items[k].kind \in Good \cup {"lost"}
    BY <1>0, <1>2, <2>1 DEF StagingInv, ItemsInv, Begun
  <2>5. at' <= Len(plan.items) + 1 /\ (Evtx => attempts' = at' - 1)
    BY <1>0, <1>1
  <2> QED
    BY <1>0, <2>3, <2>4, <2>5 DEF ItemsInv, Stops, TooLarge, Evtx
<1> QED
  BY <1>0, <1>3, <1>4, <1>5, WentOn

(* An iterator that does not advance is at an item that is not a record.   *)
LEMMA StuckKeeps == ASSUME StagingInv, Stuck PROVE StagingInv'
<1>0. /\ UNCHANGED <<plan, version, pc, signature, hashed, parser, at, cut, out, partitions, report>>
      /\ pc = "python" /\ at <= Len(plan.items) /\ plan.items[at].kind = "stuck"
      /\ attempts' = (IF Evtx THEN attempts + 1 ELSE attempts) /\ errors' = Errors(1)
  BY DEF Stuck, AtItem, Asked, scanned
<1>1. /\ at \in Nat /\ attempts \in Nat /\ errors \in Nat /\ Len(plan.items) \in Nat
      /\ Keeping(plan, out, at, hashed, version, partitions)
  BY <1>0, ItemAt
<1>2. attempts' \in Nat /\ errors' \in Nat /\ errors' # 0
  <2>1. Errors(1) \in Nat /\ Errors(1) # 0
    BY <1>1, ErrorsCounted
  <2> QED
    BY <1>0, <1>1, <2>1
<1>3. TypeOK'
  BY <1>0, <1>2 DEF StagingInv, TypeOK
<1>4. ItemsInv'
  <2>1. ~(at' > Len(plan.items) \/ plan.items[at'].kind # "stuck")
    BY <1>0, <1>1
  <2> QED
    BY <1>0, <1>2, <2>1 DEF StagingInv, ItemsInv, Begun, Stops, TooLarge, Evtx
<1> QED
  BY <1>0, <1>1, <1>3, <1>4, WentOn

(* A batch of the native parser: the rejected lines among its items are    *)
(* those that are no rows.                                                 *)
LEMMA NativeBatchKeeps == ASSUME StagingInv, NativeBatch PROVE StagingInv'
<1>0. /\ UNCHANGED <<plan, version, signature, hashed, parser, attempts, cut, report>>
      /\ pc = "native"
  BY DEF NativeBatch, scanned
<1>1. /\ at \in Nat /\ 1 <= at /\ Len(plan.items) \in Nat /\ errors \in Nat /\ TypeOK
      /\ hashed \in Nat /\ version \in Nat /\ hashed <= version
      /\ Keeping(plan, out, at, hashed, version, partitions) /\ Sound(out, SourceRow)
  BY <1>0, ItemAt DEF StagingInv
<1>2. plan.kind = "web" /\ plan.format = "arrow"
  BY <1>0 DEF StagingInv, HashInv, Begun
<1>3. PICK last, rows :
         /\ last \in at..Len(plan.items)
         /\ rows = RowsTo(last) /\ Readable(last) /\ out' \in ArrowWriteBatch(out, rows)
         /\ errors' = Errors(last - at + 1 - Len(rows)) /\ at' = last + 1
         /\ IF out'.failed THEN pc' = "failing" /\ UNCHANGED partitions
            ELSE partitions' = (IF rows = <<>> THEN partitions ELSE Collected(rows[1])) /\ UNCHANGED pc
  BY DEF NativeBatch
<1>4. PICK n \in Nat : n = last + 1 - at /\ last = at + n - 1 /\ last \in Nat /\ last <= Len(plan.items) /\ at <= last
  <2>1. last + 1 - at \in Nat /\ last \in Nat /\ last <= Len(plan.items) /\ at <= last
    BY <1>1, <1>3
  <2> QED
    BY <1>1, <2>1
<1>5. BatchOf(n, rows)
  BY <1>1, <1>3, <1>4, RowsToAreRows
<1>6. /\ rows \in Seq(SourceRow) /\ Len(rows) \in Nat /\ Len(rows) <= n
      /\ AreRows(plan, rows, at, last, version, version)
      /\ Len(rows) = n => \A k \in at..last : plan.items[k].kind = "row"
  <2>1. rows \in Seq(SourceRow)
    BY <1>5 DEF BatchOf
  <2>2. Len(rows) \in Nat
    BY <2>1
  <2> QED
    BY <1>4, <1>5, <2>1, <2>2 DEF BatchOf
<1>7. /\ errors' \in Nat
      /\ errors' = 0 => errors = 0 /\ Len(rows) = n
  <2>1. PICK m \in Nat : m = n - Len(rows)
    BY <1>6
  <2>2. errors' = Errors(m)
    BY <1>1, <1>3, <1>4, <1>6, <2>1
  <2>3. Errors(m) \in Nat /\ (Errors(m) = 0 => errors = 0 /\ m = 0)
    BY <1>1, ErrorsCounted
  <2> QED
    BY <1>6, <2>1, <2>2, <2>3
<1>8. at' \in Nat \ {0} /\ at' = last + 1
  BY <1>3, <1>4
<1>9. CASE out'.failed
  <2>1. pc' = "failing"
    BY <1>3, <1>9
  <2>2. TypeOK'
    BY <1>0, <1>7, <1>8, <2>1 DEF StagingInv, TypeOK, Labels
  <2> QED
    BY <1>0, <2>1, <2>2, Stopped
<1>10. CASE ~out'.failed
  <2>1. pc' = pc /\ partitions' = (IF rows = <<>> THEN partitions ELSE Collected(rows[1]))
    BY <1>3, <1>10
  <2>2. TypeOK'
    BY <1>0, <1>7, <1>8, <2>1 DEF StagingInv, TypeOK
  <2>3. PICK x : x = out'
    OBVIOUS
  <2>4. Took(SourceRow, x, out, rows)
    <3>1. x \in ArrowWriteBatch(out, rows) /\ ~x.failed
      BY <1>3, <1>10, <2>3
    <3> QED
      BY <1>1, <1>6, <3>1, RowsAreSized, ArrowWriteBatchTakes
  <2>5. AreRows(plan, rows, at, last, hashed, version)
    <3>1. hashed \in Int /\ version \in Int /\ hashed <= version /\ version <= version
      BY <1>1
    <3> QED
      BY <1>6, <3>1, RowsWider
  <2>6. AllRows(out) \in Seq(SourceRow) /\ (partitions = Unlisted \/ partitions = Listed(plan, AllRows(out)))
    BY <1>1, <1>2, StoredTyped DEF Keeping
  <2>7. partitions' = Unlisted \/ partitions' = Listed(plan, AllRows(out) \o rows)
    <3>1. CASE rows = <<>>
      <4>1. \A q \in Seq(SourceRow) : q \o <<>> = q
        OBVIOUS
      <4> QED
        BY <2>1, <2>6, <3>1, <4>1
    <3>2. CASE rows # <<>>
      <4>1. 1 \in DOMAIN rows
        BY <1>6, <3>2
      <4>2. Listed(plan, rows) = {Part(plan, rows[1])}
        BY <1>2, <4>1 DEF Listed, Part
      <4> QED
        BY <1>6, <2>1, <2>6, <3>2, <4>2, CollectedLists
    <3> QED
      BY <3>1, <3>2
  <2>8. Keeping(plan, x, at', hashed, version, partitions')
    <3>1. PICK c \in Nat : c = last + 1 /\ c - 1 = last /\ at <= c
      BY <1>1, <1>4
    <3>2. hashed \in Int /\ version \in Int
      BY <1>1
    <3> QED
      BY <1>1, <1>2, <1>3, <1>6, <2>4, <2>5, <2>7, <3>1, <3>2, KeepingMore
  <2>9. ItemsInv'
    <3>1. ASSUME NEW k \in 1..at' - 1 PROVE k \in at..last \/ k \in 1..at - 1
      BY <1>1, <1>3, <1>4
    <3>2. \A k \in at..last : ~Stops(k) /\ plan.items[k].kind # "stuck" /\ plan.items[k].kind \in {"row", "reject"}
      BY <1>3 DEF Readable, Stops
    <3>3. \A k \in 1..at' - 1 : ~Stops(k) /\ plan.items[k].kind # "stuck" /\ plan.items[k].kind \in {"row", "reject"}
      BY <1>0, <3>1, <3>2 DEF StagingInv, ItemsInv, Begun
    <3>4. errors' = 0 => ~cut /\ \A k \in 1..at' - 1 : plan.items[k].kind \in Good \cup {"lost"}
      BY <1>0, <1>6, <1>7, <3>1 DEF StagingInv, ItemsInv, Begun, Good
    <3>5. at' <= Len(plan.items) + 1 /\ ~Evtx
      BY <1>2, <1>3, <1>4 DEF Evtx
    <3> QED
      BY <1>0, <3>3, <3>4, <3>5 DEF ItemsInv, Stops, TooLarge, Evtx
  <2> QED
    BY <1>0, <2>1, <2>2, <2>3, <2>8, <2>9, WentOn
<1> QED
  BY <1>9, <1>10

(* What ends in an exception.                                              *)
LEMMA BreakingKeeps == ASSUME StagingInv, ComponentBreaks \/ Unsupported \/ ChangedWhileParsing PROVE StagingInv'
<1>1. /\ UNCHANGED <<plan, version, signature, hashed, parser, at, attempts, errors, cut, report>>
      /\ pc \in {"native", "closed"} /\ pc' \in {"failing", "raised"}
  BY DEF ComponentBreaks, Unsupported, ChangedWhileParsing, AtAlien, scanned, parsing
<1>2. TypeOK'
  BY <1>1 DEF StagingInv, TypeOK, Labels
<1> QED
  BY <1>1, <1>2, Stopped

(* An exception leaves the staging.                                        *)
LEMMA UnwindKeeps == ASSUME StagingInv, Unwind PROVE StagingInv'
<1>1. /\ UNCHANGED <<plan, version, signature, hashed, parser, at, attempts, errors, cut, report>>
      /\ pc = "failing" /\ pc' = "raised"
  BY DEF Unwind, scanned, parsing
<1>2. TypeOK'
  BY <1>1 DEF StagingInv, TypeOK, Labels
<1> QED
  BY <1>1, <1>2, Stopped

(* No file is left after an abort: the Python parser starts with nothing.  *)
LEMMA AbortedLeavesNothing ==
    ASSUME NEW o, Sound(o, SourceRow)
    PROVE  [NewWriter EXCEPT !.files = Aborted(o).files] = NewWriter
<1>1. PICK f : f = [p \in DOMAIN o.files \ ({o.path} \cup {c.path : c \in ToSet(o.chunks)}) |-> o.files[p]]
  OBVIOUS
<1>2. Aborted(o).files = f
  BY <1>1 DEF Aborted, NewWriter
<1>3. DOMAIN o.files \ ({o.path} \cup {c.path : c \in ToSet(o.chunks)}) = {}
  <2>1. Disk(SourceRow, o.chunks, o.live, o.path, o.files)
    BY SoundFields
  <2>2. \A k \in DOMAIN o.chunks : o.chunks[k].path = k - 1 /\ o.chunks[k] \in ToSet(o.chunks)
    BY <2>1, DiskFiles DEF ToSet
  <2>3. PICK n \in Nat : n = Len(o.chunks) /\ DOMAIN o.chunks = 1..n /\ DOMAIN o.files = 0..n - 1 \cup ({o.live} \ {NoShard})
    BY <2>1, DiskFiles DEF Disk
  <2>4. ASSUME NEW p \in 0..n - 1 PROVE p \in {c.path : c \in ToSet(o.chunks)}
    <3>1. PICK k \in 1..n : k = p + 1 /\ p = k - 1
      OBVIOUS
    <3> QED
      BY <2>2, <2>3, <3>1
  <2>5. o.live # NoShard => o.live = o.path
    BY <2>1, DiskFiles
  <2> QED
    BY <2>3, <2>4, <2>5
<1>4. f = <<>>
  BY <1>1, <1>3
<1>5. PICK e, c, d, w : e = <<>> /\ c = 0 /\ d = NoShard /\ w = NewWriter
  OBVIOUS
<1>6. w = W(e, e, c, d, c, e)
  BY <1>5 DEF NewWriter, W
<1>7. PICK u : u = [w EXCEPT !.files = e]
  OBVIOUS
<1>8. u = W(e, e, c, d, c, e)
  BY <1>6, <1>7 DEF W
<1> QED
  BY <1>2, <1>4, <1>5, <1>6, <1>7, <1>8

(* The native parser gives way to the Python one, which begins anew.       *)
LEMMA FallbackKeeps == ASSUME StagingInv, Fallback PROVE StagingInv'
<1>0. /\ UNCHANGED <<plan, version, signature, hashed, attempts, cut, report>>
      /\ pc = "native"
  BY DEF Fallback, AtAlien, scanned
<1>1. /\ Sound(out, SourceRow) /\ hashed \in Nat /\ ~cut /\ Len(plan.items) \in Nat
  BY <1>0, ItemAt
<1>2. plan.kind = "web"
  BY <1>0 DEF StagingInv, HashInv, Begun
<1>3. CASE pc' = "failing" /\ UNCHANGED <<parser, at, errors, partitions>>
  <2>1. TypeOK'
    BY <1>0, <1>3 DEF StagingInv, TypeOK, Labels
  <2> QED
    BY <1>0, <1>3, <2>1, Stopped
<1>4. CASE /\ out' = [NewWriter EXCEPT !.files = Aborted(out).files]
           /\ pc' = "python" /\ parser' = "python" /\ at' = 1 /\ errors' = 0 /\ partitions' = {}
  <2>1. out' = NewWriter
    BY <1>1, <1>4, AbortedLeavesNothing
  <2>2. TypeOK'
    BY <1>0, <1>4 DEF StagingInv, TypeOK, Labels
  <2>3. Begun' /\ Begun /\ ~Ended' /\ ~Parsing' /\ ~Parsing
    BY <1>0, <1>4 DEF Begun, Ended, Parsing
  <2>4. IdleInv'
    BY <1>4 DEF IdleInv
  <2>5. HashInv'
    BY <1>0, <1>1, <1>4, <2>3 DEF StagingInv, HashInv, Signed
  <2>6. RowsInv'
    BY <1>4, <2>1, KeepingNothing, RowsInvWillBe
  <2>7. ItemsInv'
    <3>1. at' <= Len(plan'.items) + 1 /\ ~Evtx'
      BY <1>0, <1>1, <1>2, <1>4 DEF Evtx
    <3>2. \A k \in 1..at' - 1 : FALSE
      BY <1>4
    <3>3. ~cut' /\ pc' # "native"
      BY <1>0, <1>1, <1>4
    <3> QED
      BY <3>1, <3>2, <3>3 DEF ItemsInv
  <2>8. EndInv'
    BY <2>3 DEF EndInv
  <2>9. ReportInv'
    BY <1>0, <2>3 DEF StagingInv, ReportInv
  <2> QED
    BY <2>2, <2>4, <2>5, <2>6, <2>7, <2>8, <2>9 DEF StagingInv
<1> QED
  BY <1>3, <1>4 DEF Fallback

(* The writer is closed: what it held is in finished shards.               *)
LEMMA CloseKeeps == ASSUME StagingInv, Close PROVE StagingInv'
<1>0. /\ UNCHANGED <<plan, version, signature, hashed, parser, at, attempts, errors, cut, partitions, report>>
      /\ pc = "closing" /\ pc' = (IF out'.failed THEN "failing" ELSE "closed")
  BY DEF Close, scanned, parsing
<1>1. TypeOK'
  BY <1>0 DEF StagingInv, TypeOK, Labels
<1>2. CASE out'.failed
  BY <1>0, <1>1, <1>2, Stopped
<1>3. CASE ~out'.failed
  <2>0. pc' = "closed" /\ Begun /\ Begun' /\ Ended /\ Ended' /\ ~Parsing /\ ~Parsing'
    BY <1>0, <1>3 DEF Begun, Ended, Parsing
  <2>1. Keeping(plan, out, at, hashed, version, partitions)
    BY <2>0, RowsInvIs DEF StagingInv
  <2>2. PICK x : x = out'
    OBVIOUS
  <2>3. plan.format # "arrow" => out.rows = <<>>
    BY <2>1, ItemTyped DEF Keeping, Plan, StagingInv
  <2>4. Sound(x, SourceRow) /\ AllRows(x) = AllRows(out) /\ x.count = out.count /\ x.live = NoShard /\ x.rows = <<>>
    <3>1. x \in CloseWriter(plan.format, out) /\ ~x.failed /\ Sound(out, SourceRow)
      BY <1>3, <2>1, <2>2 DEF Close, Keeping
    <3> QED
      BY <2>3, <3>1, RowsAreSized, CloseWriterKeeps
  <2>5. Keeping(plan, x, at, hashed, version, partitions)
    BY <2>1, <2>4 DEF Keeping
  <2>6. IdleInv'
    BY <2>0 DEF IdleInv
  <2>7. HashInv'
    BY <1>0, <2>0 DEF StagingInv, HashInv, Signed
  <2>8. RowsInv'
    BY <1>0, <2>2, <2>5, RowsInvWillBe
  <2>9. ItemsInv'
    BY <1>0, <2>0 DEF StagingInv, ItemsInv, Stops, TooLarge, Evtx
  <2>10. EndInv'
    <3>1. IF cut' THEN at' <= Len(plan'.items) /\ (Stops(at)' \/ plan'.items[at'].kind = "stuck") ELSE at' = Len(plan'.items) + 1
      BY <1>0, <2>0 DEF StagingInv, EndInv, Stops, TooLarge
    <3>2. Signed' /\ ~Evtx' /\ (parser' = "native" \/ ~cut') => \A k \in DOMAIN AllRows(out') : AllRows(out')[k].version = hashed'
      BY <1>0, <2>0, <2>2, <2>4 DEF StagingInv, EndInv, Signed, Evtx
    <3> QED
      BY <2>2, <2>4, <3>1, <3>2 DEF EndInv
  <2>11. ReportInv'
    BY <1>0, <2>0 DEF StagingInv, ReportInv
  <2> QED
    BY <1>1, <2>6, <2>7, <2>8, <2>9, <2>10, <2>11 DEF StagingInv
<1> QED
  BY <1>2, <1>3

(* The report of a file that was read.                                     *)
LEMMA ReportKeeps == ASSUME StagingInv, Report PROVE StagingInv'
<1>0. /\ UNCHANGED <<plan, version, signature, hashed, parser, at, attempts, cut, out, partitions>>
      /\ pc = "closed" /\ pc' = "reported" /\ (Evtx => Unchanged)
      /\ errors' = (IF HeaderMismatch THEN Errors(1) ELSE errors)
      /\ report' = [status |-> Status(errors'), count |-> out.count, errors |-> errors', chunks |-> out.chunks, listed |-> partitions]
  BY DEF Report, Reported, scanned
<1>1. Begun /\ Ended /\ ~Parsing /\ errors \in Nat
  BY <1>0 DEF Begun, Ended, Parsing, StagingInv, TypeOK
<1>2. hashed # Unhashed
  BY <1>1 DEF StagingInv, HashInv
<1>3. Parsing' /\ Begun' /\ Ended'
  BY <1>0, <1>2 DEF Begun, Ended, Parsing
<1>4. errors' \in Nat /\ (errors' = 0 => errors = 0 /\ ~HeaderMismatch)
  <2>1. Errors(1) \in Nat /\ Errors(1) # 0
    BY <1>1, ErrorsCounted
  <2> QED
    BY <1>0, <1>1, <2>1
<1>5. TypeOK'
  BY <1>0, <1>4 DEF StagingInv, TypeOK, Labels
<1>6. IdleInv'
  BY <1>0 DEF IdleInv
<1>7. HashInv'
  BY <1>0, <1>2 DEF StagingInv, HashInv, Signed, Begun, Parsing
<1>8. Keeping(plan, out, at, hashed, version, partitions)
  BY <1>1, RowsInvIs DEF StagingInv
<1>9. RowsInv'
  BY <1>0, <1>8, RowsInvWillBe
<1>10. ItemsInv'
  BY <1>0, <1>1, <1>4 DEF StagingInv, ItemsInv, Stops, TooLarge, Evtx
<1>11. EndInv'
  BY <1>0, <1>1 DEF StagingInv, EndInv, Stops, TooLarge, Signed, Evtx
<1>12. ReportInv'
  <2>1. ASSUME Evtx, NEW k \in DOMAIN AllRows(out) PROVE AllRows(out)[k].version = hashed
    <3>1. version = signature /\ signature = hashed
      BY <1>0, <1>2, <2>1 DEF StagingInv, HashInv, Unchanged, Signed, Evtx
    <3>2. AllRows(out)[k].version \in hashed..version /\ hashed \in Int
      BY <1>8 DEF Keeping, AreRows, StagingInv, TypeOK, Unhashed
    <3> QED
      BY <3>1, <3>2
  <2>2. errors' = 0 => ~HeaderMismatch'
    BY <1>0, <1>4 DEF HeaderMismatch, Evtx, Declared
  <2>3. Status(errors)' = Status(errors')
    BY <1>0 DEF Status
  <2> QED
    BY <1>0, <1>3, <2>1, <2>2, <2>3 DEF ReportInv, Evtx
<1> QED
  BY <1>5, <1>6, <1>7, <1>9, <1>10, <1>11, <1>12 DEF StagingInv

-----------------------------------------------------------------------------
(* Whatever the worker does, and whatever fails of it, the invariant of    *)
(* the staging holds.                                                      *)
LEMMA NextStaging == StagingInv /\ [Next]_vars => StagingInv'
<1> SUFFICES ASSUME StagingInv, [Next]_vars PROVE StagingInv'
  OBVIOUS
<1>1. CASE EvidenceChanges
  BY <1>1, EvidenceChangesKeeps
<1>2. CASE Unrecognised
  BY <1>2, UnrecognisedKeeps
<1>3. CASE Reuse
  BY <1>3, ReuseKeeps
<1>4. CASE Stat
  BY <1>4, StatKeeps
<1>5. CASE Unreadable
  BY <1>5, UnreadableKeeps
<1>6. CASE HashSource
  BY <1>6, HashSourceKeeps
<1>7. CASE SelectParser
  BY <1>7, SelectParserKeeps
<1>8. CASE IndexRaw
  BY <1>8, IndexRawKeeps
<1>9. CASE WriteRecord
  BY <1>9, WriteRecordKeeps
<1>10. CASE SkipRecord
  BY <1>10, SkipRecordKeeps
<1>11. CASE Stuck
  BY <1>11, StuckKeeps
<1>12. CASE ParserRaises
  BY <1>12, ParserRaisesKeeps
<1>13. CASE EndOfFile
  BY <1>13, EndOfFileKeeps
<1>14. CASE NativeBatch
  BY <1>14, NativeBatchKeeps
<1>15. CASE ComponentBreaks \/ Unsupported \/ ChangedWhileParsing
  BY <1>15, BreakingKeeps
<1>16. CASE NativeRaises
  BY <1>16, NativeRaisesKeeps
<1>17. CASE NativeEnd
  BY <1>17, NativeEndKeeps
<1>18. CASE Fallback
  BY <1>18, FallbackKeeps
<1>19. CASE Close
  BY <1>19, CloseKeeps
<1>20. CASE Report
  BY <1>20, ReportKeeps
<1>21. CASE Unwind
  BY <1>21, UnwindKeeps
<1>22. CASE UNCHANGED vars
  <2>1. /\ UNCHANGED <<plan, version, pc, signature, hashed, parser, at>>
        /\ UNCHANGED <<attempts, errors, cut, raw, out, partitions, report>>
    BY <1>22 DEF vars
  <2>2. (Begun' <=> Begun) /\ (Ended' <=> Ended) /\ (Parsing' <=> Parsing)
    BY <2>1 DEF Begun, Ended, Parsing
  <2>3. TypeOK' /\ IdleInv'
    BY <2>1 DEF StagingInv, TypeOK, IdleInv
  <2>4. HashInv'
    BY <2>1, <2>2 DEF StagingInv, HashInv, Signed, Evtx
  <2>5. RowsInv'
    BY <2>1, <2>2, RowsInvIs, RowsInvWillBe DEF StagingInv
  <2>6. ItemsInv' /\ EndInv'
    BY <2>1, <2>2 DEF StagingInv, ItemsInv, EndInv, Stops, TooLarge, Evtx, Signed
  <2>7. ReportInv'
    BY <2>1, <2>2 DEF StagingInv, ReportInv, HeaderMismatch, Declared, Evtx, Status
  <2> QED
    BY <2>3, <2>4, <2>5, <2>6, <2>7 DEF StagingInv
<1> QED
  BY <1>1, <1>2, <1>3, <1>4, <1>5, <1>6, <1>7, <1>8, <1>9, <1>10, <1>11, <1>12, <1>13, <1>14, <1>15, <1>16,
     <1>17, <1>18, <1>19, <1>20, <1>21, <1>22 DEF Next, Worker, Parse, Native

(* The inductive invariant of the staging of one file, whatever it is of,  *)
(* however often it is replaced, and wherever a write fails.               *)
THEOREM StagingInvariance == Spec => []StagingInv
  BY InitStaging, NextStaging, PTL DEF Spec

-----------------------------------------------------------------------------
(* A finished shard is described by its entry.                             *)
LEMMA ShardFields ==
    ASSUME NEW R, NEW b, NEW d, NEW e, NEW f, Disk(R, b, d, e, f), NEW k \in DOMAIN b
    PROVE  b[k].path = k - 1 /\ b[k].size = SizeOf(f[k - 1].rows) /\ b[k].records = Len(f[k - 1].rows) /\ f[k - 1].whole
<1>1. PICK c, p, m, n : c = b[k] /\ p = k - 1 /\ m = SizeOf(f[k - 1].rows) /\ n = Len(f[k - 1].rows)
  OBVIOUS
<1>2. c = [path |-> p, size |-> m, records |-> n] /\ f[k - 1].whole
  BY <1>1 DEF Disk
<1>3. c.path = p /\ c.size = m /\ c.records = n
  BY <1>2
<1> QED
  BY <1>1, <1>2, <1>3

(* What is read back of a report is what the writer holds.                 *)
LEMMA StagedIsAll ==
    ASSUME StagingInv, Parsing
    PROVE  /\ Staged = AllRows(out) /\ Staged \in Seq(SourceRow) /\ Keeping(plan, out, at, hashed, version, partitions)
           /\ Disk(SourceRow, out.chunks, NoShard, out.path, out.files)
           /\ report = [status |-> Status(errors), count |-> out.count, errors |-> errors, chunks |-> out.chunks, listed |-> partitions]
           /\ at \in Nat /\ Len(plan.items) \in Nat /\ DOMAIN plan.items = 1..Len(plan.items) /\ hashed \in Int
<1>1. Begun /\ Ended /\ TypeOK /\ pc = "reported"
  BY DEF StagingInv, Begun, Ended, Parsing
<1>2. Keeping(plan, out, at, hashed, version, partitions)
  BY <1>1, RowsInvIs DEF StagingInv
<1>3. Sound(out, SourceRow) /\ out.live = NoShard /\ out.rows = <<>>
  BY <1>1, <1>2 DEF Keeping, StagingInv, EndInv
<1>4. report = [status |-> Status(errors), count |-> out.count, errors |-> errors, chunks |-> out.chunks, listed |-> partitions]
  BY DEF StagingInv, ReportInv
<1>5. Disk(SourceRow, out.chunks, NoShard, out.path, out.files)
  BY <1>3, SoundFields
<1>6. PICK s : s = ReadBack(out.files, out.chunks)
  OBVIOUS
<1>7. s \in Seq(SourceRow)
  BY <1>5, <1>6, DiskFiles
<1>8. \A q \in Seq(SourceRow) : q \o <<>> = q
  OBVIOUS
<1>9. AllRows(out) = s
  BY <1>3, <1>6, <1>7, <1>8 DEF AllRows, Stored
<1>10. Staged = s
  BY <1>4, <1>6 DEF Staged
<1> QED
  BY <1>1, <1>2, <1>4, <1>5, <1>7, <1>9, <1>10, ItemTyped DEF TypeOK, Unhashed

(* The records expected are those the parser passed.                       *)
LEMMA ExpectedArePassed ==
    ASSUME StagingInv, Parsing
    PROVE  Expected = {k \in 1..at - 1 : plan.items[k].kind \in Good}
<1> DEFINE ends == {k \in DOMAIN plan.items : Stops(k) \/ plan.items[k].kind = "stuck"}
<1>1. at \in Nat /\ Len(plan.items) \in Nat /\ DOMAIN plan.items = 1..Len(plan.items)
  BY StagedIsAll
<1>2. Begun /\ Ended
  BY DEF Begun, Ended
<1>3. /\ at <= Len(plan.items) + 1
      /\ \A k \in 1..at - 1 : ~Stops(k) /\ plan.items[k].kind # "stuck"
  BY <1>2 DEF StagingInv, ItemsInv
<1>4. IF cut THEN at <= Len(plan.items) /\ (Stops(at) \/ plan.items[at].kind = "stuck") ELSE at = Len(plan.items) + 1
  BY <1>2 DEF StagingInv, EndInv
<1>5. ASSUME NEW k \in DOMAIN plan.items, \A e \in ends : k < e PROVE k \in 1..at - 1
  <2>1. CASE cut
    <3>1. 1 <= at
      BY DEF StagingInv, TypeOK
    <3>2. at \in ends
      BY <1>1, <1>4, <2>1, <3>1
    <3> QED
      BY <1>1, <1>5, <3>2
  <2>2. CASE ~cut
    BY <1>1, <1>4, <2>2
  <2> QED
    BY <2>1, <2>2
<1>6. ASSUME NEW k \in 1..at - 1, NEW e \in ends PROVE k \in DOMAIN plan.items /\ k < e
  <2>1. e \notin 1..at - 1
    BY <1>3, <1>6
  <2> QED
    BY <1>1, <1>3, <2>1
<1>7. \A k \in 1..at - 1 : k \in DOMAIN plan.items
  BY <1>1, <1>3
<1> QED
  BY <1>5, <1>6, <1>7 DEF Expected

(* Every report presents the accepted records once and in order.           *)
THEOREM ReportsAreFaithful == Spec => []ReportIsFaithful
<1>1. StagingInv => ReportIsFaithful
  <2> SUFFICES ASSUME StagingInv, Parsing
               PROVE  /\ {Staged[k].at : k \in DOMAIN Staged} = Expected
                      /\ \A j, k \in DOMAIN Staged : j < k => Staged[j].at < Staged[k].at
                      /\ report.count = Len(Staged)
                      /\ \A c \in ToSet(report.chunks) : out.files[c.path].whole /\ c.records = Len(out.files[c.path].rows)
                      /\ DOMAIN out.files = {c.path : c \in ToSet(report.chunks)}
                      /\ ~Evtx => report.listed \in {Unlisted, {PartitionOf(Staged[k]) : k \in DOMAIN Staged}}
    BY DEF ReportIsFaithful
  <2>1. /\ Staged = AllRows(out) /\ Keeping(plan, out, at, hashed, version, partitions)
        /\ Disk(SourceRow, out.chunks, NoShard, out.path, out.files)
        /\ report.count = out.count /\ report.chunks = out.chunks /\ report.listed = partitions
    BY StagedIsAll
  <2>a. PICK s : s = Staged
    OBVIOUS
  <2>b. AreRows(plan, s, 1, at - 1, hashed, version)
    BY <2>1, <2>a DEF Keeping
  <2>2. {Staged[k].at : k \in DOMAIN Staged} = Expected
    <3>1. {s[k].at : k \in DOMAIN s} = {k \in 1..at - 1 : plan.items[k].kind \in Good}
      BY <2>b DEF AreRows
    <3> QED
      BY <2>a, <3>1, ExpectedArePassed
  <2>3. \A j, k \in DOMAIN Staged : j < k => Staged[j].at < Staged[k].at
    <3>1. \A j, k \in DOMAIN s : j < k => s[j].at < s[k].at
      BY <2>b DEF AreRows
    <3> QED
      BY <2>a, <3>1
  <2>4. report.count = Len(Staged)
    BY <2>1 DEF Keeping
  <2>5. PICK n \in Nat : n = Len(out.chunks) /\ DOMAIN out.chunks = 1..n /\ DOMAIN out.files = 0..n - 1
    BY <2>1, DiskFiles DEF Disk
  <2>6. ASSUME NEW k \in 1..n
        PROVE  out.chunks[k].path = k - 1 /\ out.chunks[k].records = Len(out.files[k - 1].rows) /\ out.files[k - 1].whole
    BY <2>1, <2>5, ShardFields
  <2>7. ToSet(report.chunks) = {out.chunks[k] : k \in 1..n}
    BY <2>1, <2>5 DEF ToSet
  <2>8. \A c \in ToSet(report.chunks) : out.files[c.path].whole /\ c.records = Len(out.files[c.path].rows)
    BY <2>6, <2>7
  <2>9. DOMAIN out.files = {c.path : c \in ToSet(report.chunks)}
    <3>1. ASSUME NEW p \in 0..n - 1 PROVE \E k \in 1..n : out.chunks[k].path = p
      <4>1. PICK k \in 1..n : k - 1 = p
        <5>1. p + 1 \in 1..n /\ (p + 1) - 1 = p
          OBVIOUS
        <5> QED
          BY <5>1
      <4> QED
        BY <2>6, <4>1
    <3>2. \A k \in 1..n : out.chunks[k].path \in 0..n - 1
      BY <2>6
    <3> QED
      BY <2>5, <2>7, <3>1, <3>2
  <2>10. ~Evtx => report.listed \in {Unlisted, {PartitionOf(Staged[k]) : k \in DOMAIN Staged}}
    BY <2>1 DEF Keeping, Evtx, Listed, Part, PartitionOf
  <2> QED
    BY <2>2, <2>3, <2>4, <2>8, <2>9, <2>10
<1> QED
  BY <1>1, StagingInvariance, PTL

(* The rows of a report are of the contents whose hash it gives.           *)
THEOREM HashesMatchRows == Spec => []HashMatchesRows
<1>1. StagingInv => HashMatchesRows
  <2> SUFFICES ASSUME StagingInv, Parsing, Signed, Evtx \/ parser = "native" \/ ~cut
               PROVE  \A k \in DOMAIN Staged : Staged[k].version = hashed
    BY DEF HashMatchesRows
  <2>1. Staged = AllRows(out)
    BY StagedIsAll
  <2>2. CASE Evtx
    BY <2>1, <2>2 DEF StagingInv, ReportInv
  <2>3. CASE ~Evtx
    BY <2>1, <2>3 DEF StagingInv, EndInv, Ended
  <2> QED
    BY <2>2, <2>3
<1> QED
  BY <1>1, StagingInvariance, PTL

(* Shards and slices of shards keep to their bounds.                       *)
THEOREM ShardsAreBounded == Spec => []ShardsBounded
<1>1. StagingInv => ShardsBounded
  <2> SUFFICES ASSUME StagingInv
               PROVE  /\ \A c \in ToSet(report.chunks) : c.size > ChunkBytes => c.records = 1
                      /\ \A limit \in 1..2 * ChunkBytes :
                           /\ FlattenSeq(StagedBatches(report.chunks, limit)) = report.chunks
                           /\ \A k \in DOMAIN StagedBatches(report.chunks, limit) :
                                \/ SizeOf(StagedBatches(report.chunks, limit)[k]) <= limit
                                \/ Len(StagedBatches(report.chunks, limit)[k]) = 1
    BY DEF ShardsBounded
  <2>1. report.chunks \in Seq(Shard) /\ \A c \in ToSet(report.chunks) : c.size > ChunkBytes => c.records = 1
    <3>1. CASE ~Parsing
      <4>1. PICK s : s = report.chunks /\ s = <<>>
        BY <3>1 DEF StagingInv, ReportInv
      <4>2. s \in Seq(Shard) /\ ToSet(s) = {}
        BY <4>1 DEF ToSet
      <4> QED
        BY <4>1, <4>2
    <3>2. CASE Parsing
      <4>1. Disk(SourceRow, out.chunks, NoShard, out.path, out.files) /\ report.chunks = out.chunks
        BY <3>2, StagedIsAll
      <4>2. ASSUME NEW c \in ToSet(out.chunks) PROVE c.size > ChunkBytes => c.records = 1
        <5>1. PICK k \in DOMAIN out.chunks : c = out.chunks[k]
          BY DEF ToSet
        <5>2. PICK r : r = out.files[k - 1].rows
          OBVIOUS
        <5>3. c.size = SizeOf(r) /\ c.records = Len(r)
          BY <4>1, <5>1, <5>2, ShardFields
        <5>4. k - 1 \in DOMAIN out.files /\ r \in Seq(SourceRow)
          BY <4>1, <5>2, DiskFiles
        <5>5. Fits(r, ChunkBytes)
          BY <4>1, <5>2, <5>4 DEF Disk
        <5>6. SizeOf(r) \in Nat /\ ChunkBytes \in Nat
          BY <5>4, RowsAreSized, SizeIsFold, WriterAssumption
        <5> QED
          BY <5>3, <5>5, <5>6 DEF Fits
      <4> QED
        BY <4>1, <4>2 DEF Disk
    <3> QED
      BY <3>1, <3>2
  <2>2. PICK s \in Seq(Shard) : s = report.chunks
    BY <2>1
  <2>3. ASSUME NEW limit \in 1..2 * ChunkBytes
        PROVE  /\ FlattenSeq(StagedBatches(s, limit)) = s
               /\ \A k \in DOMAIN StagedBatches(s, limit) :
                    SizeOf(StagedBatches(s, limit)[k]) <= limit \/ Len(StagedBatches(s, limit)[k]) = 1
    <3>1. limit \in Nat
      BY WriterAssumption
    <3>2. FlattenSeq(Packed(s, limit)) = s /\ \A k \in DOMAIN Packed(s, limit) : Fits(Packed(s, limit)[k], limit)
      BY <3>1, RowsAreSized, PackedIsWhole
    <3> QED
      BY <3>2 DEF StagedBatches, Fits
  <2> QED
    BY <2>1, <2>2, <2>3
<1> QED
  BY <1>1, StagingInvariance, PTL

(* Rows of different items are not as many as the items, if one of these   *)
(* is not among theirs.                                                    *)
LEMMA RowsMissOne ==
    ASSUME NEW s \in Seq(SourceRow), NEW n \in Nat, NEW missed \in 1..n,
           \A k \in DOMAIN s : s[k].at \in 1..n /\ s[k].at # missed,
           \A j, k \in DOMAIN s : j < k => s[j].at < s[k].at
    PROVE  Len(s) # n
<1> SUFFICES ASSUME Len(s) = n PROVE FALSE
  OBVIOUS
<1>1. DOMAIN s = 1..n
  OBVIOUS
<1>2. PICK f, T : f = [k \in 1..n |-> s[k].at] /\ T = 1..n \ {missed}
  OBVIOUS
<1>3. f \in [1..n -> T]
  BY <1>1, <1>2
<1>4. IsFiniteSet(1..n) /\ Cardinality(1..n) = n
  BY FS_Interval
<1>5. IsFiniteSet(T) /\ Cardinality(T) = n - 1
  BY <1>2, <1>4, FS_RemoveElement
<1>6. PICK x \in 1..n, y \in 1..n : x # y /\ f[x] = f[y]
  <2>1. Cardinality(T) < Cardinality(1..n)
    BY <1>4, <1>5
  <2>2. \E x, y \in 1..n : x # y /\ f[x] = f[y]
    BY <1>3, <1>4, <1>5, <2>1, FS_PigeonHole
  <2> QED
    BY <2>2
<1>7. s[x].at = s[y].at /\ s[x].at \in Nat /\ s[y].at \in Nat
  BY <1>1, <1>2, <1>6
<1>8. x < y \/ y < x
  BY <1>6
<1> QED
  BY <1>1, <1>7, <1>8

(* A file is "ok" only if every record of it is in the shards.             *)
THEOREM OkIsComplete == Spec => []OkMeansComplete
<1>1. StagingInv => OkMeansComplete
  <2> SUFFICES ASSUME StagingInv, report.status = "ok", NEW k \in DOMAIN plan.items
               PROVE  (\E i \in DOMAIN Staged : Staged[i].at = k) \/ (plan.items[k].kind = "lost" /\ plan.headers # "all")
    BY DEF OkMeansComplete
  <2>1. Parsing /\ Begun /\ Ended
    BY DEF StagingInv, ReportInv, Begun, Ended
  <2>2. /\ Staged = AllRows(out) /\ Staged \in Seq(SourceRow) /\ Keeping(plan, out, at, hashed, version, partitions)
        /\ report.status = Status(errors)
        /\ at \in Nat /\ Len(plan.items) \in Nat /\ DOMAIN plan.items = 1..Len(plan.items) /\ hashed \in Int
    BY <2>1, StagedIsAll
  <2>3. errors = 0
    BY <2>2 DEF Status, StagingInv, TypeOK
  <2>4. ~cut /\ \A i \in 1..at - 1 : plan.items[i].kind \in Good \cup {"lost"}
    BY <2>1, <2>3 DEF StagingInv, ItemsInv
  <2>5. at = Len(plan.items) + 1
    BY <2>1, <2>4 DEF StagingInv, EndInv
  <2>6. PICK n \in Nat, s \in Seq(SourceRow) : n = Len(plan.items) /\ s = Staged /\ at - 1 = n
    BY <2>2, <2>5
  <2>7. \A i \in 1..n : plan.items[i].kind \in Good \cup {"lost"}
    BY <2>4, <2>6
  <2>8. {s[i].at : i \in DOMAIN s} = {i \in 1..n : plan.items[i].kind \in Good}
    BY <2>2, <2>6 DEF Keeping, AreRows
  <2>9. k \in 1..n
    BY <2>2, <2>6
  <2>10. CASE plan.items[k].kind \in Good
    BY <2>6, <2>8, <2>9, <2>10
  <2>11. CASE plan.items[k].kind = "lost"
    <3> SUFFICES ASSUME plan.headers = "all" PROVE FALSE
      BY <2>11
    <3>1. Evtx
      BY <2>11, StagingAssumption DEF StagingInv, TypeOK, Evtx
    <3>2. out.count = Declared
      BY <2>1, <2>3, <3>1 DEF StagingInv, ReportInv, HeaderMismatch
    <3>3. PICK S : S = {i \in DOMAIN plan.items : plan.items[i].kind # "stuck"}
      OBVIOUS
    <3>4. S = 1..n
      BY <2>2, <2>6, <2>7, <3>3 DEF Good
    <3>5. Declared = Cardinality(S)
      BY <3>3 DEF Declared
    <3>6. Cardinality(1..n) = n
      BY FS_Interval
    <3>7. out.count = Len(s)
      BY <2>2, <2>6 DEF Keeping
    <3>8. \A i \in DOMAIN s : s[i].at \in 1..n /\ s[i].at # k
      BY <2>8, <2>11 DEF Good
    <3>9. \A i, j \in DOMAIN s : i < j => s[i].at < s[j].at
      BY <2>2, <2>6 DEF Keeping, AreRows
    <3>10. Len(s) # n
      BY <2>9, <3>8, <3>9, RowsMissOne
    <3> QED
      BY <3>2, <3>4, <3>5, <3>6, <3>7, <3>10
  <2> QED
    BY <2>7, <2>9, <2>10, <2>11
<1> QED
  BY <1>1, StagingInvariance, PTL
================================================================================
