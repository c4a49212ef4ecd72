------------------------ MODULE SnapshotFiles_proof ------------------------
(***************************************************************************)
(* What holds for every run of SnapshotFiles.                              *)
(***************************************************************************)
EXTENDS SnapshotFiles, Counting

-----------------------------------------------------------------------------
(***************************************************************************)
(* Lists of lists.                                                        *)
(***************************************************************************)
\* The lists of a list, joined one after the other.
Joins(f, ss) == f = [i \in 1 .. Len(ss) |-> IF i = 1 THEN ss[i] ELSE f[i - 1] \o ss[i]]

LEMMA JoinsExist ==
  ASSUME NEW ss, Len(ss) \in Nat
  PROVE  \E f : Joins(f, ss)
<1> DEFINE Upto(f, n) == f = [i \in 1 .. n |-> IF i = 1 THEN ss[i] ELSE f[i - 1] \o ss[i]]
           U == {n \in Nat : ~\E f : Upto(f, n)}
<1>1. ASSUME U # {} PROVE FALSE
  <2>1. PICK n \in U : \A m \in U : n <= m
    <3>1. U \in SUBSET Nat
      OBVIOUS
    <3> HIDE DEF U
    <3> QED
      BY <1>1, <3>1, LeastOf
  <2>2. n \in Nat /\ ~\E f : Upto(f, n)
    OBVIOUS
  <2>3. CASE n = 0
    <3> DEFINE h == [i \in 1 .. 0 |-> <<>>]
    <3>1. Upto(h, 0)
      OBVIOUS
    <3> QED
      BY <2>2, <2>3, <3>1
  <2>4. CASE n # 0
    <3>1. n - 1 \in Nat /\ n - 1 \notin U
      <4>1. n - 1 \in Nat /\ ~(n <= n - 1)
        BY <2>2, <2>4
      <4> HIDE DEF U
      <4> QED
        BY <2>1, <4>1
    <3>2. PICK f : Upto(f, n - 1)
      BY <3>1
    <3> DEFINE h == [i \in 1 .. n |-> IF i = 1 THEN ss[i] ELSE f[i - 1] \o ss[i]]
    <3>3. ASSUME NEW i \in 1 .. n PROVE h[i] = IF i = 1 THEN ss[i] ELSE h[i - 1] \o ss[i]
      <4>1. h[i] = IF i = 1 THEN ss[i] ELSE f[i - 1] \o ss[i]
        OBVIOUS
      <4>2. CASE i # 1
        <5> DEFINE j == i - 1
        <5>1. j \in 1 .. n - 1 /\ j \in 1 .. n
          BY <2>2, <4>2
        <5>2. h[j] = IF j = 1 THEN ss[j] ELSE f[j - 1] \o ss[j]
          BY <5>1
        <5>3. f[j] = IF j = 1 THEN ss[j] ELSE f[j - 1] \o ss[j]
          BY <3>2, <5>1
        <5> HIDE DEF h
        <5> QED
          BY <4>1, <4>2, <5>2, <5>3
      <4> QED
        BY <4>1, <4>2
    <3>4. h = [i \in 1 .. n |-> h[i]]
      OBVIOUS
    <3> HIDE DEF h
    <3>5. Upto(h, n)
      BY <3>3, <3>4
    <3> QED
      BY <2>2, <3>5
  <2> QED
    BY <2>3, <2>4
<1> QED
  BY <1>1 DEF Joins

LEMMA FlattenIs ==
  ASSUME NEW ss, IsList(ss), ss # <<>>
  PROVE  \E f : /\ FlattenSeq(ss) = f[Len(ss)]
                /\ \A i \in 1 .. Len(ss) : f[i] = IF i = 1 THEN ss[i] ELSE f[i - 1] \o ss[i]
<1>1. Len(ss) \in Nat /\ Len(ss) # 0
  BY ListFacts
<1> DEFINE f == CHOOSE f : Joins(f, ss)
<1>2. Joins(f, ss)
  BY <1>1, JoinsExist
<1>3. FlattenSeq(ss) = f[Len(ss)]
  BY <1>1 DEF FlattenSeq, Joins
<1> HIDE DEF f
<1>4. \A i \in 1 .. Len(ss) : f[i] = IF i = 1 THEN ss[i] ELSE f[i - 1] \o ss[i]
  BY <1>2 DEF Joins
<1> QED
  BY <1>3, <1>4

\* What is true of every step of every list is true of every step.
LEMMA FlattenIn ==
  ASSUME NEW ss, IsList(ss), NEW S, \A i \in 1 .. Len(ss) : ss[i] \in Seq(S)
  PROVE  FlattenSeq(ss) \in Seq(S)
<1>1. CASE ss = <<>>
  <2>1. Len(ss) = 0
    BY <1>1, NoList
  <2> QED
    BY <1>1, <2>1, EmptySeq DEF FlattenSeq
<1>2. CASE ss # <<>>
  <2>1. Len(ss) \in Nat \ {0}
    BY <1>2, ListFacts
  <2>2. PICK f : /\ FlattenSeq(ss) = f[Len(ss)]
                 /\ \A i \in 1 .. Len(ss) : f[i] = IF i = 1 THEN ss[i] ELSE f[i - 1] \o ss[i]
    BY <1>2, FlattenIs
  <2> DEFINE U == {n \in Nat : n \in 1 .. Len(ss) /\ f[n] \notin Seq(S)}
  <2>3. ASSUME U # {} PROVE FALSE
    <3>1. PICK n \in U : \A m \in U : n <= m
      <4>1. U \in SUBSET Nat
        OBVIOUS
      <4> HIDE DEF U
      <4> QED
        BY <2>3, <4>1, LeastOf
    <3>2. n \in 1 .. Len(ss) /\ f[n] \notin Seq(S)
      OBVIOUS
    <3>3. n # 1
      BY <2>2, <3>2
    <3>4. n - 1 \in Nat /\ n - 1 \in 1 .. Len(ss) /\ n - 1 \notin U
      <4>1. n - 1 \in Nat /\ n - 1 \in 1 .. Len(ss) /\ ~(n <= n - 1)
        BY <2>1, <3>2, <3>3
      <4> HIDE DEF U
      <4> QED
        BY <3>1, <4>1
    <3>5. f[n - 1] \in Seq(S)
      BY <3>4
    <3>6. f[n] = f[n - 1] \o ss[n] /\ ss[n] \in Seq(S)
      BY <2>2, <3>2, <3>3
    <3> QED
      BY <3>2, <3>5, <3>6, ConcatProperties
  <2>4. Len(ss) \in Nat /\ Len(ss) \in 1 .. Len(ss)
    BY <2>1
  <2> QED
    BY <2>2, <2>3, <2>4
<1> QED
  BY <1>1, <1>2

\* The first list comes first.
LEMMA FlattenFirst ==
  ASSUME NEW ss, IsList(ss), ss # <<>>, \A i \in 1 .. Len(ss) : IsList(ss[i])
  PROVE  FlattenSeq(ss) = ss[1] \o FlattenSeq(Tail(ss))
<1> DEFINE n == Len(ss)
           ts == Tail(ss)
<1>1. /\ n \in Nat \ {0} /\ IsList(ts) /\ Len(ts) = n - 1
      /\ \A i \in 1 .. n - 1 : ts[i] = ss[i + 1]
  BY ListFacts, HeadAndTail
<1>2. PICK f : /\ FlattenSeq(ss) = f[n]
               /\ \A i \in 1 .. n : f[i] = IF i = 1 THEN ss[i] ELSE f[i - 1] \o ss[i]
  BY FlattenIs
<1> HIDE DEF n, ts
<1>3. CASE n = 1
  <2>1. FlattenSeq(ts) = <<>>
    BY <1>1, <1>3, ListFacts DEF FlattenSeq
  <2>2. FlattenSeq(ss) = ss[1] /\ IsList(ss[1])
    BY <1>2, <1>3 DEF n
  <2> QED
    BY <2>1, <2>2, NoList DEF ts
<1>4. CASE n # 1
  <2>1. PICK g : /\ FlattenSeq(ts) = g[n - 1]
                 /\ \A i \in 1 .. n - 1 : g[i] = IF i = 1 THEN ts[i] ELSE g[i - 1] \o ts[i]
    <3>1. ts # <<>>
      BY <1>1, <1>4, ListFacts
    <3> QED
      BY <1>1, <3>1, FlattenIs
  <2> DEFINE Right(i) == IsList(g[i - 1]) /\ f[i] = ss[1] \o g[i - 1]
             U == {i \in Nat : i \in 2 .. n /\ ~Right(i)}
  <2>2. ASSUME U # {} PROVE FALSE
    <3>1. PICK i \in U : \A m \in U : i <= m
      <4>1. U \in SUBSET Nat
        OBVIOUS
      <4> HIDE DEF U
      <4> QED
        BY <2>2, <4>1, LeastOf
    <3>2. i \in 2 .. n /\ ~Right(i)
      OBVIOUS
    <3>3. f[i] = f[i - 1] \o ss[i] /\ IsList(ss[i]) /\ IsList(ss[1])
      <4>1. i \in 1 .. n /\ i # 1 /\ 1 \in 1 .. n
        BY <1>1, <3>2
      <4>2. IsList(ss[i]) /\ IsList(ss[1])
        BY <4>1 DEF n
      <4> QED
        BY <1>2, <4>1, <4>2
    <3>4. CASE i = 2
      <4>1. g[1] = ts[1] /\ f[1] = ss[1]
        BY <1>1, <1>2, <1>4, <2>1
      <4>2. ts[1] = ss[i] /\ i - 1 = 1
        <5>1. 1 \in 1 .. n - 1 /\ 1 + 1 = i
          BY <1>1, <1>4, <3>4
        <5> QED
          BY <1>1, <5>1
      <4> QED
        BY <3>2, <3>3, <4>1, <4>2
    <3>5. CASE i # 2
      <4>1. PICK j : j = i - 1
        OBVIOUS
      <4>2. j \in Nat /\ j \in 2 .. n /\ j \notin U /\ j \in 1 .. n - 1 /\ j # 1
        <5>1. j \in Nat /\ j \in 2 .. n /\ ~(i <= j) /\ j \in 1 .. n - 1 /\ j # 1
          BY <1>1, <3>2, <3>5, <4>1
        <5> HIDE DEF U
        <5> QED
          BY <3>1, <5>1
      <4>3. Right(j)
        BY <4>2
      <4>4. g[j] = g[j - 1] \o ss[i]
        <5>1. g[j] = g[j - 1] \o ts[j]
          BY <2>1, <4>2
        <5>2. ts[j] = ss[j + 1] /\ j + 1 = i
          BY <1>1, <3>2, <4>1, <4>2
        <5> QED
          BY <5>1, <5>2
      <4>5. PICK x : x = g[j - 1]
        OBVIOUS
      <4>6. IsList(x) /\ f[i] = (ss[1] \o x) \o ss[i]
        BY <3>3, <4>1, <4>3, <4>5
      <4>7. f[i] = ss[1] \o (x \o ss[i]) /\ IsList(x \o ss[i])
        <5>1. PICK y, z : y = ss[1] /\ z = ss[i]
          OBVIOUS
        <5>2. IsList(y) /\ IsList(z)
          BY <3>3, <5>1
        <5>3. (y \o x) \o z = y \o (x \o z)
          <6>1. Lists(y, x, z, z)
            BY <4>6, <5>2 DEF Lists
          <6> QED
            BY <6>1, JoinThree
        <5>4. IsList(x \o z)
          BY <4>6, <5>2, Joined
        <5> QED
          BY <4>6, <5>1, <5>3, <5>4
      <4> QED
        BY <3>2, <4>1, <4>4, <4>5, <4>7
    <3> QED
      BY <3>4, <3>5
  <2>3. Right(n)
    <3>1. n \in Nat /\ n \in 2 .. n
      BY <1>1, <1>4
    <3> QED
      BY <2>2, <3>1
  <2> QED
    BY <1>2, <2>1, <2>3 DEF ts
<1> QED
  BY <1>3, <1>4

-----------------------------------------------------------------------------
(***************************************************************************)
(* The planes of the ranks.                                                *)
(***************************************************************************)

\* The planes of the ranks before q.
Before(q) == MapThenSumSet(Planes, 0 .. q - 1)

LEMMA ConfigFacts ==
  ASSUME cfg \in Configs
  PROVE  /\ cfg.ranks \in Nat \ {0} /\ Rank = 0 .. cfg.ranks - 1 /\ 0 \in Rank
         /\ cfg.planes \in [Rank -> Nat] /\ cfg.load \in [Rank -> Nat] /\ cfg.nu \in [Rank -> Nat]
         /\ cfg.baryons \in BOOLEAN /\ cfg.neutrinos \in BOOLEAN /\ cfg.sampled \in BOOLEAN
         /\ cfg.format \in {"gadget_hdf5", "gadget_hdf5_double", "AREPO", "SWIFT", "generic",
                            "grafic2", "genericio"}
BY ConfigsAssumption DEF Rank

LEMMA PlaneTable ==
  ASSUME NEW S, IsFiniteSet(S)
  PROVE  \E h : IsSumTable(h, cfg.planes, S) /\ MapThenSumSet(Planes, S) = h[S]
<1> DEFINE g == CHOOSE h : IsSumTable(h, cfg.planes, S)
<1>1. MapThenSumSet(Planes, S) = g[S]
  BY DEF MapThenSumSet, MapThenFoldSet, Planes, IsSumTable, SumStep, OneOf
<1>2. IsSumTable(g, cfg.planes, S)
  BY SumTableExists
<1> QED
  BY <1>1, <1>2

LEMMA PlanesAdd ==
  ASSUME cfg \in Configs
  PROVE  /\ Before(0) = 0 /\ AllPlanes = Before(cfg.ranks)
         /\ \A q \in Rank : Before(q + 1) = Before(q) + Planes(q) /\ Planes(q) \in Nat
         /\ \A q \in 0 .. cfg.ranks : Before(q) \in Nat
<1>1. Before(0) = 0
  <2>1. 0 .. -1 = {}
    OBVIOUS
  <2>2. PICK h : IsSumTable(h, cfg.planes, {}) /\ MapThenSumSet(Planes, {}) = h[{}]
    BY PlaneTable, FS_EmptySet
  <2>3. h[{}] = 0
    BY <2>2 DEF IsSumTable, SumStep
  <2> QED
    BY <2>1, <2>2, <2>3 DEF Before
<1>2. ASSUME NEW q \in Rank
      PROVE  /\ Before(q + 1) = Before(q) + Planes(q)
             /\ Planes(q) \in Nat /\ Before(q) \in Nat /\ Before(q + 1) \in Nat
  <2> DEFINE S == 0 .. q - 1
  <2>1. q \in Nat /\ S \cup {q} = 0 .. (q + 1) - 1 /\ q \notin S /\ S \cup {q} \subseteq Rank
    BY ConfigFacts
  <2>2. IsFiniteSet(S) /\ IsFiniteSet(S \cup {q})
    <3>1. 0 \in Int /\ q - 1 \in Int
      BY <2>1
    <3>2. IsFiniteSet(0 .. q - 1)
      BY <3>1, FS_Interval
    <3> QED
      BY <3>2, FS_AddElement
  <2>3. \A x \in S \cup {q} : cfg.planes[x] \in Nat
    BY <2>1, ConfigFacts
  <2>4. Before(q) = MapThenSumSet(Planes, S) /\ Before(q + 1) = MapThenSumSet(Planes, S \cup {q})
    BY <2>1 DEF Before
  <2> HIDE DEF S
  <2>5. PICK h : IsSumTable(h, cfg.planes, S) /\ MapThenSumSet(Planes, S) = h[S]
    BY <2>2, PlaneTable
  <2>6. PICK k : /\ IsSumTable(k, cfg.planes, S \cup {q})
                 /\ MapThenSumSet(Planes, S \cup {q}) = k[S \cup {q}]
    BY <2>2, PlaneTable
  <2>7. k[S \cup {q}] = cfg.planes[q] + h[S] /\ h[S] \in Nat
    BY <2>1, <2>2, <2>3, <2>5, <2>6, SumGrows
  <2> QED
    BY <2>3, <2>4, <2>5, <2>6, <2>7 DEF Planes
<1>3. AllPlanes = Before(cfg.ranks)
  BY DEF AllPlanes, Before, Rank
<1>4. ASSUME NEW q \in 0 .. cfg.ranks PROVE Before(q) \in Nat
  <2>1. CASE q = 0
    BY <1>1, <2>1
  <2>2. CASE q # 0
    <3>1. q - 1 \in Rank /\ (q - 1) + 1 = q
      BY <2>2, ConfigFacts
    <3>2. Before((q - 1) + 1) \in Nat
      BY <1>2, <3>1
    <3> QED
      BY <3>1, <3>2
  <2> QED
    BY <2>1, <2>2
<1> QED
  BY <1>1, <1>2, <1>3, <1>4

LEMMA PlanesAscend ==
  ASSUME cfg \in Configs, NEW p \in 0 .. cfg.ranks, NEW q \in 0 .. cfg.ranks, p <= q
  PROVE  Before(p) <= Before(q)
<1> DEFINE U == {n \in Nat : n \in p .. cfg.ranks /\ Before(p) > Before(n)}
<1>0. cfg.ranks \in Nat /\ p \in Nat /\ q \in Nat
  BY ConfigFacts
<1>1. ASSUME U # {} PROVE FALSE
  <2>1. PICK n \in U : \A m \in U : n <= m
    <3>1. U \in SUBSET Nat
      OBVIOUS
    <3> HIDE DEF U
    <3> QED
      BY <1>1, <3>1, LeastOf
  <2>2. n \in p .. cfg.ranks /\ Before(p) > Before(n) /\ n \in Nat
    OBVIOUS
  <2>3. n # p
    BY <1>0, <2>2, PlanesAdd
  <2>4. PICK m : m = n - 1
    OBVIOUS
  <2>5. m \in Nat /\ m \in p .. cfg.ranks /\ m \in Rank /\ m + 1 = n /\ ~(n <= m)
    BY <1>0, <2>2, <2>3, <2>4, ConfigFacts
  <2>6. m \notin U
    <3> HIDE DEF U
    <3> QED
      BY <2>1, <2>5
  <2>7. ~(Before(p) > Before(m))
    BY <2>5, <2>6
  <2>8. Before(n) = Before(m) + Planes(m) /\ Planes(m) \in Nat
    BY <2>5, PlanesAdd
  <2>9. Before(p) \in Nat /\ Before(m) \in Nat /\ Before(n) \in Nat
    <3>1. m \in 0 .. cfg.ranks /\ n \in 0 .. cfg.ranks
      BY <1>0, <2>2, <2>5
    <3> QED
      BY <3>1, PlanesAdd
  <2> QED
    BY <2>2, <2>7, <2>8, <2>9
<1>2. q \in p .. cfg.ranks
  BY <1>0
<1>3. ~(Before(p) > Before(q))
  BY <1>0, <1>1, <1>2
<1> QED
  BY <1>0, <1>3, PlanesAdd

\* A slab that is not empty starts where the planes of the ranks before end,
\* and that is where it is written to.
LEMMA SlabStarts ==
  ASSUME cfg \in Configs, NEW r \in Rank, Planes(r) # 0
  PROVE  local_0_start(r) = Before(r) /\ offsets0(r) = Before(r)
<1>1. local_0_start(r) = Before(r)
  BY DEF local_0_start, Before
<1> DEFINE ends == {local_0_start(q) + Planes(q) : q \in 0 .. r - 1}
           all == {local_0_start(r)} \cup ends
<1>2. Before(r) \in Nat
  BY ConfigFacts, PlanesAdd
<1>3. ASSUME NEW q \in 0 .. r - 1 PROVE local_0_start(q) + Planes(q) <= Before(r)
                                        /\ local_0_start(q) + Planes(q) \in Nat
  <2>1. q \in Rank /\ q + 1 \in 0 .. cfg.ranks /\ r \in 0 .. cfg.ranks /\ q + 1 <= r
    BY ConfigFacts
  <2>2. Before(q + 1) = Before(q) + Planes(q) /\ Before(q + 1) <= Before(r) /\ Planes(q) \in Nat
        /\ Before(q + 1) \in Nat
    BY <2>1, PlanesAdd, PlanesAscend
  <2>3. CASE Planes(q) = 0
    BY <1>2, <2>2, <2>3 DEF local_0_start
  <2>4. CASE Planes(q) # 0
    BY <2>2, <2>4 DEF local_0_start, Before
  <2> QED
    BY <2>3, <2>4
<1>4. \A e \in ends : e <= Before(r) /\ e \in Nat
  BY <1>3
<1>5. Before(r) \in all /\ \A e \in all : e \in Nat /\ Before(r) >= e
  <2> HIDE DEF ends
  <2> QED
    BY <1>1, <1>2, <1>4
<1>6. Max(all) = Before(r)
  <2> HIDE DEF all
  <2> DEFINE m == CHOOSE x \in all : \A y \in all : x >= y
  <2>1. m \in all /\ \A y \in all : m >= y
    BY <1>5
  <2>2. m = Before(r)
    <3> HIDE DEF m
    <3> QED
      BY <1>2, <1>5, <2>1
  <2> QED
    BY <2>2 DEF Max
<1> QED
  BY <1>1, <1>6 DEF offsets0

-----------------------------------------------------------------------------
(***************************************************************************)
(* After the export of the noise no step is about its file but the one     *)
(* that reads it.                                                          *)
(***************************************************************************)
InRest(s) ==
  /\ s.op = "read" => cfg.neutrinos /\ s.file = WhiteNoise /\ s.on = noise_dset
  /\ s.op # "read" => s.file # WhiteNoise
  /\ s.op \in {"open", "copy"} => s.on # WhiteNoise
RestList(c) == IsList(c) /\ \A i \in 1 .. Len(c) : InRest(c[i])

LEMMA RestJoin ==
  ASSUME NEW c, RestList(c), NEW d, RestList(d)
  PROVE  RestList(c \o d)
<1>1. IsList(c) /\ IsList(d) /\ Len(c) \in Nat /\ Len(d) \in Nat
  BY ListFacts DEF RestList
<1>2. /\ IsList(c \o d) /\ Len(c \o d) = Len(c) + Len(d)
      /\ \A i \in 1 .. Len(c) + Len(d) : (c \o d)[i] = IF i <= Len(c) THEN c[i] ELSE d[i - Len(c)]
  BY <1>1, Joined
<1>3. ASSUME NEW i \in 1 .. Len(c) + Len(d) PROVE InRest((c \o d)[i])
  <2>1. CASE i <= Len(c)
    <3>1. i \in 1 .. Len(c) /\ (c \o d)[i] = c[i]
      BY <1>1, <1>2, <2>1
    <3> QED
      BY <3>1 DEF RestList
  <2>2. CASE ~(i <= Len(c))
    <3>1. i - Len(c) \in 1 .. Len(d) /\ (c \o d)[i] = d[i - Len(c)]
      BY <1>1, <1>2, <2>2
    <3> QED
      BY <3>1 DEF RestList
  <2> QED
    BY <2>1, <2>2
<1> QED
  BY <1>2, <1>3 DEF RestList

LEMMA RestNothing == RestList(<<>>)
BY NoList DEF RestList

LEMMA RestOne ==
  ASSUME NEW x, InRest(x)
  PROVE  RestList(<<x>>)
<1>1. PICK c : c = <<x>>
  OBVIOUS
<1>2. IsList(c) /\ Len(c) = 1 /\ c[1] = x
  BY <1>1, OneStep
<1>3. \A i \in 1 .. Len(c) : c[i] = x
  BY <1>2
<1> QED
  BY <1>1, <1>2, <1>3 DEF RestList

LEMMA RestChoice ==
  ASSUME NEW c, RestList(c)
  PROVE  /\ \A b \in BOOLEAN : RestList(When(b, c))
         /\ \A r, q : RestList(Only(r, q, c))
BY RestNothing DEF When, Only

LEMMA RestFlatten ==
  ASSUME NEW ss, IsList(ss), \A i \in 1 .. Len(ss) : RestList(ss[i])
  PROVE  RestList(FlattenSeq(ss))
<1> DEFINE S == {x \in UNION {{ss[i][j] : j \in 1 .. Len(ss[i])} : i \in 1 .. Len(ss)} : InRest(x)}
<1>1. ASSUME NEW i \in 1 .. Len(ss) PROVE ss[i] \in Seq(S)
  <2>1. IsList(ss[i]) /\ \A j \in 1 .. Len(ss[i]) : InRest(ss[i][j])
    BY DEF RestList
  <2>2. Len(ss[i]) \in Nat /\ ss[i] = [j \in 1 .. Len(ss[i]) |-> ss[i][j]]
    BY <2>1, ListFacts
  <2>3. \A j \in 1 .. Len(ss[i]) : ss[i][j] \in S
    BY <2>1
  <2> HIDE DEF S
  <2>4. ss[i] \in [1 .. Len(ss[i]) -> S]
    BY <2>2, <2>3
  <2> QED
    BY <2>2, <2>4, SeqDef
<1>2. FlattenSeq(ss) \in Seq(S)
  <2> HIDE DEF S
  <2> QED
    BY <1>1, FlattenIn
<1>3. \A x \in S : InRest(x)
  OBVIOUS
<1> HIDE DEF S
<1>4. PICK c : c = FlattenSeq(ss)
  OBVIOUS
<1>5. IsList(c) /\ DOMAIN c = 1 .. Len(c) /\ \A i \in 1 .. Len(c) : c[i] \in S
  BY <1>2, <1>4, ListIs, LenProperties, ElementOfSeq
<1> QED
  BY <1>3, <1>4, <1>5 DEF RestList

LEMMA StepIs ==
  \A op, file, on, val :
    LET s == Step(op, file, on, val) IN s.op = op /\ s.file = file /\ s.on = on /\ s.val = val
BY DEF Step

LEMMA RestStep ==
  ASSUME NEW op, op \notin {"read", "open", "copy"}, NEW file, file # WhiteNoise, NEW on, NEW val
  PROVE  RestList(<<Step(op, file, on, val)>>)
BY StepIs, RestOne DEF InRest

\* The files that are not the noise.
LEMMA OtherFiles ==
  ASSUME NEW r
  PROVE  /\ GadgetFile(r) # WhiteNoise /\ ArepoFile(r) # WhiteNoise /\ SharedFile # WhiteNoise
         /\ NoFile # WhiteNoise /\ Shared("tmp.hdf5") # WhiteNoise /\ Shared("ic") # WhiteNoise
         /\ Shared("ic/ramses.nml") # WhiteNoise
         /\ distributed_hdf5_filename(Temporary, r) # WhiteNoise
         /\ distributed_hdf5_filename(Snapshot, r) # WhiteNoise
         /\ this_fname(r) # WhiteNoise
         /\ \A s \in {DM, Baryon}, c \in {"dx", "vx"} : Shared(GraficName[s][c]) # WhiteNoise
<1>1. \A n, q : Path(n, q) = WhiteNoise => n = "white_noise.hdf5"
  BY DEF Path, WhiteNoise, Shared
<1>2. GadgetFile(r) # WhiteNoise /\ ArepoFile(r) # WhiteNoise /\ SharedFile # WhiteNoise
  BY <1>1 DEF GadgetFile, ArepoFile, SharedFile, Shared
<1>3. /\ NoFile # WhiteNoise /\ Shared("tmp.hdf5") # WhiteNoise /\ Shared("ic") # WhiteNoise
      /\ Shared("ic/ramses.nml") # WhiteNoise
  BY <1>1 DEF NoFile, Shared
<1>4. /\ distributed_hdf5_filename(Temporary, r) # WhiteNoise
      /\ distributed_hdf5_filename(Snapshot, r) # WhiteNoise
  BY <1>1 DEF distributed_hdf5_filename, Temporary, Snapshot, Shared
<1>5. this_fname(r) # WhiteNoise
  BY <1>2 DEF this_fname
<1>6. ASSUME NEW s \in {DM, Baryon}, NEW c \in {"dx", "vx"}
      PROVE  Shared(GraficName[s][c]) # WhiteNoise
  <2>1. GraficName[s][c] \in {"ic/poscx", "ic/velcx", "ic/posbx", "ic/velbx"}
    BY DEF GraficName, Species, DM, Baryon, Neutrino
  <2> QED
    BY <1>1, <2>1 DEF Shared
<1> QED
  BY <1>2, <1>3, <1>4, <1>5, <1>6

LEMMA RestSync == \A call : RestList(Sync(call)) /\ RestList(Throw)
BY OtherFiles, RestStep DEF Sync, Throw

LEMMA RestHDF ==
  ASSUME NEW f, f # WhiteNoise
  PROVE  /\ RestList(unlink(f)) /\ RestList(HDFCreateFile(f))
         /\ \A g : RestList(HDFCreateGroup(f, g))
         /\ \A g, a, v : RestList(HDFWriteGroupAttribute(f, g, a, v))
         /\ \A g, a : RestList(HDFWriteGroupText(f, g, a))
         /\ \A d, v : RestList(HDFWriteDataset(f, d, v)) /\ RestList(HDFWriteDatasetVector(f, d, v))
         /\ \A d, n : RestList(HDFCreateEmptyDataset(f, d, n))
                      /\ RestList(HDFCreateEmptyDatasetVector(f, d, n))
         /\ \A d, v, o : RestList(HDFWriteDatasetChunk(f, d, v, o))
                         /\ RestList(HDFWriteDatasetVectorChunk(f, d, v, o))
BY RestStep DEF unlink, HDFCreateFile, HDFCreateGroup, HDFWriteGroupAttribute, HDFWriteGroupText,
     HDFWriteDataset, HDFWriteDatasetVector, HDFCreateEmptyDataset, HDFCreateEmptyDatasetVector,
     HDFWriteDatasetChunk, HDFWriteDatasetVectorChunk

LEMMA RestEach ==
  ASSUME NEW n \in Nat, NEW ss, DOMAIN ss = 1 .. n, ss = [i \in 1 .. n |-> ss[i]],
         \A i \in 1 .. n : RestList(ss[i])
  PROVE  RestList(FlattenSeq(ss))
<1>1. IsList(ss) /\ Len(ss) = n
  BY ListOf
<1> QED
  BY <1>1, RestFlatten

LEMMA RestTotals ==
  ASSUME NEW n \in Nat
  PROVE  RestList(Totals(n))
<1> DEFINE ss == [i \in 1 .. n |-> Sync("Allreduce")]
<1>1. Totals(n) = FlattenSeq(ss)
  BY DEF Totals, ForEach
<1>2. DOMAIN ss = 1 .. n /\ ss = [i \in 1 .. n |-> ss[i]] /\ \A i \in 1 .. n : RestList(ss[i])
  BY RestSync
<1> HIDE DEF ss
<1> QED
  BY <1>1, <1>2, RestEach

LEMMA RestCounts ==
  \A s, local, all, set : RestList(SetCounts(s, local, all, set))
BY OtherFiles, RestStep DEF SetCounts

LEMMA RestGadget ==
  ASSUME cfg \in Configs, NEW r, NEW s
  PROVE  RestList(WriteGadgetParticles(r, s)) /\ RestList(WriteArepoParticles(r, s))
<1> DEFINE f == this_fname(r)
<1>1. f # WhiteNoise /\ cfg.baryons \in BOOLEAN
  BY OtherFiles, ConfigFacts
<1> HIDE DEF f
<1>2. \A n : n \in {2, 3, 4} => RestList(Totals(n))
  BY RestTotals
<1>3. \A n \in {2, 3, 4} : \A local, all, set :
        RestList(Totals(n) \o SetCounts(s, local, all, set))
  BY <1>2, RestCounts, RestJoin
<1>4. /\ RestList(HDFCreateGroup(f, Group(s)))
      /\ RestList(HDFWriteDatasetVector(f, Dataset(s, "Coordinates"), Container(r, s)))
      /\ RestList(HDFWriteDatasetVector(f, Dataset(s, "Velocities"), Container(r, s)))
      /\ RestList(HDFWriteDataset(f, Dataset(s, "ParticleIDs"), Container(r, s)))
      /\ RestList(When(cfg.baryons, HDFWriteDataset(f, Dataset(s, "Masses"), Container(r, s))))
  BY <1>1, RestHDF, RestChoice
<1>5. ASSUME NEW c, RestList(c)
      PROVE  RestList(c \o HDFCreateGroup(f, Group(s))
             \o HDFWriteDatasetVector(f, Dataset(s, "Coordinates"), Container(r, s))
             \o HDFWriteDatasetVector(f, Dataset(s, "Velocities"), Container(r, s))
             \o HDFWriteDataset(f, Dataset(s, "ParticleIDs"), Container(r, s))
             \o When(cfg.baryons, HDFWriteDataset(f, Dataset(s, "Masses"), Container(r, s))))
  <2>1. PICK p1, p2, p3, p4, p5 :
          /\ p1 = HDFCreateGroup(f, Group(s))
          /\ p2 = HDFWriteDatasetVector(f, Dataset(s, "Coordinates"), Container(r, s))
          /\ p3 = HDFWriteDatasetVector(f, Dataset(s, "Velocities"), Container(r, s))
          /\ p4 = HDFWriteDataset(f, Dataset(s, "ParticleIDs"), Container(r, s))
          /\ p5 = When(cfg.baryons, HDFWriteDataset(f, Dataset(s, "Masses"), Container(r, s)))
    OBVIOUS
  <2>2. RestList(p1) /\ RestList(p2) /\ RestList(p3) /\ RestList(p4) /\ RestList(p5)
    BY <1>4, <2>1
  <2>3. RestList(c \o p1)
    BY <1>5, <2>2, RestJoin
  <2>4. RestList(c \o p1 \o p2)
    BY <2>2, <2>3, RestJoin
  <2>5. RestList(c \o p1 \o p2 \o p3)
    BY <2>2, <2>4, RestJoin
  <2>6. RestList(c \o p1 \o p2 \o p3 \o p4)
    BY <2>2, <2>5, RestJoin
  <2>7. RestList(c \o p1 \o p2 \o p3 \o p4 \o p5)
    BY <2>2, <2>6, RestJoin
  <2> QED
    BY <2>1, <2>7
<1>6. RestList(WriteGadgetParticles(r, s))
  <2> DEFINE c == Totals(IF cfg.baryons THEN 3 ELSE 4)
               \o SetCounts(s, get_local_num_particles(r, s), get_global_num_particles(s),
                            Counts32 \cup Counts64)
  <2>1. RestList(c)
    BY <1>3
  <2> HIDE DEF c
  <2>2. RestList(c \o HDFCreateGroup(f, Group(s))
             \o HDFWriteDatasetVector(f, Dataset(s, "Coordinates"), Container(r, s))
             \o HDFWriteDatasetVector(f, Dataset(s, "Velocities"), Container(r, s))
             \o HDFWriteDataset(f, Dataset(s, "ParticleIDs"), Container(r, s))
             \o When(cfg.baryons, HDFWriteDataset(f, Dataset(s, "Masses"), Container(r, s))))
    BY <1>5, <2>1
  <2> QED
    BY <2>2 DEF WriteGadgetParticles, f, c
<1>7. RestList(WriteArepoParticles(r, s))
  <2> DEFINE c == Totals(IF cfg.baryons THEN 2 ELSE 3)
               \o SetCounts(s, get_local_num_particles(r, s), get_global_num_particles(s), Counts32)
  <2>1. RestList(c)
    BY <1>3
  <2> HIDE DEF c
  <2>2. RestList(c \o HDFCreateGroup(f, Group(s))
             \o HDFWriteDatasetVector(f, Dataset(s, "Coordinates"), Container(r, s))
             \o HDFWriteDatasetVector(f, Dataset(s, "Velocities"), Container(r, s))
             \o HDFWriteDataset(f, Dataset(s, "ParticleIDs"), Container(r, s))
             \o When(cfg.baryons, HDFWriteDataset(f, Dataset(s, "Masses"), Container(r, s))))
    BY <1>5, <2>1
  <2> QED
    BY <2>2 DEF WriteArepoParticles, f, c
<1> QED
  BY <1>6, <1>7

LEMMA RestFour ==
  ASSUME NEW a, RestList(a), NEW b, RestList(b), NEW c, RestList(c), NEW d, RestList(d)
  PROVE  /\ RestList(a \o b) /\ RestList(a \o b \o c) /\ RestList(a \o b \o c \o d)
<1>1. RestList(a \o b)
  BY RestJoin
<1>2. RestList(a \o b \o c)
  BY <1>1, RestJoin
<1> QED
  BY <1>1, <1>2, RestJoin

LEMMA RanksList ==
  ASSUME cfg \in Configs
  PROVE  cfg.ranks \in Nat /\ DOMAIN RanksInOrder = 1 .. cfg.ranks
BY ConfigFacts DEF RanksInOrder

LEMMA RestSwift ==
  ASSUME cfg \in Configs, NEW r, NEW s
  PROVE  RestList(WriteSwiftParticles(r, s))
<1> DEFINE f == SharedFile
           n == get_global_num_particles(s)
           Empty(d) == HDFCreateEmptyDataset(f, Dataset(s, d), n)
           Chunk(d) == HDFWriteDatasetChunk(f, Dataset(s, d), Container(r, s), Exscan(r, s))
           Vector(d) == HDFWriteDatasetVectorChunk(f, Dataset(s, d), Container(r, s), Exscan(r, s))
           gas == IF s = Baryon THEN <<"InternalEnergy", "SmoothingLength">> ELSE <<>>
           own == Vector("Coordinates") \o Vector("Velocities") \o Chunk("ParticleIDs")
                    \o Chunk("Masses") \o ForEach(gas, Chunk)
           Turn(q) == Sync("Barrier") \o Only(r, q, own)
           first == HDFCreateGroup(f, Group(s))
                      \o HDFCreateEmptyDatasetVector(f, Dataset(s, "Coordinates"), n)
                      \o HDFCreateEmptyDatasetVector(f, Dataset(s, "Velocities"), n)
                      \o Empty("ParticleIDs") \o Empty("Masses") \o ForEach(gas, Empty)
           all == Totals(IF cfg.baryons THEN 4 ELSE 5) \o SetCounts(s, n, n, Counts32)
                    \o Only(r, 0, first) \o Sync("Exscan") \o ForEach(RanksInOrder, Turn)
                    \o Sync("Barrier")
<1>1. f # WhiteNoise
  BY OtherFiles
<1>2. /\ \A d : RestList(Empty(d)) /\ RestList(Chunk(d)) /\ RestList(Vector(d))
      /\ RestList(HDFCreateGroup(f, Group(s)))
      /\ \A d : RestList(HDFCreateEmptyDatasetVector(f, Dataset(s, d), n))
  <2> HIDE DEF f, n
  <2> QED
    BY <1>1, RestHDF
<1>3. \E m \in Nat : DOMAIN gas = 1 .. m
  <2>1. DOMAIN <<"InternalEnergy", "SmoothingLength">> = 1 .. 2
    OBVIOUS
  <2>2. \A e : e = <<>> => DOMAIN e = 1 .. 0
    OBVIOUS
  <2> QED
    BY <2>1, <2>2
<1>4. RestList(ForEach(gas, Chunk)) /\ RestList(ForEach(gas, Empty))
  <2> PICK m \in Nat : DOMAIN gas = 1 .. m
    BY <1>3
  <2> HIDE DEF gas, Chunk, Empty
  <2> DEFINE c == [i \in 1 .. m |-> Chunk(gas[i])]
             e == [i \in 1 .. m |-> Empty(gas[i])]
  <2>1. ForEach(gas, Chunk) = FlattenSeq(c) /\ ForEach(gas, Empty) = FlattenSeq(e)
    BY DEF ForEach
  <2>2. DOMAIN c = 1 .. m /\ c = [i \in 1 .. m |-> c[i]] /\ \A i \in 1 .. m : RestList(c[i])
    BY <1>2
  <2>3. DOMAIN e = 1 .. m /\ e = [i \in 1 .. m |-> e[i]] /\ \A i \in 1 .. m : RestList(e[i])
    BY <1>2
  <2> HIDE DEF c, e
  <2>4. RestList(FlattenSeq(c))
    BY <2>2, RestEach
  <2>5. RestList(FlattenSeq(e))
    BY <2>3, RestEach
  <2> QED
    BY <2>1, <2>4, <2>5
<1>5. RestList(own)
  <2> HIDE DEF gas, Chunk, Empty, Vector
  <2>1. RestList(Vector("Coordinates") \o Vector("Velocities") \o Chunk("ParticleIDs")
                 \o Chunk("Masses"))
    BY <1>2, RestFour
  <2> QED
    BY <1>4, <2>1, RestJoin
<1>6. RestList(first)
  <2> HIDE DEF gas, Chunk, Empty, Vector, f, n
  <2>1. RestList(HDFCreateGroup(f, Group(s))
                      \o HDFCreateEmptyDatasetVector(f, Dataset(s, "Coordinates"), n)
                      \o HDFCreateEmptyDatasetVector(f, Dataset(s, "Velocities"), n)
                      \o Empty("ParticleIDs"))
    BY <1>2, RestFour
  <2> QED
    BY <1>2, <1>4, <2>1, RestFour
<1> HIDE DEF own, first
<1>7. \A q : RestList(Turn(q))
  BY <1>5, RestSync, RestChoice, RestJoin
<1>8. RestList(ForEach(RanksInOrder, Turn))
  <2> HIDE DEF Turn
  <2> DEFINE c == [i \in 1 .. cfg.ranks |-> Turn(RanksInOrder[i])]
  <2>1. ForEach(RanksInOrder, Turn) = FlattenSeq(c)
    BY RanksList DEF ForEach
  <2>2. /\ DOMAIN c = 1 .. cfg.ranks /\ c = [i \in 1 .. cfg.ranks |-> c[i]]
        /\ \A i \in 1 .. cfg.ranks : RestList(c[i])
    BY <1>7
  <2> HIDE DEF c
  <2> QED
    BY <2>1, <2>2, RestEach, RanksList
<1>9. RestList(all)
  <2> HIDE DEF Turn, n
  <2>1. RestList(Totals(IF cfg.baryons THEN 4 ELSE 5)) /\ RestList(SetCounts(s, n, n, Counts32))
        /\ RestList(Only(r, 0, first))
    BY <1>6, RestTotals, RestCounts, RestChoice
  <2>2. RestList(Totals(IF cfg.baryons THEN 4 ELSE 5) \o SetCounts(s, n, n, Counts32)
                    \o Only(r, 0, first) \o Sync("Exscan"))
    BY <2>1, RestSync, RestFour
  <2> QED
    BY <1>8, <2>2, RestSync, RestFour
<1> HIDE DEF all
<1>10. WriteSwiftParticles(r, s) = all
  BY DEF WriteSwiftParticles, all, own, first
<1> QED
  BY <1>9, <1>10

LEMMA RestField ==
  ASSUME cfg \in Configs, NEW r, NEW f, f # WhiteNoise, NEW d
  PROVE  RestList(WriteField(r, f, d))
<1> DEFINE write(q) == <<Step(IF q = 0 THEN "field" ELSE "planes", f, d,
                              [values |-> Slab(r), offset |-> offsets0(r)])>>
           Turn(q) == Sync("Barrier") \o Only(r, q, write(q))
           first == Only(r, 0, <<Step("ensure", f, "", Unset)>>)
           all == first \o Sync("Barrier") \o Sync("Allgather") \o Sync("Allgather")
                    \o Sync("Allreduce") \o ForEach(RanksInOrder, Turn)
<1>1. \A q : RestList(write(q))
  BY RestStep
<1>2. RestList(first)
  BY RestStep, RestChoice
<1> HIDE DEF write, first
<1>3. \A q : RestList(Turn(q))
  BY <1>1, RestSync, RestChoice, RestJoin
<1>4. RestList(ForEach(RanksInOrder, Turn))
  <2> HIDE DEF Turn
  <2> DEFINE c == [i \in 1 .. cfg.ranks |-> Turn(RanksInOrder[i])]
  <2>1. ForEach(RanksInOrder, Turn) = FlattenSeq(c)
    BY RanksList DEF ForEach
  <2>2. /\ DOMAIN c = 1 .. cfg.ranks /\ c = [i \in 1 .. cfg.ranks |-> c[i]]
        /\ \A i \in 1 .. cfg.ranks : RestList(c[i])
    BY <1>3
  <2> HIDE DEF c
  <2> QED
    BY <2>1, <2>2, RestEach, RanksList
<1>5. RestList(all)
  <2> HIDE DEF Turn
  <2>1. RestList(first \o Sync("Barrier") \o Sync("Allgather") \o Sync("Allgather"))
    BY <1>2, RestSync, RestFour
  <2> QED
    BY <1>4, <2>1, RestSync, RestFour
<1> HIDE DEF all
<1>6. WriteField(r, f, d) = all
  BY DEF WriteField, all, first, write
<1> QED
  BY <1>5, <1>6

LEMMA RestGrafic ==
  ASSUME cfg \in Configs, NEW r, NEW s \in {DM, Baryon}, NEW c \in {"dx", "vx"}
  PROVE  RestList(WriteGraficField(r, s, c))
<1> DEFINE f == Shared(GraficName[s][c])
           append(p) == <<Step("append", f, "", <<p>>)>>
           Plane(p) == Sync("Reduce") \o Only(r, 0, append(p))
           planes == [p \in 1 .. AllPlanes |-> p - 1]
           all == Only(r, 0, unlink(f) \o append(-1)) \o ForEach(planes, Plane)
<1>1. f # WhiteNoise
  BY OtherFiles
<1> HIDE DEF f
<1>2. \A p : RestList(append(p))
  BY <1>1, RestStep
<1>3. RestList(Only(r, 0, unlink(f) \o append(-1)))
  <2> HIDE DEF append
  <2>1. RestList(unlink(f) \o append(-1))
    BY <1>1, <1>2, RestHDF, RestJoin
  <2> QED
    BY <2>1, RestChoice
<1> HIDE DEF append
<1>4. \A p : RestList(Plane(p))
  BY <1>2, RestSync, RestChoice, RestJoin
<1>5. RestList(ForEach(planes, Plane))
  <2> HIDE DEF Plane
  <2> DEFINE e == [i \in 1 .. AllPlanes |-> Plane(planes[i])]
  <2>1. ForEach(planes, Plane) = FlattenSeq(e)
    BY DEF ForEach
  <2>2. AllPlanes \in Nat
    BY PlanesAdd, ConfigFacts
  <2>3. /\ DOMAIN e = 1 .. AllPlanes /\ e = [i \in 1 .. AllPlanes |-> e[i]]
        /\ \A i \in 1 .. AllPlanes : RestList(e[i])
    BY <1>4
  <2> HIDE DEF e
  <2> QED
    BY <2>1, <2>2, <2>3, RestEach
<1>6. RestList(all)
  <2> HIDE DEF planes, Plane
  <2> QED
    BY <1>3, <1>5, RestJoin
<1> HIDE DEF all
<1>7. WriteGraficField(r, s, c) = When(~(s = Baryon /\ c = "dx"), all)
  BY DEF WriteGraficField, all, append, f
<1> QED
  BY <1>6, <1>7, RestChoice

LEMMA RestHeader ==
  ASSUME NEW f, f # WhiteNoise, NEW this, NEW total
  PROVE  RestList(HeaderSteps(f, this, total))
<1>1. /\ RestList(HDFCreateGroup(f, "Header"))
      /\ RestList(HDFWriteGroupAttribute(f, "Header", "NumPart_ThisFile", this))
      /\ RestList(HDFWriteGroupAttribute(f, "Header", "NumPart_Total", total))
      /\ RestList(HDFWriteGroupText(f, "Header", "MassTable"))
  BY RestHDF
<1> QED
  BY <1>1, RestFour DEF HeaderSteps

LEMMA RestDestruct ==
  ASSUME cfg \in Configs, NEW r
  PROVE  RestList(Destruct(r))
<1>1. /\ RestList(DestructGadget(r)) /\ RestList(DestructArepo(r)) /\ RestList(DestructSwift(r))
  BY RestHeader, OtherFiles, RestChoice DEF DestructGadget, DestructArepo, DestructSwift
<1>2. RestList(DestructGenericIO(r))
  <2> DEFINE a == HDFCreateFile(SharedFile)
             b == HDFWriteDataset(SharedFile, <<"", "x">>, Buffered)
             c == HDFWriteDataset(SharedFile, <<"", "id">>, Buffered)
  <2>1. RestList(a) /\ RestList(b) /\ RestList(c)
    BY OtherFiles, RestHDF
  <2> HIDE DEF a, b, c
  <2>2. RestList(Only(r, 0, a \o b \o c))
    BY <2>1, RestFour, RestChoice
  <2>3. RestList(Sync("GenericIO") \o Only(r, 0, a \o b \o c) \o Sync("Barrier"))
    BY <2>2, RestSync, RestFour
  <2> QED
    BY <2>3 DEF DestructGenericIO, a, b, c
<1>3. cfg.format \in Gadget \cup {"AREPO", "SWIFT", "generic", "genericio", "grafic2"}
  BY ConfigFacts DEF Gadget
<1> QED
  BY <1>1, <1>2, <1>3, RestNothing DEF Destruct, Gadget

LEMMA RestNeutrinos ==
  ASSUME cfg \in Configs, cfg.neutrinos, NEW r
  PROVE  RestList(Neutrinos(r))
<1> DEFINE tmp == distributed_hdf5_filename(Temporary, r)
           snap == distributed_hdf5_filename(Snapshot, r)
<1>1. tmp # WhiteNoise /\ snap # WhiteNoise /\ Shared("tmp.hdf5") # WhiteNoise
  BY OtherFiles
<1>2. RestList(unlink(tmp))
  BY <1>1, RestHDF
<1>3. RestList(run_fastdf(r))
  <2> DEFINE put == IF DistributedFiles
                      THEN <<Step("put", tmp, "", NeutrinoFile(Cube(r)))>>
                      ELSE Only(r, 0, <<Step("put", Shared("tmp.hdf5"), "",
                                             NeutrinoFile(ForEach(RanksInOrder, Cube)))>>)
             read == <<Step("read", WhiteNoise, noise_dset, Unset)>>
  <2>1. RestList(read)
    BY StepIs, RestOne DEF InRest
  <2>2. RestList(put)
    <3> HIDE DEF tmp
    <3> QED
      BY <1>1, RestStep, RestChoice
  <2> HIDE DEF read, put
  <2>3. RestList(read \o Sync("Allreduce") \o put)
    BY <2>1, <2>2, RestSync, RestFour
  <2> QED
    BY <2>3 DEF run_fastdf, read, put
<1>4. RestList(merge_fastdf_particle_group(r))
  <2> DEFINE open == Step("open", snap, tmp, Unset)
             copy == Step("copy", snap, tmp, Unset)
  <2>1. InRest(open) /\ InRest(copy)
    BY <1>1, StepIs DEF InRest
  <2>2. merge_fastdf_particle_group(r) = <<open, copy>>
    BY DEF merge_fastdf_particle_group
  <2> HIDE DEF open, copy
  <2>3. <<open, copy>> \in Seq({open, copy}) /\ Len(<<open, copy>>) = 2
    OBVIOUS
  <2>4. IsList(<<open, copy>>)
    BY <2>3, ListIs
  <2>5. \A i \in 1 .. 2 : <<open, copy>>[i] \in {open, copy}
    OBVIOUS
  <2>6. PICK c : c = <<open, copy>>
    OBVIOUS
  <2>7. RestList(c)
    BY <2>1, <2>3, <2>4, <2>5, <2>6 DEF RestList
  <2> QED
    BY <2>2, <2>6, <2>7
<1>5. RestList(set_particle_attributes(r, Neutrino))
  BY RestCounts DEF set_particle_attributes
<1>6. RestList(unlink(tmp) \o run_fastdf(r) \o merge_fastdf_particle_group(r)
               \o set_particle_attributes(r, Neutrino))
  <2> HIDE DEF tmp
  <2> QED
    BY <1>2, <1>3, <1>4, <1>5, RestFour
<1>7. Neutrinos(r) \in {unlink(tmp) \o run_fastdf(r) \o merge_fastdf_particle_group(r)
               \o set_particle_attributes(r, Neutrino), Throw}
  BY DEF Neutrinos
<1> QED
  BY <1>6, <1>7, RestSync

\* What a rank does once the noise is exported.
AllSpecies(r) == ForEach(species_list, LAMBDA s : WriteSpecies(r, s))
Rest(r) == AllSpecies(r) \o Destruct(r) \o Sync("Barrier")

LEMMA SpeciesList ==
  ASSUME cfg \in Configs
  PROVE  /\ Len(species_list) \in Nat /\ DOMAIN species_list = 1 .. Len(species_list)
         /\ \A i \in DOMAIN species_list :
              species_list[i] \in {DM, Baryon} \/ (species_list[i] = Neutrino /\ cfg.neutrinos)
<1> DEFINE S == {DM, Baryon} \cup (IF cfg.neutrinos THEN {Neutrino} ELSE {})
           b == IF cfg.baryons THEN <<Baryon>> ELSE <<>>
           n == IF cfg.neutrinos THEN <<Neutrino>> ELSE <<>>
<1>1. <<DM>> \in Seq(S) /\ b \in Seq(S) /\ n \in Seq(S)
  <2>1. <<DM>> \in Seq(S) /\ <<Baryon>> \in Seq(S) /\ <<>> \in Seq(S)
    OBVIOUS
  <2>2. cfg.neutrinos => <<Neutrino>> \in Seq(S)
    OBVIOUS
  <2> HIDE DEF S
  <2> QED
    BY <2>1, <2>2
<1> HIDE DEF S, b, n
<1>2. <<DM>> \o b \o n \in Seq(S)
  BY <1>1, ConcatProperties
<1>3. species_list \in Seq(S)
  BY <1>2 DEF species_list, b, n
<1>4. \A x \in S : x \in {DM, Baryon} \/ (x = Neutrino /\ cfg.neutrinos)
  BY DEF S
<1> HIDE DEF species_list
<1> QED
  BY <1>3, <1>4, LenProperties

LEMMA RestSpecies ==
  ASSUME cfg \in Configs, NEW r, NEW s,
         s \in {DM, Baryon} \/ (s = Neutrino /\ cfg.neutrinos)
  PROVE  RestList(WriteSpecies(r, s))
<1>1. CASE s = Neutrino
  <2>1. cfg.neutrinos
    BY <1>1 DEF DM, Baryon, Neutrino
  <2>2. WriteSpecies(r, s) = Neutrinos(r)
    BY <1>1 DEF WriteSpecies
  <2> QED
    BY <2>1, <2>2, RestNeutrinos
<1>2. CASE s # Neutrino /\ cfg.format \in ParticleFormats
  <2>1. RestList(write_particle_data(r, s))
    BY <1>2, RestGadget, RestSwift, RestSync DEF write_particle_data, ParticleFormats, Gadget
  <2> QED
    BY <1>2, <2>1, RestSync, RestJoin DEF WriteSpecies
<1>3. CASE s # Neutrino /\ cfg.format \notin ParticleFormats
  <2>1. s \in {DM, Baryon} /\ cfg.format \in {"generic", "grafic2"}
    BY <1>3, ConfigFacts DEF ParticleFormats, Gadget
  <2> DEFINE Of(c) == Sync("FFT") \o write_grid_data(r, s, c)
             e == [i \in 1 .. 2 |-> Of(Components[i])]
  <2>2. ASSUME NEW c \in {"dx", "vx"} PROVE RestList(Of(c))
    <3>1. RestList(write_grid_data(r, s, c))
      BY <2>1, RestField, RestGrafic, OtherFiles DEF write_grid_data
    <3> QED
      BY <3>1, RestSync, RestJoin
  <2>3. DOMAIN Components = 1 .. 2 /\ \A i \in 1 .. 2 : Components[i] \in {"dx", "vx"}
    BY DEF Components
  <2> HIDE DEF Of
  <2>4. ForEach(Components, Of) = FlattenSeq(e)
    BY <2>3 DEF ForEach
  <2>5. DOMAIN e = 1 .. 2 /\ e = [i \in 1 .. 2 |-> e[i]] /\ \A i \in 1 .. 2 : RestList(e[i])
    BY <2>2, <2>3
  <2> HIDE DEF e
  <2>6. RestList(ForEach(Components, Of))
    BY <2>4, <2>5, RestEach
  <2>7. WriteSpecies(r, s) = ForEach(Components, Of)
    BY <1>3 DEF WriteSpecies, Of
  <2> QED
    BY <2>6, <2>7
<1> QED
  BY <1>1, <1>2, <1>3

LEMMA RestIsRest ==
  ASSUME cfg \in Configs, NEW r
  PROVE  RestList(Rest(r)) /\ RestList(AllSpecies(r))
<1> DEFINE Of(s) == WriteSpecies(r, s)
           n == Len(species_list)
           e == [i \in 1 .. n |-> Of(species_list[i])]
<1>1. ForEach(species_list, Of) = FlattenSeq(e)
  BY SpeciesList DEF ForEach
<1>2. DOMAIN e = 1 .. n /\ e = [i \in 1 .. n |-> e[i]] /\ \A i \in 1 .. n : RestList(e[i])
  BY SpeciesList, RestSpecies
<1>3. n \in Nat
  BY SpeciesList
<1> HIDE DEF e, n
<1>4. RestList(ForEach(species_list, Of))
  BY <1>1, <1>2, <1>3, RestEach
<1>5. RestList(ForEach(species_list, Of) \o Destruct(r) \o Sync("Barrier"))
  <2> HIDE DEF Of
  <2> QED
    BY <1>4, RestDestruct, RestSync, RestFour
<1> QED
  BY <1>4, <1>5 DEF Rest, AllSpecies

-----------------------------------------------------------------------------
(***************************************************************************)
(* The constructors stay away from the noise, too.                         *)
(***************************************************************************)
Calm(s) ==
  /\ s.op \in {"unlink", "create", "group", "attribute", "rmdir", "mkdir", "append"}
  /\ s.file # WhiteNoise
CalmList(c) == IsList(c) /\ \A i \in 1 .. Len(c) : Calm(c[i])

LEMMA CalmIsRest ==
  ASSUME NEW c, CalmList(c)
  PROVE  RestList(c)
BY DEF CalmList, Calm, RestList, InRest

LEMMA CalmJoin ==
  ASSUME NEW c, CalmList(c), NEW d, CalmList(d)
  PROVE  CalmList(c \o d)
<1>1. IsList(c) /\ IsList(d) /\ Len(c) \in Nat /\ Len(d) \in Nat
  BY ListFacts DEF CalmList
<1>2. /\ IsList(c \o d) /\ Len(c \o d) = Len(c) + Len(d)
      /\ \A i \in 1 .. Len(c) + Len(d) : (c \o d)[i] = IF i <= Len(c) THEN c[i] ELSE d[i - Len(c)]
  BY <1>1, Joined
<1>3. ASSUME NEW i \in 1 .. Len(c) + Len(d) PROVE Calm((c \o d)[i])
  <2>1. CASE i <= Len(c)
    <3>1. i \in 1 .. Len(c) /\ (c \o d)[i] = c[i]
      BY <1>1, <1>2, <2>1
    <3> QED
      BY <3>1 DEF CalmList
  <2>2. CASE ~(i <= Len(c))
    <3>1. i - Len(c) \in 1 .. Len(d) /\ (c \o d)[i] = d[i - Len(c)]
      BY <1>1, <1>2, <2>2
    <3> QED
      BY <3>1 DEF CalmList
  <2> QED
    BY <2>1, <2>2
<1> QED
  BY <1>2, <1>3 DEF CalmList

LEMMA CalmStep ==
  ASSUME NEW op \in {"unlink", "create", "group", "attribute", "rmdir", "mkdir", "append"},
         NEW file, file # WhiteNoise, NEW on, NEW val
  PROVE  CalmList(<<Step(op, file, on, val)>>)
<1> DEFINE x == Step(op, file, on, val)
<1>1. Calm(x)
  BY StepIs DEF Calm
<1> HIDE DEF x
<1>2. PICK c : c = <<x>>
  OBVIOUS
<1>3. IsList(c) /\ Len(c) = 1 /\ c[1] = x
  BY <1>2, OneStep
<1>4. \A i \in 1 .. Len(c) : c[i] = x
  BY <1>3
<1>5. CalmList(c)
  BY <1>1, <1>3, <1>4 DEF CalmList
<1> QED
  BY <1>2, <1>5 DEF x

LEMMA CalmOnly ==
  ASSUME NEW c, CalmList(c), NEW r, NEW q
  PROVE  CalmList(Only(r, q, c)) /\ CalmList(<<>>)
BY NoList DEF Only, CalmList

LEMMA CalmHDF ==
  ASSUME NEW f, f # WhiteNoise
  PROVE  /\ CalmList(unlink(f)) /\ CalmList(HDFCreateFile(f))
         /\ \A g : CalmList(HDFCreateGroup(f, g))
         /\ \A g, a : CalmList(HDFWriteGroupText(f, g, a))
         /\ CalmList(Parameters(f))
<1>1. /\ CalmList(unlink(f)) /\ CalmList(HDFCreateFile(f))
      /\ \A g : CalmList(HDFCreateGroup(f, g))
      /\ \A g, a : CalmList(HDFWriteGroupText(f, g, a))
  BY CalmStep DEF unlink, HDFCreateFile, HDFCreateGroup, HDFWriteGroupText
<1>2. CalmList(Parameters(f))
  BY <1>1, CalmJoin DEF Parameters
<1> QED
  BY <1>1, <1>2

\* The constructor, without the barrier that ends that of generic.
Begin(r) ==
  IF cfg.format = "generic"
    THEN Only(r, 0, unlink(SharedFile) \o HDFCreateFile(SharedFile)
                    \o HDFCreateGroup(SharedFile, "Header")
                    \o HDFWriteGroupText(SharedFile, "Header", "Boxsize"))
    ELSE Construct(r)

LEMMA ConstructIs ==
  ASSUME cfg \in Configs, NEW r
  PROVE  /\ CalmList(Begin(r))
         /\ cfg.format = "generic" => Construct(r) = Begin(r) \o Sync("Barrier")
         /\ cfg.format # "generic" => Construct(r) = Begin(r)
<1> DEFINE f == SharedFile
<1>1. GadgetFile(r) # WhiteNoise /\ ArepoFile(r) # WhiteNoise /\ f # WhiteNoise
      /\ Shared("ic") # WhiteNoise /\ Shared("ic/ramses.nml") # WhiteNoise
  BY OtherFiles
<1> HIDE DEF f
<1>2. CalmList(ConstructGadget(r)) /\ CalmList(ConstructArepo(r))
  BY <1>1, CalmHDF, CalmJoin DEF ConstructGadget, ConstructArepo
<1>3. CalmList(ConstructSwift(r))
  <2>1. /\ CalmList(unlink(f)) /\ CalmList(HDFCreateFile(f)) /\ CalmList(HDFCreateGroup(f, "Units"))
        /\ CalmList(HDFWriteGroupText(f, "Units", "Unit mass")) /\ CalmList(Parameters(f))
    BY <1>1, CalmHDF
  <2>2. CalmList(unlink(f) \o HDFCreateFile(f))
    BY <2>1, CalmJoin
  <2>3. CalmList(unlink(f) \o HDFCreateFile(f) \o HDFCreateGroup(f, "Units"))
    BY <2>1, <2>2, CalmJoin
  <2>4. CalmList(unlink(f) \o HDFCreateFile(f) \o HDFCreateGroup(f, "Units")
                 \o HDFWriteGroupText(f, "Units", "Unit mass"))
    BY <2>1, <2>3, CalmJoin
  <2>5. CalmList(unlink(f) \o HDFCreateFile(f) \o HDFCreateGroup(f, "Units")
                 \o HDFWriteGroupText(f, "Units", "Unit mass") \o Parameters(f))
    BY <2>1, <2>4, CalmJoin
  <2> QED
    BY <2>5, CalmOnly DEF ConstructSwift, f
<1>4. CalmList(Only(r, 0, unlink(f) \o HDFCreateFile(f) \o HDFCreateGroup(f, "Header")
                          \o HDFWriteGroupText(f, "Header", "Boxsize")))
  <2>1. /\ CalmList(unlink(f)) /\ CalmList(HDFCreateFile(f)) /\ CalmList(HDFCreateGroup(f, "Header"))
        /\ CalmList(HDFWriteGroupText(f, "Header", "Boxsize"))
    BY <1>1, CalmHDF
  <2>2. CalmList(unlink(f) \o HDFCreateFile(f))
    BY <2>1, CalmJoin
  <2>3. CalmList(unlink(f) \o HDFCreateFile(f) \o HDFCreateGroup(f, "Header"))
    BY <2>1, <2>2, CalmJoin
  <2>4. CalmList(unlink(f) \o HDFCreateFile(f) \o HDFCreateGroup(f, "Header")
                 \o HDFWriteGroupText(f, "Header", "Boxsize"))
    BY <2>1, <2>3, CalmJoin
  <2> QED
    BY <2>4, CalmOnly
<1>5. CalmList(ConstructGrafic(r))
  <2> DEFINE a == <<Step("rmdir", Shared("ic"), "", Unset)>>
             b == <<Step("mkdir", Shared("ic"), "", Unset)>>
             c == unlink(Shared("ic/ramses.nml"))
             d == <<Step("append", Shared("ic/ramses.nml"), "", <<0>>)>>
  <2>1. CalmList(a) /\ CalmList(b) /\ CalmList(c) /\ CalmList(d)
    BY <1>1, CalmStep, CalmHDF
  <2> HIDE DEF a, b, c, d
  <2>2. CalmList(a \o b) /\ CalmList(Only(r, 0, c \o d))
    BY <2>1, CalmJoin, CalmOnly
  <2>3. CalmList(a \o b \o Only(r, 0, c \o d))
    BY <2>2, CalmJoin
  <2> QED
    BY <2>3 DEF ConstructGrafic, a, b, c, d
<1>6. cfg.format \in Gadget \cup {"AREPO", "SWIFT", "generic", "genericio", "grafic2"}
  BY ConfigFacts DEF Gadget
<1>7. cfg.format # "generic" => CalmList(Construct(r))
  BY <1>2, <1>3, <1>5, <1>6, CalmOnly DEF Construct, Gadget
<1>8. CalmList(Begin(r))
  BY <1>4, <1>7 DEF Begin, f
<1>9. cfg.format = "generic" => Construct(r) = Begin(r) \o Sync("Barrier")
  BY DEF Begin, Construct, ConstructGeneric, Gadget
<1> QED
  BY <1>8, <1>9 DEF Begin

-----------------------------------------------------------------------------
(***************************************************************************)
(* The export: what every rank has left, from one collective to the next.  *)
(***************************************************************************)
unlinkNoise == Step("unlink", WhiteNoise, "", Unset)
ensureNoise == Step("ensure", WhiteNoise, "", Unset)
writeNoise(q) == Step(IF q = 0 THEN "field" ELSE "planes", WhiteNoise, noise_dset,
                      [values |-> Slab(q), offset |-> offsets0(q)])
wholeNoise == Step("dataset", WhiteNoise, noise_dset, WholeField)

\* The last collective, and the others of a distributed field.
ToEnd(rest) == Sync("FFT") \o rest
Turn(r, q) == Sync("Barrier") \o Only(r, q, <<writeNoise(q)>>)
TurnsFrom(r, q) == FlattenSeq([i \in 1 .. cfg.ranks - q |-> Turn(r, q + i - 1)])
ToTurn(rest, r, q) == TurnsFrom(r, q) \o ToEnd(rest)
ToSizes(rest, r) == Sync("Allreduce") \o ToTurn(rest, r, 0)
ToStarts(rest, r) == Sync("Allgather") \o ToSizes(rest, r)
ToOffsets(rest, r) == Sync("Allgather") \o ToStarts(rest, r)
ToFile(rest, r) == Sync("Barrier") \o ToOffsets(rest, r)
ToField(rest, r) == Sync("Barrier") \o (Only(r, 0, <<ensureNoise>>) \o ToFile(rest, r))
\* The first of a field that is on one rank.
ToReduce(rest, r) ==
  Sync("Reduce") \o (Only(r, 0, <<unlinkNoise, ensureNoise, wholeNoise>>) \o ToEnd(rest))
\* What follows the constructor.
Export(rest, r) == IF cfg.sampled THEN ToReduce(rest, r) ELSE Only(r, 0, <<unlinkNoise>>) \o ToField(rest, r)

LEMMA OneSync ==
  ASSUME NEW call, NEW c, IsList(c)
  PROVE  /\ IsList(Sync(call)) /\ IsList(Sync(call) \o c) /\ Sync(call) \o c # <<>>
         /\ Head(Sync(call) \o c).op = "sync" /\ Head(Sync(call) \o c).on = call
         /\ Tail(Sync(call) \o c) = c
<1> DEFINE x == Step("sync", NoFile, call, Unset)
<1>1. Sync(call) = <<x>> /\ x.op = "sync" /\ x.on = call
  BY StepIs DEF Sync
<1> HIDE DEF x
<1> QED
  BY <1>1, OneStep, FirstOfJoin

LEMMA TurnsAre ==
  ASSUME cfg \in Configs, NEW r
  PROVE  /\ TurnsFrom(r, cfg.ranks) = <<>>
         /\ \A q \in Rank : TurnsFrom(r, q) = Turn(r, q) \o TurnsFrom(r, q + 1)
         /\ \A q \in 0 .. cfg.ranks : IsList(TurnsFrom(r, q))
         /\ \A q : IsList(Turn(r, q)) /\ IsList(Only(r, q, <<writeNoise(q)>>))
<1>0. cfg.ranks \in Nat \ {0} /\ Rank = 0 .. cfg.ranks - 1
  BY ConfigFacts
<1>1. \A q : IsList(Turn(r, q)) /\ IsList(Only(r, q, <<writeNoise(q)>>))
  BY OneStep, NoList, OneSync, Joined DEF Turn, Only
<1>2. ASSUME NEW q \in 0 .. cfg.ranks
      PROVE  LET ss == [i \in 1 .. cfg.ranks - q |-> Turn(r, q + i - 1)] IN
             /\ IsList(ss) /\ Len(ss) = cfg.ranks - q
             /\ IsList(FlattenSeq(ss))
  <2> DEFINE n == cfg.ranks - q
             ss == [i \in 1 .. n |-> Turn(r, q + i - 1)]
             S == UNION {{ss[i][j] : j \in DOMAIN ss[i]} : i \in 1 .. n}
  <2>1. n \in Nat
    BY <1>0
  <2> HIDE DEF n
  <2>2. IsList(ss) /\ Len(ss) = n
    BY <2>1, ListOf
  <2>3. ASSUME NEW i \in 1 .. n PROVE ss[i] \in Seq(S)
    <3>1. IsList(ss[i])
      BY <1>1
    <3>2. {ss[i][j] : j \in DOMAIN ss[i]} \subseteq S
      OBVIOUS
    <3> HIDE DEF ss, S
    <3> QED
      BY <3>1, <3>2, SeqMonotonic DEF IsList
  <2>4. IsList(FlattenSeq(ss))
    <3> HIDE DEF ss, S
    <3> QED
      BY <2>2, <2>3, FlattenIn, ListIs
  <2> QED
    BY <2>2, <2>4 DEF n
<1>3. \A q \in 0 .. cfg.ranks : IsList(TurnsFrom(r, q))
  BY <1>2 DEF TurnsFrom
<1>4. TurnsFrom(r, cfg.ranks) = <<>>
  <2> DEFINE ss == [i \in 1 .. cfg.ranks - cfg.ranks |-> Turn(r, cfg.ranks + i - 1)]
  <2>1. IsList(ss) /\ Len(ss) = 0
    <3>1. cfg.ranks \in 0 .. cfg.ranks /\ cfg.ranks - cfg.ranks = 0
      BY <1>0
    <3>2. IsList(ss) /\ Len(ss) = cfg.ranks - cfg.ranks
      BY <1>2, <3>1
    <3> HIDE DEF ss
    <3> QED
      BY <3>1, <3>2
  <2> HIDE DEF ss
  <2>2. FlattenSeq(ss) = <<>>
    BY <2>1, ListFacts DEF FlattenSeq
  <2> QED
    BY <2>2 DEF TurnsFrom, ss
<1>5. ASSUME NEW q \in Rank PROVE TurnsFrom(r, q) = Turn(r, q) \o TurnsFrom(r, q + 1)
  <2> DEFINE n == cfg.ranks - q
             m == cfg.ranks - (q + 1)
             ss == [i \in 1 .. n |-> Turn(r, q + i - 1)]
             tt == [i \in 1 .. m |-> Turn(r, (q + 1) + i - 1)]
  <2>1. q \in 0 .. cfg.ranks /\ q + 1 \in 0 .. cfg.ranks /\ n \in Nat \ {0} /\ m = n - 1
        /\ q \in Nat
    BY <1>0
  <2>2. IsList(ss) /\ Len(ss) = n /\ IsList(tt) /\ Len(tt) = m
    BY <1>2, <2>1
  <2>3. ss[1] = Turn(r, q)
    <3>1. 1 \in 1 .. n /\ q + 1 - 1 = q
      BY <2>1
    <3> QED
      BY <3>1
  <2>4. \A i \in 1 .. n : IsList(ss[i])
    BY <1>1
  <2>5. Tail(ss) = tt
    <3>1. \A i \in 1 .. m : ss[i + 1] = tt[i]
      <4>1. ASSUME NEW i \in 1 .. m PROVE ss[i + 1] = tt[i]
        <5>1. i + 1 \in 1 .. n /\ q + (i + 1) - 1 = (q + 1) + i - 1
          BY <2>1
        <5> HIDE DEF n, m
        <5> QED
          BY <5>1
      <4> QED
        BY <4>1
    <3> HIDE DEF ss, tt, n, m
    <3>2. ss # <<>>
      BY <2>1, <2>2, NoList
    <3>3. IsList(Tail(ss)) /\ Len(Tail(ss)) = m /\ \A i \in 1 .. m : Tail(ss)[i] = ss[i + 1]
      BY <2>1, <2>2, <3>2, HeadAndTail
    <3> QED
      BY <2>2, <3>1, <3>3, SameList
  <2> HIDE DEF ss, tt, n, m
  <2>6. FlattenSeq(ss) = ss[1] \o FlattenSeq(Tail(ss))
    <3>1. ss # <<>>
      BY <2>1, <2>2, NoList
    <3> QED
      BY <2>2, <2>4, <3>1, FlattenFirst
  <2> QED
    BY <2>3, <2>5, <2>6 DEF TurnsFrom, ss, tt, n, m
<1> QED
  BY <1>1, <1>3, <1>4, <1>5

LEMMA ExportSteps ==
  ASSUME cfg \in Configs, NEW r, NEW rest, IsList(rest)
  PROVE  /\ \A q, s : IsList(Only(r, q, <<s>>))
         /\ IsList(Only(r, 0, <<unlinkNoise, ensureNoise, wholeNoise>>))
         /\ IsList(ToEnd(rest)) /\ IsList(ToSizes(rest, r)) /\ IsList(ToStarts(rest, r))
         /\ IsList(ToOffsets(rest, r)) /\ IsList(ToFile(rest, r)) /\ IsList(ToField(rest, r)) /\ IsList(ToReduce(rest, r))
         /\ IsList(Export(rest, r))
         /\ \A q \in 0 .. cfg.ranks : IsList(ToTurn(rest, r, q))
<1>1. \A q, s : IsList(Only(r, q, <<s>>))
  BY OneStep, NoList DEF Only
<1>2. IsList(Only(r, 0, <<unlinkNoise, ensureNoise, wholeNoise>>))
  <2>1. IsList(<<unlinkNoise, ensureNoise, wholeNoise>>)
    <3>1. <<unlinkNoise, ensureNoise, wholeNoise>>
             \in Seq({unlinkNoise, ensureNoise, wholeNoise})
      OBVIOUS
    <3> QED
      BY <3>1, ListIs
  <2> QED
    BY <2>1, NoList DEF Only
<1>4. IsList(ToEnd(rest))
  BY OneSync DEF ToEnd
<1>5. \A q \in 0 .. cfg.ranks : IsList(ToTurn(rest, r, q))
  BY <1>4, TurnsAre, Joined DEF ToTurn
<1>6. IsList(ToSizes(rest, r))
  <2>1. 0 \in 0 .. cfg.ranks
    BY ConfigFacts
  <2> QED
    BY <1>5, <2>1, OneSync DEF ToSizes
<1>7. IsList(ToStarts(rest, r)) /\ IsList(ToOffsets(rest, r)) /\ IsList(ToFile(rest, r))
  BY <1>6, OneSync DEF ToStarts, ToOffsets, ToFile
<1>8. IsList(ToField(rest, r))
  <2>1. IsList(Only(r, 0, <<ensureNoise>>) \o ToFile(rest, r))
    BY <1>1, <1>7, Joined
  <2> QED
    BY <2>1, OneSync DEF ToField
<1>9. IsList(ToReduce(rest, r))
  <2>1. IsList(Only(r, 0, <<unlinkNoise, ensureNoise, wholeNoise>>) \o ToEnd(rest))
    BY <1>2, <1>4, Joined
  <2> QED
    BY <2>1, OneSync DEF ToReduce
<1>10. IsList(Export(rest, r))
  <2>1. IsList(Only(r, 0, <<unlinkNoise>>) \o ToField(rest, r))
    BY <1>1, <1>8, Joined
  <2> QED
    BY <1>9, <2>1 DEF Export
<1> QED
  BY <1>1, <1>2, <1>4, <1>5, <1>6, <1>7, <1>8, <1>9, <1>10

\* A list that begins with a collective.
SyncFirst(c, t) == c # <<>> /\ Head(c).op = "sync" /\ Tail(c) = t

LEMMA ExportTails ==
  ASSUME cfg \in Configs, NEW r, NEW rest, IsList(rest)
  PROVE  /\ SyncFirst(ToEnd(rest), rest)
         /\ ToTurn(rest, r, cfg.ranks) = ToEnd(rest)
         /\ \A q \in Rank :
              SyncFirst(ToTurn(rest, r, q), Only(r, q, <<writeNoise(q)>>) \o ToTurn(rest, r, q + 1))
         /\ SyncFirst(ToSizes(rest, r), ToTurn(rest, r, 0)) /\ SyncFirst(ToStarts(rest, r), ToSizes(rest, r))
         /\ SyncFirst(ToOffsets(rest, r), ToStarts(rest, r)) /\ SyncFirst(ToFile(rest, r), ToOffsets(rest, r))
         /\ SyncFirst(ToField(rest, r), Only(r, 0, <<ensureNoise>>) \o ToFile(rest, r))
         /\ SyncFirst(ToReduce(rest, r),
                      Only(r, 0, <<unlinkNoise, ensureNoise, wholeNoise>>) \o ToEnd(rest))
<1>1. ASSUME NEW call, NEW c, IsList(c) PROVE SyncFirst(Sync(call) \o c, c)
  BY <1>1, OneSync DEF SyncFirst
<1>2. SyncFirst(ToEnd(rest), rest)
  BY <1>1, ExportSteps DEF ToEnd
<1>3. ToTurn(rest, r, cfg.ranks) = ToEnd(rest)
  <2>1. ToTurn(rest, r, cfg.ranks) = <<>> \o ToEnd(rest)
    BY TurnsAre DEF ToTurn
  <2>2. IsList(ToEnd(rest))
    BY ExportSteps
  <2> QED
    BY <2>1, <2>2, NoList
<1>4. ASSUME NEW q \in Rank
      PROVE  SyncFirst(ToTurn(rest, r, q), Only(r, q, <<writeNoise(q)>>) \o ToTurn(rest, r, q + 1))
  <2>1. q \in 0 .. cfg.ranks /\ q + 1 \in 0 .. cfg.ranks
    BY ConfigFacts
  <2>2. PICK s, o, t, e : /\ s = Sync("Barrier") /\ o = Only(r, q, <<writeNoise(q)>>)
                          /\ t = TurnsFrom(r, q + 1) /\ e = ToEnd(rest)
    OBVIOUS
  <2>3. IsList(s) /\ IsList(o) /\ IsList(t) /\ IsList(e)
    BY <2>1, <2>2, TurnsAre, ExportSteps, OneSync
  <2>4. ToTurn(rest, r, q) = ((s \o o) \o t) \o e /\ ToTurn(rest, r, q + 1) = t \o e
    BY <2>2, TurnsAre DEF ToTurn, Turn
  <2>5. ((s \o o) \o t) \o e = s \o (o \o (t \o e))
    <3>1. Lists(s, o, t, e)
      BY <2>3 DEF Lists
    <3> QED
      BY <3>1, JoinFour
  <2>6. IsList(t \o e)
    BY <2>3, Joined
  <2>7. IsList(o \o (t \o e))
    BY <2>3, <2>6, Joined
  <2>8. SyncFirst(s \o (o \o (t \o e)), o \o (t \o e))
    BY <1>1, <2>2, <2>7
  <2> QED
    BY <2>2, <2>4, <2>5, <2>8
<1>5. 0 \in 0 .. cfg.ranks
  BY ConfigFacts
<1>6. /\ SyncFirst(ToSizes(rest, r), ToTurn(rest, r, 0)) /\ SyncFirst(ToStarts(rest, r), ToSizes(rest, r))
      /\ SyncFirst(ToOffsets(rest, r), ToStarts(rest, r)) /\ SyncFirst(ToFile(rest, r), ToOffsets(rest, r))
  BY <1>1, <1>5, ExportSteps DEF ToSizes, ToStarts, ToOffsets, ToFile
<1>7. SyncFirst(ToField(rest, r), Only(r, 0, <<ensureNoise>>) \o ToFile(rest, r))
  <2>1. IsList(Only(r, 0, <<ensureNoise>>) \o ToFile(rest, r))
    BY ExportSteps, Joined
  <2> QED
    BY <1>1, <2>1 DEF ToField
<1>8. SyncFirst(ToReduce(rest, r), Only(r, 0, <<unlinkNoise, ensureNoise, wholeNoise>>) \o ToEnd(rest))
  <2>1. IsList(Only(r, 0, <<unlinkNoise, ensureNoise, wholeNoise>>) \o ToEnd(rest))
    BY ExportSteps, Joined
  <2> QED
    BY <1>1, <2>1 DEF ToReduce
<1> QED
  BY <1>2, <1>3, <1>4, <1>6, <1>7, <1>8

LEMMA FieldIs ==
  ASSUME cfg \in Configs, NEW r
  PROVE  WriteField(r, WhiteNoise, noise_dset)
           = Only(r, 0, <<ensureNoise>>) \o Sync("Barrier") \o Sync("Allgather")
             \o Sync("Allgather") \o Sync("Allreduce") \o TurnsFrom(r, 0)
<1> DEFINE Own(q) == Sync("Barrier")
              \o Only(r, q, <<Step(IF q = 0 THEN "field" ELSE "planes", WhiteNoise, noise_dset,
                                   [values |-> Slab(r), offset |-> offsets0(r)])>>)
<1>1. \A q : Own(q) = Turn(r, q)
  BY DEF Turn, Only, writeNoise
<1> HIDE DEF Own
<1>2. ForEach(RanksInOrder, Own) = TurnsFrom(r, 0)
  <2>1. cfg.ranks \in Nat /\ DOMAIN RanksInOrder = 1 .. cfg.ranks /\ cfg.ranks - 0 = cfg.ranks
    BY RanksList
  <2>2. \A i \in 1 .. cfg.ranks : Own(RanksInOrder[i]) = Turn(r, 0 + i - 1)
    <3>1. \A i \in 1 .. cfg.ranks : RanksInOrder[i] = 0 + i - 1
      BY <2>1 DEF RanksInOrder
    <3> QED
      BY <1>1, <3>1
  <2>3. [i \in 1 .. cfg.ranks |-> Own(RanksInOrder[i])] = [i \in 1 .. cfg.ranks |-> Turn(r, 0 + i - 1)]
    BY <2>2
  <2> QED
    BY <2>1, <2>3 DEF ForEach, TurnsFrom
<1> QED
  BY <1>2 DEF WriteField, Own, ensureNoise

LEMMA ThreeSteps ==
  ASSUME NEW a, NEW b, NEW c
  PROVE  <<a>> \o (<<b>> \o <<c>>) = <<a, b, c>> /\ IsList(<<a, b, c>>)
<1>1. PICK x, y, z, t : x = <<a>> /\ y = <<b>> /\ z = <<c>> /\ t = <<a, b, c>>
  OBVIOUS
<1>2. /\ IsList(x) /\ Len(x) = 1 /\ x[1] = a /\ IsList(y) /\ Len(y) = 1 /\ y[1] = b
      /\ IsList(z) /\ Len(z) = 1 /\ z[1] = c
  BY <1>1, OneStep
<1>3. IsList(t) /\ Len(t) = 3 /\ t[1] = a /\ t[2] = b /\ t[3] = c
  <2>1. <<a, b, c>> \in Seq({a, b, c})
    OBVIOUS
  <2>2. IsList(<<a, b, c>>)
    BY <2>1, ListIs
  <2> QED
    BY <1>1, <2>2
<1>4. PICK u : u = y \o z
  OBVIOUS
<1>5. IsList(u) /\ Len(u) = 2 /\ u[1] = b /\ u[2] = c
  <2>1. IsList(y) /\ IsList(z)
    BY <1>2
  <2>2. /\ IsList(y \o z) /\ Len(y \o z) = Len(y) + Len(z)
        /\ \A i \in 1 .. Len(y) + Len(z) :
             (y \o z)[i] = IF i <= Len(y) THEN y[i] ELSE z[i - Len(y)]
    BY <2>1, Joined
  <2> QED
    BY <1>2, <1>4, <2>2
<1>6. PICK v : v = x \o u
  OBVIOUS
<1>7. IsList(v) /\ Len(v) = 3 /\ v[1] = a /\ v[2] = b /\ v[3] = c
  <2>1. IsList(x) /\ IsList(u)
    BY <1>2, <1>5
  <2>2. /\ IsList(x \o u) /\ Len(x \o u) = Len(x) + Len(u)
        /\ \A i \in 1 .. Len(x) + Len(u) :
             (x \o u)[i] = IF i <= Len(x) THEN x[i] ELSE u[i - Len(x)]
    BY <2>1, Joined
  <2> QED
    BY <1>2, <1>5, <1>6, <2>2
<1>8. v = t
  <2>1. \A i \in 1 .. 3 : v[i] = t[i]
    BY <1>3, <1>7
  <2> QED
    BY <1>3, <1>7, <2>1, SameList
<1> QED
  BY <1>1, <1>3, <1>4, <1>6, <1>8

LEMMA SameOnly ==
  ASSUME NEW r
  PROVE  Only(r, 0, <<unlinkNoise>>) \o Only(r, 0, <<ensureNoise>> \o <<wholeNoise>>)
           = Only(r, 0, <<unlinkNoise, ensureNoise, wholeNoise>>)
<1>1. CASE r = 0
  <2>1. PICK a, b, c : a = unlinkNoise /\ b = ensureNoise /\ c = wholeNoise
    OBVIOUS
  <2>2. <<a>> \o (<<b>> \o <<c>>) = <<a, b, c>>
    BY ThreeSteps
  <2> QED
    BY <1>1, <2>1, <2>2 DEF Only
<1>2. CASE r # 0
  <2>1. <<>> \o <<>> = <<>>
    BY NoList
  <2> QED
    BY <1>2, <2>1 DEF Only
<1> QED
  BY <1>1, <1>2

\* The export, put together from one collective to the next.
LEMMA ExportIs ==
  ASSUME cfg \in Configs, cfg.neutrinos, NEW r
  PROVE  IsList(ExportNoise(r)) /\ ExportNoise(r) \o Rest(r) = Export(Rest(r), r)
<1>1. PICK o, b, f, s, e :
        /\ o = Only(r, 0, <<unlinkNoise>>) /\ b = Sync("Barrier") /\ s = Sync("FFT")
        /\ f = WriteField(r, WhiteNoise, noise_dset) /\ e = Rest(r)
  OBVIOUS
<1>2. IsList(o) /\ IsList(b) /\ IsList(s) /\ IsList(e)
  <2>1. IsList(Rest(r))
    BY RestIsRest DEF RestList
  <2>2. IsList(Only(r, 0, <<unlinkNoise>>))
    BY <2>1, ExportSteps
  <2>3. IsList(Sync("Barrier")) /\ IsList(Sync("FFT"))
    BY NoList, OneSync
  <2> QED
    BY <1>1, <2>1, <2>2, <2>3
<1>3. CASE ~cfg.sampled
  <2>1. PICK p, g, z, t :
          /\ p = Only(r, 0, <<ensureNoise>>) /\ g = Sync("Allgather") /\ z = Sync("Allreduce")
          /\ t = TurnsFrom(r, 0)
    OBVIOUS
  <2>2. IsList(p) /\ IsList(g) /\ IsList(z) /\ IsList(t)
    <3>1. 0 \in 0 .. cfg.ranks
      BY ConfigFacts
    <3> QED
      BY <2>1, <3>1, ExportSteps, OneSync, NoList, TurnsAre
  <2>3. f = ((((p \o b) \o g) \o g) \o z) \o t
    BY <1>1, <2>1, FieldIs
  <2>4. PICK w : w = p \o b
    OBVIOUS
  <2>5. PICK u : u = (w \o g) \o g
    OBVIOUS
  <2>6. IsList(w) /\ IsList(u) /\ IsList(f)
    <3>1. IsList(w)
      BY <1>2, <2>2, <2>4, Joined
    <3>2. IsList(w \o g)
      BY <3>1, <2>2, Joined
    <3>3. IsList(u)
      BY <3>2, <2>2, <2>5, Joined
    <3>4. IsList(u \o z)
      BY <3>3, <2>2, Joined
    <3>5. IsList((u \o z) \o t)
      BY <3>4, <2>2, Joined
    <3> QED
      BY <3>1, <3>3, <3>5, <2>3, <2>4, <2>5
  <2>7. PICK end, sizes, offsets :
          /\ end = ToEnd(Rest(r)) /\ sizes = ToSizes(Rest(r), r) /\ offsets = ToOffsets(Rest(r), r)
    OBVIOUS
  <2>8. /\ IsList(end) /\ IsList(sizes) /\ IsList(offsets) /\ end = s \o e
        /\ sizes = z \o (t \o end) /\ offsets = g \o (g \o sizes)
    <3>1. IsList(Rest(r))
      BY <1>1, <1>2
    <3>2. IsList(end) /\ IsList(sizes) /\ IsList(offsets)
      BY <2>7, <3>1, ExportSteps
    <3>3. end = s \o e /\ sizes = z \o (t \o end) /\ offsets = g \o (g \o sizes)
      BY <1>1, <2>1, <2>7 DEF ToEnd, ToSizes, ToStarts, ToOffsets, ToTurn
    <3> QED
      BY <3>2, <3>3
  <2>9. f \o end = u \o sizes
    <3>1. Lists(u, z, t, end)
      BY <2>2, <2>6, <2>8 DEF Lists
    <3>2. ((u \o z) \o t) \o end = u \o (z \o (t \o end))
      BY <3>1, JoinFour
    <3> QED
      BY <2>3, <2>4, <2>5, <2>8, <3>2
  <2>10. u \o sizes = w \o offsets
    <3>1. Lists(w, g, g, sizes)
      BY <2>2, <2>6, <2>8 DEF Lists
    <3>2. ((w \o g) \o g) \o sizes = w \o (g \o (g \o sizes))
      BY <3>1, JoinFour
    <3> QED
      BY <2>5, <2>8, <3>2
  <2>11. w \o offsets = p \o (b \o offsets)
    <3>1. Lists(p, b, offsets, offsets)
      BY <1>2, <2>2, <2>8 DEF Lists
    <3>2. (p \o b) \o offsets = p \o (b \o offsets)
      BY <3>1, JoinThree
    <3> QED
      BY <2>4, <3>2
  <2>12. f \o end = p \o (b \o offsets)
    BY <2>9, <2>10, <2>11
  <2>13. b \o (f \o end) = ToField(Rest(r), r)
    BY <1>1, <2>1, <2>7, <2>12 DEF ToField, ToFile
  <2>14. ExportNoise(r) = ((o \o b) \o f) \o s
    BY <1>1, <1>3 DEF ExportNoise, When, unlink, unlinkNoise, Only
  <2>15. PICK y : y = o \o b
    OBVIOUS
  <2>16. IsList(y) /\ IsList(y \o f)
    <3>1. IsList(y)
      BY <1>2, <2>15, Joined
    <3> QED
      BY <3>1, <2>6, Joined
  <2>17. IsList((y \o f) \o s)
    BY <1>2, <2>16, Joined
  <2>18. ((y \o f) \o s) \o e = y \o (f \o end)
    <3>1. Lists(y, f, s, e)
      BY <1>2, <2>6, <2>16 DEF Lists
    <3>2. ((y \o f) \o s) \o e = y \o (f \o (s \o e))
      BY <3>1, JoinFour
    <3> QED
      BY <2>8, <3>2
  <2>19. PICK x : x = f \o end
    OBVIOUS
  <2>20. IsList(x)
    BY <2>6, <2>8, <2>19, Joined
  <2>21. (o \o b) \o x = o \o (b \o x)
    BY <1>2, <2>20, JoinAssociates
  <2>22. ((y \o f) \o s) \o e = o \o ToField(Rest(r), r)
    BY <2>13, <2>15, <2>18, <2>19, <2>21
  <2> QED
    BY <1>1, <1>3, <2>14, <2>15, <2>17, <2>22 DEF Export
<1>4. CASE cfg.sampled
  <2>1. PICK d, m, z, a :
          /\ d = Sync("Reduce") /\ m = Only(r, 0, <<ensureNoise>> \o <<wholeNoise>>)
          /\ z = ToEnd(Rest(r)) /\ a = Only(r, 0, <<unlinkNoise, ensureNoise, wholeNoise>>)
    OBVIOUS
  <2>2. ExportNoise(r) = ((d \o o) \o m) \o s
    BY <1>1, <1>4, <2>1 DEF ExportNoise, When, unlink, unlinkNoise, ensureNoise, wholeNoise,
       WriteLocalField, HDFWriteDataset
  <2>3. IsList(d) /\ IsList(m) /\ IsList(z) /\ IsList(a) /\ z = s \o e /\ o \o m = a
    <3>1. IsList(<<ensureNoise>> \o <<wholeNoise>>)
      BY OneStep, Joined
    <3>2. IsList(m)
      BY <2>1, <3>1, NoList DEF Only
    <3>3. IsList(Rest(r))
      BY <1>1, <1>2
    <3>4. IsList(z) /\ IsList(a)
      BY <2>1, <3>3, ExportSteps
    <3>5. IsList(d)
      BY <2>1, NoList, OneSync
    <3>6. z = s \o e
      BY <1>1, <2>1 DEF ToEnd
    <3>7. o \o m = a
      BY <1>1, <2>1, SameOnly
    <3> QED
      BY <3>2, <3>4, <3>5, <3>6, <3>7
  <2>4. (d \o o) \o m = d \o a
    <3>1. Lists(d, o, m, m)
      BY <1>2, <2>3 DEF Lists
    <3>2. (d \o o) \o m = d \o (o \o m)
      BY <3>1, JoinThree
    <3> QED
      BY <2>3, <3>2
  <2>5. PICK y : y = d \o a
    OBVIOUS
  <2>6. IsList(y) /\ IsList(y \o s)
    <3>1. IsList(y)
      BY <2>3, <2>5, Joined
    <3> QED
      BY <1>2, <3>1, Joined
  <2>7. (y \o s) \o e = d \o (a \o z)
    <3>1. Lists(d, a, s, e)
      BY <1>2, <2>3 DEF Lists
    <3>2. ((d \o a) \o s) \o e = d \o (a \o (s \o e))
      BY <3>1, JoinFour
    <3> QED
      BY <2>3, <2>5, <3>2
  <2>8. ToReduce(Rest(r), r) = d \o (a \o z)
    BY <2>1 DEF ToReduce
  <2> QED
    BY <1>1, <1>4, <2>2, <2>4, <2>5, <2>6, <2>7, <2>8 DEF Export
<1> QED
  BY <1>3, <1>4

LEMMA ProgramIs ==
  ASSUME cfg \in Configs, NEW r
  PROVE  /\ cfg.neutrinos => Program(r) = Construct(r) \o Export(Rest(r), r)
         /\ ~cfg.neutrinos => RestList(Program(r))
<1>1. PICK c, n, f, d, s, e :
        /\ c = Construct(r) /\ n = ExportNoise(r) /\ d = Destruct(r) /\ s = Sync("Barrier")
        /\ f = AllSpecies(r) /\ e = Rest(r)
  OBVIOUS
<1>2. Program(r) = (((c \o n) \o f) \o d) \o s /\ e = (f \o d) \o s
  BY <1>1 DEF Program, Rest, AllSpecies
<1>3. RestList(c) /\ RestList(f) /\ RestList(d) /\ RestList(s) /\ RestList(e)
  <2>1. RestList(c)
    BY <1>1, ConstructIs, CalmIsRest, RestSync, RestJoin
  <2>2. RestList(f)
    BY <1>1, RestIsRest
  <2>3. RestList(d)
    BY <1>1, RestDestruct
  <2>4. RestList(s)
    BY <1>1, RestSync
  <2>5. RestList(e)
    BY <1>1, RestIsRest
  <2> QED
    BY <2>1, <2>2, <2>3, <2>4, <2>5
<1>4. CASE cfg.neutrinos
  <2>1. IsList(c) /\ IsList(n) /\ IsList(f) /\ IsList(d) /\ IsList(s) /\ IsList(e)
    BY <1>1, <1>3, <1>4, ExportIs DEF RestList
  <2>2. PICK x : x = c \o n
    OBVIOUS
  <2>3. IsList(x)
    BY <2>1, <2>2, Joined
  <2>4. ((x \o f) \o d) \o s = x \o (f \o (d \o s))
    <3>1. Lists(x, f, d, s)
      BY <2>1, <2>3 DEF Lists
    <3> QED
      BY <3>1, JoinFour
  <2>5. (f \o d) \o s = f \o (d \o s)
    <3>1. Lists(f, d, s, s)
      BY <2>1 DEF Lists
    <3> QED
      BY <3>1, JoinThree
  <2>6. (c \o n) \o e = c \o (n \o e)
    <3>1. Lists(c, n, e, e)
      BY <2>1 DEF Lists
    <3> QED
      BY <3>1, JoinThree
  <2>7. n \o e = Export(Rest(r), r)
    BY <1>1, <1>4, ExportIs
  <2> QED
    BY <1>1, <1>2, <1>4, <2>2, <2>4, <2>5, <2>6, <2>7
<1>5. CASE ~cfg.neutrinos
  <2>1. n = <<>> \o Sync("FFT")
    BY <1>1, <1>5 DEF ExportNoise, When
  <2>2. RestList(n)
    BY <2>1, RestNothing, RestSync, RestJoin
  <2>3. RestList(((c \o n) \o f) \o d)
    BY <1>3, <2>2, RestFour
  <2> QED
    BY <1>2, <1>3, <1>5, <2>3, RestJoin
<1> QED
  BY <1>4, <1>5

-----------------------------------------------------------------------------
(***************************************************************************)
(* What depends on the configuration alone stays, as the configuration     *)
(* does.                                                                   *)
(***************************************************************************)
TableSum(f, S) == (CHOOSE h : IsSumTable(h, f, S))[S]
StartOf(f, r) == IF f[r] = 0 THEN 0 ELSE TableSum(f, 0 .. r - 1)
OffsetOf(f, r) ==
  LET ends == {StartOf(f, q) + f[q] : q \in 0 .. (r - 1)} IN Max({StartOf(f, r)} \cup ends)
SlabOf(f, r) == [i \in 0 .. f[r] - 1 |-> <<StartOf(f, r) + i>>]
WriteOf(f, q) == Step(IF q = 0 THEN "field" ELSE "planes", WhiteNoise, noise_dset,
                      [values |-> SlabOf(f, q), offset |-> OffsetOf(f, q)])
FieldOf(c) == [p \in 0 .. TableSum(c.planes, 0 .. (c.ranks - 1)) - 1 |-> <<p>>]
TurnsOf(c, r, q) ==
  FlattenSeq([i \in 1 .. c.ranks - q |->
                Sync("Barrier") \o Only(r, q + i - 1, <<WriteOf(c.planes, q + i - 1)>>)])

LEMMA PlanesSum ==
  ASSUME NEW S
  PROVE  MapThenSumSet(Planes, S) = TableSum(cfg.planes, S)
<1> DEFINE g == CHOOSE h : IsSumTable(h, cfg.planes, S)
<1>1. MapThenSumSet(Planes, S) = g[S]
  BY DEF MapThenSumSet, MapThenFoldSet, Planes, IsSumTable, SumStep, OneOf
<1>2. g[S] = TableSum(cfg.planes, S)
  BY DEF TableSum
<1> HIDE DEF g
<1> QED
  BY <1>1, <1>2

LEMMA PlanesFixed ==
  /\ \A q : Before(q) = TableSum(cfg.planes, 0 .. q - 1)
  /\ AllPlanes = TableSum(cfg.planes, 0 .. (cfg.ranks - 1))
  /\ WholeField = FieldOf(cfg)
<1>1. ASSUME NEW q PROVE Before(q) = TableSum(cfg.planes, 0 .. q - 1)
  <2> DEFINE S == 0 .. q - 1
  <2>1. Before(q) = MapThenSumSet(Planes, S)
    BY DEF Before
  <2> HIDE DEF S
  <2>2. MapThenSumSet(Planes, S) = TableSum(cfg.planes, S)
    BY PlanesSum
  <2> QED
    BY <2>1, <2>2 DEF S
<1>2. AllPlanes = TableSum(cfg.planes, 0 .. (cfg.ranks - 1))
  <2>1. MapThenSumSet(Planes, Rank) = TableSum(cfg.planes, Rank)
    BY PlanesSum
  <2> QED
    BY <2>1 DEF AllPlanes, Rank
<1>3. WholeField = FieldOf(cfg)
  BY <1>2 DEF WholeField, FieldOf
<1> QED
  BY <1>1, <1>2, <1>3

LEMMA WriteFixed == \A q : writeNoise(q) = WriteOf(cfg.planes, q)
<1>1. ASSUME NEW q PROVE local_0_start(q) = StartOf(cfg.planes, q)
  <2>1. local_0_start(q) = IF Planes(q) = 0 THEN 0 ELSE Before(q)
    BY DEF local_0_start, Before
  <2>2. Before(q) = TableSum(cfg.planes, 0 .. q - 1)
    BY PlanesFixed
  <2> QED
    BY <2>1, <2>2 DEF StartOf, Planes
<1>2. \A q : offsets0(q) = OffsetOf(cfg.planes, q)
  <2>1. ASSUME NEW q
        PROVE  {local_0_start(p) + Planes(p) : p \in 0 .. (q - 1)}
                 = {StartOf(cfg.planes, p) + cfg.planes[p] : p \in 0 .. (q - 1)}
    BY <1>1 DEF Planes
  <2> QED
    BY <1>1, <2>1 DEF offsets0, OffsetOf
<1>3. \A q : Slab(q) = SlabOf(cfg.planes, q)
  BY <1>1 DEF Slab, SlabOf, Planes
<1> QED
  BY <1>2, <1>3 DEF writeNoise, WriteOf

LEMMA TurnsFixed == \A r, q : TurnsFrom(r, q) = TurnsOf(cfg, r, q)
<1>1. \A r, q : Turn(r, q) = Sync("Barrier") \o Only(r, q, <<WriteOf(cfg.planes, q)>>)
  BY WriteFixed DEF Turn
<1>2. ASSUME NEW r, NEW q
      PROVE  [i \in 1 .. cfg.ranks - q |-> Turn(r, q + i - 1)]
               = [i \in 1 .. cfg.ranks - q |->
                    Sync("Barrier") \o Only(r, q + i - 1, <<WriteOf(cfg.planes, q + i - 1)>>)]
  BY <1>1
<1> QED
  BY <1>2 DEF TurnsFrom, TurnsOf

LEMMA Stays ==
  ASSUME cfg' = cfg
  PROVE  /\ Rank' = Rank
         /\ \A q : Before(q)' = Before(q)
         /\ AllPlanes' = AllPlanes /\ WholeField' = WholeField
         /\ \A q : writeNoise(q)' = writeNoise(q)
         /\ wholeNoise' = wholeNoise
         /\ \A r, q : TurnsFrom(r, q)' = TurnsFrom(r, q)
<1>1. (/\ \A q : Before(q) = TableSum(cfg.planes, 0 .. q - 1)
       /\ AllPlanes = TableSum(cfg.planes, 0 .. (cfg.ranks - 1))
       /\ WholeField = FieldOf(cfg))'
  BY PlanesFixed, PTL
<1>2. (\A q : writeNoise(q) = WriteOf(cfg.planes, q))'
  BY WriteFixed, PTL
<1>3. (\A r, q : TurnsFrom(r, q) = TurnsOf(cfg, r, q))'
  BY TurnsFixed, PTL
<1>4. Rank' = Rank
  BY DEF Rank
<1>5. (\A q : Before(q)' = Before(q)) /\ AllPlanes' = AllPlanes /\ WholeField' = WholeField
  BY <1>1, PlanesFixed
<1>6. \A q : writeNoise(q)' = writeNoise(q)
  BY <1>2, WriteFixed
<1>7. \A r, q : TurnsFrom(r, q)' = TurnsFrom(r, q)
  BY <1>3, TurnsFixed
<1>8. wholeNoise' = wholeNoise
  BY <1>5 DEF wholeNoise
<1> QED
  BY <1>4, <1>5, <1>6, <1>7, <1>8

LEMMA ExportStays ==
  ASSUME cfg' = cfg
  PROVE  /\ \A rest, r, q : ToTurn(rest, r, q)' = ToTurn(rest, r, q)
         /\ \A rest, r : /\ ToSizes(rest, r)' = ToSizes(rest, r)
                         /\ ToStarts(rest, r)' = ToStarts(rest, r)
                         /\ ToOffsets(rest, r)' = ToOffsets(rest, r)
                         /\ ToFile(rest, r)' = ToFile(rest, r)
                         /\ ToField(rest, r)' = ToField(rest, r)
                         /\ ToReduce(rest, r)' = ToReduce(rest, r)
                         /\ Export(rest, r)' = Export(rest, r)
<1>1. \A rest, r, q : ToTurn(rest, r, q)' = ToTurn(rest, r, q)
  BY Stays DEF ToTurn
<1>2. \A rest, r : ToSizes(rest, r)' = ToSizes(rest, r)
  BY <1>1 DEF ToSizes
<1>3. \A rest, r : ToStarts(rest, r)' = ToStarts(rest, r)
  BY <1>2 DEF ToStarts
<1>4. \A rest, r : ToOffsets(rest, r)' = ToOffsets(rest, r)
  BY <1>3 DEF ToOffsets
<1>5. \A rest, r : ToFile(rest, r)' = ToFile(rest, r)
  BY <1>4 DEF ToFile
<1>6. \A rest, r : ToField(rest, r)' = ToField(rest, r)
  BY <1>5 DEF ToField
<1>7. \A rest, r : ToReduce(rest, r)' = ToReduce(rest, r)
  BY Stays DEF ToReduce
<1>8. \A rest, r : Export(rest, r)' = Export(rest, r)
  BY <1>6, <1>7 DEF Export
<1> QED
  BY <1>1, <1>2, <1>3, <1>4, <1>5, <1>6, <1>7, <1>8

-----------------------------------------------------------------------------
(***************************************************************************)
(* One step of one rank.                                                   *)
(***************************************************************************)

\* Only one file changes.
OnlyFile(f) ==
  \A g : g # f => /\ g \in DOMAIN fs' <=> g \in DOMAIN fs
                  /\ g \in DOMAIN fs => fs'[g] = fs[g]

\* The rank opens the file of its next step, or it ends the step.
Opens(r, s) ==
  /\ s.op \in Edits /\ held[r] = NoFile /\ Exists(s.file) /\ Free(s.file)
  /\ held' = [held EXCEPT ![r] = s.file]
  /\ fs' = fs /\ code' = code
Ends(r, s) ==
  /\ code' = [code EXCEPT ![r] = Tail(@)]
  /\ OnlyFile(s.file)
  /\ \/ s.op \notin Edits /\ held' = held
     \/ s.op \in Edits /\ held' = [held EXCEPT ![r] = NoFile]

\* The steps up to the end of the export.
Early == {"unlink", "create", "group", "attribute", "rmdir", "mkdir", "append", "ensure",
          "dataset", "field", "planes"}

LEMMA SetsOneFile ==
  ASSUME NEW f
  PROVE  /\ (\E x : SetFile(f, x)) => OnlyFile(f)
         /\ DropFile(f) => OnlyFile(f)
         /\ UNCHANGED fs => OnlyFile(f)
<1>1. ASSUME NEW x, SetFile(f, x) PROVE OnlyFile(f)
  BY <1>1 DEF SetFile, OnlyFile, Updated
<1>2. DropFile(f) => OnlyFile(f)
  BY DEF DropFile, OnlyFile
<1>3. UNCHANGED fs => OnlyFile(f)
  BY DEF OnlyFile
<1> QED
  BY <1>1, <1>2, <1>3

\* The edits of an HDF5 file have this much in common.
LEMMA EditEnds ==
  ASSUME held \in [Rank -> {held[q] : q \in Rank}], NEW r \in Rank,
         \/ CreateGroup(r) \/ CreateAttribute(r) \/ CreateDataset(r) \/ CreateEmpty(r)
         \/ WriteChunk(r) \/ CreateField(r) \/ WritePlanes(r)
  PROVE  Ends(r, Head(code[r])) /\ UNCHANGED <<cfg, seen, dead>>
<1> DEFINE s == Head(code[r])
           Common == /\ s.op \in Edits /\ code' = [code EXCEPT ![r] = Tail(@)]
                     /\ held' = [held EXCEPT ![r] = NoFile]
                     /\ (\E x : SetFile(s.file, x)) \/ UNCHANGED fs
                     /\ UNCHANGED <<cfg, seen, dead>>
<1>1. CreateGroup(r) => Common
  BY DEF CreateGroup, Edit, At, Pop, Refuse, Edits
<1>2. CreateAttribute(r) => Common
  BY DEF CreateAttribute, Edit, At, Pop, Refuse, Edits
<1>3. CreateDataset(r) => Common
  BY DEF CreateDataset, Edit, At, Pop, Refuse, Edits
<1>4. CreateEmpty(r) => Common
  BY DEF CreateEmpty, Edit, At, Pop, Refuse, Edits
<1>5. WriteChunk(r) => Common
  BY DEF WriteChunk, Edit, At, Pop, Refuse, Edits
<1>6. CreateField(r) => Common
  BY DEF CreateField, Edit, At, Pop, Refuse, Edits
<1>7. WritePlanes(r) => Common
  BY DEF WritePlanes, Edit, At, Pop, Refuse, Edits
<1>8. Common
  <2> HIDE DEF Common
  <2> QED
    BY <1>1, <1>2, <1>3, <1>4, <1>5, <1>6, <1>7
<1>9. OnlyFile(s.file)
  <2> HIDE DEF s
  <2> QED
    BY <1>8, SetsOneFile
<1> QED
  BY <1>8, <1>9 DEF Ends

LEMMA OpenEnds ==
  ASSUME held \in [Rank -> {held[q] : q \in Rank}], NEW r \in Rank, Open(r)
  PROVE  /\ Opens(r, Head(code[r])) \/ Ends(r, Head(code[r]))
         /\ UNCHANGED <<cfg, fs, seen, dead>>
<1> DEFINE s == Head(code[r])
<1>1. s.op \in Edits /\ held[r] = NoFile /\ UNCHANGED <<cfg, fs, seen, dead>>
  BY DEF Open
<1>2. OnlyFile(s.file)
  BY <1>1 DEF OnlyFile
<1>3. CASE Exists(s.file) /\ Free(s.file)
  BY <1>1, <1>3 DEF Open, Opens
<1>4. CASE ~(Exists(s.file) /\ Free(s.file))
  <2>1. code' = [code EXCEPT ![r] = Tail(@)] /\ held' = held
    BY <1>4 DEF Open, Refuse, Pop
  <2>2. held' = [held EXCEPT ![r] = NoFile]
    BY <1>1, <2>1
  <2> QED
    BY <1>1, <1>2, <2>1, <2>2 DEF Ends
<1> QED
  BY <1>1, <1>3, <1>4

LEMMA FileEnds ==
  ASSUME NEW r \in Rank,
         \/ Unlink(r) \/ RemoveDirectory(r) \/ MakeDirectory(r) \/ CreateFile(r) \/ PutFile(r)
         \/ AppendRecord(r)
  PROVE  Ends(r, Head(code[r])) /\ UNCHANGED <<cfg, seen, dead, held>>
<1> DEFINE s == Head(code[r])
           Common == /\ s.op \notin Edits /\ code' = [code EXCEPT ![r] = Tail(@)]
                     /\ (\E x : SetFile(s.file, x)) \/ DropFile(s.file) \/ UNCHANGED fs
                     /\ UNCHANGED <<cfg, seen, dead, held>>
<1>1. Unlink(r) => Common
  BY DEF Unlink, At, Pop, Edits
<1>2. RemoveDirectory(r) => Common
  BY DEF RemoveDirectory, At, Pop, Edits
<1>3. MakeDirectory(r) => Common
  BY DEF MakeDirectory, At, Pop, Edits
<1>4. CreateFile(r) => Common
  BY DEF CreateFile, At, Pop, Edits
<1>5. PutFile(r) => Common
  BY DEF PutFile, At, Pop, Edits
<1>6. AppendRecord(r) => Common
  BY DEF AppendRecord, At, Pop, Edits
<1>7. Common
  <2> HIDE DEF Common
  <2> QED
    BY <1>1, <1>2, <1>3, <1>4, <1>5, <1>6
<1>8. OnlyFile(s.file)
  <2> HIDE DEF s
  <2> QED
    BY <1>7, SetsOneFile
<1> QED
  BY <1>7, <1>8 DEF Ends

\* Before the end of the export nobody has terminated, and whoever has the
\* file of the noise open is about to edit it.
Tables == DOMAIN code = Rank /\ DOMAIN seen = Rank /\ held \in [Rank -> {held[q] : q \in Rank}]
HeldRight ==
  \A q \in Rank : held[q] = WhiteNoise =>
    code[q] # <<>> /\ Head(code[q]).file = WhiteNoise /\ Head(code[q]).op \in Edits

LEMMA EarlyStep ==
  ASSUME cfg \in Configs, Tables, dead = {}, NEW r \in Rank, RankStep(r),
         Head(code[r]).op \in Early
  PROVE  /\ Opens(r, Head(code[r])) \/ Ends(r, Head(code[r]))
         /\ UNCHANGED <<cfg, seen, dead>>
<1> DEFINE s == Head(code[r])
<1>1. held \in [Rank -> {held[q] : q \in Rank}]
  BY DEF Tables
<1>2. ~ReadNoise(r) /\ ~NoteCounts(r) /\ ~MergeOpen(r) /\ ~MergeCopy(r) /\ ~ThrowOut(r) /\ ~Kill(r)
  BY DEF ReadNoise, NoteCounts, MergeOpen, MergeCopy, ThrowOut, Kill, At, Early
<1>3. CASE \/ Unlink(r) \/ RemoveDirectory(r) \/ MakeDirectory(r) \/ CreateFile(r) \/ PutFile(r)
           \/ AppendRecord(r)
  BY <1>3, FileEnds
<1>4. CASE Open(r)
  BY <1>1, <1>4, OpenEnds
<1>5. CASE \/ CreateGroup(r) \/ CreateAttribute(r) \/ CreateDataset(r) \/ CreateEmpty(r)
           \/ WriteChunk(r) \/ CreateField(r) \/ WritePlanes(r)
  BY <1>1, <1>5, EditEnds
<1> QED
  BY <1>2, <1>3, <1>4, <1>5 DEF RankStep

\* Nobody takes a collective alone.
LEMMA WaitsForAll ==
  ASSUME dead = {}, NEW r, code[r] = <<>> \/ Head(code[r]).op = "sync"
  PROVE  ~RankStep(r)
<1>1. /\ ~Unlink(r) /\ ~RemoveDirectory(r) /\ ~MakeDirectory(r) /\ ~CreateFile(r) /\ ~PutFile(r)
      /\ ~AppendRecord(r)
  BY DEF Unlink, RemoveDirectory, MakeDirectory, CreateFile, PutFile, AppendRecord, At
<1>2. ~Open(r)
  BY DEF Open, Edits
<1>3. /\ ~CreateGroup(r) /\ ~CreateAttribute(r) /\ ~CreateDataset(r) /\ ~CreateEmpty(r)
      /\ ~WriteChunk(r) /\ ~CreateField(r) /\ ~WritePlanes(r)
  BY DEF CreateGroup, CreateAttribute, CreateDataset, CreateEmpty, WriteChunk, CreateField,
     WritePlanes, Edit, At
<1>4. ~ReadNoise(r) /\ ~NoteCounts(r) /\ ~MergeOpen(r) /\ ~MergeCopy(r) /\ ~ThrowOut(r)
  BY DEF ReadNoise, NoteCounts, MergeOpen, MergeCopy, ThrowOut, At
<1> QED
  BY <1>1, <1>2, <1>3, <1>4 DEF RankStep, Kill

LEMMA HeldStaysRight ==
  ASSUME cfg \in Configs, Tables, HeldRight, cfg' = cfg, NEW r \in Rank, code[r] # <<>>,
         Opens(r, Head(code[r])) \/ Ends(r, Head(code[r]))
  PROVE  HeldRight' /\ DOMAIN code' = Rank /\ held' \in [Rank -> {held'[q] : q \in Rank}]
<1>0. NoFile # WhiteNoise
  BY OtherFiles
<1>1. Rank' = Rank /\ DOMAIN code = Rank /\ DOMAIN held = Rank
      /\ held = [q \in Rank |-> held[q]]
  BY DEF Rank, Tables
<1>2. \A q \in Rank \ {r} : held'[q] = held[q] /\ code'[q] = code[q]
  BY <1>1 DEF Opens, Ends
<1>3. held'[r] = WhiteNoise => code'[r] # <<>> /\ Head(code'[r]).file = WhiteNoise
                               /\ Head(code'[r]).op \in Edits
  <2>1. CASE Opens(r, Head(code[r]))
    <3>1. held'[r] = Head(code[r]).file /\ code'[r] = code[r] /\ Head(code[r]).op \in Edits
      BY <1>1, <2>1 DEF Opens
    <3> QED
      BY <3>1
  <2>2. CASE Ends(r, Head(code[r]))
    <3>1. CASE Head(code[r]).op \in Edits
      <4>1. held'[r] = NoFile
        BY <1>1, <2>2, <3>1 DEF Ends
      <4> QED
        BY <1>0, <4>1
    <3>2. CASE Head(code[r]).op \notin Edits
      <4>1. held'[r] = held[r]
        BY <1>1, <2>2, <3>2 DEF Ends
      <4> QED
        BY <3>2, <4>1 DEF HeldRight
    <3> QED
      BY <3>1, <3>2
  <2> QED
    BY <2>1, <2>2
<1>4. HeldRight'
  BY <1>1, <1>2, <1>3 DEF HeldRight
<1>5. DOMAIN code' = Rank
  BY <1>1 DEF Opens, Ends
<1>6. held' = [q \in Rank |-> held'[q]]
  BY <1>1 DEF Opens, Ends
<1> QED
  BY <1>4, <1>5, <1>6

\* The steps that touch the file of the noise.
LEMMA NoiseSteps ==
  /\ unlinkNoise.op = "unlink" /\ unlinkNoise.file = WhiteNoise
  /\ ensureNoise.op = "ensure" /\ ensureNoise.file = WhiteNoise
  /\ wholeNoise.op = "dataset" /\ wholeNoise.file = WhiteNoise
  /\ wholeNoise.on = noise_dset /\ wholeNoise.val = WholeField
  /\ \A q : /\ writeNoise(q).op = IF q = 0 THEN "field" ELSE "planes"
           /\ writeNoise(q).file = WhiteNoise /\ writeNoise(q).on = noise_dset
           /\ writeNoise(q).val = [values |-> Slab(q), offset |-> offsets0(q)]
<1>1. unlinkNoise.op = "unlink" /\ unlinkNoise.file = WhiteNoise
  BY DEF unlinkNoise, Step
<1>2. ensureNoise.op = "ensure" /\ ensureNoise.file = WhiteNoise
  BY DEF ensureNoise, Step
<1>3. /\ wholeNoise.op = "dataset" /\ wholeNoise.file = WhiteNoise
      /\ wholeNoise.on = noise_dset /\ wholeNoise.val = WholeField
  BY DEF wholeNoise, Step
<1>4. ASSUME NEW q
      PROVE  /\ writeNoise(q).op = IF q = 0 THEN "field" ELSE "planes"
             /\ writeNoise(q).file = WhiteNoise /\ writeNoise(q).on = noise_dset
             /\ writeNoise(q).val = [values |-> Slab(q), offset |-> offsets0(q)]
  BY DEF writeNoise, Step
<1> QED
  BY <1>1, <1>2, <1>3, <1>4

LEMMA UnlinkedNoise ==
  ASSUME NEW r \in Rank, dead = {}, RankStep(r), Head(code[r]) = unlinkNoise
  PROVE  WhiteNoise \notin DOMAIN fs'
<1>1. Head(code[r]).op = "unlink" /\ Head(code[r]).file = WhiteNoise
  BY NoiseSteps
<1>2. /\ ~RemoveDirectory(r) /\ ~MakeDirectory(r) /\ ~CreateFile(r) /\ ~PutFile(r)
      /\ ~AppendRecord(r)
  BY <1>1 DEF RemoveDirectory, MakeDirectory, CreateFile, PutFile, AppendRecord, At
<1>3. ~Open(r)
  BY <1>1 DEF Open, Edits
<1>4. /\ ~CreateGroup(r) /\ ~CreateAttribute(r) /\ ~CreateDataset(r) /\ ~CreateEmpty(r)
      /\ ~WriteChunk(r) /\ ~CreateField(r) /\ ~WritePlanes(r)
  BY <1>1 DEF CreateGroup, CreateAttribute, CreateDataset, CreateEmpty, WriteChunk, CreateField,
     WritePlanes, Edit, At
<1>5. ~ReadNoise(r) /\ ~NoteCounts(r) /\ ~MergeOpen(r) /\ ~MergeCopy(r) /\ ~ThrowOut(r) /\ ~Kill(r)
  BY <1>1 DEF ReadNoise, NoteCounts, MergeOpen, MergeCopy, ThrowOut, Kill, At
<1>6. Unlink(r)
  BY <1>2, <1>3, <1>4, <1>5 DEF RankStep
<1> QED
  BY <1>1, <1>6 DEF Unlink, DropFile

LEMMA EnsuredNoise ==
  ASSUME NEW r \in Rank, dead = {}, RankStep(r), Head(code[r]) = ensureNoise
  PROVE  /\ WhiteNoise \in DOMAIN fs'
         /\ fs'[WhiteNoise] = IF WhiteNoise \in DOMAIN fs THEN fs[WhiteNoise] ELSE NewFile
<1>1. Head(code[r]).op = "ensure" /\ Head(code[r]).file = WhiteNoise
  BY NoiseSteps
<1>2. /\ ~Unlink(r) /\ ~RemoveDirectory(r) /\ ~MakeDirectory(r) /\ ~PutFile(r)
      /\ ~AppendRecord(r)
  BY <1>1 DEF Unlink, RemoveDirectory, MakeDirectory, PutFile, AppendRecord, At
<1>3. ~Open(r)
  BY <1>1 DEF Open, Edits
<1>4. /\ ~CreateGroup(r) /\ ~CreateAttribute(r) /\ ~CreateDataset(r) /\ ~CreateEmpty(r)
      /\ ~WriteChunk(r) /\ ~CreateField(r) /\ ~WritePlanes(r)
  BY <1>1 DEF CreateGroup, CreateAttribute, CreateDataset, CreateEmpty, WriteChunk, CreateField,
     WritePlanes, Edit, At
<1>5. ~ReadNoise(r) /\ ~NoteCounts(r) /\ ~MergeOpen(r) /\ ~MergeCopy(r) /\ ~ThrowOut(r) /\ ~Kill(r)
  BY <1>1 DEF ReadNoise, NoteCounts, MergeOpen, MergeCopy, ThrowOut, Kill, At
<1>6. CreateFile(r)
  BY <1>2, <1>3, <1>4, <1>5 DEF RankStep
<1> QED
  BY <1>1, <1>6 DEF CreateFile, SetFile, Exists, At, Updated

\* The ranks before q have written their planes.
Filled(q) ==
  LET file == fs[WhiteNoise] IN
    /\ WhiteNoise \in DOMAIN fs
    /\ q = 0 => file = NewFile
    /\ q # 0 => /\ "data" \in DOMAIN file /\ noise_dset \in DOMAIN file.data
                /\ file.data[noise_dset]
                     = [i \in 0 .. AllPlanes - 1 |-> file.data[noise_dset][i]]
                /\ \A i \in 0 .. AllPlanes - 1 :
                     i < Before(q) => file.data[noise_dset][i] = <<i>>

LEMMA PatchedPlanes ==
  ASSUME cfg \in Configs, NEW q \in Rank, NEW old, DOMAIN old = 0 .. AllPlanes - 1,
         \A i \in 0 .. AllPlanes - 1 : i < Before(q) => old[i] = <<i>>,
         NEW new, new = Patched(old, Slab(q), offsets0(q))
  PROVE  /\ new = [i \in 0 .. AllPlanes - 1 |-> new[i]]
         /\ \A i \in 0 .. AllPlanes - 1 : i < Before(q + 1) => new[i] = <<i>>
<1>1. /\ Before(q) \in Nat /\ Planes(q) \in Nat /\ Before(q + 1) = Before(q) + Planes(q)
      /\ AllPlanes \in Nat
  <2>1. q \in 0 .. cfg.ranks /\ cfg.ranks \in 0 .. cfg.ranks
    BY ConfigFacts
  <2> QED
    BY <2>1, PlanesAdd
<1>2. new = [i \in 0 .. AllPlanes - 1 |->
               IF i - offsets0(q) \in DOMAIN Slab(q) THEN Slab(q)[i - offsets0(q)] ELSE old[i]]
  BY DEF Patched
<1>3. DOMAIN Slab(q) = 0 .. Planes(q) - 1
      /\ \A i \in 0 .. Planes(q) - 1 : Slab(q)[i] = <<local_0_start(q) + i>>
  BY DEF Slab
<1>4. ASSUME NEW i \in 0 .. AllPlanes - 1, i < Before(q + 1) PROVE new[i] = <<i>>
  <2>1. CASE Planes(q) = 0
    <3>1. DOMAIN Slab(q) = {}
      BY <1>3, <2>1
    <3>2. new[i] = old[i]
      BY <1>2, <3>1
    <3> QED
      BY <1>1, <1>4, <2>1, <3>2
  <2>2. CASE Planes(q) # 0
    <3>1. local_0_start(q) = Before(q) /\ offsets0(q) = Before(q)
      BY <2>2, SlabStarts
    <3>2. CASE i < Before(q)
      <4>1. i - offsets0(q) \notin 0 .. Planes(q) - 1
        BY <1>1, <3>1, <3>2
      <4> QED
        BY <1>2, <1>3, <3>2, <4>1
    <3>3. CASE ~(i < Before(q))
      <4>1. i - offsets0(q) \in 0 .. Planes(q) - 1
        BY <1>1, <1>4, <3>1, <3>3
      <4>2. new[i] = <<local_0_start(q) + (i - offsets0(q))>>
        BY <1>2, <1>3, <4>1
      <4>3. local_0_start(q) + (i - offsets0(q)) = i
        BY <1>1, <3>1
      <4> QED
        BY <4>2, <4>3
    <3> QED
      BY <3>2, <3>3
  <2> QED
    BY <2>1, <2>2
<1> QED
  BY <1>2, <1>4

\* The rank that edits the noise opens it first, and nobody keeps it from
\* doing so.
LEMMA NoiseOpens ==
  ASSUME cfg \in Configs, Tables, dead = {}, NEW r \in Rank, RankStep(r), held[r] = NoFile,
         Head(code[r]).op \in {"field", "planes", "dataset"}, Head(code[r]).file = WhiteNoise,
         WhiteNoise \in DOMAIN fs, \A p \in Rank \ {r} : held[p] # WhiteNoise
  PROVE  Opens(r, Head(code[r]))
<1>1. NoFile # WhiteNoise
  BY OtherFiles
<1>2. /\ ~Unlink(r) /\ ~RemoveDirectory(r) /\ ~MakeDirectory(r) /\ ~CreateFile(r) /\ ~PutFile(r)
      /\ ~AppendRecord(r)
  BY DEF Unlink, RemoveDirectory, MakeDirectory, CreateFile, PutFile, AppendRecord, At
<1>3. /\ ~CreateGroup(r) /\ ~CreateAttribute(r) /\ ~CreateDataset(r) /\ ~CreateEmpty(r)
      /\ ~WriteChunk(r) /\ ~CreateField(r) /\ ~WritePlanes(r)
  BY DEF CreateGroup, CreateAttribute, CreateDataset, CreateEmpty, WriteChunk, CreateField,
     WritePlanes, Edit
<1>4. ~ReadNoise(r) /\ ~NoteCounts(r) /\ ~MergeOpen(r) /\ ~MergeCopy(r) /\ ~ThrowOut(r) /\ ~Kill(r)
  BY DEF ReadNoise, NoteCounts, MergeOpen, MergeCopy, ThrowOut, Kill, At
<1>5. Open(r)
  BY <1>2, <1>3, <1>4 DEF RankStep
<1>6. Exists(WhiteNoise) /\ Free(WhiteNoise)
  BY <1>1 DEF Exists, Free
<1> QED
  BY <1>5, <1>6 DEF Open, Opens

\* The edit of the noise by a rank that has its file open.
LEMMA NoiseEdited ==
  ASSUME dead = {}, NEW r \in Rank, RankStep(r), held[r] # NoFile,
         Head(code[r]).op \in {"field", "planes", "dataset"}
  PROVE  /\ Head(code[r]).op = "field" => CreateField(r)
         /\ Head(code[r]).op = "planes" => WritePlanes(r)
         /\ Head(code[r]).op = "dataset" => CreateDataset(r)
<1>1. /\ ~Unlink(r) /\ ~RemoveDirectory(r) /\ ~MakeDirectory(r) /\ ~CreateFile(r) /\ ~PutFile(r)
      /\ ~AppendRecord(r)
  BY DEF Unlink, RemoveDirectory, MakeDirectory, CreateFile, PutFile, AppendRecord, At
<1>2. ~Open(r)
  BY DEF Open
<1>3. /\ ~CreateGroup(r) /\ ~CreateAttribute(r) /\ ~CreateEmpty(r) /\ ~WriteChunk(r)
      /\ CreateDataset(r) => Head(code[r]).op = "dataset"
      /\ CreateField(r) => Head(code[r]).op = "field"
      /\ WritePlanes(r) => Head(code[r]).op = "planes"
  BY DEF CreateGroup, CreateAttribute, CreateDataset, CreateEmpty, WriteChunk, CreateField,
     WritePlanes, Edit, At
<1>4. ~ReadNoise(r) /\ ~NoteCounts(r) /\ ~MergeOpen(r) /\ ~MergeCopy(r) /\ ~ThrowOut(r) /\ ~Kill(r)
  BY DEF ReadNoise, NoteCounts, MergeOpen, MergeCopy, ThrowOut, Kill, At
<1>5. CreateDataset(r) \/ CreateField(r) \/ WritePlanes(r)
  BY <1>1, <1>2, <1>3, <1>4 DEF RankStep
<1> QED
  BY <1>3, <1>5

LEMMA EmptyFile ==
  /\ NewFile.data = [d \in {} |-> Unset] /\ DOMAIN NewFile.data = {}
  /\ HasGroup(NewFile, noise_dset[1])
BY DEF NewFile, HasGroup, noise_dset

\* What the file holds once values are written into it.
LEMMA NoiseWritten ==
  ASSUME NEW values, fs' = Updated(fs, WhiteNoise, WithData(fs[WhiteNoise], noise_dset, values)),
         "data" \in DOMAIN fs[WhiteNoise]
  PROVE  /\ WhiteNoise \in DOMAIN fs' /\ "data" \in DOMAIN fs'[WhiteNoise] /\ noise_dset \in DOMAIN fs'[WhiteNoise].data
         /\ fs'[WhiteNoise].data[noise_dset] = values
<1>1. WhiteNoise \in DOMAIN fs' /\ fs'[WhiteNoise] = WithData(fs[WhiteNoise], noise_dset, values)
  BY DEF Updated
<1>2. fs'[WhiteNoise].data = Updated(fs[WhiteNoise].data, noise_dset, values)
  BY <1>1 DEF WithData
<1>3. "data" \in DOMAIN fs'[WhiteNoise]
  BY <1>1 DEF WithData
<1> QED
  BY <1>1, <1>2, <1>3 DEF Updated

LEMMA PlanesWritten ==
  ASSUME cfg \in Configs, Tables, dead = {}, cfg' = cfg, NEW q \in Rank, RankStep(q),
         code[q] # <<>>, Head(code[q]) = writeNoise(q), Filled(q),
         \A p \in Rank \ {q} : held[p] # WhiteNoise
  PROVE  Opens(q, Head(code[q])) \/ Filled(q + 1)'
<1> DEFINE file == fs[WhiteNoise]
           at == offsets0(q)
<1>0. /\ Head(code[q]).op = IF q = 0 THEN "field" ELSE "planes"
      /\ Head(code[q]).file = WhiteNoise /\ Head(code[q]).on = noise_dset
      /\ Head(code[q]).val.values = Slab(q) /\ Head(code[q]).val.offset = at
  <2>1. /\ writeNoise(q).op = IF q = 0 THEN "field" ELSE "planes"
        /\ writeNoise(q).file = WhiteNoise /\ writeNoise(q).on = noise_dset
        /\ writeNoise(q).val = [values |-> Slab(q), offset |-> at]
    BY NoiseSteps
  <2> QED
    BY <2>1
<1>1. q \in Nat /\ q + 1 # 0 /\ Before(q) \in Nat /\ AllPlanes \in Nat
  <2>1. q \in 0 .. cfg.ranks /\ cfg.ranks \in 0 .. cfg.ranks
    BY ConfigFacts
  <2> QED
    BY <2>1, ConfigFacts, PlanesAdd
<1>2. WhiteNoise \in DOMAIN fs
  BY DEF Filled
<1>3. CASE held[q] = NoFile
  <2>1. Head(code[q]).op \in {"field", "planes", "dataset"}
    BY <1>0
  <2> QED
    BY <1>0, <1>2, <1>3, <2>1, NoiseOpens
<1>4. CASE held[q] # NoFile
  <2> DEFINE old == IF q = 0 THEN Blank(AllPlanes) ELSE file.data[noise_dset]
             new == Patched(old, Slab(q), at)
  <2>1. DOMAIN old = 0 .. AllPlanes - 1 /\ "data" \in DOMAIN file
    <3>1. CASE q = 0
      <4>1. DOMAIN Blank(AllPlanes) = 0 .. AllPlanes - 1
        BY DEF Blank
      <4>2. "data" \in DOMAIN file
        BY <3>1 DEF Filled, NewFile
      <4> QED
        BY <3>1, <4>1, <4>2
    <3>2. CASE q # 0
      BY <3>2 DEF Filled
    <3> QED
      BY <3>1, <3>2
  <2>2. \A i \in 0 .. AllPlanes - 1 : i < Before(q) => old[i] = <<i>>
    <3>1. CASE q = 0
      <4>1. Before(q) = 0
        BY <3>1, PlanesAdd
      <4>2. \A i \in 0 .. AllPlanes - 1 : ~(i < Before(q))
        BY <1>1, <4>1
      <4> QED
        BY <4>2
    <3>2. CASE q # 0
      BY <3>2 DEF Filled
    <3> QED
      BY <3>1, <3>2
  <2>3. /\ new = [i \in 0 .. AllPlanes - 1 |-> new[i]]
        /\ \A i \in 0 .. AllPlanes - 1 : i < Before(q + 1) => new[i] = <<i>>
    <3> HIDE DEF old
    <3> QED
      BY <2>1, <2>2, PatchedPlanes
  <2>4. fs' = Updated(fs, WhiteNoise, WithData(file, noise_dset, new))
    <3>1. CASE q = 0
      <4>1. CreateField(q)
        BY <1>0, <1>4, <3>1, NoiseEdited
      <4>2. NewDataset(file, Head(code[q]))
        BY <1>0, <3>1, EmptyFile DEF NewDataset, Filled
      <4> HIDE DEF file
      <4>3. SetFile(WhiteNoise, WithData(file, noise_dset,
                                         Patched(Blank(AllPlanes), Slab(q), at)))
        BY <1>0, <4>1, <4>2 DEF CreateField, Edit, file
      <4> QED
        BY <3>1, <4>3 DEF SetFile, file
    <3>2. CASE q # 0
      <4>1. WritePlanes(q)
        BY <1>0, <1>4, <3>2, NoiseEdited
      <4>2. noise_dset \in DOMAIN file.data
        BY <3>2 DEF Filled
      <4> HIDE DEF file
      <4>3. SetFile(WhiteNoise, WithData(file, noise_dset,
                                         Patched(file.data[noise_dset], Slab(q), at)))
        BY <1>0, <4>1, <4>2 DEF WritePlanes, Edit, file
      <4> QED
        BY <3>2, <4>3 DEF SetFile, file
    <3> QED
      BY <3>1, <3>2
  <2> HIDE DEF new
  <2>5. /\ WhiteNoise \in DOMAIN fs' /\ noise_dset \in DOMAIN fs'[WhiteNoise].data
        /\ fs'[WhiteNoise].data[noise_dset] = new /\ "data" \in DOMAIN fs'[WhiteNoise]
    BY <2>1, <2>4, NoiseWritten
  <2>6. Before(q + 1)' = Before(q + 1) /\ AllPlanes' = AllPlanes
    BY Stays
  <2> QED
    BY <1>1, <2>3, <2>5, <2>6 DEF Filled
<1> QED
  BY <1>3, <1>4

\* The noise is all there.
NoiseIsThere ==
  /\ WhiteNoise \in DOMAIN fs
  /\ fs[WhiteNoise].data[noise_dset] = WholeField

LEMMA WholeWritten ==
  ASSUME cfg \in Configs, Tables, dead = {}, cfg' = cfg, NEW r \in Rank, RankStep(r),
         code[r] # <<>>, Head(code[r]) = wholeNoise,
         WhiteNoise \in DOMAIN fs, fs[WhiteNoise] = NewFile,
         \A p \in Rank \ {r} : held[p] # WhiteNoise
  PROVE  Opens(r, Head(code[r])) \/ NoiseIsThere'
<1> DEFINE file == fs[WhiteNoise]
<1>0. /\ Head(code[r]).op = "dataset" /\ Head(code[r]).file = WhiteNoise
      /\ Head(code[r]).on = noise_dset /\ Head(code[r]).val = WholeField
  BY NoiseSteps
<1>1. CASE held[r] = NoFile
  <2>1. Head(code[r]).op \in {"field", "planes", "dataset"}
    BY <1>0
  <2> QED
    BY <1>0, <1>1, <2>1, NoiseOpens
<1>2. CASE held[r] # NoFile
  <2>1. CreateDataset(r)
    BY <1>0, <1>2, NoiseEdited
  <2>2. NewDataset(file, Head(code[r]))
    BY <1>0, EmptyFile DEF NewDataset
  <2>3. "data" \in DOMAIN file
    BY DEF NewFile
  <2> HIDE DEF file
  <2>4. fs' = Updated(fs, WhiteNoise, WithData(file, noise_dset, WholeField))
    BY <1>0, <2>1, <2>2 DEF CreateDataset, Edit, file, SetFile
  <2>5. /\ WhiteNoise \in DOMAIN fs' /\ fs'[WhiteNoise].data[noise_dset] = WholeField
    BY <2>3, <2>4, NoiseWritten DEF file
  <2>6. WholeField' = WholeField
    BY Stays
  <2> QED
    BY <2>5, <2>6 DEF NoiseIsThere
<1> QED
  BY <1>1, <1>2

LEMMA FilledIsWhole ==
  ASSUME cfg \in Configs, Filled(cfg.ranks)
  PROVE  NoiseIsThere
<1>1. cfg.ranks # 0 /\ AllPlanes = Before(cfg.ranks) /\ AllPlanes \in Nat
  <2>1. cfg.ranks \in 0 .. cfg.ranks /\ cfg.ranks # 0
    BY ConfigFacts
  <2> QED
    BY <2>1, PlanesAdd
<1>2. \A i \in 0 .. AllPlanes - 1 : fs[WhiteNoise].data[noise_dset][i] = <<i>>
  <2>1. \A i \in 0 .. AllPlanes - 1 : i < Before(cfg.ranks)
    BY <1>1
  <2> QED
    BY <1>1, <2>1 DEF Filled
<1>3. fs[WhiteNoise].data[noise_dset]
        = [i \in 0 .. AllPlanes - 1 |-> fs[WhiteNoise].data[noise_dset][i]]
  BY <1>1 DEF Filled
<1> QED
  BY <1>2, <1>3 DEF NoiseIsThere, Filled, WholeField

-----------------------------------------------------------------------------
(***************************************************************************)
(* After the export.                                                       *)
(***************************************************************************)
After ==
  /\ \A r \in Rank : RestList(code[r])
  /\ cfg.neutrinos => NoiseIsThere
  /\ \A r \in Rank : seen[r] \in {Unset, WholeField}

LEMMA RestTail ==
  ASSUME NEW c, RestList(c), c # <<>>
  PROVE  InRest(Head(c)) /\ RestList(Tail(c))
<1>1. IsList(c)
  BY DEF RestList
<1>2. /\ Head(c) = c[1] /\ IsList(Tail(c)) /\ Len(Tail(c)) = Len(c) - 1 /\ Len(c) > 0
      /\ \A i \in 1 .. Len(c) - 1 : Tail(c)[i] = c[i + 1]
  BY <1>1, HeadAndTail
<1>3. Len(c) \in Nat
  BY <1>1, ListFacts
<1>4. InRest(Head(c))
  <2>1. 1 \in 1 .. Len(c)
    BY <1>2, <1>3
  <2> QED
    BY <1>2, <2>1 DEF RestList
<1>5. ASSUME NEW i \in 1 .. Len(Tail(c)) PROVE InRest(Tail(c)[i])
  <2>1. i \in 1 .. Len(c) - 1 /\ i + 1 \in 1 .. Len(c)
    BY <1>2, <1>3
  <2>2. InRest(c[i + 1])
    BY <2>1 DEF RestList
  <2> QED
    BY <1>2, <2>1, <2>2
<1> QED
  BY <1>2, <1>4, <1>5 DEF RestList

LEMMA AfterKept ==
  ASSUME cfg' = cfg, After,
         WhiteNoise \in DOMAIN fs => WhiteNoise \in DOMAIN fs' /\ fs'[WhiteNoise] = fs[WhiteNoise],
         \A q \in Rank : \/ code'[q] = code[q] \/ code'[q] = <<>>
                         \/ code[q] # <<>> /\ code'[q] = Tail(code[q]),
         \A q \in Rank : seen'[q] \in {seen[q], WholeField}
  PROVE  After'
<1>1. Rank' = Rank /\ WholeField' = WholeField
  BY Stays
<1>3. \A q \in Rank : RestList(code'[q])
  BY RestTail, RestNothing DEF After
<1>4. \A q \in Rank : RestList(code[q])'
  BY <1>3 DEF RestList, InRest
<1>5. cfg.neutrinos => NoiseIsThere'
  BY <1>1 DEF After, NoiseIsThere
<1>6. \A q \in Rank : seen'[q] \in {Unset, WholeField}
  BY DEF After
<1> QED
  BY <1>1, <1>4, <1>5, <1>6 DEF After

LEMMA AfterStep ==
  ASSUME cfg \in Configs, DOMAIN code = Rank, DOMAIN seen = Rank, After, NEW r \in Rank,
         RankStep(r)
  PROVE  cfg' = cfg /\ After' /\ DOMAIN code' = Rank /\ DOMAIN seen' = Rank
<1> DEFINE s == Head(code[r])
<1>1. code[r] # <<>> => InRest(s)
  BY RestTail DEF After
<1> DEFINE Popped == code[r] # <<>> /\ code' = [code EXCEPT ![r] = Tail(@)]
           Stopped == code' = [code EXCEPT ![r] = <<>>]
           Kept == WhiteNoise \in DOMAIN fs =>
                     WhiteNoise \in DOMAIN fs' /\ fs'[WhiteNoise] = fs[WhiteNoise]
           Good == /\ cfg' = cfg /\ Kept
                   /\ Popped \/ Stopped \/ code' = code
                   /\ seen' = seen \/ seen' = [seen EXCEPT ![r] = WholeField]
<1>2. ASSUME \/ Unlink(r) \/ RemoveDirectory(r) \/ MakeDirectory(r) \/ CreateFile(r) \/ PutFile(r)
             \/ AppendRecord(r)
      PROVE  Good
  <2>1. code[r] # <<>> /\ s.op # "read"
    BY <1>2 DEF Unlink, RemoveDirectory, MakeDirectory, CreateFile, PutFile, AppendRecord, At
  <2>2. Ends(r, s) /\ UNCHANGED <<cfg, seen, dead, held>>
    BY <1>2, FileEnds
  <2>3. s.file # WhiteNoise
    BY <1>1, <2>1 DEF InRest
  <2> HIDE DEF s
  <2> QED
    BY <2>1, <2>2, <2>3 DEF Ends, OnlyFile
<1>3. ASSUME Open(r)
      PROVE  Good
  BY <1>3 DEF Open, Refuse, Pop
<1>4. ASSUME \/ CreateGroup(r) \/ CreateAttribute(r) \/ CreateDataset(r) \/ CreateEmpty(r)
             \/ WriteChunk(r) \/ CreateField(r) \/ WritePlanes(r)
      PROVE  Good
  <2>1. /\ code[r] # <<>> /\ s.op # "read" /\ code' = [code EXCEPT ![r] = Tail(@)]
        /\ (\E x : SetFile(s.file, x)) \/ UNCHANGED fs
        /\ cfg' = cfg /\ seen' = seen
    <3> DEFINE Common == /\ code[r] # <<>> /\ s.op # "read" /\ code' = [code EXCEPT ![r] = Tail(@)]
                         /\ (\E x : SetFile(s.file, x)) \/ UNCHANGED fs
                         /\ cfg' = cfg /\ seen' = seen
    <3>1. CreateGroup(r) => Common
      BY DEF CreateGroup, Edit, At, Pop, Refuse
    <3>2. CreateAttribute(r) => Common
      BY DEF CreateAttribute, Edit, At, Pop, Refuse
    <3>3. CreateDataset(r) => Common
      BY DEF CreateDataset, Edit, At, Pop, Refuse
    <3>4. CreateEmpty(r) => Common
      BY DEF CreateEmpty, Edit, At, Pop, Refuse
    <3>5. WriteChunk(r) => Common
      BY DEF WriteChunk, Edit, At, Pop, Refuse
    <3>6. CreateField(r) => Common
      BY DEF CreateField, Edit, At, Pop, Refuse
    <3>7. WritePlanes(r) => Common
      BY DEF WritePlanes, Edit, At, Pop, Refuse
    <3> HIDE DEF Common
    <3>8. Common
      BY <1>4, <3>1, <3>2, <3>3, <3>4, <3>5, <3>6, <3>7
    <3> QED
      BY <3>8 DEF Common
  <2>2. s.file # WhiteNoise
    BY <1>1, <2>1 DEF InRest
  <2> HIDE DEF s
  <2>3. OnlyFile(s.file)
    BY <2>1, SetsOneFile
  <2> QED
    BY <2>1, <2>2, <2>3 DEF OnlyFile
<1>5. ASSUME ReadNoise(r)
      PROVE  Good
  <2>1. code[r] # <<>> /\ s.op = "read" /\ code' = [code EXCEPT ![r] = Tail(@)]
        /\ fs' = fs /\ cfg' = cfg
    BY <1>5 DEF ReadNoise, At, Pop
  <2>2. cfg.neutrinos /\ s.file = WhiteNoise /\ s.on = noise_dset
    BY <1>1, <2>1 DEF InRest
  <2>3. fs[WhiteNoise].data[noise_dset] = WholeField
    BY <2>2 DEF After, NoiseIsThere
  <2>4. seen' = seen \/ seen' = [seen EXCEPT ![r] = fs[s.file].data[s.on]]
    BY <1>5 DEF ReadNoise
  <2> HIDE DEF s
  <2> QED
    BY <2>1, <2>2, <2>3, <2>4
<1>6. ASSUME NoteCounts(r)
      PROVE  Good
  BY <1>6 DEF NoteCounts, At, Pop
<1>7. ASSUME MergeOpen(r)
      PROVE  Good
  BY <1>7 DEF MergeOpen, At, Pop, Terminate
<1>8. ASSUME MergeCopy(r)
      PROVE  Good
  <2>1. /\ code[r] # <<>> /\ s.op = "copy" /\ cfg' = cfg /\ seen' = seen
        /\ Popped \/ Stopped
        /\ AfterMerge(s, NotMerged(s)) \/ AfterMerge(s, Merged(s))
    BY <1>8 DEF MergeCopy, At, Pop, Terminate
  <2>2. s.file # WhiteNoise /\ s.on # WhiteNoise
    BY <1>1, <2>1 DEF InRest
  <2>3. Kept
    <3> HIDE DEF s
    <3>1. ASSUME NEW x, AfterMerge(s, x) PROVE Kept
      BY <2>2, <3>1 DEF AfterMerge
    <3> HIDE DEF Kept
    <3> QED
      BY <2>1, <3>1
  <2> QED
    BY <2>1, <2>3
<1>9. ASSUME ThrowOut(r) \/ Kill(r)
      PROVE  Good
  BY <1>9 DEF ThrowOut, Kill, Terminate
<1>10. Good
  <2> HIDE DEF Good
  <2> QED
    BY <1>2, <1>3, <1>4, <1>5, <1>6, <1>7, <1>8, <1>9 DEF RankStep
<1>11. \A q \in Rank : \/ code'[q] = code[q] \/ code'[q] = <<>>
                       \/ code[q] # <<>> /\ code'[q] = Tail(code[q])
  BY <1>10
<1>12. \A q \in Rank : seen'[q] \in {seen[q], WholeField}
  BY <1>10
<1>13. DOMAIN code' = Rank /\ DOMAIN seen' = Rank
  BY <1>10
<1>14. After'
  <2>1. cfg' = cfg /\ Kept
    BY <1>10
  <2> QED
    BY <1>11, <1>12, <2>1, AfterKept
<1> QED
  BY <1>10, <1>13, <1>14

LEMMA AfterAll ==
  ASSUME cfg \in Configs, DOMAIN code = Rank, DOMAIN seen = Rank, After, Collective
  PROVE  cfg' = cfg /\ After' /\ DOMAIN code' = Rank /\ DOMAIN seen' = Rank
<1>1. /\ cfg' = cfg /\ fs' = fs /\ seen' = seen
      /\ \A q \in Rank : code[q] # <<>> /\ code'[q] = Tail(code[q])
      /\ DOMAIN code' = Rank
  BY DEF Collective, At
<1>2. After'
  BY <1>1, AfterKept
<1> QED
  BY <1>1, <1>2

-----------------------------------------------------------------------------
(***************************************************************************)
(* Up to the end of the export.  rest is what every rank has left then.    *)
(***************************************************************************)

\* A list of steps of its own, before the collective t begins with.
Own(b) == IsList(b) /\ \A i \in 1 .. Len(b) : b[i].op \in Early
Meets(t) == IsList(t) /\ t # <<>> /\ Head(t).op = "sync"

LEMMA OwnStep ==
  ASSUME cfg \in Configs, Tables, HeldRight, dead = {}, NEW r \in Rank, RankStep(r),
         NEW b, Own(b), NEW t, Meets(t), code[r] = b \o t
  PROVE  /\ b # <<>> /\ Head(code[r]) = Head(b) /\ code[r] # <<>>
         /\ UNCHANGED <<cfg, seen, dead>> /\ Tables' /\ HeldRight'
         /\ Opens(r, Head(b)) \/ Ends(r, Head(b))
         /\ \A q \in Rank \ {r} : code'[q] = code[q]
         /\ Opens(r, Head(b)) => fs' = fs /\ code'[r] = code[r]
         /\ Ends(r, Head(b)) => code'[r] = Tail(b) \o t /\ OnlyFile(Head(b).file)
<1>1. IsList(b) /\ IsList(t) /\ t # <<>> /\ Head(t).op = "sync"
  BY DEF Own, Meets
<1>2. b # <<>>
  <2>1. SUFFICES ASSUME b = <<>> PROVE FALSE
    OBVIOUS
  <2>2. code[r] = t
    BY <1>1, <2>1, NoList
  <2> QED
    BY <1>1, <2>2, WaitsForAll
<1>3. code[r] # <<>> /\ Head(code[r]) = Head(b) /\ Tail(code[r]) = Tail(b) \o t
  BY <1>1, <1>2, HeadOfJoin
<1>4. Head(b).op \in Early
  <2>1. Len(b) \in Nat /\ Len(b) > 0 /\ Head(b) = b[1]
    BY <1>1, <1>2, HeadAndTail, ListFacts
  <2>2. 1 \in 1 .. Len(b)
    BY <2>1
  <2> QED
    BY <2>1, <2>2 DEF Own
<1>5. Opens(r, Head(b)) \/ Ends(r, Head(b))
  BY <1>3, <1>4, EarlyStep
<1>6. UNCHANGED <<cfg, seen, dead>>
  BY <1>3, <1>4, EarlyStep
<1>7. HeldRight' /\ DOMAIN code' = Rank /\ held' \in [Rank -> {held'[q] : q \in Rank}]
  BY <1>3, <1>5, <1>6, HeldStaysRight
<1>8. Tables'
  BY <1>6, <1>7 DEF Tables, Rank
<1>9. DOMAIN code = Rank
  BY DEF Tables
<1>10. Opens(r, Head(b)) => fs' = fs /\ code' = code
  BY DEF Opens
<1>11. Ends(r, Head(b)) => code' = [code EXCEPT ![r] = Tail(b) \o t] /\ OnlyFile(Head(b).file)
  BY <1>3 DEF Ends
<1>12. Ends(r, Head(b)) => code'[r] = Tail(b) \o t /\ OnlyFile(Head(b).file)
  BY <1>9, <1>11
<1>13. \A q \in Rank \ {r} : code'[q] = code[q]
  BY <1>5, <1>9, <1>10, <1>11
<1> QED
  BY <1>2, <1>3, <1>5, <1>6, <1>7, <1>8, <1>10, <1>12, <1>13

LEMMA OwnTogether ==
  ASSUME cfg \in Configs, Tables, Collective
  PROVE  /\ UNCHANGED <<cfg, fs, seen, dead, held>> /\ Tables'
         /\ HeldRight => HeldRight'
         /\ \A r \in Rank : code[r] # <<>> /\ Head(code[r]).op = "sync" /\ code'[r] = Tail(code[r])
<1>1. UNCHANGED <<cfg, fs, seen, dead, held>> /\ DOMAIN code' = Rank
      /\ \A r \in Rank : code[r] # <<>> /\ Head(code[r]).op = "sync" /\ code'[r] = Tail(code[r])
  BY DEF Collective, At
<1>2. Tables'
  BY <1>1 DEF Tables, Rank
<1>3. HeldRight => \A q \in Rank : held[q] # WhiteNoise
  BY <1>1 DEF HeldRight, Edits
<1>4. HeldRight => HeldRight'
  BY <1>1, <1>3 DEF HeldRight, Rank
<1> QED
  BY <1>1, <1>2, <1>4 DEF HeldRight

LEMMA OwnDone ==
  ASSUME NEW r, NEW b, Own(b), NEW t, Meets(t), code[r] = b \o t,
         code[r] # <<>>, Head(code[r]).op = "sync"
  PROVE  b = <<>> /\ code[r] = t
<1>1. IsList(b) /\ IsList(t)
  BY DEF Own, Meets
<1>2. b = <<>>
  <2>1. SUFFICES ASSUME b # <<>> PROVE FALSE
    OBVIOUS
  <2>2. Head(code[r]) = Head(b)
    BY <1>1, <2>1, HeadOfJoin
  <2>3. Len(b) \in Nat /\ Len(b) > 0 /\ Head(b) = b[1]
    BY <1>1, <2>1, HeadAndTail, ListFacts
  <2>4. 1 \in 1 .. Len(b)
    BY <2>3
  <2>5. b[1].op \in Early
    BY <2>4 DEF Own
  <2> QED
    BY <2>2, <2>3, <2>5 DEF Early
<1> QED
  BY <1>1, <1>2, NoList

\* What is calm leaves the noise alone.
LEMMA CalmIsOwn ==
  ASSUME NEW b, CalmList(b)
  PROVE  /\ Own(b)
         /\ b # <<>> => CalmList(Tail(b)) /\ Head(b).file # WhiteNoise
<1>1. IsList(b) /\ Len(b) \in Nat
  BY ListFacts DEF CalmList
<1>2. Own(b)
  BY <1>1 DEF CalmList, Calm, Own, Early
<1>3. ASSUME b # <<>> PROVE CalmList(Tail(b)) /\ Head(b).file # WhiteNoise
  <2>1. /\ Head(b) = b[1] /\ IsList(Tail(b)) /\ Len(Tail(b)) = Len(b) - 1 /\ Len(b) > 0
        /\ \A i \in 1 .. Len(b) - 1 : Tail(b)[i] = b[i + 1]
    BY <1>1, <1>3, HeadAndTail
  <2>2. 1 \in 1 .. Len(b)
    BY <1>1, <2>1
  <2>3. Calm(b[1])
    BY <2>2 DEF CalmList
  <2>4. ASSUME NEW i \in 1 .. Len(Tail(b)) PROVE Calm(Tail(b)[i])
    <3>1. i \in 1 .. Len(b) - 1 /\ i + 1 \in 1 .. Len(b)
      BY <1>1, <2>1
    <3>2. Calm(b[i + 1])
      BY <3>1 DEF CalmList
    <3> QED
      BY <2>1, <3>1, <3>2
  <2>5. CalmList(Tail(b))
    BY <2>1, <2>4 DEF CalmList
  <2> QED
    BY <2>1, <2>3, <2>5 DEF Calm
<1> QED
  BY <1>2, <1>3

CalmBefore(t) == \E b : \A r \in Rank : CalmList(b[r]) /\ code[r] = b[r] \o t[r]

LEMMA CalmGoesOn ==
  ASSUME cfg \in Configs, Tables, HeldRight, dead = {}, NEW r \in Rank, RankStep(r),
         NEW t, \A q \in Rank : Meets(t[q]), CalmBefore(t)
  PROVE  /\ CalmBefore(t)' /\ UNCHANGED <<cfg, seen, dead>> /\ Tables' /\ HeldRight'
<1>1. PICK b : \A q \in Rank : CalmList(b[q]) /\ code[q] = b[q] \o t[q]
  BY DEF CalmBefore
<1>2. Own(b[r]) /\ (b[r] # <<>> => CalmList(Tail(b[r])) /\ Head(b[r]).file # WhiteNoise)
  BY <1>1, CalmIsOwn
<1>3. Own(b[r]) /\ Meets(t[r]) /\ code[r] = b[r] \o t[r]
  BY <1>1, <1>2
<1>4. /\ b[r] # <<>> /\ UNCHANGED <<cfg, seen, dead>> /\ Tables' /\ HeldRight'
      /\ Opens(r, Head(b[r])) \/ Ends(r, Head(b[r]))
      /\ \A q \in Rank \ {r} : code'[q] = code[q]
      /\ Opens(r, Head(b[r])) => code'[r] = code[r]
      /\ Ends(r, Head(b[r])) => code'[r] = Tail(b[r]) \o t[r]
  BY <1>3, OwnStep
<1>5. PICK l : CalmList(l) /\ code'[r] = l \o t[r]
  BY <1>1, <1>2, <1>4
<1>6. PICK c : c = [q \in Rank |-> IF q = r THEN l ELSE b[q]]
  OBVIOUS
<1>7. \A q \in Rank : CalmList(c[q]) /\ code'[q] = c[q] \o t[q]
  BY <1>1, <1>4, <1>5, <1>6
<1>8. Rank' = Rank
  BY <1>4 DEF Rank
<1> QED
  BY <1>4, <1>7, <1>8 DEF CalmBefore

\* The steps before the noise of an earlier run is gone on rank 0.
ClearList(r, b) ==
  IsList(b) /\ \A i \in 1 .. Len(b) : Calm(b[i]) \/ (r = 0 /\ b[i] = unlinkNoise)
Unlinks(b) == \E i \in 1 .. Len(b) : b[i] = unlinkNoise
ClearBefore(t) ==
  \E b : /\ \A r \in Rank : ClearList(r, b[r]) /\ code[r] = b[r] \o t[r]
         /\ WhiteNoise \in DOMAIN fs => Unlinks(b[0])

LEMMA ClearIsOwn ==
  ASSUME NEW r, NEW b, ClearList(r, b)
  PROVE  /\ Own(b)
         /\ b # <<>> => /\ ClearList(r, Tail(b))
                        /\ Head(b).file # WhiteNoise \/ Head(b) = unlinkNoise
                        /\ Unlinks(b) => Head(b) = unlinkNoise \/ Unlinks(Tail(b))
<1>1. IsList(b) /\ Len(b) \in Nat
  BY ListFacts DEF ClearList
<1>2. Own(b)
  <2>1. ASSUME NEW i \in 1 .. Len(b) PROVE b[i].op \in Early
    <3>1. CASE Calm(b[i])
      BY <3>1 DEF Calm, Early
    <3>2. CASE b[i] = unlinkNoise
      BY <3>2, NoiseSteps DEF Early
    <3> QED
      BY <3>1, <3>2 DEF ClearList
  <2> QED
    BY <1>1, <2>1 DEF Own
<1>3. ASSUME b # <<>>
      PROVE  /\ ClearList(r, Tail(b))
             /\ Head(b).file # WhiteNoise \/ Head(b) = unlinkNoise
             /\ Unlinks(b) => Head(b) = unlinkNoise \/ Unlinks(Tail(b))
  <2>1. /\ Head(b) = b[1] /\ IsList(Tail(b)) /\ Len(Tail(b)) = Len(b) - 1 /\ Len(b) > 0
        /\ \A i \in 1 .. Len(b) - 1 : Tail(b)[i] = b[i + 1]
    BY <1>1, <1>3, HeadAndTail
  <2>2. 1 \in 1 .. Len(b)
    BY <1>1, <2>1
  <2>3. Calm(b[1]) \/ b[1] = unlinkNoise
    BY <2>2 DEF ClearList
  <2>4. ASSUME NEW i \in 1 .. Len(Tail(b))
        PROVE  Calm(Tail(b)[i]) \/ (r = 0 /\ Tail(b)[i] = unlinkNoise)
    <3>1. i \in 1 .. Len(b) - 1 /\ i + 1 \in 1 .. Len(b)
      BY <1>1, <2>1
    <3>2. Calm(b[i + 1]) \/ (r = 0 /\ b[i + 1] = unlinkNoise)
      BY <3>1 DEF ClearList
    <3> QED
      BY <2>1, <3>1, <3>2
  <2>5. ClearList(r, Tail(b))
    BY <2>1, <2>4 DEF ClearList
  <2>6. ASSUME Unlinks(b), Head(b) # unlinkNoise PROVE Unlinks(Tail(b))
    <3>1. PICK i \in 1 .. Len(b) : b[i] = unlinkNoise
      BY <2>6 DEF Unlinks
    <3>2. i - 1 \in 1 .. Len(b) - 1 /\ (i - 1) + 1 = i
      <4>1. i # 1
        BY <2>1, <2>6, <3>1
      <4> QED
        BY <1>1, <4>1
    <3>3. Tail(b)[i - 1] = unlinkNoise
      BY <2>1, <3>1, <3>2
    <3> QED
      BY <2>1, <3>2, <3>3 DEF Unlinks
  <2> QED
    BY <2>1, <2>3, <2>5, <2>6 DEF Calm
<1> QED
  BY <1>2, <1>3

LEMMA ClearGoesOn ==
  ASSUME cfg \in Configs, Tables, HeldRight, dead = {}, NEW r \in Rank, RankStep(r),
         NEW t, \A q \in Rank : Meets(t[q]), ClearBefore(t)
  PROVE  /\ ClearBefore(t)' /\ UNCHANGED <<cfg, seen, dead>> /\ Tables' /\ HeldRight'
<1>1. PICK b : /\ \A q \in Rank : ClearList(q, b[q]) /\ code[q] = b[q] \o t[q]
               /\ WhiteNoise \in DOMAIN fs => Unlinks(b[0])
  BY DEF ClearBefore
<1>2. /\ Own(b[r])
      /\ b[r] # <<>> => /\ ClearList(r, Tail(b[r]))
                        /\ Head(b[r]).file # WhiteNoise \/ Head(b[r]) = unlinkNoise
                        /\ Unlinks(b[r]) => Head(b[r]) = unlinkNoise \/ Unlinks(Tail(b[r]))
  <2>1. ClearList(r, b[r])
    BY <1>1
  <2> QED
    BY <2>1, ClearIsOwn
<1>3. Own(b[r]) /\ Meets(t[r]) /\ code[r] = b[r] \o t[r]
  BY <1>1, <1>2
<1>4. /\ b[r] # <<>> /\ UNCHANGED <<cfg, seen, dead>> /\ Tables' /\ HeldRight'
      /\ Head(code[r]) = Head(b[r])
      /\ Opens(r, Head(b[r])) \/ Ends(r, Head(b[r]))
      /\ \A q \in Rank \ {r} : code'[q] = code[q]
      /\ Opens(r, Head(b[r])) => fs' = fs /\ code'[r] = code[r]
      /\ Ends(r, Head(b[r])) => code'[r] = Tail(b[r]) \o t[r] /\ OnlyFile(Head(b[r]).file)
  BY <1>3, OwnStep
<1>5. PICK l : /\ ClearList(r, l) /\ code'[r] = l \o t[r]
               /\ WhiteNoise \in DOMAIN fs' =>
                    WhiteNoise \in DOMAIN fs /\ (Unlinks(b[r]) => Unlinks(l))
  <2>1. CASE Opens(r, Head(b[r]))
    BY <1>1, <1>4, <2>1
  <2>2. CASE Ends(r, Head(b[r])) /\ Head(b[r]) = unlinkNoise
    <3>1. WhiteNoise \notin DOMAIN fs'
      BY <1>4, <2>2, UnlinkedNoise
    <3> QED
      BY <1>2, <1>4, <2>2, <3>1
  <2>3. CASE Ends(r, Head(b[r])) /\ Head(b[r]) # unlinkNoise
    <3>1. WhiteNoise \in DOMAIN fs' <=> WhiteNoise \in DOMAIN fs
      BY <1>2, <1>4, <2>3 DEF OnlyFile
    <3> QED
      BY <1>2, <1>4, <2>3, <3>1
  <2> QED
    BY <1>4, <2>1, <2>2, <2>3
<1>6. PICK c : c = [q \in Rank |-> IF q = r THEN l ELSE b[q]]
  OBVIOUS
<1>7. \A q \in Rank : ClearList(q, c[q]) /\ code'[q] = c[q] \o t[q]
  BY <1>1, <1>4, <1>5, <1>6
<1>8. WhiteNoise \in DOMAIN fs' => Unlinks(c[0])
  BY <1>1, <1>5, <1>6, ConfigFacts
<1>9. Rank' = Rank
  BY <1>4 DEF Rank
<1>10. (\A q \in Rank : ClearList(q, c[q]) /\ code[q] = c[q] \o t[q])'
  <2>1. \A q, x : ClearList(q, x)' <=> ClearList(q, x)
    BY DEF ClearList, unlinkNoise
  <2> QED
    BY <1>7, <1>9, <2>1
<1>11. (WhiteNoise \in DOMAIN fs => Unlinks(c[0]))'
  BY <1>8 DEF Unlinks, unlinkNoise
<1>12. ClearBefore(t)'
  BY <1>10, <1>11 DEF ClearBefore
<1> QED
  BY <1>4, <1>12

\* A rank with one step of its own before t.
LEMMA OneLeft ==
  ASSUME cfg \in Configs, Tables, HeldRight, dead = {}, NEW r \in Rank, RankStep(r),
         NEW x, x.op \in Early, NEW t, IsList(t), code[r] = <<x>> \o t
  PROVE  /\ code[r] # <<>> /\ Head(code[r]) = x
         /\ UNCHANGED <<cfg, seen, dead>> /\ Tables' /\ HeldRight'
         /\ \A q \in Rank \ {r} : code'[q] = code[q]
         /\ \/ Opens(r, x) /\ fs' = fs /\ code'[r] = code[r]
            \/ Ends(r, x) /\ code'[r] = t /\ OnlyFile(x.file)
<1>1. code[r] # <<>> /\ Head(code[r]) = x /\ Tail(code[r]) = t
  BY FirstOfJoin
<1>2. Opens(r, x) \/ Ends(r, x)
  BY <1>1, EarlyStep
<1>3. UNCHANGED <<cfg, seen, dead>>
  BY <1>1, EarlyStep
<1>4. HeldRight' /\ DOMAIN code' = Rank /\ held' \in [Rank -> {held'[q] : q \in Rank}]
  BY <1>1, <1>2, <1>3, HeldStaysRight
<1>5. Tables'
  BY <1>3, <1>4 DEF Tables, Rank
<1>6. DOMAIN code = Rank
  BY DEF Tables
<1>7. Opens(r, x) => fs' = fs /\ code' = code
  BY DEF Opens
<1>8. Ends(r, x) => code' = [code EXCEPT ![r] = t] /\ OnlyFile(x.file)
  BY <1>1 DEF Ends
<1>9. Ends(r, x) => code'[r] = t
  BY <1>6, <1>8
<1>10. \A q \in Rank \ {r} : code'[q] = code[q]
  BY <1>2, <1>6, <1>7, <1>8
<1> QED
  BY <1>1, <1>2, <1>3, <1>4, <1>5, <1>7, <1>8, <1>9, <1>10

LEMMA NoneLeft ==
  ASSUME dead = {}, NEW r, Meets(code[r])
  PROVE  ~RankStep(r)
BY WaitsForAll DEF Meets

LEMMA ExportMeets ==
  ASSUME cfg \in Configs, NEW r, NEW rest, IsList(rest)
  PROVE  /\ Meets(ToReduce(rest, r)) /\ Meets(ToField(rest, r)) /\ Meets(ToFile(rest, r))
         /\ Meets(ToOffsets(rest, r)) /\ Meets(ToStarts(rest, r)) /\ Meets(ToSizes(rest, r))
         /\ Meets(ToEnd(rest)) /\ Meets(Sync("Barrier") \o Export(rest, r))
         /\ \A q \in 0 .. cfg.ranks : Meets(ToTurn(rest, r, q))
<1>1. /\ Meets(ToReduce(rest, r)) /\ Meets(ToField(rest, r)) /\ Meets(ToFile(rest, r))
      /\ Meets(ToOffsets(rest, r)) /\ Meets(ToStarts(rest, r)) /\ Meets(ToSizes(rest, r))
      /\ Meets(ToEnd(rest))
  BY ExportSteps, ExportTails DEF SyncFirst, Meets
<1>2. Meets(Sync("Barrier") \o Export(rest, r))
  <2>1. IsList(Export(rest, r))
    BY ExportSteps
  <2> QED
    BY <2>1, OneSync DEF Meets
<1>3. ASSUME NEW q \in 0 .. cfg.ranks PROVE Meets(ToTurn(rest, r, q))
  <2>1. CASE q = cfg.ranks
    BY <1>1, <2>1, ExportTails
  <2>2. CASE q # cfg.ranks
    <3>1. q \in Rank
      BY <2>2, ConfigFacts
    <3>2. IsList(ToTurn(rest, r, q))
      BY ExportSteps
    <3>3. SyncFirst(ToTurn(rest, r, q), Only(r, q, <<writeNoise(q)>>) \o ToTurn(rest, r, q + 1))
      BY <3>1, ExportTails
    <3> QED
      BY <3>2, <3>3 DEF SyncFirst, Meets
  <2> QED
    BY <2>1, <2>2
<1> QED
  BY <1>1, <1>2, <1>3

\* Where the ranks are.
Constructing(e) ==
  cfg.format = "generic" /\ CalmBefore([r \in Rank |-> Sync("Barrier") \o Export(e[r], r)])
Collecting(e) == cfg.sampled /\ CalmBefore([r \in Rank |-> ToReduce(e[r], r)])
Clearing(e) == ~cfg.sampled /\ ClearBefore([r \in Rank |-> ToField(e[r], r)])
Creating(e) ==
  /\ \A r \in Rank \ {0} : code[r] = ToFile(e[r], r)
  /\ \/ code[0] = <<ensureNoise>> \o ToFile(e[0], 0) /\ WhiteNoise \notin DOMAIN fs
     \/ code[0] = ToFile(e[0], 0) /\ Filled(0)
Measuring(e) ==
  /\ Filled(0)
  /\ \/ \A r \in Rank : code[r] = ToOffsets(e[r], r)
     \/ \A r \in Rank : code[r] = ToStarts(e[r], r)
     \/ \A r \in Rank : code[r] = ToSizes(e[r], r)
Turning(e) ==
  \E q \in 0 .. cfg.ranks : Filled(q) /\ \A r \in Rank : code[r] = ToTurn(e[r], r, q)
Writing(e) ==
  \E q \in Rank : /\ Filled(q) /\ code[q] = <<writeNoise(q)>> \o ToTurn(e[q], q, q + 1)
                  /\ \A r \in Rank \ {q} : code[r] = ToTurn(e[r], r, q + 1)
ToWhole(rest) == <<wholeNoise>> \o ToEnd(rest)
ToEnsure(rest) == <<ensureNoise>> \o ToWhole(rest)
ToUnlink(rest) == <<unlinkNoise>> \o ToEnsure(rest)
Copying(e) ==
  /\ \A r \in Rank \ {0} : code[r] = ToEnd(e[r])
  /\ \/ code[0] = ToUnlink(e[0])
     \/ code[0] = ToEnsure(e[0]) /\ WhiteNoise \notin DOMAIN fs
     \/ code[0] = ToWhole(e[0]) /\ Filled(0)
     \/ code[0] = ToEnd(e[0]) /\ NoiseIsThere
Exporting(e) ==
  \/ Constructing(e) \/ Collecting(e) \/ Clearing(e) \/ Creating(e) \/ Measuring(e)
  \/ Turning(e) \/ Writing(e) \/ Copying(e)

\* Nobody has read the noise, and nobody has terminated.
Quiet == Tables /\ HeldRight /\ dead = {} /\ cfg.neutrinos /\ \A r \in Rank : seen[r] = Unset
Underway == Quiet /\ \E e : (\A r \in Rank : RestList(e[r])) /\ Exporting(e)

LEMMA BeforeFile ==
  ASSUME cfg \in Configs, Tables, HeldRight, dead = {}, NEW r \in Rank, RankStep(r),
         NEW e, \A q \in Rank : IsList(e[q]), Constructing(e) \/ Collecting(e) \/ Clearing(e)
  PROVE  /\ Exporting(e)' /\ UNCHANGED <<cfg, seen, dead>> /\ Tables' /\ HeldRight'
<1>1. CASE Constructing(e)
  <2>1. PICK t : t = [q \in Rank |-> Sync("Barrier") \o Export(e[q], q)]
    OBVIOUS
  <2>2. \A q \in Rank : Meets(t[q])
    BY <2>1, ExportMeets
  <2>3. CalmBefore(t)
    BY <1>1, <2>1 DEF Constructing
  <2>4. CalmBefore(t)' /\ UNCHANGED <<cfg, seen, dead>> /\ Tables' /\ HeldRight'
    BY <2>2, <2>3, CalmGoesOn
  <2>5. t = [q \in Rank' |-> Sync("Barrier") \o Export(e[q], q)']
    BY <2>1, <2>4, Stays, ExportStays
  <2>6. Constructing(e)'
    BY <1>1, <2>4, <2>5 DEF Constructing
  <2> QED
    BY <2>4, <2>6 DEF Exporting
<1>2. CASE Collecting(e)
  <2>1. PICK t : t = [q \in Rank |-> ToReduce(e[q], q)]
    OBVIOUS
  <2>2. \A q \in Rank : Meets(t[q])
    BY <2>1, ExportMeets
  <2>3. CalmBefore(t)
    BY <1>2, <2>1 DEF Collecting
  <2>4. CalmBefore(t)' /\ UNCHANGED <<cfg, seen, dead>> /\ Tables' /\ HeldRight'
    BY <2>2, <2>3, CalmGoesOn
  <2>5. t = [q \in Rank' |-> ToReduce(e[q], q)']
    BY <2>1, <2>4, Stays, ExportStays
  <2>6. Collecting(e)'
    BY <1>2, <2>4, <2>5 DEF Collecting
  <2> QED
    BY <2>4, <2>6 DEF Exporting
<1>3. CASE Clearing(e)
  <2>1. PICK t : t = [q \in Rank |-> ToField(e[q], q)]
    OBVIOUS
  <2>2. \A q \in Rank : Meets(t[q])
    BY <2>1, ExportMeets
  <2>3. ClearBefore(t)
    BY <1>3, <2>1 DEF Clearing
  <2>4. ClearBefore(t)' /\ UNCHANGED <<cfg, seen, dead>> /\ Tables' /\ HeldRight'
    BY <2>2, <2>3, ClearGoesOn
  <2>5. t = [q \in Rank' |-> ToField(e[q], q)']
    BY <2>1, <2>4, Stays, ExportStays
  <2>6. Clearing(e)'
    BY <1>3, <2>4, <2>5 DEF Clearing
  <2> QED
    BY <2>4, <2>6 DEF Exporting
<1> QED
  BY <1>1, <1>2, <1>3

LEMMA CreatingStep ==
  ASSUME cfg \in Configs, Tables, HeldRight, dead = {}, NEW r \in Rank, RankStep(r),
         NEW e, \A q \in Rank : IsList(e[q]), Creating(e)
  PROVE  /\ Creating(e)' /\ UNCHANGED <<cfg, seen, dead>> /\ Tables' /\ HeldRight'
<1>0. 0 \in Rank
  BY ConfigFacts
<1>1. \A q \in Rank : Meets(ToFile(e[q], q))
  BY ExportMeets
<1>2. r = 0 /\ code[0] = <<ensureNoise>> \o ToFile(e[0], 0) /\ WhiteNoise \notin DOMAIN fs
  <2>1. ~Meets(code[r])
    BY NoneLeft
  <2> QED
    BY <1>0, <1>1, <2>1 DEF Creating
<1>3. PICK t : t = ToFile(e[0], 0) /\ IsList(t)
  BY <1>0, <1>1 DEF Meets
<1>4. ensureNoise.op = "ensure" /\ "ensure" \in Early /\ "ensure" \notin Edits
  BY NoiseSteps DEF Early, Edits
<1>5. /\ Head(code[r]) = ensureNoise
      /\ UNCHANGED <<cfg, seen, dead>> /\ Tables' /\ HeldRight'
      /\ \A q \in Rank \ {r} : code'[q] = code[q]
      /\ \/ Opens(r, ensureNoise)
         \/ code'[r] = t
  <2>1. PICK x : x = ensureNoise
    OBVIOUS
  <2>2. x.op \in Early /\ code[r] = <<x>> \o t
    BY <1>2, <1>3, <1>4, <2>1
  <2>3. /\ Head(code[r]) = x
        /\ UNCHANGED <<cfg, seen, dead>> /\ Tables' /\ HeldRight'
        /\ \A q \in Rank \ {r} : code'[q] = code[q]
        /\ Opens(r, x) \/ code'[r] = t
    BY <1>3, <2>2, OneLeft, ZenonT(40)
  <2> QED
    BY <2>1, <2>3
<1>6. code'[0] = ToFile(e[0], 0)
  BY <1>2, <1>3, <1>4, <1>5 DEF Opens
<1>7. WhiteNoise \in DOMAIN fs' /\ fs'[WhiteNoise] = NewFile
  BY <1>2, <1>5, EnsuredNoise
<1>8. Filled(0)'
  BY <1>7 DEF Filled
<1>9. Rank' = Rank /\ \A q \in Rank : ToFile(e[q], q)' = ToFile(e[q], q)
  BY <1>5, Stays, ExportStays
<1>10. \A q \in Rank \ {0} : code'[q] = ToFile(e[q], q)
  BY <1>2, <1>5 DEF Creating
<1>11. Creating(e)'
  BY <1>0, <1>6, <1>8, <1>9, <1>10 DEF Creating
<1> QED
  BY <1>5, <1>11

LEMMA NoTurnAlone ==
  ASSUME cfg \in Configs, dead = {}, NEW r \in Rank,
         NEW e, \A q \in Rank : IsList(e[q]), Measuring(e) \/ Turning(e)
  PROVE  ~RankStep(r)
<1>1. /\ Meets(ToOffsets(e[r], r)) /\ Meets(ToStarts(e[r], r)) /\ Meets(ToSizes(e[r], r))
      /\ \A q \in 0 .. cfg.ranks : Meets(ToTurn(e[r], r, q))
  BY ExportMeets
<1>2. Meets(code[r])
  BY <1>1 DEF Measuring, Turning
<1> QED
  BY <1>2, NoneLeft

LEMMA WritingStep ==
  ASSUME cfg \in Configs, Tables, HeldRight, dead = {}, NEW r \in Rank, RankStep(r),
         NEW e, \A q \in Rank : IsList(e[q]), Writing(e)
  PROVE  /\ Writing(e)' \/ Turning(e)'
         /\ UNCHANGED <<cfg, seen, dead>> /\ Tables' /\ HeldRight'
<1>1. PICK q \in Rank :
        /\ Filled(q) /\ code[q] = <<writeNoise(q)>> \o ToTurn(e[q], q, q + 1)
        /\ \A p \in Rank \ {q} : code[p] = ToTurn(e[p], p, q + 1)
  BY DEF Writing
<1>2. q + 1 \in 0 .. cfg.ranks
  BY ConfigFacts
<1>3. \A p \in Rank : Meets(ToTurn(e[p], p, q + 1))
  BY <1>2, ExportMeets
<1>4. r = q
  <2>1. ~Meets(code[r])
    BY NoneLeft
  <2> QED
    BY <1>1, <1>3, <2>1
<1>5. \A p \in Rank \ {q} : held[p] # WhiteNoise
  <2>1. \A p \in Rank \ {q} : Head(code[p]).op = "sync"
    BY <1>1, <1>3 DEF Meets
  <2> QED
    BY <2>1 DEF HeldRight, Edits
<1>6. PICK t : t = ToTurn(e[q], q, q + 1) /\ IsList(t)
  BY <1>3 DEF Meets
<1>7. PICK x : x = writeNoise(q)
  OBVIOUS
<1>8. x.op \in Early
  <2>1. writeNoise(q).op = IF q = 0 THEN "field" ELSE "planes"
    BY NoiseSteps
  <2> QED
    BY <1>7, <2>1 DEF Early
<1>9. RankStep(q) /\ code[q] = <<x>> \o t
  BY <1>1, <1>4, <1>6, <1>7
<1>10. /\ code[q] # <<>> /\ Head(code[q]) = x
       /\ UNCHANGED <<cfg, seen, dead>> /\ Tables' /\ HeldRight'
       /\ \A p \in Rank \ {q} : code'[p] = code[p]
       /\ \/ Opens(q, x) /\ fs' = fs /\ code'[q] = code[q]
          \/ Ends(q, x) /\ code'[q] = t
  BY <1>6, <1>8, <1>9, OneLeft, ZenonT(40)
<1>11. Opens(q, x) \/ Filled(q + 1)'
  BY <1>1, <1>5, <1>7, <1>9, <1>10, PlanesWritten
<1>12. Opens(q, x) => fs' = fs /\ code'[q] = code[q]
  BY DEF Opens
<1>13. Rank' = Rank /\ writeNoise(q)' = writeNoise(q) /\ cfg'.ranks = cfg.ranks
       /\ \A p \in Rank : ToTurn(e[p], p, q + 1)' = ToTurn(e[p], p, q + 1)
  BY <1>10, Stays, ExportStays
<1>14. \A p \in Rank \ {q} : code'[p] = ToTurn(e[p], p, q + 1)
  BY <1>1, <1>10
<1>15. CASE Opens(q, x)
  <2>1. Before(q)' = Before(q) /\ AllPlanes' = AllPlanes
    BY <1>10, Stays
  <2>2. Filled(q)'
    BY <1>1, <1>12, <1>15, <2>1 DEF Filled
  <2>3. code'[q] = <<writeNoise(q)>> \o ToTurn(e[q], q, q + 1)
    BY <1>1, <1>12, <1>15
  <2>4. Writing(e)'
    BY <1>13, <1>14, <2>2, <2>3 DEF Writing
  <2> QED
    BY <1>10, <2>4
<1>16. CASE ~Opens(q, x)
  <2>1. code'[q] = ToTurn(e[q], q, q + 1) /\ Filled(q + 1)'
    BY <1>6, <1>10, <1>11, <1>16
  <2>2. \A p \in Rank : code'[p] = ToTurn(e[p], p, q + 1)
    BY <1>14, <2>1
  <2>3. Turning(e)'
    BY <1>2, <1>13, <2>1, <2>2 DEF Turning
  <2> QED
    BY <1>10, <2>3
<1> QED
  BY <1>15, <1>16

LEMMA CopyLists ==
  ASSUME cfg \in Configs, NEW rest, IsList(rest)
  PROVE  /\ IsList(ToEnd(rest)) /\ IsList(ToWhole(rest)) /\ IsList(ToEnsure(rest))
         /\ Only(0, 0, <<unlinkNoise, ensureNoise, wholeNoise>>) \o ToEnd(rest) = ToUnlink(rest)
<1>1. IsList(ToEnd(rest))
  BY ExportMeets DEF Meets
<1>2. IsList(ToWhole(rest))
  BY <1>1, FirstOfJoin DEF ToWhole
<1>3. IsList(ToEnsure(rest))
  BY <1>2, FirstOfJoin DEF ToEnsure
<1>4. PICK a, b, c, t : /\ a = <<unlinkNoise>> /\ b = <<ensureNoise>> /\ c = <<wholeNoise>>
                        /\ t = ToEnd(rest)
  OBVIOUS
<1>5. Lists(a, b, c, t) /\ Lists(b, c, t, t)
  BY <1>1, <1>4, OneStep DEF Lists
<1>6. ((a \o b) \o c) \o t = a \o (b \o (c \o t))
  BY <1>5, JoinFour
<1>7. Lists(a, b, c, c)
  BY <1>5 DEF Lists
<1>8. (a \o b) \o c = a \o (b \o c)
  BY <1>7, JoinThree
<1>9. a \o (b \o c) = <<unlinkNoise, ensureNoise, wholeNoise>>
  BY <1>4, ThreeSteps
<1>10. ToUnlink(rest) = a \o (b \o (c \o t))
  BY <1>4 DEF ToUnlink, ToEnsure, ToWhole
<1> QED
  BY <1>1, <1>2, <1>3, <1>4, <1>6, <1>8, <1>9, <1>10 DEF Only

LEMMA CopyingStep ==
  ASSUME cfg \in Configs, Tables, HeldRight, dead = {}, NEW r \in Rank, RankStep(r),
         NEW e, \A q \in Rank : IsList(e[q]), Copying(e)
  PROVE  /\ Copying(e)' /\ UNCHANGED <<cfg, seen, dead>> /\ Tables' /\ HeldRight'
<1>0. 0 \in Rank
  BY ConfigFacts
<1>1. \A q \in Rank : Meets(ToEnd(e[q]))
  BY ExportMeets
<1>2. r = 0 /\ code[0] # ToEnd(e[0])
  <2>1. ~Meets(code[r])
    BY NoneLeft
  <2> QED
    BY <1>0, <1>1, <2>1 DEF Copying
<1>3. PICK t : /\ t = e[0] /\ IsList(t) /\ IsList(ToEnd(t)) /\ IsList(ToWhole(t))
               /\ IsList(ToEnsure(t))
  BY <1>0, CopyLists
<1> DEFINE Framed == /\ UNCHANGED <<cfg, seen, dead>> /\ Tables' /\ HeldRight'
                     /\ \A q \in Rank \ {0} : code'[q] = code[q]
           There == \/ code'[0] = ToUnlink(t)
                    \/ code'[0] = ToEnsure(t) /\ WhiteNoise \notin DOMAIN fs'
                    \/ code'[0] = ToWhole(t) /\ Filled(0)'
                    \/ code'[0] = ToEnd(t) /\ NoiseIsThere'
<1>4. ASSUME code[0] = ToUnlink(t) PROVE Framed /\ There
  <2>1. PICK x : x = unlinkNoise
    OBVIOUS
  <2>2. x.op \in Early /\ x.op \notin Edits
    BY <2>1, NoiseSteps DEF Early, Edits
  <2>3. RankStep(0) /\ code[0] = <<x>> \o ToEnsure(t)
    BY <1>2, <1>4, <2>1 DEF ToUnlink
  <2>4. /\ Head(code[0]) = x /\ Framed
        /\ Opens(0, x) \/ code'[0] = ToEnsure(t)
    BY <1>0, <1>3, <2>2, <2>3, OneLeft
  <2>5. WhiteNoise \notin DOMAIN fs'
    BY <1>0, <2>1, <2>3, <2>4, UnlinkedNoise
  <2>6. code'[0] = ToEnsure(t)
    BY <2>2, <2>4 DEF Opens
  <2> QED
    BY <2>4, <2>5, <2>6
<1>5. ASSUME code[0] = ToEnsure(t) /\ WhiteNoise \notin DOMAIN fs PROVE Framed /\ There
  <2>1. PICK x : x = ensureNoise
    OBVIOUS
  <2>2. x.op \in Early /\ x.op \notin Edits
    BY <2>1, NoiseSteps DEF Early, Edits
  <2>3. RankStep(0) /\ code[0] = <<x>> \o ToWhole(t)
    BY <1>2, <1>5, <2>1 DEF ToEnsure
  <2>4. /\ Head(code[0]) = x /\ Framed
        /\ Opens(0, x) \/ code'[0] = ToWhole(t)
    BY <1>0, <1>3, <2>2, <2>3, OneLeft
  <2>5. WhiteNoise \in DOMAIN fs' /\ fs'[WhiteNoise] = NewFile
    BY <1>0, <1>5, <2>1, <2>3, <2>4, EnsuredNoise
  <2>6. Filled(0)'
    BY <2>5 DEF Filled
  <2>7. code'[0] = ToWhole(t)
    BY <2>2, <2>4 DEF Opens
  <2> QED
    BY <2>4, <2>6, <2>7
<1>6. ASSUME code[0] = ToWhole(t) /\ Filled(0) PROVE Framed /\ There
  <2>1. PICK x : x = wholeNoise
    OBVIOUS
  <2>2. x.op \in Early
    BY <2>1, NoiseSteps DEF Early
  <2>3. RankStep(0) /\ code[0] = <<x>> \o ToEnd(t)
    BY <1>2, <1>6, <2>1 DEF ToWhole
  <2>4. /\ code[0] # <<>> /\ Head(code[0]) = x /\ Framed
        /\ \/ Opens(0, x) /\ fs' = fs /\ code'[0] = code[0]
           \/ Ends(0, x) /\ code'[0] = ToEnd(t)
    BY <1>0, <1>3, <2>2, <2>3, OneLeft
  <2>5. \A p \in Rank \ {0} : held[p] # WhiteNoise
    <3>1. \A p \in Rank \ {0} : Head(code[p]).op = "sync"
      BY <1>1 DEF Copying, Meets
    <3> QED
      BY <3>1 DEF HeldRight, Edits
  <2>6. WhiteNoise \in DOMAIN fs /\ fs[WhiteNoise] = NewFile
    BY <1>6 DEF Filled
  <2>7. Opens(0, x) \/ NoiseIsThere'
    BY <1>0, <2>1, <2>3, <2>4, <2>5, <2>6, WholeWritten
  <2>8. CASE Opens(0, x)
    <3>1. fs' = fs /\ code'[0] = code[0]
      BY <2>8 DEF Opens
    <3>2. Filled(0)'
      BY <2>6, <3>1 DEF Filled
    <3> QED
      BY <1>6, <2>4, <3>1, <3>2
  <2>9. CASE ~Opens(0, x)
    BY <2>4, <2>7, <2>9
  <2> QED
    BY <2>8, <2>9
<1>7. Framed /\ There
  BY <1>2, <1>3, <1>4, <1>5, <1>6 DEF Copying
<1>8. Rank' = Rank /\ ToWhole(t)' = ToWhole(t) /\ ToEnsure(t)' = ToEnsure(t)
      /\ ToUnlink(t)' = ToUnlink(t)
  BY <1>7, Stays DEF ToUnlink, ToEnsure, ToWhole, unlinkNoise, ensureNoise
<1>9. \A q \in Rank \ {0} : code'[q] = ToEnd(e[q])
  BY <1>7 DEF Copying
<1>10. Copying(e)'
  BY <1>3, <1>7, <1>8, <1>9 DEF Copying
<1> QED
  BY <1>7, <1>10

\* When all the ranks are at a collective.
LEMMA RestStays ==
  ASSUME cfg' = cfg
  PROVE  /\ Rank' = Rank
         /\ \A c : RestList(c)' <=> RestList(c)
<1>1. Rank' = Rank
  BY DEF Rank
<1>2. \A c : RestList(c)' <=> RestList(c)
  BY DEF RestList, InRest, IsList
<1> QED
  BY <1>1, <1>2

\* What one rank does on its own leaves the ranks in the export.
LEMMA UnderwayStep ==
  ASSUME cfg \in Configs, Underway, NEW r \in Rank, RankStep(r)
  PROVE  cfg' = cfg /\ Underway'
<1>1. PICK e : (\A q \in Rank : RestList(e[q])) /\ Exporting(e)
  BY DEF Underway
<1>2. cfg.neutrinos /\ dead = {} /\ Tables /\ HeldRight /\ \A q \in Rank : seen[q] = Unset
  BY DEF Underway, Quiet
<1>3. \A q \in Rank : IsList(e[q])
  BY <1>1 DEF RestList
<1> DEFINE Well == Exporting(e)' /\ UNCHANGED <<cfg, seen, dead>> /\ Tables' /\ HeldRight'
<1>4. CASE Constructing(e) \/ Collecting(e) \/ Clearing(e)
  <2>1. Well
    BY <1>2, <1>3, <1>4, BeforeFile
  <2> QED
    BY <1>1, <1>2, <2>1, RestStays DEF Underway, Quiet
<1>5. CASE Creating(e)
  <2>1. Well
    BY <1>2, <1>3, <1>5, CreatingStep DEF Exporting
  <2> QED
    BY <1>1, <1>2, <2>1, RestStays DEF Underway, Quiet
<1>6. CASE Measuring(e) \/ Turning(e)
  BY <1>2, <1>3, <1>6, NoTurnAlone
<1>7. CASE Writing(e)
  <2>1. Well
    BY <1>2, <1>3, <1>7, WritingStep DEF Exporting
  <2> QED
    BY <1>1, <1>2, <2>1, RestStays DEF Underway, Quiet
<1>8. CASE Copying(e)
  <2>1. Well
    BY <1>2, <1>3, <1>8, CopyingStep DEF Exporting
  <2> QED
    BY <1>1, <1>2, <2>1, RestStays DEF Underway, Quiet
<1> QED
  BY <1>1, <1>4, <1>5, <1>6, <1>7, <1>8 DEF Exporting

AllAt == \A r \in Rank : code[r] # <<>> /\ Head(code[r]).op = "sync"

LEMMA CalmDone ==
  ASSUME NEW t, \A q \in Rank : Meets(t[q]), CalmBefore(t), AllAt
  PROVE  \A q \in Rank : code[q] = t[q]
<1>1. PICK b : \A q \in Rank : CalmList(b[q]) /\ code[q] = b[q] \o t[q]
  BY DEF CalmBefore
<1>2. ASSUME NEW q \in Rank PROVE code[q] = t[q]
  <2>1. Own(b[q]) /\ Meets(t[q]) /\ code[q] = b[q] \o t[q] /\ code[q] # <<>>
        /\ Head(code[q]).op = "sync"
    BY <1>1, CalmIsOwn DEF AllAt
  <2> QED
    BY <2>1, OwnDone
<1> QED
  BY <1>2

LEMMA ClearDone ==
  ASSUME cfg \in Configs, NEW t, \A q \in Rank : Meets(t[q]), ClearBefore(t), AllAt
  PROVE  (\A q \in Rank : code[q] = t[q]) /\ WhiteNoise \notin DOMAIN fs
<1>1. PICK b : /\ \A q \in Rank : ClearList(q, b[q]) /\ code[q] = b[q] \o t[q]
               /\ WhiteNoise \in DOMAIN fs => Unlinks(b[0])
  BY DEF ClearBefore
<1>2. ASSUME NEW q \in Rank PROVE b[q] = <<>> /\ code[q] = t[q]
  <2>1. Own(b[q])
    BY <1>1, ClearIsOwn
  <2>2. Meets(t[q]) /\ code[q] = b[q] \o t[q] /\ code[q] # <<>> /\ Head(code[q]).op = "sync"
    BY <1>1 DEF AllAt
  <2> QED
    BY <2>1, <2>2, OwnDone
<1>3. ~Unlinks(b[0])
  <2>1. b[0] = <<>>
    BY <1>2, ConfigFacts
  <2>2. Len(b[0]) = 0
    BY <2>1, NoList
  <2> QED
    BY <2>2 DEF Unlinks
<1> QED
  BY <1>1, <1>2, <1>3

\* The constructors are over, or nothing has to wait for their end.
Beginning(e, b) ==
  \A r \in Rank : IsList(e[r]) /\ CalmList(b[r]) /\ code[r] = b[r] \o Export(e[r], r)
AtBeginning == \A e, b : cfg \in Configs /\ Beginning(e, b) => Collecting(e) \/ Clearing(e)

LEMMA ExportBegins == AtBeginning
<1> SUFFICES ASSUME NEW e, NEW b, cfg \in Configs,
                    \A r \in Rank : /\ IsList(e[r]) /\ CalmList(b[r])
                                    /\ code[r] = b[r] \o Export(e[r], r)
             PROVE  Collecting(e) \/ Clearing(e)
  BY DEF AtBeginning, Beginning
<1>1. CASE cfg.sampled
  <2>1. PICK t : t = [r \in Rank |-> ToReduce(e[r], r)]
    OBVIOUS
  <2>2. \A r \in Rank : CalmList(b[r]) /\ code[r] = b[r] \o t[r]
    BY <1>1, <2>1 DEF Export
  <2>3. CalmBefore(t)
    BY <2>2 DEF CalmBefore
  <2> QED
    BY <1>1, <2>1, <2>3 DEF Collecting
<1>2. CASE ~cfg.sampled
  <2>1. PICK t : t = [r \in Rank |-> ToField(e[r], r)]
    OBVIOUS
  <2>2. PICK c : c = [r \in Rank |-> b[r] \o Only(r, 0, <<unlinkNoise>>)]
    OBVIOUS
  <2>3. ASSUME NEW r \in Rank PROVE ClearList(r, c[r]) /\ code[r] = c[r] \o t[r]
    <3>1. PICK o, f : o = Only(r, 0, <<unlinkNoise>>) /\ f = ToField(e[r], r)
      OBVIOUS
    <3>2. IsList(o) /\ IsList(f) /\ IsList(b[r])
      BY <3>1, ExportSteps DEF CalmList
    <3>3. PICK x : x = b[r] /\ Lists(x, o, f, f)
      BY <3>2 DEF Lists
    <3>4. (x \o o) \o f = x \o (o \o f)
      <4>1. Lists(x, o, f, f)
        BY <3>3
      <4> QED
        BY <4>1, JoinThree
    <3>5. code[r] = c[r] \o t[r]
      BY <1>2, <2>1, <2>2, <3>1, <3>3, <3>4 DEF Export
    <3>6. ClearList(r, b[r] \o o)
      <4>1. IsList(b[r]) /\ IsList(o)
        BY <3>2
      <4>2. /\ IsList(b[r] \o o) /\ Len(b[r] \o o) = Len(b[r]) + Len(o)
            /\ \A i \in 1 .. Len(b[r]) + Len(o) :
                 (b[r] \o o)[i] = IF i <= Len(b[r]) THEN b[r][i] ELSE o[i - Len(b[r])]
        BY <4>1, Joined
      <4>3. Len(b[r]) \in Nat /\ Len(o) \in Nat
        BY <4>1, ListFacts
      <4>4. \A i \in 1 .. Len(b[r]) : Calm(b[r][i])
        BY DEF CalmList
      <4>5. \A i \in 1 .. Len(o) : r = 0 /\ o[i] = unlinkNoise
        <5>1. CASE r = 0
          <6>1. Len(o) = 1 /\ o[1] = unlinkNoise
            BY <3>1, <5>1, OneStep DEF Only
          <6> QED
            BY <5>1, <6>1
        <5>2. CASE r # 0
          <6>1. Len(o) = 0
            BY <3>1, <5>2, NoList DEF Only
          <6> QED
            BY <6>1
        <5> QED
          BY <5>1, <5>2
      <4>6. ASSUME NEW i \in 1 .. Len(b[r]) + Len(o)
            PROVE  Calm((b[r] \o o)[i]) \/ (r = 0 /\ (b[r] \o o)[i] = unlinkNoise)
        <5>1. CASE i <= Len(b[r])
          <6>1. i \in 1 .. Len(b[r])
            BY <4>3, <5>1
          <6> QED
            BY <4>2, <4>4, <5>1, <6>1
        <5>2. CASE ~(i <= Len(b[r]))
          <6>1. i - Len(b[r]) \in 1 .. Len(o)
            BY <4>3, <5>2
          <6> QED
            BY <4>2, <4>5, <5>2, <6>1
        <5> QED
          BY <5>1, <5>2
      <4> QED
        BY <4>2, <4>6 DEF ClearList
    <3> QED
      BY <2>2, <3>1, <3>5, <3>6
  <2>4. Unlinks(c[0])
    <3>0. 0 \in Rank
      BY ConfigFacts
    <3>1. PICK o : o = <<unlinkNoise>>
      OBVIOUS
    <3>2. IsList(o) /\ Len(o) = 1 /\ o[1] = unlinkNoise
      BY <3>1, OneStep
    <3>3. c[0] = b[0] \o o /\ IsList(b[0])
      BY <2>2, <3>0, <3>1 DEF Only, CalmList
    <3>4. Len(b[0] \o o) = Len(b[0]) + Len(o) /\ (b[0] \o o)[Len(b[0]) + 1] = o[1]
      <4>1. IsList(b[0]) /\ IsList(o)
        BY <3>2, <3>3
      <4>2. /\ Len(b[0] \o o) = Len(b[0]) + Len(o)
            /\ \A i \in 1 .. Len(o) : (b[0] \o o)[Len(b[0]) + i] = o[i]
        BY <4>1, Joined
      <4>3. 1 \in 1 .. Len(o)
        BY <3>2
      <4> QED
        BY <4>2, <4>3
    <3>5. Len(b[0]) \in Nat
      BY <3>3, ListFacts
    <3>6. Len(b[0]) + 1 \in 1 .. Len(c[0])
      BY <3>2, <3>3, <3>4, <3>5
    <3> QED
      BY <3>2, <3>3, <3>4, <3>6 DEF Unlinks
  <2>5. ClearBefore(t)
    BY <2>3, <2>4 DEF ClearBefore
  <2> QED
    BY <1>2, <2>1, <2>5 DEF Clearing
<1> QED
  BY <1>1, <1>2

LEMMA OnlyJoin ==
  ASSUME NEW r, NEW q, NEW x, NEW t, IsList(t)
  PROVE  /\ r = q => Only(r, q, x) \o t = x \o t
         /\ r # q => Only(r, q, x) \o t = t
BY NoList DEF Only

\* What a collective leaves.
LEMMA ExportNexts ==
  ASSUME cfg \in Configs, NEW r, NEW rest, IsList(rest)
  PROVE  /\ Tail(ToEnd(rest)) = rest
         /\ \A q \in Rank :
              Tail(ToTurn(rest, r, q)) = Only(r, q, <<writeNoise(q)>>) \o ToTurn(rest, r, q + 1)
         /\ Tail(ToSizes(rest, r)) = ToTurn(rest, r, 0) /\ Tail(ToStarts(rest, r)) = ToSizes(rest, r)
         /\ Tail(ToOffsets(rest, r)) = ToStarts(rest, r) /\ Tail(ToFile(rest, r)) = ToOffsets(rest, r)
         /\ Tail(ToField(rest, r)) = Only(r, 0, <<ensureNoise>>) \o ToFile(rest, r)
         /\ Tail(ToReduce(rest, r)) =
              Only(r, 0, <<unlinkNoise, ensureNoise, wholeNoise>>) \o ToEnd(rest)
<1>1. ASSUME NEW c, NEW t, SyncFirst(c, t) PROVE Tail(c) = t
  BY <1>1 DEF SyncFirst
<1>2. Tail(ToEnd(rest)) = rest
  BY <1>1, ExportTails
<1>3. ASSUME NEW q \in Rank
      PROVE  Tail(ToTurn(rest, r, q)) = Only(r, q, <<writeNoise(q)>>) \o ToTurn(rest, r, q + 1)
  <2>1. SyncFirst(ToTurn(rest, r, q), Only(r, q, <<writeNoise(q)>>) \o ToTurn(rest, r, q + 1))
    BY ExportTails
  <2> QED
    BY <1>1, <2>1
<1>4. Tail(ToSizes(rest, r)) = ToTurn(rest, r, 0)
  <2>1. SyncFirst(ToSizes(rest, r), ToTurn(rest, r, 0))
    BY ExportTails
  <2> QED
    BY <1>1, <2>1
<1>5. Tail(ToStarts(rest, r)) = ToSizes(rest, r)
  <2>1. SyncFirst(ToStarts(rest, r), ToSizes(rest, r))
    BY ExportTails
  <2> QED
    BY <1>1, <2>1
<1>6. Tail(ToOffsets(rest, r)) = ToStarts(rest, r)
  <2>1. SyncFirst(ToOffsets(rest, r), ToStarts(rest, r))
    BY ExportTails
  <2> QED
    BY <1>1, <2>1
<1>7. Tail(ToFile(rest, r)) = ToOffsets(rest, r)
  <2>1. SyncFirst(ToFile(rest, r), ToOffsets(rest, r))
    BY ExportTails
  <2> QED
    BY <1>1, <2>1
<1>8. Tail(ToField(rest, r)) = Only(r, 0, <<ensureNoise>>) \o ToFile(rest, r)
  <2>1. SyncFirst(ToField(rest, r), Only(r, 0, <<ensureNoise>>) \o ToFile(rest, r))
    BY ExportTails
  <2> QED
    BY <1>1, <2>1
<1>9. Tail(ToReduce(rest, r)) =
        Only(r, 0, <<unlinkNoise, ensureNoise, wholeNoise>>) \o ToEnd(rest)
  <2>1. SyncFirst(ToReduce(rest, r),
                  Only(r, 0, <<unlinkNoise, ensureNoise, wholeNoise>>) \o ToEnd(rest))
    BY ExportTails
  <2> QED
    BY <1>1, <2>1
<1> QED
  BY <1>2, <1>3, <1>4, <1>5, <1>6, <1>7, <1>8, <1>9

\* Every collective of the export brings the ranks to the next, the last one
\* to what follows it.
LEMMA ExportTogether ==
  ASSUME cfg \in Configs, Underway, Collective
  PROVE  cfg' = cfg /\ Tables' /\ (Underway' \/ After')
<1>1. PICK e : (\A r \in Rank : RestList(e[r])) /\ Exporting(e)
  BY DEF Underway
<1>2. cfg.neutrinos /\ dead = {} /\ Tables /\ HeldRight /\ \A r \in Rank : seen[r] = Unset
  BY DEF Underway, Quiet
<1>3. /\ UNCHANGED <<cfg, fs, seen, dead, held>> /\ Tables' /\ HeldRight'
      /\ \A r \in Rank : code[r] # <<>> /\ Head(code[r]).op = "sync" /\ code'[r] = Tail(code[r])
  BY <1>2, OwnTogether
<1>4. Quiet'
  BY <1>2, <1>3 DEF Quiet, Rank
<1>5. \A r \in Rank : IsList(e[r])
  BY <1>1 DEF RestList
<1>6. AllAt /\ 0 \in Rank /\ Rank' = Rank
  BY <1>3, ConfigFacts, Stays DEF AllAt
<1>7. /\ \A rest, r, q : ToTurn(rest, r, q)' = ToTurn(rest, r, q)
      /\ \A rest, r : /\ ToSizes(rest, r)' = ToSizes(rest, r)
                      /\ ToStarts(rest, r)' = ToStarts(rest, r)
                      /\ ToOffsets(rest, r)' = ToOffsets(rest, r)
                      /\ ToFile(rest, r)' = ToFile(rest, r)
                      /\ Export(rest, r)' = Export(rest, r)
  BY <1>3, ExportStays
<1>8. /\ Before(0)' = Before(0) /\ AllPlanes' = AllPlanes /\ WholeField' = WholeField
      /\ wholeNoise' = wholeNoise /\ \A q : writeNoise(q)' = writeNoise(q) /\ Before(q)' = Before(q)
  BY <1>3, Stays
<1>9. /\ \A q : Filled(q) => Filled(q)'
      /\ NoiseIsThere => NoiseIsThere'
  <2>1. ASSUME NEW q, Filled(q) PROVE Filled(q)'
    BY <1>3, <1>8, <2>1 DEF Filled
  <2>2. NoiseIsThere => NoiseIsThere'
    BY <1>3, <1>8 DEF NoiseIsThere
  <2> QED
    BY <2>1, <2>2
<1>9a. ASSUME NEW r \in Rank PROVE Tail(ToSizes(e[r], r)) = ToTurn(e[r], r, 0)
  BY <1>5, ExportNexts
<1>9b. ASSUME NEW r \in Rank PROVE Tail(ToStarts(e[r], r)) = ToSizes(e[r], r)
  BY <1>5, ExportNexts
<1>9c. ASSUME NEW r \in Rank PROVE Tail(ToOffsets(e[r], r)) = ToStarts(e[r], r)
  BY <1>5, ExportNexts
<1>9d. ASSUME NEW r \in Rank PROVE Tail(ToFile(e[r], r)) = ToOffsets(e[r], r)
  BY <1>5, ExportNexts
<1>9e. ASSUME NEW r \in Rank
       PROVE  Tail(ToField(e[r], r)) = Only(r, 0, <<ensureNoise>>) \o ToFile(e[r], r)
  BY <1>5, ExportNexts
<1>9f. ASSUME NEW r \in Rank
       PROVE  Tail(ToReduce(e[r], r)) =
                Only(r, 0, <<unlinkNoise, ensureNoise, wholeNoise>>) \o ToEnd(e[r])
  BY <1>5, ExportNexts
<1>9g. ASSUME NEW q \in Rank, NEW r \in Rank
       PROVE  Tail(ToTurn(e[r], r, q)) = Only(r, q, <<writeNoise(q)>>) \o ToTurn(e[r], r, q + 1)
  <2>1. PICK rest : rest = e[r]
    OBVIOUS
  <2>2. IsList(rest)
    BY <1>5, <2>1
  <2>3. Tail(ToTurn(rest, r, q)) = Only(r, q, <<writeNoise(q)>>) \o ToTurn(rest, r, q + 1)
    <3>1. SyncFirst(ToTurn(rest, r, q), Only(r, q, <<writeNoise(q)>>) \o ToTurn(rest, r, q + 1))
      BY <2>2, ExportTails
    <3> QED
      BY <3>1 DEF SyncFirst
  <2> QED
    BY <2>1, <2>3
<1>10. ASSUME NoiseIsThere, \A r \in Rank : code[r] = ToEnd(e[r]) PROVE After'
  <2>1. ASSUME NEW r \in Rank PROVE code'[r] = e[r]
    BY <1>3, <1>5, <1>10, ExportNexts
  <2>2. \A r \in Rank : RestList(code[r])'
    BY <1>1, <1>3, <2>1 DEF RestList, InRest
  <2>3. \A r \in Rank : seen'[r] = Unset
    BY <1>2, <1>3
  <2> QED
    BY <1>6, <1>9, <1>10, <2>2, <2>3 DEF After
<1>11. ASSUME Constructing(e) PROVE Exporting(e)'
  <2>1. PICK t : t = [r \in Rank |-> Sync("Barrier") \o Export(e[r], r)]
    OBVIOUS
  <2>2. \A r \in Rank : Meets(t[r])
    BY <1>5, <2>1, ExportMeets
  <2>3. CalmBefore(t)
    BY <1>11, <2>1 DEF Constructing
  <2>4. \A r \in Rank : code[r] = t[r]
    BY <1>6, <2>2, <2>3, CalmDone
  <2>5. ASSUME NEW r \in Rank PROVE code'[r] = <<>> \o Export(e[r], r)
    <3>1. IsList(Export(e[r], r))
      BY <1>5, ExportSteps
    <3>2. Tail(Sync("Barrier") \o Export(e[r], r)) = Export(e[r], r)
      BY <3>1, OneSync
    <3> QED
      BY <1>3, <2>1, <2>4, <3>1, <3>2, NoList
  <2>6. PICK b : b = [r \in Rank |-> <<>>]
    OBVIOUS
  <2>7. ASSUME NEW r \in Rank
        PROVE  IsList(e[r]) /\ CalmList(b[r]) /\ code'[r] = b[r] \o Export(e[r], r)'
    <3>1. CalmList(<<>>)
      BY NoList DEF CalmList
    <3> QED
      BY <1>5, <1>7, <2>5, <2>6, <3>1
  <2>8. AtBeginning'
    BY ExportBegins, PTL
  <2>9. Beginning(e, b)'
    BY <1>6, <2>7 DEF Beginning, IsList, CalmList, Calm
  <2>10. cfg' \in Configs
    BY <1>3
  <2>11. Collecting(e)' \/ Clearing(e)'
    BY <2>8, <2>9, <2>10 DEF AtBeginning
  <2> QED
    BY <2>11 DEF Exporting
<1>12. ASSUME Collecting(e) PROVE Exporting(e)'
  <2>1. PICK t : t = [r \in Rank |-> ToReduce(e[r], r)]
    OBVIOUS
  <2>2. \A r \in Rank : Meets(t[r])
    BY <1>5, <2>1, ExportMeets
  <2>3. CalmBefore(t)
    BY <1>12, <2>1 DEF Collecting
  <2>4. \A r \in Rank : code[r] = t[r]
    BY <1>6, <2>2, <2>3, CalmDone
  <2>5. ASSUME NEW r \in Rank
        PROVE  code'[r] = Only(r, 0, <<unlinkNoise, ensureNoise, wholeNoise>>) \o ToEnd(e[r])
    BY <1>3, <1>5, <2>1, <2>4, <1>9f
  <2>6. ASSUME NEW r \in Rank \ {0} PROVE code'[r] = ToEnd(e[r])
    <3>1. IsList(ToEnd(e[r]))
      BY <1>5, CopyLists
    <3> QED
      BY <2>5, <3>1, OnlyJoin
  <2>7. code'[0] = ToUnlink(e[0])
    BY <1>5, <1>6, <2>5, CopyLists
  <2>8. ToUnlink(e[0])' = ToUnlink(e[0])
    BY <1>8 DEF ToUnlink, ToEnsure, ToWhole, unlinkNoise, ensureNoise
  <2>9. Copying(e)'
    BY <1>6, <2>6, <2>7, <2>8 DEF Copying
  <2> QED
    BY <2>9 DEF Exporting
<1>13. ASSUME Clearing(e) PROVE Exporting(e)'
  <2>1. PICK t : t = [r \in Rank |-> ToField(e[r], r)]
    OBVIOUS
  <2>2. \A r \in Rank : Meets(t[r])
    BY <1>5, <2>1, ExportMeets
  <2>3. ClearBefore(t)
    BY <1>13, <2>1 DEF Clearing
  <2>4. (\A r \in Rank : code[r] = t[r]) /\ WhiteNoise \notin DOMAIN fs
    BY <1>6, <2>2, <2>3, ClearDone
  <2>5. ASSUME NEW r \in Rank
        PROVE  /\ r = 0 => code'[r] = <<ensureNoise>> \o ToFile(e[r], r)
               /\ r # 0 => code'[r] = ToFile(e[r], r)
    <3>1. code'[r] = Only(r, 0, <<ensureNoise>>) \o ToFile(e[r], r)
      BY <1>3, <1>5, <2>1, <2>4, <1>9e
    <3>2. IsList(ToFile(e[r], r))
      BY <1>5, ExportSteps
    <3> QED
      <4>1. Only(r, 0, <<ensureNoise>>) = IF r = 0 THEN <<ensureNoise>> ELSE <<>>
        BY DEF Only
      <4>2. <<>> \o ToFile(e[r], r) = ToFile(e[r], r)
        BY <3>2, NoList
      <4>3. r = 0 => code'[r] = <<ensureNoise>> \o ToFile(e[r], r)
        BY <3>1, <4>1
      <4>4. r # 0 => code'[r] = ToFile(e[r], r)
        BY <3>1, <4>1, <4>2
      <4> QED
        BY <4>3, <4>4
  <2>6. WhiteNoise \notin DOMAIN fs'
    BY <1>3, <2>4
  <2>7. Creating(e)'
    BY <1>6, <1>7, <2>5, <2>6 DEF Creating, ensureNoise
  <2> QED
    BY <2>7 DEF Exporting
<1>14. ASSUME Creating(e) PROVE Exporting(e)'
  <2>1. code[0] # <<ensureNoise>> \o ToFile(e[0], 0)
    <3>1. IsList(ToFile(e[0], 0))
      BY <1>5, <1>6, ExportSteps
    <3>2. Head(<<ensureNoise>> \o ToFile(e[0], 0)) = ensureNoise
      BY <3>1, FirstOfJoin
    <3>3. ensureNoise.op # "sync"
      BY NoiseSteps
    <3> QED
      BY <1>3, <1>6, <3>2, <3>3
  <2>2. Filled(0) /\ \A r \in Rank : code[r] = ToFile(e[r], r)
    BY <1>14, <2>1 DEF Creating
  <2>3. ASSUME NEW r \in Rank PROVE code'[r] = ToOffsets(e[r], r)
    BY <1>3, <1>5, <2>2, <1>9d
  <2>4. Measuring(e)'
    BY <1>6, <1>7, <1>9, <2>2, <2>3 DEF Measuring
  <2> QED
    BY <2>4 DEF Exporting
<1>15. ASSUME Measuring(e) PROVE Exporting(e)'
  <2>0. Filled(0)'
    BY <1>9, <1>15 DEF Measuring
  <2>1. CASE \A r \in Rank : code[r] = ToOffsets(e[r], r)
    <3>1. ASSUME NEW r \in Rank PROVE code'[r] = ToStarts(e[r], r)
      BY <1>3, <1>5, <2>1, <1>9c
    <3>2. Measuring(e)'
      BY <1>6, <1>7, <2>0, <3>1 DEF Measuring
    <3> QED
      BY <3>2 DEF Exporting
  <2>2. CASE \A r \in Rank : code[r] = ToStarts(e[r], r)
    <3>1. ASSUME NEW r \in Rank PROVE code'[r] = ToSizes(e[r], r)
      BY <1>3, <1>5, <2>2, <1>9b
    <3>2. Measuring(e)'
      BY <1>6, <1>7, <2>0, <3>1 DEF Measuring
    <3> QED
      BY <3>2 DEF Exporting
  <2>3. CASE \A r \in Rank : code[r] = ToSizes(e[r], r)
    <3>1. ASSUME NEW r \in Rank PROVE code'[r] = ToTurn(e[r], r, 0)
      BY <1>3, <1>5, <2>3, <1>9a
    <3>2. 0 \in 0 .. cfg'.ranks
      BY <1>3, ConfigFacts
    <3>3. Turning(e)'
      BY <1>6, <1>7, <2>0, <3>1, <3>2 DEF Turning
    <3> QED
      BY <3>3 DEF Exporting
  <2> QED
    BY <1>15, <2>1, <2>2, <2>3 DEF Measuring
<1>16. ASSUME Turning(e) PROVE Exporting(e)' \/ After'
  <2>1. PICK q \in 0 .. cfg.ranks : Filled(q) /\ \A r \in Rank : code[r] = ToTurn(e[r], r, q)
    BY <1>16 DEF Turning
  <2>2. CASE q = cfg.ranks
    <3>1. NoiseIsThere
      BY <2>1, <2>2, FilledIsWhole
    <3>2. \A r \in Rank : code[r] = ToEnd(e[r])
      BY <1>5, <2>1, <2>2, ExportTails
    <3> QED
      BY <1>10, <3>1, <3>2
  <2>3. CASE q # cfg.ranks
    <3>1. q \in Rank /\ q + 1 \in 0 .. cfg.ranks
      BY <2>3, ConfigFacts
    <3>2. ASSUME NEW r \in Rank
          PROVE  /\ r = q => code'[r] = <<writeNoise(q)>> \o ToTurn(e[r], r, q + 1)
                 /\ r # q => code'[r] = ToTurn(e[r], r, q + 1)
      <4>1. code'[r] = Only(r, q, <<writeNoise(q)>>) \o ToTurn(e[r], r, q + 1)
        BY <1>3, <1>5, <2>1, <3>1, <1>9g
      <4>2. IsList(ToTurn(e[r], r, q + 1))
        BY <1>5, <3>1, ExportSteps
      <4> QED
        <5>1. Only(r, q, <<writeNoise(q)>>) = IF r = q THEN <<writeNoise(q)>> ELSE <<>>
          BY DEF Only
        <5>2. <<>> \o ToTurn(e[r], r, q + 1) = ToTurn(e[r], r, q + 1)
          BY <4>2, NoList
        <5>3. r = q => code'[r] = <<writeNoise(q)>> \o ToTurn(e[r], r, q + 1)
          BY <4>1, <5>1
        <5>4. r # q => code'[r] = ToTurn(e[r], r, q + 1)
          BY <4>1, <5>1, <5>2
        <5> QED
          BY <5>3, <5>4
    <3>3. Filled(q)'
      BY <1>9, <2>1
    <3>4. Writing(e)'
      BY <1>6, <1>7, <1>8, <3>1, <3>2, <3>3 DEF Writing
    <3> QED
      BY <3>4 DEF Exporting
  <2> QED
    BY <2>2, <2>3
<1>17. ~Writing(e)
  <2>1. SUFFICES ASSUME NEW q \in Rank, code[q] = <<writeNoise(q)>> \o ToTurn(e[q], q, q + 1)
                 PROVE  FALSE
    BY DEF Writing
  <2>2. IsList(ToTurn(e[q], q, q + 1))
    <3>1. q + 1 \in 0 .. cfg.ranks
      BY ConfigFacts
    <3> QED
      BY <1>5, <3>1, ExportSteps
  <2>3. Head(code[q]) = writeNoise(q)
    BY <2>1, <2>2, FirstOfJoin
  <2>4. writeNoise(q).op = IF q = 0 THEN "field" ELSE "planes"
    BY NoiseSteps
  <2> QED
    BY <1>3, <2>3, <2>4
<1>18. ASSUME Copying(e) PROVE After'
  <2>1. ASSUME NEW x, NEW t, IsList(t), x.op # "sync" PROVE code[0] # <<x>> \o t
    <3>1. Head(<<x>> \o t) = x
      BY <2>1, FirstOfJoin
    <3> QED
      BY <1>3, <1>6, <2>1, <3>1
  <2>2. unlinkNoise.op # "sync" /\ ensureNoise.op # "sync" /\ wholeNoise.op # "sync"
    BY NoiseSteps
  <2>3. IsList(ToEnd(e[0])) /\ IsList(ToWhole(e[0])) /\ IsList(ToEnsure(e[0]))
    BY <1>5, <1>6, CopyLists
  <2>4. code[0] # ToUnlink(e[0]) /\ code[0] # ToEnsure(e[0]) /\ code[0] # ToWhole(e[0])
    BY <2>1, <2>2, <2>3 DEF ToUnlink, ToEnsure, ToWhole
  <2>5. NoiseIsThere /\ \A r \in Rank : code[r] = ToEnd(e[r])
    BY <1>18, <2>4 DEF Copying
  <2> QED
    BY <1>10, <2>5
<1>19. Exporting(e)' \/ After'
  BY <1>1, <1>11, <1>12, <1>13, <1>14, <1>15, <1>16, <1>17, <1>18 DEF Exporting
<1>20. Exporting(e)' => Underway'
  BY <1>1, <1>3, <1>4, RestStays DEF Underway
<1> QED
  BY <1>3, <1>19, <1>20

-----------------------------------------------------------------------------
(***************************************************************************)
(* From the first step to the last.                                        *)
(***************************************************************************)

\* The ranks export the noise, or it is there and whoever reads it reads all
\* of it.  Without neutrinos nobody reads it.
NoiseInv ==
  cfg \in Configs /\ DOMAIN code = Rank /\ DOMAIN seen = Rank /\ (Underway \/ After)

LEMMA NoiseInit == Init => NoiseInv
<1> SUFFICES ASSUME Init PROVE NoiseInv
  OBVIOUS
<1>1. /\ cfg \in Configs /\ held = [r \in Rank |-> NoFile] /\ code = [r \in Rank |-> Program(r)]
      /\ seen = [r \in Rank |-> Unset] /\ dead = {}
  BY DEF Init
<1>2. DOMAIN code = Rank /\ DOMAIN seen = Rank
  BY <1>1
<1>3. held \in [Rank -> {held[q] : q \in Rank}]
  BY <1>1
<1>4. CASE ~cfg.neutrinos
  <2>1. ASSUME NEW r \in Rank PROVE RestList(code[r])
    <3>1. RestList(Program(r))
      BY <1>1, <1>4, ProgramIs
    <3> QED
      BY <1>1, <3>1
  <2>2. \A r \in Rank : seen[r] = Unset
    BY <1>1
  <2>3. After
    BY <1>4, <2>1, <2>2 DEF After
  <2> QED
    BY <1>1, <1>2, <2>3 DEF NoiseInv
<1>5. CASE cfg.neutrinos
  <2>1. PICK e : e = [r \in Rank |-> Rest(r)]
    OBVIOUS
  <2>2. ASSUME NEW r \in Rank PROVE e[r] = Rest(r) /\ RestList(e[r])
    <3>1. RestList(Rest(r))
      BY <1>1, RestIsRest
    <3> QED
      BY <2>1, <3>1
  <2>3. ASSUME NEW r \in Rank PROVE code[r] = Construct(r) \o Export(e[r], r)
    <3>1. Program(r) = Construct(r) \o Export(Rest(r), r)
      BY <1>1, <1>5, ProgramIs
    <3> QED
      BY <1>1, <2>2, <3>1
  <2>4. \A r \in Rank : IsList(e[r])
    BY <2>2 DEF RestList
  <2>5. Quiet
    <3>1. HeldRight
      BY <1>1, OtherFiles DEF HeldRight
    <3> QED
      BY <1>1, <1>2, <1>3, <1>5, <3>1 DEF Quiet, Tables
  <2>6. CASE cfg.format = "generic"
    <3>1. PICK t : t = [r \in Rank |-> Sync("Barrier") \o Export(e[r], r)]
      OBVIOUS
    <3>2. PICK b : b = [r \in Rank |-> Begin(r)]
      OBVIOUS
    <3>3. ASSUME NEW r \in Rank PROVE CalmList(b[r]) /\ code[r] = b[r] \o t[r]
      <4>1. CalmList(Begin(r)) /\ Construct(r) = Begin(r) \o Sync("Barrier")
        BY <1>1, <2>6, ConstructIs
      <4>2. PICK x, y, z : x = Begin(r) /\ y = Sync("Barrier") /\ z = Export(e[r], r)
        OBVIOUS
      <4>3. Lists(x, y, z, z)
        <5>1. IsList(x)
          BY <4>1, <4>2 DEF CalmList
        <5>2. IsList(y)
          BY <4>2, OneStep DEF Sync
        <5>3. IsList(z)
          BY <1>1, <2>4, <4>2, ExportSteps
        <5> QED
          BY <5>1, <5>2, <5>3 DEF Lists
      <4>4. (x \o y) \o z = x \o (y \o z)
        BY <4>3, JoinThree
      <4>5. code[r] = (x \o y) \o z /\ b[r] = x /\ t[r] = y \o z
        BY <2>3, <3>1, <3>2, <4>1, <4>2
      <4> QED
        BY <4>1, <4>2, <4>4, <4>5
    <3>4. CalmBefore(t)
      BY <3>3 DEF CalmBefore
    <3>5. Constructing(e)
      BY <2>6, <3>1, <3>4 DEF Constructing
    <3>6. Underway
      BY <2>2, <2>5, <3>5 DEF Underway, Exporting
    <3> QED
      BY <1>1, <1>2, <3>6 DEF NoiseInv
  <2>7. CASE cfg.format # "generic"
    <3>1. PICK b : b = [r \in Rank |-> Begin(r)]
      OBVIOUS
    <3>2. ASSUME NEW r \in Rank
          PROVE  IsList(e[r]) /\ CalmList(b[r]) /\ code[r] = b[r] \o Export(e[r], r)
      <4>1. CalmList(Begin(r)) /\ Construct(r) = Begin(r)
        BY <1>1, <2>7, ConstructIs
      <4> QED
        BY <2>3, <2>4, <3>1, <4>1
    <3>3. Beginning(e, b)
      BY <3>2 DEF Beginning
    <3>4. Collecting(e) \/ Clearing(e)
      BY <1>1, <3>3, ExportBegins DEF AtBeginning
    <3>5. Underway
      BY <2>2, <2>5, <3>4 DEF Underway, Exporting
    <3> QED
      BY <1>1, <1>2, <3>5 DEF NoiseInv
  <2> QED
    BY <2>6, <2>7
<1>6. cfg.neutrinos \in BOOLEAN
  BY <1>1, ConfigFacts
<1> QED
  BY <1>4, <1>5, <1>6

LEMMA NoiseStutters ==
  ASSUME UNCHANGED vars, NoiseInv
  PROVE  NoiseInv'
<1>1. UNCHANGED <<cfg, fs, held, code, seen, dead>>
  BY DEF vars
<1>2. Rank' = Rank /\ (\A c : RestList(c)' <=> RestList(c))
  BY <1>1, RestStays
<1>3. (NoiseIsThere => NoiseIsThere') /\ \A q : Filled(q) => Filled(q)'
  <2>1. ASSUME NEW q, Filled(q) PROVE Filled(q)'
    BY <1>1, <2>1, Stays DEF Filled
  <2>2. NoiseIsThere => NoiseIsThere'
    BY <1>1, Stays DEF NoiseIsThere
  <2> QED
    BY <2>1, <2>2
<1>4. After => After'
  BY <1>1, <1>2, <1>3, Stays DEF After
<1>5. Quiet => Quiet'
  BY <1>1, <1>2 DEF Quiet, Tables, HeldRight
<1>6. /\ \A t : CalmBefore(t) => CalmBefore(t)'
      /\ \A t : ClearBefore(t) => ClearBefore(t)'
  <2>1. ASSUME NEW t, CalmBefore(t) PROVE CalmBefore(t)'
    BY <1>1, <1>2, <2>1 DEF CalmBefore, CalmList, IsList, Calm, WhiteNoise, Shared, Path
  <2>2. ASSUME NEW t, ClearBefore(t) PROVE ClearBefore(t)'
    <3>1. PICK b : /\ \A q \in Rank : ClearList(q, b[q]) /\ code[q] = b[q] \o t[q]
                   /\ WhiteNoise \in DOMAIN fs => Unlinks(b[0])
      BY <2>2 DEF ClearBefore
    <3>2. \A q \in Rank : ClearList(q, b[q])'
      BY <3>1 DEF ClearList, IsList, Calm
    <3>3. Unlinks(b[0])' <=> Unlinks(b[0])
      BY DEF Unlinks
    <3> QED
      BY <1>1, <1>2, <3>1, <3>2, <3>3 DEF ClearBefore
  <2> QED
    BY <2>1, <2>2
<1>7. ASSUME NEW e, Exporting(e) PROVE Exporting(e)'
  <2>1. CASE Constructing(e)
    <3>1. PICK t : t = [q \in Rank |-> Sync("Barrier") \o Export(e[q], q)]
      OBVIOUS
    <3>2. t = [q \in Rank' |-> Sync("Barrier") \o Export(e[q], q)']
      BY <1>1, <1>2, <3>1, ExportStays
    <3>3. CalmBefore(t)'
      BY <1>6, <2>1, <3>1 DEF Constructing
    <3> QED
      BY <1>1, <2>1, <3>2, <3>3 DEF Constructing, Exporting
  <2>2. CASE Collecting(e)
    <3>1. PICK t : t = [q \in Rank |-> ToReduce(e[q], q)]
      OBVIOUS
    <3>2. t = [q \in Rank' |-> ToReduce(e[q], q)']
      BY <1>1, <1>2, <3>1, ExportStays
    <3>3. CalmBefore(t)'
      BY <1>6, <2>2, <3>1 DEF Collecting
    <3> QED
      BY <1>1, <2>2, <3>2, <3>3 DEF Collecting, Exporting
  <2>3. CASE Clearing(e)
    <3>1. PICK t : t = [q \in Rank |-> ToField(e[q], q)]
      OBVIOUS
    <3>2. t = [q \in Rank' |-> ToField(e[q], q)']
      BY <1>1, <1>2, <3>1, ExportStays
    <3>3. ClearBefore(t)'
      BY <1>6, <2>3, <3>1 DEF Clearing
    <3> QED
      BY <1>1, <2>3, <3>2, <3>3 DEF Clearing, Exporting
  <2>4. CASE Creating(e)
    <3>1. Creating(e)'
      BY <1>1, <1>2, <1>3, <2>4, ExportStays DEF Creating, ensureNoise
    <3> QED
      BY <3>1 DEF Exporting
  <2>5. CASE Measuring(e)
    <3>1. Measuring(e)'
      BY <1>1, <1>2, <1>3, <2>5, ExportStays DEF Measuring
    <3> QED
      BY <3>1 DEF Exporting
  <2>6. CASE Turning(e)
    <3>1. Turning(e)'
      BY <1>1, <1>2, <1>3, <2>6, ExportStays DEF Turning
    <3> QED
      BY <3>1 DEF Exporting
  <2>7. CASE Writing(e)
    <3>1. Writing(e)'
      BY <1>1, <1>2, <1>3, <2>7, Stays, ExportStays DEF Writing
    <3> QED
      BY <3>1 DEF Exporting
  <2>8. CASE Copying(e)
    <3>1. /\ ToUnlink(e[0])' = ToUnlink(e[0]) /\ ToEnsure(e[0])' = ToEnsure(e[0])
          /\ ToWhole(e[0])' = ToWhole(e[0])
      BY <1>1, Stays DEF ToUnlink, ToEnsure, ToWhole, unlinkNoise, ensureNoise
    <3>2. Copying(e)'
      BY <1>1, <1>2, <1>3, <2>8, <3>1 DEF Copying
    <3> QED
      BY <3>2 DEF Exporting
  <2> QED
    BY <1>7, <2>1, <2>2, <2>3, <2>4, <2>5, <2>6, <2>7, <2>8 DEF Exporting
<1>8. Underway => Underway'
  BY <1>2, <1>5, <1>7 DEF Underway
<1> QED
  BY <1>1, <1>2, <1>4, <1>8 DEF NoiseInv

LEMMA NoiseStep ==
  ASSUME NoiseInv, Next
  PROVE  NoiseInv'
<1>1. cfg \in Configs /\ DOMAIN code = Rank /\ DOMAIN seen = Rank
  BY DEF NoiseInv
<1>2. cfg' = cfg => Rank' = Rank
  BY DEF Rank
<1>3. CASE Done
  BY <1>3, NoiseStutters DEF Done
<1>4. CASE Collective
  <2>1. CASE Underway
    <3>1. cfg' = cfg /\ Tables' /\ (Underway' \/ After')
      BY <1>1, <1>4, <2>1, ExportTogether
    <3> QED
      BY <1>1, <3>1 DEF NoiseInv, Tables
  <2>2. CASE After
    <3>1. cfg' = cfg /\ After' /\ DOMAIN code' = Rank /\ DOMAIN seen' = Rank
      BY <1>1, <1>4, <2>2, AfterAll
    <3> QED
      BY <1>1, <1>2, <3>1 DEF NoiseInv
  <2> QED
    BY <2>1, <2>2 DEF NoiseInv
<1>5. ASSUME NEW r \in Rank, RankStep(r) PROVE NoiseInv'
  <2>1. CASE Underway
    <3>1. cfg' = cfg /\ Underway'
      BY <1>1, <1>5, <2>1, UnderwayStep
    <3> QED
      BY <1>1, <3>1 DEF NoiseInv, Underway, Quiet, Tables
  <2>2. CASE After
    <3>1. cfg' = cfg /\ After' /\ DOMAIN code' = Rank /\ DOMAIN seen' = Rank
      BY <1>1, <1>5, <2>2, AfterStep
    <3> QED
      BY <1>1, <1>2, <3>1 DEF NoiseInv
  <2> QED
    BY <2>1, <2>2 DEF NoiseInv
<1> QED
  BY <1>3, <1>4, <1>5 DEF Next

\* FastDF reads every plane of the white noise of this run, on every rank
\* that reads it at all: the noise is written whole before the first rank can
\* reach the read, whatever an earlier run has left in the file, in whichever
\* order the ranks take their turns, for every number of ranks and every
\* distribution of the planes; and nothing later touches the file.
THEOREM NoiseIsAlwaysReadWhole == Spec => []NoiseIsReadWhole
<1>1. Init => NoiseInv
  BY NoiseInit
<1>2. NoiseInv /\ [Next]_vars => NoiseInv'
  BY NoiseStep, NoiseStutters
<1>3. NoiseInv => NoiseIsReadWhole
  BY DEF NoiseInv, Underway, Quiet, After, NoiseIsReadWhole
<1> QED
  BY <1>1, <1>2, <1>3, PTL DEF Spec

-----------------------------------------------------------------------------
(***************************************************************************)
(* The neutrinos: what every step of a rank is about.                      *)
(***************************************************************************)
Merges == cfg.format \in {"gadget_hdf5", "AREPO", "SWIFT"}
SnapOf(r) == distributed_hdf5_filename(Snapshot, r)
TmpOf(r) == distributed_hdf5_filename(Temporary, r)

\* The files of a rank, those that all ranks share, and of the merge.
FilesOf(r) == {NoFile, WhiteNoise, this_fname(r), TmpOf(r), Shared("tmp.hdf5")}
InPlace(r, s) ==
  /\ s.op \notin {"open", "copy"} => s.file \in FilesOf(r)
  /\ s.op \in {"open", "copy"} => s.file = SnapOf(r) /\ s.on = TmpOf(r)
PlacedList(r, c) == IsList(c) /\ \A i \in 1 .. Len(c) : InPlace(r, c[i])

\* Once the neutrinos are merged, their data are not written again.
Closing(s) == s.op \in {"note", "group", "attribute", "sync"}
ClosingList(c) == IsList(c) /\ \A i \in 1 .. Len(c) : Closing(c[i])

\* The whole of a list that is joined.
LEMMA JoinedSteps ==
  ASSUME NEW c, IsList(c), NEW d, IsList(d), NEW i \in 1 .. Len(c \o d)
  PROVE  \/ \E j \in 1 .. Len(c) : (c \o d)[i] = c[j]
         \/ \E j \in 1 .. Len(d) : (c \o d)[i] = d[j]
<1>1. Len(c) \in Nat /\ Len(d) \in Nat /\ Len(c \o d) = Len(c) + Len(d)
  BY ListFacts, Joined
<1>2. (c \o d)[i] = IF i <= Len(c) THEN c[i] ELSE d[i - Len(c)]
  BY <1>1, Joined
<1>3. CASE i <= Len(c)
  BY <1>1, <1>2, <1>3
<1>4. CASE ~(i <= Len(c))
  <2>1. i - Len(c) \in 1 .. Len(d)
    BY <1>1, <1>4
  <2> QED
    BY <1>2, <1>4, <2>1
<1> QED
  BY <1>3, <1>4

LEMMA PlacedJoin ==
  ASSUME NEW r, NEW c, PlacedList(r, c), NEW d, PlacedList(r, d)
  PROVE  PlacedList(r, c \o d)
<1>1. IsList(c) /\ IsList(d) /\ IsList(c \o d)
  BY Joined DEF PlacedList
<1>2. ASSUME NEW i \in 1 .. Len(c \o d) PROVE InPlace(r, (c \o d)[i])
  BY <1>1, JoinedSteps DEF PlacedList
<1> QED
  BY <1>1, <1>2 DEF PlacedList

LEMMA ClosingJoin ==
  ASSUME NEW c, ClosingList(c), NEW d, ClosingList(d)
  PROVE  ClosingList(c \o d)
<1>1. IsList(c) /\ IsList(d) /\ IsList(c \o d)
  BY Joined DEF ClosingList
<1>2. ASSUME NEW i \in 1 .. Len(c \o d) PROVE Closing((c \o d)[i])
  BY <1>1, JoinedSteps DEF ClosingList
<1> QED
  BY <1>1, <1>2 DEF ClosingList

LEMMA PlacedNothing == ClosingList(<<>>) /\ \A r : PlacedList(r, <<>>)
BY NoList DEF PlacedList, ClosingList

LEMMA PlacedStep ==
  ASSUME NEW r, NEW op, op \notin {"open", "copy"}, NEW file \in FilesOf(r), NEW on, NEW val
  PROVE  /\ PlacedList(r, <<Step(op, file, on, val)>>)
         /\ op \in {"note", "group", "attribute", "sync"} => ClosingList(<<Step(op, file, on, val)>>)
<1> DEFINE x == Step(op, file, on, val)
<1>1. InPlace(r, x) /\ (op \in {"note", "group", "attribute", "sync"} => Closing(x))
  BY StepIs DEF InPlace, Closing
<1> HIDE DEF x
<1>2. PICK c : c = <<x>>
  OBVIOUS
<1>3. IsList(c) /\ Len(c) = 1 /\ c[1] = x
  BY <1>2, OneStep
<1>4. \A i \in 1 .. Len(c) : c[i] = x
  BY <1>3
<1>5. PlacedList(r, c) /\ (op \in {"note", "group", "attribute", "sync"} => ClosingList(c))
  BY <1>1, <1>3, <1>4 DEF PlacedList, ClosingList
<1> QED
  BY <1>2, <1>5 DEF x

LEMMA PlacedChoice ==
  ASSUME NEW r, NEW c, PlacedList(r, c)
  PROVE  /\ \A b \in BOOLEAN : PlacedList(r, When(b, c))
         /\ \A p, q : PlacedList(r, Only(p, q, c))
BY PlacedNothing DEF When, Only

LEMMA PlacedFlatten ==
  ASSUME NEW r, NEW ss, IsList(ss), \A i \in 1 .. Len(ss) : PlacedList(r, ss[i])
  PROVE  PlacedList(r, FlattenSeq(ss))
<1> DEFINE S == {x \in UNION {{ss[i][j] : j \in 1 .. Len(ss[i])} : i \in 1 .. Len(ss)} :
                   InPlace(r, x)}
<1>1. ASSUME NEW i \in 1 .. Len(ss) PROVE ss[i] \in Seq(S)
  <2>1. IsList(ss[i]) /\ \A j \in 1 .. Len(ss[i]) : InPlace(r, ss[i][j])
    BY DEF PlacedList
  <2>2. Len(ss[i]) \in Nat /\ ss[i] = [j \in 1 .. Len(ss[i]) |-> ss[i][j]]
    BY <2>1, ListFacts
  <2>3. \A j \in 1 .. Len(ss[i]) : ss[i][j] \in S
    BY <2>1
  <2> HIDE DEF S
  <2>4. ss[i] \in [1 .. Len(ss[i]) -> S]
    BY <2>2, <2>3
  <2> QED
    BY <2>2, <2>4, SeqDef
<1>2. FlattenSeq(ss) \in Seq(S)
  <2> HIDE DEF S
  <2> QED
    BY <1>1, FlattenIn
<1>3. \A x \in S : InPlace(r, x)
  OBVIOUS
<1> HIDE DEF S
<1>4. PICK c : c = FlattenSeq(ss)
  OBVIOUS
<1>5. IsList(c) /\ DOMAIN c = 1 .. Len(c) /\ \A i \in 1 .. Len(c) : c[i] \in S
  BY <1>2, <1>4, ListIs, LenProperties, ElementOfSeq
<1> QED
  BY <1>3, <1>4, <1>5 DEF PlacedList

LEMMA PlacedEach ==
  ASSUME NEW r, NEW n \in Nat, NEW ss, DOMAIN ss = 1 .. n, ss = [i \in 1 .. n |-> ss[i]],
         \A i \in 1 .. n : PlacedList(r, ss[i])
  PROVE  PlacedList(r, FlattenSeq(ss))
<1>1. IsList(ss) /\ Len(ss) = n
  BY ListOf
<1> QED
  BY <1>1, PlacedFlatten

LEMMA PlacedSync ==
  \A r, call : PlacedList(r, Sync(call)) /\ ClosingList(Sync(call))
<1> SUFFICES ASSUME NEW r, NEW call PROVE PlacedList(r, Sync(call)) /\ ClosingList(Sync(call))
  OBVIOUS
<1>1. NoFile \in FilesOf(r)
  BY DEF FilesOf
<1> QED
  BY <1>1, PlacedStep DEF Sync

LEMMA PlacedHDF ==
  ASSUME NEW r, NEW f \in FilesOf(r)
  PROVE  /\ PlacedList(r, unlink(f)) /\ PlacedList(r, HDFCreateFile(f))
         /\ \A g : PlacedList(r, HDFCreateGroup(f, g)) /\ ClosingList(HDFCreateGroup(f, g))
         /\ \A g, a, v : /\ PlacedList(r, HDFWriteGroupAttribute(f, g, a, v))
                         /\ ClosingList(HDFWriteGroupAttribute(f, g, a, v))
         /\ \A g, a : /\ PlacedList(r, HDFWriteGroupText(f, g, a))
                      /\ ClosingList(HDFWriteGroupText(f, g, a))
         /\ \A d, v : /\ PlacedList(r, HDFWriteDataset(f, d, v))
                      /\ PlacedList(r, HDFWriteDatasetVector(f, d, v))
         /\ \A d, n : /\ PlacedList(r, HDFCreateEmptyDataset(f, d, n))
                      /\ PlacedList(r, HDFCreateEmptyDatasetVector(f, d, n))
         /\ \A d, v, o : /\ PlacedList(r, HDFWriteDatasetChunk(f, d, v, o))
                         /\ PlacedList(r, HDFWriteDatasetVectorChunk(f, d, v, o))
BY PlacedStep DEF unlink, HDFCreateFile, HDFCreateGroup, HDFWriteGroupAttribute,
     HDFWriteGroupText, HDFWriteDataset, HDFWriteDatasetVector, HDFCreateEmptyDataset,
     HDFCreateEmptyDatasetVector, HDFWriteDatasetChunk, HDFWriteDatasetVectorChunk

LEMMA PlacedTotals ==
  ASSUME NEW r, NEW n \in Nat
  PROVE  PlacedList(r, Totals(n))
<1> DEFINE ss == [i \in 1 .. n |-> Sync("Allreduce")]
<1>1. Totals(n) = FlattenSeq(ss)
  BY DEF Totals, ForEach
<1>2. DOMAIN ss = 1 .. n /\ ss = [i \in 1 .. n |-> ss[i]] /\ \A i \in 1 .. n : PlacedList(r, ss[i])
  BY PlacedSync
<1> HIDE DEF ss
<1> QED
  BY <1>1, <1>2, PlacedEach

LEMMA PlacedCounts ==
  \A r, s, local, all, set : /\ PlacedList(r, SetCounts(s, local, all, set))
                             /\ ClosingList(SetCounts(s, local, all, set))
<1> SUFFICES ASSUME NEW r, NEW s, NEW local, NEW all, NEW set
             PROVE  /\ PlacedList(r, SetCounts(s, local, all, set))
                    /\ ClosingList(SetCounts(s, local, all, set))
  OBVIOUS
<1>1. NoFile \in FilesOf(r)
  BY DEF FilesOf
<1> QED
  BY <1>1, PlacedStep DEF SetCounts

LEMMA PlacedFour ==
  ASSUME NEW r, NEW a, PlacedList(r, a), NEW b, PlacedList(r, b), NEW c, PlacedList(r, c),
         NEW d, PlacedList(r, d)
  PROVE  /\ PlacedList(r, a \o b) /\ PlacedList(r, a \o b \o c) /\ PlacedList(r, a \o b \o c \o d)
<1>1. PlacedList(r, a \o b)
  BY PlacedJoin
<1>2. PlacedList(r, a \o b \o c)
  BY <1>1, PlacedJoin
<1> QED
  BY <1>1, <1>2, PlacedJoin

LEMMA PlacedGadget ==
  ASSUME cfg \in Configs, NEW r, NEW s
  PROVE  PlacedList(r, WriteGadgetParticles(r, s)) /\ PlacedList(r, WriteArepoParticles(r, s))
<1> DEFINE f == this_fname(r)
<1>1. f \in FilesOf(r) /\ cfg.baryons \in BOOLEAN
  BY ConfigFacts DEF FilesOf
<1> HIDE DEF f
<1>2. \A n : n \in {2, 3, 4} => PlacedList(r, Totals(n))
  BY PlacedTotals
<1>3. \A n \in {2, 3, 4} : \A local, all, set :
        PlacedList(r, Totals(n) \o SetCounts(s, local, all, set))
  BY <1>2, PlacedCounts, PlacedJoin
<1>4. /\ PlacedList(r, HDFCreateGroup(f, Group(s)))
      /\ PlacedList(r, HDFWriteDatasetVector(f, Dataset(s, "Coordinates"), Container(r, s)))
      /\ PlacedList(r, HDFWriteDatasetVector(f, Dataset(s, "Velocities"), Container(r, s)))
      /\ PlacedList(r, HDFWriteDataset(f, Dataset(s, "ParticleIDs"), Container(r, s)))
      /\ PlacedList(r, When(cfg.baryons, HDFWriteDataset(f, Dataset(s, "Masses"), Container(r, s))))
  BY <1>1, PlacedHDF, PlacedChoice
<1>5. ASSUME NEW c, PlacedList(r, c)
      PROVE  PlacedList(r, c \o HDFCreateGroup(f, Group(s))
             \o HDFWriteDatasetVector(f, Dataset(s, "Coordinates"), Container(r, s))
             \o HDFWriteDatasetVector(f, Dataset(s, "Velocities"), Container(r, s))
             \o HDFWriteDataset(f, Dataset(s, "ParticleIDs"), Container(r, s))
             \o When(cfg.baryons, HDFWriteDataset(f, Dataset(s, "Masses"), Container(r, s))))
  <2>1. PICK p1, p2, p3, p4, p5 :
          /\ p1 = HDFCreateGroup(f, Group(s))
          /\ p2 = HDFWriteDatasetVector(f, Dataset(s, "Coordinates"), Container(r, s))
          /\ p3 = HDFWriteDatasetVector(f, Dataset(s, "Velocities"), Container(r, s))
          /\ p4 = HDFWriteDataset(f, Dataset(s, "ParticleIDs"), Container(r, s))
          /\ p5 = When(cfg.baryons, HDFWriteDataset(f, Dataset(s, "Masses"), Container(r, s)))
    OBVIOUS
  <2>2. PlacedList(r, p1) /\ PlacedList(r, p2) /\ PlacedList(r, p3) /\ PlacedList(r, p4) /\ PlacedList(r, p5)
    BY <1>4, <2>1
  <2>3. PlacedList(r, c \o p1)
    BY <1>5, <2>2, PlacedJoin
  <2>4. PlacedList(r, c \o p1 \o p2)
    BY <2>2, <2>3, PlacedJoin
  <2>5. PlacedList(r, c \o p1 \o p2 \o p3)
    BY <2>2, <2>4, PlacedJoin
  <2>6. PlacedList(r, c \o p1 \o p2 \o p3 \o p4)
    BY <2>2, <2>5, PlacedJoin
  <2>7. PlacedList(r, c \o p1 \o p2 \o p3 \o p4 \o p5)
    BY <2>2, <2>6, PlacedJoin
  <2> QED
    BY <2>1, <2>7
<1>6. PlacedList(r, WriteGadgetParticles(r, s))
  <2> DEFINE c == Totals(IF cfg.baryons THEN 3 ELSE 4)
               \o SetCounts(s, get_local_num_particles(r, s), get_global_num_particles(s),
                            Counts32 \cup Counts64)
  <2>1. PlacedList(r, c)
    BY <1>3
  <2> HIDE DEF c
  <2>2. PlacedList(r, c \o HDFCreateGroup(f, Group(s))
             \o HDFWriteDatasetVector(f, Dataset(s, "Coordinates"), Container(r, s))
             \o HDFWriteDatasetVector(f, Dataset(s, "Velocities"), Container(r, s))
             \o HDFWriteDataset(f, Dataset(s, "ParticleIDs"), Container(r, s))
             \o When(cfg.baryons, HDFWriteDataset(f, Dataset(s, "Masses"), Container(r, s))))
    BY <1>5, <2>1
  <2> QED
    BY <2>2 DEF WriteGadgetParticles, f, c
<1>7. PlacedList(r, WriteArepoParticles(r, s))
  <2> DEFINE c == Totals(IF cfg.baryons THEN 2 ELSE 3)
               \o SetCounts(s, get_local_num_particles(r, s), get_global_num_particles(s), Counts32)
  <2>1. PlacedList(r, c)
    BY <1>3
  <2> HIDE DEF c
  <2>2. PlacedList(r, c \o HDFCreateGroup(f, Group(s))
             \o HDFWriteDatasetVector(f, Dataset(s, "Coordinates"), Container(r, s))
             \o HDFWriteDatasetVector(f, Dataset(s, "Velocities"), Container(r, s))
             \o HDFWriteDataset(f, Dataset(s, "ParticleIDs"), Container(r, s))
             \o When(cfg.baryons, HDFWriteDataset(f, Dataset(s, "Masses"), Container(r, s))))
    BY <1>5, <2>1
  <2> QED
    BY <2>2 DEF WriteArepoParticles, f, c
<1> QED
  BY <1>6, <1>7

LEMMA PlacedSwift ==
  ASSUME cfg \in Configs, cfg.format = "SWIFT", NEW r, NEW s
  PROVE  PlacedList(r, WriteSwiftParticles(r, s))
<1> DEFINE f == SharedFile
           n == get_global_num_particles(s)
           Empty(d) == HDFCreateEmptyDataset(f, Dataset(s, d), n)
           Chunk(d) == HDFWriteDatasetChunk(f, Dataset(s, d), Container(r, s), Exscan(r, s))
           Vector(d) == HDFWriteDatasetVectorChunk(f, Dataset(s, d), Container(r, s), Exscan(r, s))
           gas == IF s = Baryon THEN <<"InternalEnergy", "SmoothingLength">> ELSE <<>>
           own == Vector("Coordinates") \o Vector("Velocities") \o Chunk("ParticleIDs")
                    \o Chunk("Masses") \o ForEach(gas, Chunk)
           Round(q) == Sync("Barrier") \o Only(r, q, own)
           first == HDFCreateGroup(f, Group(s))
                      \o HDFCreateEmptyDatasetVector(f, Dataset(s, "Coordinates"), n)
                      \o HDFCreateEmptyDatasetVector(f, Dataset(s, "Velocities"), n)
                      \o Empty("ParticleIDs") \o Empty("Masses") \o ForEach(gas, Empty)
           all == Totals(IF cfg.baryons THEN 4 ELSE 5) \o SetCounts(s, n, n, Counts32)
                    \o Only(r, 0, first) \o Sync("Exscan") \o ForEach(RanksInOrder, Round)
                    \o Sync("Barrier")
<1>1. f \in FilesOf(r)
  BY DEF FilesOf, this_fname, Gadget
<1>2. /\ \A d : PlacedList(r, Empty(d)) /\ PlacedList(r, Chunk(d)) /\ PlacedList(r, Vector(d))
      /\ PlacedList(r, HDFCreateGroup(f, Group(s)))
      /\ \A d : PlacedList(r, HDFCreateEmptyDatasetVector(f, Dataset(s, d), n))
  <2> HIDE DEF f, n
  <2> QED
    BY <1>1, PlacedHDF
<1>3. \E m \in Nat : DOMAIN gas = 1 .. m
  <2>1. DOMAIN <<"InternalEnergy", "SmoothingLength">> = 1 .. 2
    OBVIOUS
  <2>2. \A e : e = <<>> => DOMAIN e = 1 .. 0
    OBVIOUS
  <2> QED
    BY <2>1, <2>2
<1>4. PlacedList(r, ForEach(gas, Chunk)) /\ PlacedList(r, ForEach(gas, Empty))
  <2> PICK m \in Nat : DOMAIN gas = 1 .. m
    BY <1>3
  <2> HIDE DEF gas, Chunk, Empty
  <2> DEFINE c == [i \in 1 .. m |-> Chunk(gas[i])]
             e == [i \in 1 .. m |-> Empty(gas[i])]
  <2>1. ForEach(gas, Chunk) = FlattenSeq(c) /\ ForEach(gas, Empty) = FlattenSeq(e)
    BY DEF ForEach
  <2>2. DOMAIN c = 1 .. m /\ c = [i \in 1 .. m |-> c[i]] /\ \A i \in 1 .. m : PlacedList(r, c[i])
    BY <1>2
  <2>3. DOMAIN e = 1 .. m /\ e = [i \in 1 .. m |-> e[i]] /\ \A i \in 1 .. m : PlacedList(r, e[i])
    BY <1>2
  <2> HIDE DEF c, e
  <2>4. PlacedList(r, FlattenSeq(c))
    BY <2>2, PlacedEach
  <2>5. PlacedList(r, FlattenSeq(e))
    BY <2>3, PlacedEach
  <2> QED
    BY <2>1, <2>4, <2>5
<1>5. PlacedList(r, own)
  <2> HIDE DEF gas, Chunk, Empty, Vector
  <2>1. PlacedList(r, Vector("Coordinates") \o Vector("Velocities") \o Chunk("ParticleIDs")
                 \o Chunk("Masses"))
    BY <1>2, PlacedFour
  <2> QED
    BY <1>4, <2>1, PlacedJoin
<1>6. PlacedList(r, first)
  <2> HIDE DEF gas, Chunk, Empty, Vector, f, n
  <2>1. PlacedList(r, HDFCreateGroup(f, Group(s))
                      \o HDFCreateEmptyDatasetVector(f, Dataset(s, "Coordinates"), n)
                      \o HDFCreateEmptyDatasetVector(f, Dataset(s, "Velocities"), n)
                      \o Empty("ParticleIDs"))
    BY <1>2, PlacedFour
  <2> QED
    BY <1>2, <1>4, <2>1, PlacedFour
<1> HIDE DEF own, first
<1>7. \A q : PlacedList(r, Round(q))
  BY <1>5, PlacedSync, PlacedChoice, PlacedJoin
<1>8. PlacedList(r, ForEach(RanksInOrder, Round))
  <2> HIDE DEF Round
  <2> DEFINE c == [i \in 1 .. cfg.ranks |-> Round(RanksInOrder[i])]
  <2>1. ForEach(RanksInOrder, Round) = FlattenSeq(c)
    BY RanksList DEF ForEach
  <2>2. /\ DOMAIN c = 1 .. cfg.ranks /\ c = [i \in 1 .. cfg.ranks |-> c[i]]
        /\ \A i \in 1 .. cfg.ranks : PlacedList(r, c[i])
    BY <1>7
  <2> HIDE DEF c
  <2> QED
    BY <2>1, <2>2, PlacedEach, RanksList
<1>9. PlacedList(r, all)
  <2> HIDE DEF Round, n
  <2>1. PlacedList(r, Totals(IF cfg.baryons THEN 4 ELSE 5)) /\ PlacedList(r, SetCounts(s, n, n, Counts32))
        /\ PlacedList(r, Only(r, 0, first))
    BY <1>6, PlacedTotals, PlacedCounts, PlacedChoice
  <2>2. PlacedList(r, Totals(IF cfg.baryons THEN 4 ELSE 5) \o SetCounts(s, n, n, Counts32)
                    \o Only(r, 0, first) \o Sync("Exscan"))
    BY <2>1, PlacedSync, PlacedFour
  <2> QED
    BY <1>8, <2>2, PlacedSync, PlacedFour
<1> HIDE DEF all
<1>10. WriteSwiftParticles(r, s) = all
  BY DEF WriteSwiftParticles, all, own, first
<1> QED
  BY <1>9, <1>10

LEMMA PlacedField ==
  ASSUME cfg \in Configs, NEW r, NEW f \in FilesOf(r), NEW d
  PROVE  PlacedList(r, WriteField(r, f, d))
<1> DEFINE write(q) == <<Step(IF q = 0 THEN "field" ELSE "planes", f, d,
                              [values |-> Slab(r), offset |-> offsets0(r)])>>
           Round(q) == Sync("Barrier") \o Only(r, q, write(q))
           first == Only(r, 0, <<Step("ensure", f, "", Unset)>>)
           all == first \o Sync("Barrier") \o Sync("Allgather") \o Sync("Allgather")
                    \o Sync("Allreduce") \o ForEach(RanksInOrder, Round)
<1>1. \A q : PlacedList(r, write(q))
  BY PlacedStep
<1>2. PlacedList(r, first)
  BY PlacedStep, PlacedChoice
<1> HIDE DEF write, first
<1>3. \A q : PlacedList(r, Round(q))
  BY <1>1, PlacedSync, PlacedChoice, PlacedJoin
<1>4. PlacedList(r, ForEach(RanksInOrder, Round))
  <2> HIDE DEF Round
  <2> DEFINE c == [i \in 1 .. cfg.ranks |-> Round(RanksInOrder[i])]
  <2>1. ForEach(RanksInOrder, Round) = FlattenSeq(c)
    BY RanksList DEF ForEach
  <2>2. /\ DOMAIN c = 1 .. cfg.ranks /\ c = [i \in 1 .. cfg.ranks |-> c[i]]
        /\ \A i \in 1 .. cfg.ranks : PlacedList(r, c[i])
    BY <1>3
  <2> HIDE DEF c
  <2> QED
    BY <2>1, <2>2, PlacedEach, RanksList
<1>5. PlacedList(r, all)
  <2> HIDE DEF Round
  <2>1. PlacedList(r, first \o Sync("Barrier") \o Sync("Allgather") \o Sync("Allgather"))
    BY <1>2, PlacedSync, PlacedFour
  <2> QED
    BY <1>4, <2>1, PlacedSync, PlacedFour
<1> HIDE DEF all
<1>6. WriteField(r, f, d) = all
  BY DEF WriteField, all, first, write
<1> QED
  BY <1>5, <1>6


LEMMA PlacedHeader ==
  ASSUME NEW r, NEW f \in FilesOf(r), NEW this, NEW total
  PROVE  PlacedList(r, HeaderSteps(f, this, total)) /\ ClosingList(HeaderSteps(f, this, total))
<1> DEFINE a == HDFCreateGroup(f, "Header")
           b == HDFWriteGroupAttribute(f, "Header", "NumPart_ThisFile", this)
           c == HDFWriteGroupAttribute(f, "Header", "NumPart_Total", total)
           d == HDFWriteGroupText(f, "Header", "MassTable")
<1>1. PlacedList(r, a) /\ PlacedList(r, b) /\ PlacedList(r, c) /\ PlacedList(r, d)
  BY PlacedHDF
<1>2. ClosingList(a) /\ ClosingList(b) /\ ClosingList(c) /\ ClosingList(d)
  BY PlacedHDF
<1>3. HeaderSteps(f, this, total) = a \o b \o c \o d
  BY DEF HeaderSteps
<1> HIDE DEF a, b, c, d
<1>4. PlacedList(r, a \o b \o c \o d)
  BY <1>1, PlacedFour
<1>5. ClosingList(a \o b \o c \o d)
  <2>1. ClosingList(a \o b)
    BY <1>2, ClosingJoin
  <2>2. ClosingList((a \o b) \o c)
    BY <1>2, <2>1, ClosingJoin
  <2> QED
    BY <1>2, <2>2, ClosingJoin
<1> QED
  BY <1>3, <1>4, <1>5

\* What the formats with neutrinos do when they are done.
LEMMA PlacedDestruct ==
  ASSUME cfg \in Configs, Merges, NEW r
  PROVE  PlacedList(r, Destruct(r)) /\ ClosingList(Destruct(r))
<1>1. CASE cfg.format = "gadget_hdf5"
  <2>1. GadgetFile(r) \in FilesOf(r)
    BY <1>1 DEF FilesOf, this_fname, Gadget
  <2>2. PlacedList(r, DestructGadget(r)) /\ ClosingList(DestructGadget(r))
    BY <2>1, PlacedHeader DEF DestructGadget
  <2> QED
    BY <1>1, <2>2 DEF Destruct, Gadget
<1>2. CASE cfg.format = "AREPO"
  <2>1. ArepoFile(r) \in FilesOf(r)
    BY <1>2 DEF FilesOf, this_fname, Gadget
  <2>2. PlacedList(r, DestructArepo(r)) /\ ClosingList(DestructArepo(r))
    BY <2>1, PlacedHeader DEF DestructArepo
  <2> QED
    BY <1>2, <2>2 DEF Destruct, Gadget
<1>3. CASE cfg.format = "SWIFT"
  <2>1. SharedFile \in FilesOf(r)
    BY <1>3 DEF FilesOf, this_fname, Gadget
  <2>2. PlacedList(r, DestructSwift(r)) /\ ClosingList(DestructSwift(r))
    BY <2>1, PlacedHeader, PlacedNothing DEF DestructSwift, Only
  <2> QED
    BY <1>3, <2>2 DEF Destruct, Gadget
<1> QED
  BY <1>1, <1>2, <1>3 DEF Merges

LEMMA PlacedConstruct ==
  ASSUME cfg \in Configs, Merges, NEW r
  PROVE  PlacedList(r, Construct(r))
<1>1. ASSUME NEW f \in FilesOf(r)
      PROVE  /\ PlacedList(r, unlink(f)) /\ PlacedList(r, HDFCreateFile(f))
             /\ PlacedList(r, Parameters(f))
  <2>1. PlacedList(r, Parameters(f))
    BY <1>1, PlacedHDF, PlacedJoin DEF Parameters
  <2> QED
    BY <1>1, <2>1, PlacedHDF
<1>2. CASE cfg.format = "gadget_hdf5"
  <2>1. GadgetFile(r) \in FilesOf(r)
    BY <1>2 DEF FilesOf, this_fname, Gadget
  <2>2. PlacedList(r, ConstructGadget(r))
    BY <1>1, <2>1, PlacedJoin DEF ConstructGadget
  <2> QED
    BY <1>2, <2>2 DEF Construct, Gadget
<1>3. CASE cfg.format = "AREPO"
  <2>1. ArepoFile(r) \in FilesOf(r)
    BY <1>3 DEF FilesOf, this_fname, Gadget
  <2>2. PlacedList(r, ConstructArepo(r))
    BY <1>1, <2>1, PlacedJoin DEF ConstructArepo
  <2> QED
    BY <1>3, <2>2 DEF Construct, Gadget
<1>4. CASE cfg.format = "SWIFT"
  <2> DEFINE f == SharedFile
             a == unlink(f) \o HDFCreateFile(f) \o HDFCreateGroup(f, "Units")
                    \o HDFWriteGroupText(f, "Units", "Unit mass")
  <2>1. f \in FilesOf(r)
    BY <1>4 DEF FilesOf, this_fname, Gadget
  <2>2. PlacedList(r, a)
    <3> HIDE DEF f
    <3> QED
      BY <2>1, PlacedHDF, PlacedFour
  <2>3. PlacedList(r, a \o Parameters(f))
    <3> HIDE DEF f, a
    <3> QED
      BY <1>1, <2>1, <2>2, PlacedJoin
  <2>4. ConstructSwift(r) = Only(r, 0, a \o Parameters(f))
    BY DEF ConstructSwift
  <2>5. PlacedList(r, ConstructSwift(r))
    <3> HIDE DEF a, f
    <3> QED
      BY <2>3, <2>4, PlacedChoice
  <2> QED
    BY <1>4, <2>5 DEF Construct, Gadget
<1> QED
  BY <1>2, <1>3, <1>4 DEF Merges

LEMMA PlacedExport ==
  ASSUME cfg \in Configs, NEW r
  PROVE  PlacedList(r, ExportNoise(r))
<1> DEFINE f == WhiteNoise
           d == noise_dset
           a == Sync("Reduce") \o Only(r, 0, unlink(f)) \o WriteLocalField(r, f, d)
           b == Only(r, 0, unlink(f)) \o Sync("Barrier") \o WriteField(r, f, d)
<1>1. f \in FilesOf(r)
  BY DEF FilesOf
<1>2. PlacedList(r, WriteLocalField(r, f, d))
  <2>1. PlacedList(r, <<Step("ensure", f, "", Unset)>>)
    BY <1>1, PlacedStep
  <2>2. PlacedList(r, HDFWriteDataset(f, d, WholeField))
    BY <1>1, PlacedHDF
  <2>3. PlacedList(r, <<Step("ensure", f, "", Unset)>> \o HDFWriteDataset(f, d, WholeField))
    BY <2>1, <2>2, PlacedJoin
  <2> QED
    BY <2>3, PlacedChoice DEF WriteLocalField
<1>3. PlacedList(r, WriteField(r, f, d))
  BY <1>1, PlacedField
<1>4. PlacedList(r, Only(r, 0, unlink(f)))
  BY <1>1, PlacedHDF, PlacedChoice
<1>5. PlacedList(r, a) /\ PlacedList(r, b)
  <2> HIDE DEF f, d
  <2>1. PlacedList(r, a)
    BY <1>2, <1>4, PlacedSync, PlacedFour
  <2>2. PlacedList(r, b)
    BY <1>3, <1>4, PlacedSync, PlacedFour
  <2> QED
    BY <2>1, <2>2
<1>6. ExportNoise(r) = When(cfg.neutrinos, IF cfg.sampled THEN a ELSE b) \o Sync("FFT")
  BY DEF ExportNoise
<1> HIDE DEF a, b
<1>7. PlacedList(r, When(cfg.neutrinos, IF cfg.sampled THEN a ELSE b))
  BY <1>5, PlacedChoice, ConfigFacts
<1> QED
  BY <1>6, <1>7, PlacedSync, PlacedJoin

LEMMA PlacedSpecies ==
  ASSUME cfg \in Configs, Merges, NEW r, NEW s \in {DM, Baryon}
  PROVE  PlacedList(r, WriteSpecies(r, s))
<1>1. s # Neutrino /\ cfg.format \in ParticleFormats
  BY DEF DM, Baryon, Neutrino, Merges, ParticleFormats, Gadget
<1>2. PlacedList(r, write_particle_data(r, s))
  BY PlacedGadget, PlacedSwift DEF Merges, write_particle_data, Gadget
<1> QED
  BY <1>1, <1>2, PlacedSync, PlacedJoin DEF WriteSpecies

LEMMA StepsOfTwo ==
  ASSUME NEW x, NEW y
  PROVE  /\ IsList(<<x>> \o <<y>>) /\ Len(<<x>> \o <<y>>) = 2
         /\ (<<x>> \o <<y>>)[1] = x /\ (<<x>> \o <<y>>)[2] = y
         /\ <<x>> \o <<y>> = <<x, y>>
<1>1. PICK a, b : a = <<x>> /\ b = <<y>>
  OBVIOUS
<1>2. IsList(a) /\ Len(a) = 1 /\ a[1] = x /\ IsList(b) /\ Len(b) = 1 /\ b[1] = y
  BY <1>1, OneStep
<1>3. /\ IsList(a \o b) /\ Len(a \o b) = 2
      /\ \A i \in 1 .. 2 : (a \o b)[i] = IF i <= 1 THEN a[i] ELSE b[i - 1]
  <2>1. /\ IsList(a \o b) /\ Len(a \o b) = Len(a) + Len(b)
        /\ \A i \in 1 .. Len(a) + Len(b) :
             (a \o b)[i] = IF i <= Len(a) THEN a[i] ELSE b[i - Len(a)]
    <3>1. IsList(a) /\ IsList(b)
      BY <1>2
    <3> QED
      BY <3>1, Joined
  <2>2. Len(a) = 1 /\ Len(a) + Len(b) = 2
    BY <1>2
  <2> QED
    BY <2>1, <2>2
<1>4. (a \o b)[1] = x /\ (a \o b)[2] = y
  BY <1>2, <1>3
<1>5. PICK z : z = <<x, y>>
  OBVIOUS
<1>6. IsList(z) /\ Len(z) = 2 /\ z[1] = x /\ z[2] = y
  <2>1. <<x, y>> \in Seq({x, y}) /\ Len(<<x, y>>) = 2 /\ <<x, y>>[1] = x /\ <<x, y>>[2] = y
    OBVIOUS
  <2> QED
    BY <1>5, <2>1, ListIs
<1>7. PICK w : w = a \o b
  OBVIOUS
<1>8. w = z
  <2>1. \A i \in 1 .. Len(w) : w[i] = z[i]
    <3>1. \A i \in 1 .. 2 : i = 1 \/ i = 2
      OBVIOUS
    <3> QED
      BY <1>3, <1>4, <1>6, <1>7, <3>1
  <2> QED
    BY <1>3, <1>6, <1>7, <2>1, SameList
<1> QED
  BY <1>1, <1>3, <1>4, <1>5, <1>7, <1>8

LEMMA StepsOfThree ==
  ASSUME NEW a, IsList(a), Len(a) = 1, NEW b, IsList(b), Len(b) = 1, NEW c, IsList(c), Len(c) = 1
  PROVE  /\ Len((a \o b) \o c) = 3 /\ ((a \o b) \o c)[1] = a[1]
         /\ ((a \o b) \o c)[2] = b[1] /\ ((a \o b) \o c)[3] = c[1]
<1>1. PICK d : d = a \o b
  OBVIOUS
<1>2. /\ IsList(d) /\ Len(d) = 2
      /\ \A i \in 1 .. 2 : d[i] = IF i <= 1 THEN a[i] ELSE b[i - 1]
  <2>1. /\ IsList(a \o b) /\ Len(a \o b) = Len(a) + Len(b)
        /\ \A i \in 1 .. Len(a) + Len(b) :
             (a \o b)[i] = IF i <= Len(a) THEN a[i] ELSE b[i - Len(a)]
    BY Joined
  <2> QED
    BY <1>1, <2>1
<1>3. /\ Len(d \o c) = Len(d) + Len(c)
      /\ \A i \in 1 .. Len(d) + Len(c) :
           (d \o c)[i] = IF i <= Len(d) THEN d[i] ELSE c[i - Len(d)]
  BY <1>2, Joined
<1>4. Len(d) = 2 /\ Len(d) + Len(c) = 3 /\ d[1] = a[1] /\ d[2] = b[1]
  BY <1>2
<1> QED
  BY <1>1, <1>3, <1>4

\* The neutrinos are the last species.
LEMMA NeutrinosLast ==
  ASSUME cfg \in Configs, cfg.neutrinos, NEW r
  PROVE  \E o : AllSpecies(r) = o \o Neutrinos(r) /\ IsList(o) /\ (Merges => PlacedList(r, o))
<1> DEFINE n == Len(species_list)
           Of(s) == WriteSpecies(r, s)
           e == [i \in 1 .. n |-> Of(species_list[i])]
<1>0. cfg.baryons \in BOOLEAN
  BY ConfigFacts
<1>1. AllSpecies(r) = FlattenSeq(e)
  BY SpeciesList DEF ForEach, AllSpecies
<1>2. IsList(e) /\ Len(e) = n /\ n \in Nat
  <2>1. DOMAIN e = 1 .. n /\ e = [i \in 1 .. n |-> e[i]]
    OBVIOUS
  <2>2. n \in Nat
    BY SpeciesList
  <2> HIDE DEF e, n
  <2> QED
    BY <2>1, <2>2, ListOf
<1>3. /\ IsList(Of(DM)) /\ IsList(Of(Baryon)) /\ Of(Neutrino) = Neutrinos(r)
      /\ Merges => PlacedList(r, Of(DM)) /\ PlacedList(r, Of(Baryon))
  <2>1. RestList(Of(DM)) /\ RestList(Of(Baryon))
    BY RestSpecies
  <2>2. Of(Neutrino) = Neutrinos(r)
    BY DEF WriteSpecies
  <2>3. Merges => PlacedList(r, Of(DM)) /\ PlacedList(r, Of(Baryon))
    BY PlacedSpecies
  <2> QED
    BY <2>1, <2>2, <2>3 DEF RestList
<1>4. CASE cfg.baryons
  <2>1. species_list = (<<DM>> \o <<Baryon>>) \o <<Neutrino>>
    BY <1>4 DEF species_list
  <2>2. n = 3 /\ species_list[1] = DM /\ species_list[2] = Baryon /\ species_list[3] = Neutrino
    <3>1. PICK a, b, c : a = <<DM>> /\ b = <<Baryon>> /\ c = <<Neutrino>>
      OBVIOUS
    <3>2. /\ IsList(a) /\ Len(a) = 1 /\ a[1] = DM /\ IsList(b) /\ Len(b) = 1 /\ b[1] = Baryon
          /\ IsList(c) /\ Len(c) = 1 /\ c[1] = Neutrino
      BY <3>1, OneStep
    <3>3. species_list = (a \o b) \o c
      BY <2>1, <3>1
    <3>4. /\ Len((a \o b) \o c) = 3 /\ ((a \o b) \o c)[1] = a[1]
          /\ ((a \o b) \o c)[2] = b[1] /\ ((a \o b) \o c)[3] = c[1]
      BY <3>2, StepsOfThree
    <3> QED
      BY <3>2, <3>3, <3>4
  <2>3. e[1] = Of(DM) /\ e[2] = Of(Baryon) /\ e[3] = Of(Neutrino)
    BY <2>2
  <2>9. n # 0
    BY <2>2
  <2> HIDE DEF e, Of, n
  <2>10. e # <<>>
    BY <1>2, <2>9, ListFacts
  <2>4. PICK f : /\ FlattenSeq(e) = f[Len(e)]
                 /\ \A i \in 1 .. Len(e) : f[i] = IF i = 1 THEN e[i] ELSE f[i - 1] \o e[i]
    BY <1>2, <2>10, FlattenIs
  <2>5. f[1] = e[1] /\ f[2] = f[1] \o e[2] /\ f[3] = f[2] \o e[3] /\ FlattenSeq(e) = f[3]
    BY <1>2, <2>2, <2>4
  <2>6. PICK o : o = Of(DM) \o Of(Baryon)
    OBVIOUS
  <2>7. IsList(o) /\ (Merges => PlacedList(r, o))
    BY <1>3, <2>6, Joined, PlacedJoin
  <2>8. AllSpecies(r) = o \o Neutrinos(r)
    BY <1>1, <1>3, <2>3, <2>5, <2>6
  <2> QED
    BY <2>7, <2>8
<1>5. CASE ~cfg.baryons
  <2>1. species_list = <<DM>> \o <<Neutrino>>
    <3>1. <<DM>> \o <<>> = <<DM>>
      BY OneStep, NoList
    <3> QED
      BY <1>5, <3>1 DEF species_list
  <2>2. n = 2 /\ species_list[1] = DM /\ species_list[2] = Neutrino
    BY <2>1, StepsOfTwo
  <2>3. e[1] = Of(DM) /\ e[2] = Of(Neutrino)
    BY <2>2
  <2>9. n # 0
    BY <2>2
  <2> HIDE DEF e, Of, n
  <2>10. e # <<>>
    BY <1>2, <2>9, ListFacts
  <2>4. PICK f : /\ FlattenSeq(e) = f[Len(e)]
                 /\ \A i \in 1 .. Len(e) : f[i] = IF i = 1 THEN e[i] ELSE f[i - 1] \o e[i]
    BY <1>2, <2>10, FlattenIs
  <2>5. f[1] = e[1] /\ f[2] = f[1] \o e[2] /\ FlattenSeq(e) = f[2]
    BY <1>2, <2>2, <2>4
  <2> QED
    BY <1>1, <1>3, <2>3, <2>5
<1> QED
  BY <1>0, <1>4, <1>5

\* What FastDF has written for a rank: the neutrinos of its own part.
NeutrinosOf(r) == NeutrinoFile(Cube(r))

\* A snapshot that the merge can write into: a file per rank, or one of one rank.
Matching == Merges /\ (cfg.ranks = 1 \/ cfg.format = "gadget_hdf5")

openStep(r) == Step("open", SnapOf(r), TmpOf(r), Unset)
copyStep(r) == Step("copy", SnapOf(r), TmpOf(r), Unset)
putStep(r) == Step("put", TmpOf(r), "", NeutrinosOf(r))
ToCopy(r, p) == <<copyStep(r)>> \o p
ToOpen(r, p) == <<openStep(r)>> \o ToCopy(r, p)
ToPut(r, p) == <<putStep(r)>> \o ToOpen(r, p)

LEMMA CubeIs ==
  ASSUME cfg \in Configs, NEW r \in Rank
  PROVE  IsList(Cube(r)) /\ Len(Cube(r)) = cfg.nu[r] /\ cfg.nu[r] \in Nat
<1>1. cfg.nu[r] \in Nat
  BY ConfigFacts
<1>2. Cube(r) = [i \in 1 .. cfg.nu[r] |-> Cube(r)[i]]
  BY DEF Cube
<1> QED
  BY <1>1, <1>2, ListOf

\* One rank writes its own neutrinos, whichever way they are collected.
LEMMA OneCube ==
  ASSUME cfg \in Configs, cfg.ranks = 1
  PROVE  ForEach(RanksInOrder, Cube) = Cube(0)
<1> DEFINE ss == [i \in 1 .. 1 |-> Cube(i - 1)]
<1>1. ForEach(RanksInOrder, Cube) = FlattenSeq(ss)
  <2>1. DOMAIN RanksInOrder = 1 .. 1 /\ \A i \in 1 .. 1 : RanksInOrder[i] = i - 1
    BY DEF RanksInOrder
  <2> QED
    BY <2>1 DEF ForEach
<1>2. ss[1] = Cube(0)
  OBVIOUS
<1>3. IsList(ss) /\ Len(ss) = 1
  <2>1. ss = [i \in 1 .. 1 |-> ss[i]]
    OBVIOUS
  <2> HIDE DEF ss
  <2> QED
    BY <2>1, ListOf
<1> HIDE DEF ss
<1>4. PICK f : /\ FlattenSeq(ss) = f[Len(ss)]
               /\ \A i \in 1 .. Len(ss) : f[i] = IF i = 1 THEN ss[i] ELSE f[i - 1] \o ss[i]
  BY <1>3, FlattenIs, ListFacts
<1>5. f[1] = ss[1] /\ FlattenSeq(ss) = f[1]
  BY <1>3, <1>4
<1> QED
  BY <1>1, <1>2, <1>5

\* From unlinking the temporary file to the counts.
LEMMA NeutrinoSteps ==
  ASSUME cfg \in Configs, Merges, NEW r
  PROVE  \E u, put, n :
           /\ Neutrinos(r) = ((u \o put) \o (<<openStep(r)>> \o <<copyStep(r)>>)) \o n
           /\ PlacedList(r, u) /\ PlacedList(r, put)
           /\ PlacedList(r, n) /\ ClosingList(n)
           /\ Matching /\ r \in Rank => put = <<putStep(r)>>
<1> DEFINE put == IF DistributedFiles
                    THEN <<Step("put", TmpOf(r), "", NeutrinoFile(Cube(r)))>>
                    ELSE Only(r, 0, <<Step("put", Shared("tmp.hdf5"), "",
                                           NeutrinoFile(ForEach(RanksInOrder, Cube)))>>)
           read == <<Step("read", WhiteNoise, noise_dset, Unset)>>
           n == set_particle_attributes(r, Neutrino)
           k == unlink(TmpOf(r))
<1>1. TmpOf(r) \in FilesOf(r) /\ Shared("tmp.hdf5") \in FilesOf(r) /\ WhiteNoise \in FilesOf(r)
  BY DEF FilesOf
<1>2. PlacedList(r, read)
  BY <1>1, PlacedStep
<1>3. PlacedList(r, put)
  <2>1. \A v : /\ PlacedList(r, <<Step("put", TmpOf(r), "", v)>>)
               /\ PlacedList(r, <<Step("put", Shared("tmp.hdf5"), "", v)>>)
    BY <1>1, PlacedStep
  <2> QED
    BY <2>1, PlacedChoice
<1>4. PlacedList(r, k)
  BY <1>1, PlacedHDF
<1>5. PlacedList(r, n) /\ ClosingList(n)
  BY PlacedCounts DEF set_particle_attributes
<1>6. ASSUME Matching, r \in Rank PROVE put = <<putStep(r)>>
  <2>1. CASE DistributedFiles
    BY <2>1 DEF putStep, NeutrinosOf
  <2>2. CASE ~DistributedFiles
    <3>1. cfg.ranks = 1
      BY <1>6, <2>2 DEF Matching, Merges, DistributedFiles
    <3>2. r = 0 /\ TmpOf(r) = Shared("tmp.hdf5") /\ ForEach(RanksInOrder, Cube) = Cube(0)
      BY <1>6, <3>1, OneCube DEF Rank, TmpOf, distributed_hdf5_filename, Temporary
    <3> QED
      BY <2>2, <3>2 DEF putStep, NeutrinosOf, Only
  <2> QED
    BY <2>1, <2>2
<1>7. Neutrinos(r) = ((k \o ((read \o Sync("Allreduce")) \o put))
                       \o (<<openStep(r)>> \o <<copyStep(r)>>)) \o n
  <2>1. merge_fastdf_particle_group(r) = <<openStep(r), copyStep(r)>>
    BY DEF merge_fastdf_particle_group, openStep, copyStep, SnapOf, TmpOf
  <2>2. run_fastdf(r) = (read \o Sync("Allreduce")) \o put
    BY DEF run_fastdf, TmpOf
  <2>3. Neutrinos(r) = unlink(TmpOf(r)) \o run_fastdf(r) \o merge_fastdf_particle_group(r)
                         \o set_particle_attributes(r, Neutrino)
    BY DEF Neutrinos, Merges, TmpOf
  <2>4. <<openStep(r), copyStep(r)>> = <<openStep(r)>> \o <<copyStep(r)>>
    BY StepsOfTwo
  <2> HIDE DEF put, read
  <2> QED
    BY <2>1, <2>2, <2>3, <2>4
<1> HIDE DEF put, read, n, k
<1>8. PICK x : x = read \o Sync("Allreduce")
  OBVIOUS
<1>9. PlacedList(r, x)
  BY <1>2, <1>8, PlacedSync, PlacedJoin
<1>10. PICK u : u = k \o x
  OBVIOUS
<1>11. PlacedList(r, u)
  BY <1>4, <1>9, <1>10, PlacedJoin
<1>12. k \o (x \o put) = u \o put
  <2>1. IsList(k) /\ IsList(x) /\ IsList(put)
    BY <1>3, <1>4, <1>9 DEF PlacedList
  <2>2. (k \o x) \o put = k \o (x \o put)
    BY <2>1, JoinAssociates
  <2> QED
    BY <1>10, <2>2
<1>13. Neutrinos(r) = ((u \o put) \o (<<openStep(r)>> \o <<copyStep(r)>>)) \o n
  BY <1>7, <1>8, <1>12
<1> QED
  BY <1>3, <1>5, <1>6, <1>11, <1>13

\* The program of a rank, around its neutrinos.
LEMMA AroundNeutrinos ==
  ASSUME cfg \in Configs, cfg.neutrinos, NEW r
  PROVE  \E x, y : /\ Program(r) = x \o (Neutrinos(r) \o y) /\ IsList(x) /\ IsList(y)
                   /\ Merges => PlacedList(r, x) /\ PlacedList(r, y) /\ ClosingList(y)
<1>1. PICK c, n, d, s, nu : /\ c = Construct(r) /\ n = ExportNoise(r) /\ d = Destruct(r)
                            /\ s = Sync("Barrier") /\ nu = Neutrinos(r)
  OBVIOUS
<1>2. PICK o : AllSpecies(r) = o \o nu /\ IsList(o) /\ (Merges => PlacedList(r, o))
  BY <1>1, NeutrinosLast
<1>3. Program(r) = (((c \o n) \o (o \o nu)) \o d) \o s
  BY <1>1, <1>2 DEF Program, AllSpecies
<1>4. IsList(c) /\ IsList(n) /\ IsList(d) /\ IsList(s) /\ IsList(nu)
  <2>1. RestList(c)
    BY <1>1, ConstructIs, CalmIsRest, RestSync, RestJoin
  <2>2. IsList(n)
    BY <1>1, ExportIs
  <2>3. RestList(d)
    BY <1>1, RestDestruct
  <2>4. RestList(s)
    BY <1>1, RestSync
  <2>5. RestList(nu)
    BY <1>1, RestNeutrinos
  <2> QED
    BY <2>1, <2>2, <2>3, <2>4, <2>5 DEF RestList
<1>5. PICK k, x, y : k = c \o n /\ x = k \o o /\ y = d \o s
  OBVIOUS
<1>6. IsList(k) /\ IsList(x) /\ IsList(y)
  <2>1. IsList(k)
    BY <1>4, <1>5, Joined
  <2>2. IsList(x)
    BY <1>2, <1>5, <2>1, Joined
  <2> QED
    BY <1>4, <1>5, <2>1, <2>2, Joined
<1>7. k \o (o \o nu) = x \o nu
  <2>1. (k \o o) \o nu = k \o (o \o nu)
    <3>1. Lists(k, o, nu, nu)
      BY <1>2, <1>4, <1>6 DEF Lists
    <3> QED
      BY <3>1, JoinThree
  <2> QED
    BY <1>5, <2>1
<1>8. ((x \o nu) \o d) \o s = x \o (nu \o (d \o s))
  <2>1. Lists(x, nu, d, s)
    BY <1>4, <1>6 DEF Lists
  <2> QED
    BY <2>1, JoinFour
<1>9. Program(r) = x \o (nu \o y)
  BY <1>3, <1>5, <1>7, <1>8
<1>10. ASSUME Merges PROVE PlacedList(r, x) /\ PlacedList(r, y) /\ ClosingList(y)
  <2>1. PlacedList(r, c) /\ PlacedList(r, n) /\ PlacedList(r, o)
    BY <1>1, <1>2, <1>10, PlacedConstruct, PlacedExport
  <2>2. PlacedList(r, k)
    BY <1>5, <2>1, PlacedJoin
  <2>3. PlacedList(r, x)
    BY <1>5, <2>1, <2>2, PlacedJoin
  <2>4. PlacedList(r, d) /\ ClosingList(d) /\ PlacedList(r, s) /\ ClosingList(s)
    BY <1>1, <1>10, PlacedDestruct, PlacedSync
  <2>5. PlacedList(r, y) /\ ClosingList(y)
    BY <1>5, <2>4, PlacedJoin, ClosingJoin
  <2> QED
    BY <2>3, <2>5
<1> QED
  BY <1>1, <1>6, <1>9, <1>10

\* Up to the merge and from there.
LEMMA ProgramMerges ==
  ASSUME cfg \in Configs, cfg.neutrinos, Merges, NEW r \in Rank
  PROVE  \E a, p : /\ PlacedList(r, a) /\ PlacedList(r, p) /\ ClosingList(p)
                   /\ Program(r) = a \o (IF Matching THEN ToPut(r, p) ELSE ToOpen(r, p))
<1>1. PICK x, y : /\ Program(r) = x \o (Neutrinos(r) \o y) /\ IsList(x) /\ IsList(y)
                  /\ PlacedList(r, x) /\ PlacedList(r, y) /\ ClosingList(y)
  BY AroundNeutrinos
<1>2. PICK u, put, n :
        /\ Neutrinos(r) = ((u \o put) \o (<<openStep(r)>> \o <<copyStep(r)>>)) \o n
        /\ PlacedList(r, u) /\ PlacedList(r, put)
        /\ PlacedList(r, n) /\ ClosingList(n)
        /\ Matching /\ r \in Rank => put = <<putStep(r)>>
  BY NeutrinoSteps
<1>3. PICK op, co, v, w, p, q : /\ op = <<openStep(r)>> /\ co = <<copyStep(r)>> /\ v = u \o put
                                /\ w = op \o co /\ p = n \o y /\ q = op \o (co \o p)
  OBVIOUS
<1>4. /\ IsList(op) /\ IsList(co) /\ IsList(u) /\ IsList(put) /\ IsList(n)
      /\ IsList(v) /\ IsList(w) /\ IsList(p) /\ IsList(q)
  <2>1. IsList(op) /\ IsList(co)
    BY <1>3, OneStep
  <2>2. IsList(u) /\ IsList(put) /\ IsList(n)
    BY <1>2 DEF PlacedList
  <2>3. IsList(v) /\ IsList(w) /\ IsList(p)
    BY <1>1, <1>3, <2>1, <2>2, Joined
  <2>4. IsList(co \o p)
    BY <2>1, <2>3, Joined
  <2>5. IsList(q)
    BY <1>3, <2>1, <2>4, Joined
  <2> QED
    BY <2>1, <2>2, <2>3, <2>5
<1>5. PlacedList(r, p) /\ ClosingList(p)
  BY <1>1, <1>2, <1>3, PlacedJoin, ClosingJoin
<1>6. Neutrinos(r) \o y = v \o q
  <2>1. ((v \o w) \o n) \o y = v \o (w \o (n \o y))
    <3>1. Lists(v, w, n, y)
      BY <1>1, <1>4 DEF Lists
    <3> QED
      BY <3>1, JoinFour
  <2>2. (op \o co) \o p = op \o (co \o p)
    <3>1. Lists(op, co, p, p)
      BY <1>4 DEF Lists
    <3> QED
      BY <3>1, JoinThree
  <2> QED
    BY <1>2, <1>3, <2>1, <2>2
<1>7. q = ToOpen(r, p)
  BY <1>3 DEF ToOpen, ToCopy
<1>8. CASE Matching
  <2>1. (u \o put) \o q = u \o (put \o q)
    <3>1. Lists(u, put, q, q)
      BY <1>4 DEF Lists
    <3> QED
      BY <3>1, JoinThree
  <2>2. put \o q = ToPut(r, p)
    BY <1>2, <1>7, <1>8 DEF ToPut
  <2>3. PICK z, a : z = put \o q /\ a = x \o u
    OBVIOUS
  <2>4. IsList(z)
    BY <1>4, <2>3, Joined
  <2>5. (x \o u) \o z = x \o (u \o z)
    <3>1. Lists(x, u, z, z)
      BY <1>1, <1>4, <2>4 DEF Lists
    <3> QED
      BY <3>1, JoinThree
  <2>6. Program(r) = a \o ToPut(r, p)
    BY <1>1, <1>3, <1>6, <2>1, <2>2, <2>3, <2>5
  <2>7. PlacedList(r, a)
    BY <1>1, <1>2, <2>3, PlacedJoin
  <2> QED
    BY <1>5, <1>8, <2>6, <2>7
<1>9. CASE ~Matching
  <2>1. PICK a : a = x \o v
    OBVIOUS
  <2>2. (x \o v) \o q = x \o (v \o q)
    <3>1. Lists(x, v, q, q)
      BY <1>1, <1>4 DEF Lists
    <3> QED
      BY <3>1, JoinThree
  <2>3. PlacedList(r, v)
    BY <1>2, <1>3, PlacedJoin
  <2>4. PlacedList(r, a)
    BY <1>1, <2>1, <2>3, PlacedJoin
  <2>5. Program(r) = a \o ToOpen(r, p)
    BY <1>1, <1>6, <1>7, <2>1, <2>2
  <2> QED
    BY <1>5, <1>9, <2>4, <2>5
<1> QED
  BY <1>8, <1>9

\* Some step of a list.
LEMMA Somewhere ==
  ASSUME NEW a, IsList(a), NEW b, IsList(b), NEW x
  PROVE  \E i \in 1 .. Len(a \o (<<x>> \o b)) : (a \o (<<x>> \o b))[i] = x
<1>1. PICK c : c = <<x>> \o b
  OBVIOUS
<1>2. IsList(c) /\ c # <<>> /\ Head(c) = x
  BY <1>1, FirstOfJoin
<1>3. c[1] = x /\ Len(c) > 0 /\ Len(c) \in Nat
  BY <1>2, HeadAndTail, ListFacts
<1>4. /\ Len(a \o c) = Len(a) + Len(c) /\ Len(a) \in Nat
      /\ \A i \in 1 .. Len(c) : (a \o c)[Len(a) + i] = c[i]
  <2>1. IsList(c)
    BY <1>2
  <2>2. Len(a \o c) = Len(a) + Len(c) /\ \A i \in 1 .. Len(c) : (a \o c)[Len(a) + i] = c[i]
    BY <2>1, Joined
  <2> QED
    BY <2>2, ListFacts
<1>5. Len(a) + 1 \in 1 .. Len(a \o c) /\ (a \o c)[Len(a) + 1] = x
  BY <1>3, <1>4
<1> QED
  BY <1>1, <1>5

LEMMA ProgramThrows ==
  ASSUME cfg \in Configs, cfg.neutrinos, ~Merges, NEW r
  PROVE  IsList(Program(r)) /\ \E i \in 1 .. Len(Program(r)) : Program(r)[i].op = "throw"
<1>1. PICK x, y : Program(r) = x \o (Neutrinos(r) \o y) /\ IsList(x) /\ IsList(y)
  BY AroundNeutrinos
<1>2. PICK t : t = Step("throw", NoFile, "", Unset)
  OBVIOUS
<1>3. Neutrinos(r) = <<t>> /\ t.op = "throw"
  <2>1. t.op = "throw"
    BY <1>2 DEF Step
  <2>2. Neutrinos(r) = Throw
    BY DEF Neutrinos, Merges
  <2> QED
    BY <1>2, <2>1, <2>2 DEF Throw
<1>4. Program(r) = x \o (<<t>> \o y)
  BY <1>1, <1>3
<1>5. \E i \in 1 .. Len(x \o (<<t>> \o y)) : (x \o (<<t>> \o y))[i] = t
  BY <1>1, Somewhere
<1>6. PICK c : c = <<t>> \o y
  OBVIOUS
<1>7. IsList(c)
  BY <1>1, <1>6, FirstOfJoin
<1>8. IsList(x \o c)
  BY <1>1, <1>7, Joined
<1> QED
  BY <1>3, <1>4, <1>5, <1>6, <1>8

-----------------------------------------------------------------------------
(***************************************************************************)
(* The neutrinos: what a step of a rank does to the files.                 *)
(***************************************************************************)
LEMMA DifferentPaths ==
  \A n, m, q, p : Path(n, q) = Path(m, p) => n = m /\ q = p
BY DEF Path

LEMMA OtherNames ==
  ASSUME NEW n, n \notin {"", "white_noise.hdf5", "tmp.hdf5"}, NEW q
  PROVE  Path(n, q) \notin {Path("", -1), Path("white_noise.hdf5", -1), Path("tmp.hdf5", -1)}
<1>1. Path(n, q) # Path("", -1)
  BY DifferentPaths
<1>2. Path(n, q) # Path("white_noise.hdf5", -1)
  BY DifferentPaths
<1>3. Path(n, q) # Path("tmp.hdf5", -1)
  BY DifferentPaths
<1> QED
  BY <1>1, <1>2, <1>3

\* The names of the files of the merge.
LEMMA MergeNames ==
  ASSUME cfg \in Configs, NEW r \in Rank
  PROVE  /\ cfg.ranks > 1 => SnapOf(r) = Path("ic.#.hdf5", r) /\ TmpOf(r) = Path("tmp.#.hdf5", r)
         /\ ~(cfg.ranks > 1) => /\ SnapOf(r) = Path("ic.hdf5", -1) /\ TmpOf(r) = Path("tmp.hdf5", -1)
                                /\ r = 0 /\ Rank = {0} /\ cfg.ranks = 1
         /\ \A f \in FilesOf(r) :
              \/ f \in {Path("", -1), Path("white_noise.hdf5", -1), Path("tmp.hdf5", -1), TmpOf(r)}
              \/ f = this_fname(r)
<1>1. cfg.ranks \in Nat \ {0} /\ Rank = 0 .. cfg.ranks - 1
  BY ConfigFacts
<1>2. cfg.ranks > 1 => SnapOf(r) = Path("ic.#.hdf5", r) /\ TmpOf(r) = Path("tmp.#.hdf5", r)
  BY DEF SnapOf, TmpOf, distributed_hdf5_filename, Snapshot, Temporary
<1>3. ~(cfg.ranks > 1) => SnapOf(r) = Path("ic.hdf5", -1) /\ TmpOf(r) = Path("tmp.hdf5", -1)
  BY DEF SnapOf, TmpOf, distributed_hdf5_filename, Snapshot, Temporary, Shared
<1>4. ~(cfg.ranks > 1) => r = 0 /\ Rank = {0} /\ cfg.ranks = 1
  BY <1>1
<1>5. \A f \in FilesOf(r) :
         \/ f \in {Path("", -1), Path("white_noise.hdf5", -1), Path("tmp.hdf5", -1), TmpOf(r)}
         \/ f = this_fname(r)
  BY DEF FilesOf, NoFile, WhiteNoise, Shared
<1> QED
  BY <1>2, <1>3, <1>4, <1>5

\* The snapshot and the temporary file of a rank are no other rank's.
LEMMA MergeFiles ==
  ASSUME cfg \in Configs, Merges, NEW r \in Rank
  PROVE  /\ SnapOf(r) # TmpOf(r)
         /\ \A q \in Rank : q # r => SnapOf(r) \notin {SnapOf(q), TmpOf(q)}
                                     /\ TmpOf(r) \notin {SnapOf(q), TmpOf(q)}
         /\ Matching => this_fname(r) = SnapOf(r)
         /\ Matching => \A q \in Rank : q # r => SnapOf(r) \notin FilesOf(q)
                                                 /\ TmpOf(r) \notin FilesOf(q)
         /\ ~Matching => \A q \in Rank : SnapOf(r) \notin FilesOf(q)
<1>0. ASSUME NEW q \in Rank
      PROVE  \A f \in FilesOf(q) :
               \/ f \in {Path("", -1), Path("white_noise.hdf5", -1), Path("tmp.hdf5", -1), TmpOf(q)}
               \/ f = this_fname(q)
  BY MergeNames
<1>1. SnapOf(r) # TmpOf(r)
  <2>1. CASE cfg.ranks > 1
    <3>1. SnapOf(r) = Path("ic.#.hdf5", r) /\ TmpOf(r) = Path("tmp.#.hdf5", r)
      BY <2>1, MergeNames
    <3> QED
      BY <3>1, DifferentPaths
  <2>2. CASE ~(cfg.ranks > 1)
    <3>1. SnapOf(r) = Path("ic.hdf5", -1) /\ TmpOf(r) = Path("tmp.hdf5", -1)
      BY <2>2, MergeNames
    <3> QED
      BY <3>1, DifferentPaths
  <2> QED
    BY <2>1, <2>2
<1>2. ASSUME NEW q \in Rank, q # r
      PROVE  SnapOf(r) \notin {SnapOf(q), TmpOf(q)} /\ TmpOf(r) \notin {SnapOf(q), TmpOf(q)}
  <2>1. cfg.ranks > 1
    BY <1>2, MergeNames
  <2>2. /\ SnapOf(r) = Path("ic.#.hdf5", r) /\ TmpOf(r) = Path("tmp.#.hdf5", r)
        /\ SnapOf(q) = Path("ic.#.hdf5", q) /\ TmpOf(q) = Path("tmp.#.hdf5", q)
    BY <2>1, MergeNames
  <2> QED
    BY <1>2, <2>2, DifferentPaths
<1>3. Matching => this_fname(r) = SnapOf(r)
  <2>1. cfg.ranks > 1 => GadgetFile(r) = Path("ic.#.hdf5", r)
    BY DEF GadgetFile
  <2>2. ~(cfg.ranks > 1) => /\ GadgetFile(r) = Path("ic.hdf5", -1) /\ ArepoFile(r) = Path("ic.hdf5", -1)
                            /\ SharedFile = Path("ic.hdf5", -1)
    BY DEF GadgetFile, ArepoFile, SharedFile, Shared
  <2>3. cfg.format = "gadget_hdf5" => this_fname(r) = GadgetFile(r)
    BY DEF this_fname, Gadget
  <2>4. ~(cfg.ranks > 1) => this_fname(r) = Path("ic.hdf5", -1)
    BY <2>2 DEF this_fname
  <2>5. Matching => cfg.format = "gadget_hdf5" \/ ~(cfg.ranks > 1)
    BY DEF Matching
  <2> QED
    BY <2>1, <2>2, <2>3, <2>4, <2>5, MergeNames
<1>4. ASSUME Matching, NEW q \in Rank, q # r
      PROVE  SnapOf(r) \notin FilesOf(q) /\ TmpOf(r) \notin FilesOf(q)
  <2>1. cfg.ranks > 1
    BY <1>4, MergeNames
  <2>2. SnapOf(r) = Path("ic.#.hdf5", r) /\ TmpOf(r) = Path("tmp.#.hdf5", r)
    BY <2>1, MergeNames
  <2>3. cfg.format = "gadget_hdf5"
    BY <1>4, <2>1 DEF Matching
  <2>4. this_fname(q) = Path("ic.#.hdf5", q) /\ TmpOf(q) = Path("tmp.#.hdf5", q)
    BY <2>1, <2>3, MergeNames DEF this_fname, Gadget, GadgetFile
  <2>5. /\ SnapOf(r) \notin {Path("", -1), Path("white_noise.hdf5", -1), Path("tmp.hdf5", -1)}
        /\ TmpOf(r) \notin {Path("", -1), Path("white_noise.hdf5", -1), Path("tmp.hdf5", -1)}
    BY <2>2, OtherNames
  <2>6. SnapOf(r) \notin {this_fname(q), TmpOf(q)} /\ TmpOf(r) \notin {this_fname(q), TmpOf(q)}
    BY <1>4, <2>2, <2>4, DifferentPaths
  <2> QED
    BY <1>0, <2>5, <2>6
<1>5. ASSUME ~Matching, NEW q \in Rank
      PROVE  SnapOf(r) \notin FilesOf(q)
  <2>1. cfg.ranks > 1 /\ cfg.format \in {"AREPO", "SWIFT"}
    BY <1>5, MergeNames DEF Matching, Merges
  <2>2. SnapOf(r) = Path("ic.#.hdf5", r) /\ TmpOf(q) = Path("tmp.#.hdf5", q)
    BY <2>1, MergeNames
  <2>3. this_fname(q) \in {Path("ic.hdf5.#", q), Path("ic.hdf5", -1)}
    BY <2>1 DEF this_fname, Gadget, ArepoFile, SharedFile, Shared
  <2>4. SnapOf(r) \notin {Path("", -1), Path("white_noise.hdf5", -1), Path("tmp.hdf5", -1)}
    BY <2>2, OtherNames
  <2>5. SnapOf(r) \notin {this_fname(q), TmpOf(q)}
    BY <2>2, <2>3, DifferentPaths
  <2> QED
    BY <1>0, <2>4, <2>5
<1> QED
  BY <1>1, <1>2, <1>3, <1>4, <1>5

LEMMA MergeStays ==
  ASSUME cfg' = cfg
  PROVE  /\ Rank' = Rank /\ Merges' = Merges /\ Matching' = Matching
         /\ \A r : /\ SnapOf(r)' = SnapOf(r) /\ TmpOf(r)' = TmpOf(r) /\ FilesOf(r)' = FilesOf(r)
                   /\ this_fname(r)' = this_fname(r) /\ NeutrinosOf(r)' = NeutrinosOf(r)
         /\ \A r, c : PlacedList(r, c)' = PlacedList(r, c)
         /\ \A c : ClosingList(c)' = ClosingList(c)
         /\ \A r, p : /\ ToPut(r, p)' = ToPut(r, p) /\ ToOpen(r, p)' = ToOpen(r, p)
                      /\ ToCopy(r, p)' = ToCopy(r, p)
         /\ Group(Neutrino)' = Group(Neutrino)
<1>1. Rank' = Rank /\ Merges' = Merges /\ Matching' = Matching
  BY DEF Rank, Merges, Matching
<1>2. \A r : SnapOf(r)' = SnapOf(r) /\ TmpOf(r)' = TmpOf(r)
  BY DEF SnapOf, TmpOf, distributed_hdf5_filename
<1>3. \A r : this_fname(r)' = this_fname(r)
  BY DEF this_fname, GadgetFile, ArepoFile
<1>4. \A r : FilesOf(r)' = FilesOf(r)
  BY <1>2, <1>3 DEF FilesOf
<1>5. Group(Neutrino)' = Group(Neutrino)
  BY DEF Group, get_species_idx
<1>6. \A r : NeutrinosOf(r)' = NeutrinosOf(r)
  <2>1. \A r : Cube(r)' = Cube(r)
    BY DEF Cube
  <2> QED
    BY <1>5, <2>1 DEF NeutrinosOf, NeutrinoFile, Dataset
<1>7. \A r, c : PlacedList(r, c)' = PlacedList(r, c)
  BY <1>2, <1>4 DEF PlacedList, InPlace, IsList
<1>8. \A c : ClosingList(c)' = ClosingList(c)
  BY DEF ClosingList, Closing, IsList
<1>9. \A r, p : ToCopy(r, p)' = ToCopy(r, p)
  BY <1>2 DEF ToCopy, copyStep
<1>10. \A r, p : ToOpen(r, p)' = ToOpen(r, p)
  BY <1>2, <1>9 DEF ToOpen, openStep
<1>11. \A r, p : ToPut(r, p)' = ToPut(r, p)
  BY <1>2, <1>6, <1>10 DEF ToPut, putStep
<1> QED
  BY <1>1, <1>2, <1>3, <1>4, <1>5, <1>6, <1>7, <1>8, <1>9, <1>10, <1>11

\* The data of a file stay what they are.
KeepsData(f) ==
  f \in DOMAIN fs /\ "data" \in DOMAIN fs[f] =>
    f \in DOMAIN fs' /\ "data" \in DOMAIN fs'[f] /\ fs'[f].data = fs[f].data

\* A rank that is not terminated opens a file or ends a step.
Takes(r, s) ==
  /\ code[r] # <<>> /\ code' = [code EXCEPT ![r] = Tail(@)]
  /\ s.op \notin {"throw", "sync"}
  /\ s.op = "open" => Exists(s.file) /\ fs' = fs
  /\ s.op = "copy" => AfterMerge(s, Merged(s))
  /\ s.op = "put" => SetFile(s.file, s.val)
  /\ s.op # "copy" => OnlyFile(s.file)
  /\ s.op \in {"note", "group", "attribute"} => KeepsData(s.file)
Moves(r) == cfg' = cfg /\ ((code' = code /\ fs' = fs) \/ Takes(r, Head(code[r])))

LEMMA WholeFileMoves ==
  ASSUME NEW r \in Rank,
         \/ Unlink(r) \/ RemoveDirectory(r) \/ MakeDirectory(r) \/ CreateFile(r) \/ PutFile(r)
         \/ AppendRecord(r)
  PROVE  Moves(r)
<1> DEFINE s == Head(code[r])
           Common == /\ s.op \in {"unlink", "rmdir", "mkdir", "create", "ensure", "put", "append"}
                     /\ code[r] # <<>> /\ code' = [code EXCEPT ![r] = Tail(@)]
                     /\ (\E x : SetFile(s.file, x)) \/ DropFile(s.file) \/ UNCHANGED fs
                     /\ s.op = "put" => SetFile(s.file, s.val)
                     /\ cfg' = cfg
<1>1. Unlink(r) => Common
  BY DEF Unlink, At, Pop
<1>2. RemoveDirectory(r) => Common
  BY DEF RemoveDirectory, At, Pop
<1>3. MakeDirectory(r) => Common
  BY DEF MakeDirectory, At, Pop
<1>4. CreateFile(r) => Common
  BY DEF CreateFile, At, Pop
<1>5. PutFile(r) => Common
  BY DEF PutFile, At, Pop
<1>6. AppendRecord(r) => Common
  BY DEF AppendRecord, At, Pop
<1>7. Common
  <2> HIDE DEF Common
  <2> QED
    BY <1>1, <1>2, <1>3, <1>4, <1>5, <1>6
<1>8. OnlyFile(s.file)
  <2> HIDE DEF s
  <2> QED
    BY <1>7, SetsOneFile
<1> QED
  BY <1>7, <1>8 DEF Moves, Takes

\* An edit that goes through leaves the file with one more thing in it.
LEMMA EditMoves ==
  ASSUME NEW r \in Rank,
         \/ CreateGroup(r) \/ CreateAttribute(r) \/ CreateDataset(r) \/ CreateEmpty(r)
         \/ WriteChunk(r) \/ CreateField(r) \/ WritePlanes(r)
  PROVE  Moves(r)
<1> DEFINE s == Head(code[r])
           Common == /\ s.op \in Edits /\ code[r] # <<>> /\ code' = [code EXCEPT ![r] = Tail(@)]
                     /\ (\E x : SetFile(s.file, x)) \/ UNCHANGED fs
                     /\ cfg' = cfg
<1>1. CreateGroup(r) => Common
  BY DEF CreateGroup, Edit, At, Pop, Refuse, Edits
<1>2. CreateAttribute(r) => Common
  BY DEF CreateAttribute, Edit, At, Pop, Refuse, Edits
<1>3. CreateDataset(r) => Common
  BY DEF CreateDataset, Edit, At, Pop, Refuse, Edits
<1>4. CreateEmpty(r) => Common
  BY DEF CreateEmpty, Edit, At, Pop, Refuse, Edits
<1>5. WriteChunk(r) => Common
  BY DEF WriteChunk, Edit, At, Pop, Refuse, Edits
<1>6. CreateField(r) => Common
  BY DEF CreateField, Edit, At, Pop, Refuse, Edits
<1>7. WritePlanes(r) => Common
  BY DEF WritePlanes, Edit, At, Pop, Refuse, Edits
<1>8. Common
  <2> HIDE DEF Common
  <2> QED
    BY <1>1, <1>2, <1>3, <1>4, <1>5, <1>6, <1>7
<1>9. OnlyFile(s.file)
  <2> HIDE DEF s
  <2> QED
    BY <1>8, SetsOneFile
<1>10. ASSUME s.op \in {"note", "group", "attribute"} PROVE KeepsData(s.file)
  <2>1. CreateGroup(r) \/ CreateAttribute(r)
    BY <1>10 DEF CreateDataset, CreateEmpty, WriteChunk, CreateField, WritePlanes, Edit, At
  <2>2. CASE fs' = fs
    BY <2>2 DEF KeepsData
  <2>3. CASE CreateGroup(r) /\ fs' # fs
    <3>1. SetFile(s.file, [fs[s.file] EXCEPT !.groups = @ \cup {s.on}])
      BY <2>3 DEF CreateGroup, Edit
    <3>2. PICK f, x, v : f = s.file /\ x = fs[f] /\ v = x.groups \cup {s.on}
      OBVIOUS
    <3>3. fs' = Updated(fs, f, [x EXCEPT !.groups = v])
      BY <3>1, <3>2 DEF SetFile
    <3>4. f \in DOMAIN fs' /\ fs'[f] = [x EXCEPT !.groups = v]
      BY <3>3 DEF Updated
    <3> QED
      BY <3>2, <3>4 DEF KeepsData
  <2>4. CASE CreateAttribute(r) /\ fs' # fs
    <3>1. \E w : SetFile(s.file, [fs[s.file] EXCEPT !.attr = w])
      BY <2>4 DEF CreateAttribute, Edit
    <3>2. PICK f, x, w : f = s.file /\ x = fs[f] /\ SetFile(f, [x EXCEPT !.attr = w])
      BY <3>1
    <3>3. fs' = Updated(fs, f, [x EXCEPT !.attr = w])
      BY <3>2 DEF SetFile
    <3>4. f \in DOMAIN fs' /\ fs'[f] = [x EXCEPT !.attr = w]
      BY <3>3 DEF Updated
    <3> QED
      BY <3>2, <3>4 DEF KeepsData
  <2> QED
    BY <2>1, <2>2, <2>3, <2>4
<1> QED
  BY <1>8, <1>9, <1>10 DEF Moves, Takes, Edits

LEMMA OpenMoves ==
  ASSUME NEW r \in Rank, Open(r)
  PROVE  Moves(r)
<1>1. fs' = fs /\ cfg' = cfg /\ code[r] # <<>> /\ Head(code[r]).op \in Edits
  BY DEF Open
<1>2. code' = code \/ code' = [code EXCEPT ![r] = Tail(@)]
  BY DEF Open, Refuse, Pop
<1>3. OnlyFile(Head(code[r]).file) /\ KeepsData(Head(code[r]).file)
  BY <1>1 DEF OnlyFile, KeepsData
<1> QED
  BY <1>1, <1>2, <1>3 DEF Moves, Takes, Edits

LEMMA NobodyMovesOn ==
  ASSUME dead' = {}, NEW r
  PROVE  ~Terminate(r)
BY DEF Terminate

LEMMA RankMoves ==
  ASSUME dead' = {}, NEW r \in Rank, RankStep(r)
  PROVE  Moves(r)
<1> DEFINE s == Head(code[r])
<1>1. CASE \/ Unlink(r) \/ RemoveDirectory(r) \/ MakeDirectory(r) \/ CreateFile(r) \/ PutFile(r)
           \/ AppendRecord(r)
  BY <1>1, WholeFileMoves
<1>2. CASE \/ CreateGroup(r) \/ CreateAttribute(r) \/ CreateDataset(r) \/ CreateEmpty(r)
           \/ WriteChunk(r) \/ CreateField(r) \/ WritePlanes(r)
  BY <1>2, EditMoves
<1>3. CASE Open(r)
  BY <1>3, OpenMoves
<1>4. CASE ReadNoise(r) \/ NoteCounts(r)
  <2>1. /\ s.op \in {"read", "note"} /\ code[r] # <<>> /\ code' = [code EXCEPT ![r] = Tail(@)]
        /\ fs' = fs /\ cfg' = cfg
    BY <1>4 DEF ReadNoise, NoteCounts, At, Pop
  <2>2. OnlyFile(s.file) /\ KeepsData(s.file)
    BY <2>1 DEF OnlyFile, KeepsData
  <2> QED
    BY <2>1, <2>2 DEF Moves, Takes
<1>5. CASE MergeOpen(r)
  <2>1. s.op = "open" /\ code[r] # <<>> /\ fs' = fs /\ cfg' = cfg
    BY <1>5 DEF MergeOpen, At
  <2>2. Exists(s.file) /\ code' = [code EXCEPT ![r] = Tail(@)]
    BY <1>5, NobodyMovesOn DEF MergeOpen, Pop
  <2>3. OnlyFile(s.file)
    BY <2>1 DEF OnlyFile
  <2> QED
    BY <2>1, <2>2, <2>3 DEF Moves, Takes
<1>6. CASE MergeCopy(r)
  <2>1. s.op = "copy" /\ code[r] # <<>> /\ cfg' = cfg
    BY <1>6 DEF MergeCopy, At
  <2>2. AfterMerge(s, Merged(s)) /\ code' = [code EXCEPT ![r] = Tail(@)]
    BY <1>6, NobodyMovesOn DEF MergeCopy, Pop
  <2> QED
    BY <2>1, <2>2 DEF Moves, Takes
<1>7. ~ThrowOut(r) /\ ~Kill(r)
  BY NobodyMovesOn DEF ThrowOut, Kill
<1> QED
  BY <1>1, <1>2, <1>3, <1>4, <1>5, <1>6, <1>7 DEF RankStep

-----------------------------------------------------------------------------
(***************************************************************************)
(* The neutrinos: from the temporary file into the snapshot.               *)
(***************************************************************************)
NeutrinoNames == {Dataset(Neutrino, "Coordinates"), Dataset(Neutrino, "ParticleIDs")}

\* The snapshot of a rank has the neutrinos, and of their group nothing else.
Received(r) ==
  /\ SnapOf(r) \in DOMAIN fs /\ "data" \in DOMAIN fs[SnapOf(r)]
  /\ {d \in DOMAIN fs[SnapOf(r)].data : d[1] = Group(Neutrino)} = NeutrinoNames
  /\ \A d \in NeutrinoNames : fs[SnapOf(r)].data[d] = NeutrinosOf(r).data[d]
Sent(r) == TmpOf(r) \in DOMAIN fs /\ fs[TmpOf(r)] = NeutrinosOf(r)

\* Until FastDF writes its file, until the merge opens it, until it is copied,
\* and from then on.
Sending(r, p) == \E a : PlacedList(r, a) /\ code[r] = a \o ToPut(r, p)
Opening(r, p) == code[r] = ToOpen(r, p) /\ Sent(r)
Receiving(r, p) == code[r] = ToCopy(r, p) /\ Sent(r) /\ SnapOf(r) \in DOMAIN fs
Ending(r) == ClosingList(code[r]) /\ Received(r)
InMerge(r) ==
  \/ \E p : /\ PlacedList(r, p) /\ ClosingList(p)
            /\ Sending(r, p) \/ Opening(r, p) \/ Receiving(r, p)
  \/ Ending(r)

LEMMA FirstPlaced ==
  ASSUME NEW r, NEW c, PlacedList(r, c), c # <<>>
  PROVE  InPlace(r, Head(c)) /\ PlacedList(r, Tail(c))
<1>1. /\ IsList(c) /\ Head(c) = c[1] /\ IsList(Tail(c)) /\ Len(Tail(c)) = Len(c) - 1 /\ Len(c) > 0
      /\ \A i \in 1 .. Len(c) - 1 : Tail(c)[i] = c[i + 1]
  BY HeadAndTail DEF PlacedList
<1>2. Len(c) \in Nat /\ \A i \in 1 .. Len(c) : InPlace(r, c[i])
  BY <1>1, ListFacts DEF PlacedList
<1>3. ASSUME NEW i \in 1 .. Len(Tail(c)) PROVE InPlace(r, Tail(c)[i])
  <2>1. i \in 1 .. Len(c) - 1 /\ i + 1 \in 1 .. Len(c)
    BY <1>1, <1>2
  <2> QED
    BY <1>1, <1>2, <2>1
<1>4. 1 \in 1 .. Len(c)
  BY <1>1, <1>2
<1> QED
  BY <1>1, <1>2, <1>3, <1>4 DEF PlacedList

LEMMA FirstClosing ==
  ASSUME NEW c, ClosingList(c), c # <<>>
  PROVE  Closing(Head(c)) /\ ClosingList(Tail(c))
<1>1. /\ IsList(c) /\ Head(c) = c[1] /\ IsList(Tail(c)) /\ Len(Tail(c)) = Len(c) - 1 /\ Len(c) > 0
      /\ \A i \in 1 .. Len(c) - 1 : Tail(c)[i] = c[i + 1]
  BY HeadAndTail DEF ClosingList
<1>2. Len(c) \in Nat /\ \A i \in 1 .. Len(c) : Closing(c[i])
  BY <1>1, ListFacts DEF ClosingList
<1>3. ASSUME NEW i \in 1 .. Len(Tail(c)) PROVE Closing(Tail(c)[i])
  <2>1. i \in 1 .. Len(c) - 1 /\ i + 1 \in 1 .. Len(c)
    BY <1>1, <1>2
  <2> QED
    BY <1>1, <1>2, <2>1
<1>4. 1 \in 1 .. Len(c)
  BY <1>1, <1>2
<1> QED
  BY <1>1, <1>2, <1>3, <1>4 DEF ClosingList

\* The steps from the temporary file on are lists.
LEMMA MergeLists ==
  ASSUME NEW r, NEW p, IsList(p)
  PROVE  /\ IsList(ToCopy(r, p)) /\ ToCopy(r, p) # <<>>
         /\ Head(ToCopy(r, p)) = copyStep(r) /\ Tail(ToCopy(r, p)) = p
         /\ IsList(ToOpen(r, p)) /\ ToOpen(r, p) # <<>>
         /\ Head(ToOpen(r, p)) = openStep(r) /\ Tail(ToOpen(r, p)) = ToCopy(r, p)
         /\ IsList(ToPut(r, p)) /\ ToPut(r, p) # <<>>
         /\ Head(ToPut(r, p)) = putStep(r) /\ Tail(ToPut(r, p)) = ToOpen(r, p)
<1>1. /\ IsList(ToCopy(r, p)) /\ ToCopy(r, p) # <<>>
      /\ Head(ToCopy(r, p)) = copyStep(r) /\ Tail(ToCopy(r, p)) = p
  <2>1. PICK x : x = copyStep(r)
    OBVIOUS
  <2>2. /\ IsList(<<x>> \o p) /\ <<x>> \o p # <<>>
        /\ Head(<<x>> \o p) = x /\ Tail(<<x>> \o p) = p
    BY FirstOfJoin
  <2> QED
    BY <2>1, <2>2 DEF ToCopy
<1>2. /\ IsList(ToOpen(r, p)) /\ ToOpen(r, p) # <<>>
      /\ Head(ToOpen(r, p)) = openStep(r) /\ Tail(ToOpen(r, p)) = ToCopy(r, p)
  <2>1. PICK x, c : x = openStep(r) /\ c = ToCopy(r, p)
    OBVIOUS
  <2>2. IsList(c)
    BY <1>1, <2>1
  <2>3. /\ IsList(<<x>> \o c) /\ <<x>> \o c # <<>>
        /\ Head(<<x>> \o c) = x /\ Tail(<<x>> \o c) = c
    BY <2>2, FirstOfJoin
  <2> QED
    BY <2>1, <2>3 DEF ToOpen
<1>3. /\ IsList(ToPut(r, p)) /\ ToPut(r, p) # <<>>
      /\ Head(ToPut(r, p)) = putStep(r) /\ Tail(ToPut(r, p)) = ToOpen(r, p)
  <2>1. PICK x, c : x = putStep(r) /\ c = ToOpen(r, p)
    OBVIOUS
  <2>2. IsList(c)
    BY <1>2, <2>1
  <2>3. /\ IsList(<<x>> \o c) /\ <<x>> \o c # <<>>
        /\ Head(<<x>> \o c) = x /\ Tail(<<x>> \o c) = c
    BY <2>2, FirstOfJoin
  <2> QED
    BY <2>1, <2>3 DEF ToPut
<1> QED
  BY <1>1, <1>2, <1>3

\* The first step of what comes before, or of what comes then.
LEMMA ThenIsFirst ==
  ASSUME NEW c, IsList(c)
  PROVE  <<>> \o c = c
BY NoList

LEMMA FirstOrThen ==
  ASSUME NEW r, NEW a, PlacedList(r, a), NEW c, IsList(c), a # <<>>
  PROVE  PlacedList(r, Tail(a)) /\ Tail(a \o c) = Tail(a) \o c
<1>1. IsList(a)
  BY DEF PlacedList
<1>2. Tail(a \o c) = Tail(a) \o c
  BY <1>1, HeadOfJoin
<1>3. PlacedList(r, Tail(a))
  BY FirstPlaced
<1> QED
  BY <1>2, <1>3

LEMMA NeutrinoFileIs ==
  ASSUME NEW r
  PROVE  /\ DOMAIN NeutrinosOf(r).data = NeutrinoNames
         /\ \A d \in NeutrinoNames : d[1] = Group(Neutrino)
         /\ \A d \in NeutrinoNames :
              NeutrinosOf(r).data[d] = [i \in 0 .. Len(Cube(r)) - 1 |-> Cube(r)[i + 1]]
<1>1. NeutrinosOf(r).data
        = [d \in NeutrinoNames |-> [i \in 0 .. Len(Cube(r)) - 1 |-> Cube(r)[i + 1]]]
  BY DEF NeutrinosOf, NeutrinoFile, NewFile, NeutrinoNames
<1>2. \A d \in NeutrinoNames : d[1] = Group(Neutrino)
  BY DEF NeutrinoNames, Dataset
<1> QED
  BY <1>1, <1>2

\* The merge moves the neutrinos of a rank into its snapshot.
LEMMA CopyReceives ==
  ASSUME cfg \in Configs, cfg' = cfg, Merges, NEW r \in Rank, Sent(r), SnapOf(r) \in DOMAIN fs,
         AfterMerge(copyStep(r), Merged(copyStep(r)))
  PROVE  Received(r)'
<1> DEFINE s == copyStep(r)
           new == fs'[SnapOf(r)]
<1>1. s.file = SnapOf(r) /\ s.on = TmpOf(r)
  BY DEF copyStep, Step
<1>2. SnapOf(r) # TmpOf(r)
  BY MergeFiles
<1>3. SnapOf(r) \in DOMAIN fs' /\ new = Merged(s)
  <2>1. fs' = [f \in DOMAIN fs \ {TmpOf(r)} |-> IF f = SnapOf(r) THEN Merged(s) ELSE fs[f]]
    BY <1>1 DEF AfterMerge
  <2> QED
    BY <1>2, <2>1
<1>4. PICK source, old : source = NeutrinosOf(r).data /\ old = fs[SnapOf(r)].data
  OBVIOUS
<1>5. PICK kept : kept = {d \in DOMAIN old : d[1] # Group(Neutrino)}
  OBVIOUS
<1>6. /\ DOMAIN new = {"groups", "attr", "data"}
      /\ new.data = [d \in DOMAIN source \cup kept |-> IF d \in DOMAIN source THEN source[d] ELSE old[d]]
  BY <1>1, <1>3, <1>4, <1>5 DEF Merged, Sent
<1>7. DOMAIN source = NeutrinoNames /\ \A d \in NeutrinoNames : d[1] = Group(Neutrino)
  BY <1>4, NeutrinoFileIs
<1>8. {d \in DOMAIN new.data : d[1] = Group(Neutrino)} = NeutrinoNames
  BY <1>5, <1>6, <1>7
<1>9. \A d \in NeutrinoNames : new.data[d] = NeutrinosOf(r).data[d]
  BY <1>4, <1>6, <1>7
<1>10. /\ SnapOf(r)' = SnapOf(r) /\ Group(Neutrino)' = Group(Neutrino)
       /\ NeutrinosOf(r)' = NeutrinosOf(r)
  BY MergeStays
<1>11. NeutrinoNames' = NeutrinoNames
  BY <1>10 DEF NeutrinoNames, Dataset
<1> QED
  BY <1>3, <1>6, <1>8, <1>9, <1>10, <1>11 DEF Received

\* What the merge of a rank is about stays as long as its files do.
SameFiles(r) ==
  /\ SnapOf(r) \in DOMAIN fs' <=> SnapOf(r) \in DOMAIN fs
  /\ SnapOf(r) \in DOMAIN fs => fs'[SnapOf(r)] = fs[SnapOf(r)]
  /\ TmpOf(r) \in DOMAIN fs' <=> TmpOf(r) \in DOMAIN fs
  /\ TmpOf(r) \in DOMAIN fs => fs'[TmpOf(r)] = fs[TmpOf(r)]

LEMMA FilesStay ==
  ASSUME cfg' = cfg, NEW r, SameFiles(r)
  PROVE  (Sent(r) => Sent(r)') /\ (Received(r) => Received(r)')
<1>1. /\ SnapOf(r)' = SnapOf(r) /\ TmpOf(r)' = TmpOf(r) /\ Group(Neutrino)' = Group(Neutrino)
      /\ NeutrinosOf(r)' = NeutrinosOf(r)
  BY MergeStays
<1>2. NeutrinoNames' = NeutrinoNames
  BY <1>1 DEF NeutrinoNames, Dataset
<1>3. Sent(r) => Sent(r)'
  BY <1>1 DEF Sent, SameFiles
<1>4. Received(r) => Received(r)'
  BY <1>1, <1>2 DEF Received, SameFiles
<1> QED
  BY <1>3, <1>4

LEMMA MergeKept ==
  ASSUME cfg' = cfg, NEW r, SameFiles(r), code'[r] = code[r], InMerge(r)
  PROVE  InMerge(r)'
<1>1. /\ \A p : PlacedList(r, p)' = PlacedList(r, p) /\ ClosingList(p)' = ClosingList(p)
      /\ \A p : /\ ToPut(r, p)' = ToPut(r, p) /\ ToOpen(r, p)' = ToOpen(r, p)
                /\ ToCopy(r, p)' = ToCopy(r, p)
      /\ SnapOf(r)' = SnapOf(r)
  BY MergeStays
<1>2. (Sent(r) => Sent(r)') /\ (Received(r) => Received(r)')
  BY FilesStay
<1>3. ASSUME NEW p, PlacedList(r, p), ClosingList(p),
             Sending(r, p) \/ Opening(r, p) \/ Receiving(r, p)
      PROVE  InMerge(r)'
  <2>1. Sending(r, p) => Sending(r, p)'
    BY <1>1 DEF Sending
  <2>2. Opening(r, p) => Opening(r, p)'
    BY <1>1, <1>2 DEF Opening
  <2>3. Receiving(r, p) => Receiving(r, p)'
    BY <1>1, <1>2 DEF Receiving, SameFiles
  <2>4. PlacedList(r, p)' /\ ClosingList(p)'
    BY <1>1, <1>3
  <2> QED
    BY <1>3, <2>1, <2>2, <2>3, <2>4 DEF InMerge
<1>4. Ending(r) => Ending(r)'
  <2>1. ClosingList(code[r]) => ClosingList(code[r])'
    BY DEF ClosingList, Closing, IsList
  <2> QED
    BY <1>2, <2>1 DEF Ending
<1> QED
  BY <1>3, <1>4 DEF InMerge

\* The rank itself goes on.
LEMMA OwnMerge ==
  ASSUME cfg \in Configs, cfg' = cfg, Matching, NEW r \in Rank, DOMAIN code = Rank,
         Takes(r, Head(code[r])), InMerge(r)
  PROVE  InMerge(r)'
<1> DEFINE s == Head(code[r])
<1>0. Merges
  BY DEF Matching
<1>1. code[r] # <<>> /\ code'[r] = Tail(code[r]) /\ s.op \notin {"throw", "sync"}
  BY DEF Takes
<1>2. /\ \A p : PlacedList(r, p)' = PlacedList(r, p) /\ ClosingList(p)' = ClosingList(p)
      /\ \A p : /\ ToPut(r, p)' = ToPut(r, p) /\ ToOpen(r, p)' = ToOpen(r, p)
                /\ ToCopy(r, p)' = ToCopy(r, p)
      /\ SnapOf(r)' = SnapOf(r) /\ TmpOf(r)' = TmpOf(r) /\ NeutrinosOf(r)' = NeutrinosOf(r)
  BY MergeStays
<1>3. ASSUME NEW p, PlacedList(r, p), ClosingList(p), Sending(r, p)
      PROVE  InMerge(r)'
  <2>1. PICK a : PlacedList(r, a) /\ code[r] = a \o ToPut(r, p)
    BY <1>3 DEF Sending
  <2>2. PICK c : c = ToPut(r, p)
    OBVIOUS
  <2>3. IsList(c) /\ c # <<>> /\ Head(c) = putStep(r) /\ Tail(c) = ToOpen(r, p)
    BY <1>3, <2>2, MergeLists DEF PlacedList
  <2>4. code[r] = c \/ \E b : PlacedList(r, b) /\ Tail(code[r]) = b \o c
    <3>1. PlacedList(r, a) /\ IsList(c)
      BY <2>1, <2>3
    <3>2. a = <<>> => code[r] = c
      BY <2>1, <2>2, <3>1, ThenIsFirst
    <3>3. a # <<>> => PlacedList(r, Tail(a)) /\ Tail(a \o c) = Tail(a) \o c
      BY <3>1, FirstOrThen
    <3> QED
      BY <2>1, <2>2, <3>2, <3>3
  <2>5. CASE code[r] = c
    <3>1. s = putStep(r) /\ code'[r] = ToOpen(r, p)
      BY <1>1, <2>3, <2>5
    <3>2. s.op = "put" /\ s.file = TmpOf(r) /\ s.val = NeutrinosOf(r)
      <4>1. PICK v, f : v = NeutrinosOf(r) /\ f = TmpOf(r)
        OBVIOUS
      <4>2. s = Step("put", f, "", v)
        BY <3>1, <4>1 DEF putStep
      <4> HIDE DEF s
      <4> QED
        BY <4>1, <4>2 DEF Step
    <3>3. SetFile(TmpOf(r), NeutrinosOf(r))
      BY <3>2 DEF Takes
    <3>4. Sent(r)'
      BY <1>2, <3>3 DEF Sent, SetFile, Updated
    <3>5. Opening(r, p)'
      BY <1>2, <3>1, <3>4 DEF Opening
    <3> QED
      BY <1>2, <1>3, <3>5 DEF InMerge
  <2>6. ASSUME NEW b, PlacedList(r, b), Tail(code[r]) = b \o c PROVE InMerge(r)'
    <3>1. Sending(r, p)'
      BY <1>1, <1>2, <2>2, <2>6 DEF Sending
    <3> QED
      BY <1>2, <1>3, <3>1 DEF InMerge
  <2> QED
    BY <2>4, <2>5, <2>6
<1>4. ASSUME NEW p, PlacedList(r, p), ClosingList(p), Opening(r, p)
      PROVE  InMerge(r)'
  <2>1. s = openStep(r) /\ code'[r] = ToCopy(r, p) /\ Sent(r)
    BY <1>1, <1>4, MergeLists DEF Opening, PlacedList
  <2>2. s.op = "open" /\ s.file = SnapOf(r)
    BY <2>1 DEF openStep, Step
  <2>3. SnapOf(r) \in DOMAIN fs /\ fs' = fs
    BY <2>2 DEF Takes, Exists
  <2>4. Receiving(r, p)'
    BY <1>2, <2>1, <2>3 DEF Receiving, Sent
  <2> QED
    BY <1>2, <1>4, <2>4 DEF InMerge
<1>5. ASSUME NEW p, PlacedList(r, p), ClosingList(p), Receiving(r, p)
      PROVE  InMerge(r)'
  <2>1. s = copyStep(r) /\ code'[r] = p /\ Sent(r) /\ SnapOf(r) \in DOMAIN fs
    BY <1>1, <1>5, MergeLists DEF Receiving, PlacedList
  <2>2. s.op = "copy"
    BY <2>1 DEF copyStep, Step
  <2>3. AfterMerge(copyStep(r), Merged(copyStep(r)))
    BY <2>1, <2>2 DEF Takes
  <2>4. Received(r)'
    BY <1>0, <2>1, <2>3, CopyReceives
  <2>5. Ending(r)'
    BY <1>2, <1>5, <2>1, <2>4 DEF Ending, ClosingList, Closing, IsList
  <2> QED
    BY <2>5 DEF InMerge
<1>6. ASSUME Ending(r) PROVE InMerge(r)'
  <2>1. Closing(s) /\ ClosingList(Tail(code[r]))
    BY <1>1, <1>6, FirstClosing DEF Ending
  <2>2. s.op \in {"note", "group", "attribute"}
    BY <1>1, <2>1 DEF Closing
  <2>3. OnlyFile(s.file) /\ KeepsData(s.file)
    BY <2>2 DEF Takes
  <2>4. Received(r)'
    <3>1. PICK f : f = SnapOf(r)
      OBVIOUS
    <3>2. f \in DOMAIN fs /\ "data" \in DOMAIN fs[f]
      BY <1>6, <3>1 DEF Ending, Received
    <3>3. f \in DOMAIN fs' /\ "data" \in DOMAIN fs'[f] /\ fs'[f].data = fs[f].data
      <4>1. CASE f = s.file
        BY <2>3, <3>2, <4>1 DEF KeepsData
      <4>2. CASE f # s.file
        BY <2>3, <3>2, <4>2 DEF OnlyFile
      <4> QED
        BY <4>1, <4>2
    <3>4. Group(Neutrino)' = Group(Neutrino)
      BY MergeStays
    <3>5. NeutrinoNames' = NeutrinoNames
      BY <3>4 DEF NeutrinoNames, Dataset
    <3> QED
      BY <1>2, <1>6, <3>1, <3>3, <3>4, <3>5 DEF Ending, Received
  <2>5. Ending(r)'
    BY <1>1, <2>1, <2>4 DEF Ending, ClosingList, Closing, IsList
  <2> QED
    BY <2>5 DEF InMerge
<1> QED
  BY <1>3, <1>4, <1>5, <1>6 DEF InMerge

\* Another rank is about other files.
LEMMA OtherMerge ==
  ASSUME cfg \in Configs, cfg' = cfg, Matching, DOMAIN code = Rank,
         NEW r \in Rank, InMerge(r), NEW q \in Rank, q # r, PlacedList(q, code[q]),
         Takes(q, Head(code[q]))
  PROVE  InMerge(r)'
<1> DEFINE s == Head(code[q])
<1>0. Merges
  BY DEF Matching
<1>1. code[q] # <<>> /\ code'[r] = code[r]
  BY DEF Takes
<1>2. InPlace(q, s)
  BY <1>1, FirstPlaced
<1>3. /\ SnapOf(r) \notin {SnapOf(q), TmpOf(q)} /\ TmpOf(r) \notin {SnapOf(q), TmpOf(q)}
      /\ SnapOf(r) \notin FilesOf(q) /\ TmpOf(r) \notin FilesOf(q)
  BY <1>0, MergeFiles
<1>4. SameFiles(r)
  <2>1. CASE s.op = "copy"
    <3>1. s.file = SnapOf(q) /\ s.on = TmpOf(q)
      BY <1>2, <2>1 DEF InPlace
    <3>2. fs' = [f \in DOMAIN fs \ {s.on} |-> IF f = s.file THEN Merged(s) ELSE fs[f]]
      BY <2>1 DEF Takes, AfterMerge
    <3> QED
      BY <1>3, <3>1, <3>2 DEF SameFiles
  <2>2. CASE s.op # "copy"
    <3>1. s.file = SnapOf(q) \/ s.file \in FilesOf(q)
      BY <1>2, <2>2 DEF InPlace
    <3>2. SnapOf(r) # s.file /\ TmpOf(r) # s.file
      BY <1>3, <3>1
    <3>3. OnlyFile(s.file)
      BY <2>2 DEF Takes
    <3> QED
      BY <3>2, <3>3 DEF SameFiles, OnlyFile
  <2> QED
    BY <2>1, <2>2
<1> QED
  BY <1>1, <1>4, MergeKept

\* At a collective nobody is about to send or to receive.
LEMMA MergeTogether ==
  ASSUME cfg \in Configs, cfg' = cfg, fs' = fs, NEW r, InMerge(r),
         code[r] # <<>>, Head(code[r]).op = "sync", code'[r] = Tail(code[r])
  PROVE  InMerge(r)'
<1>1. /\ \A p : PlacedList(r, p)' = PlacedList(r, p) /\ ClosingList(p)' = ClosingList(p)
      /\ \A p : ToPut(r, p)' = ToPut(r, p)
  BY MergeStays
<1>2. ASSUME NEW p, PlacedList(r, p), ClosingList(p), Sending(r, p)
      PROVE  InMerge(r)'
  <2>1. PICK a : PlacedList(r, a) /\ code[r] = a \o ToPut(r, p)
    BY <1>2 DEF Sending
  <2>2. PICK c : c = ToPut(r, p)
    OBVIOUS
  <2>3. IsList(c) /\ c # <<>> /\ Head(c) = putStep(r)
    BY <1>2, <2>2, MergeLists DEF PlacedList
  <2>4. code[r] # c
    <3>1. putStep(r).op = "put"
      BY DEF putStep, Step
    <3> QED
      BY <2>3, <3>1
  <2>5. PICK b : PlacedList(r, b) /\ Tail(code[r]) = b \o c
    <3>1. PlacedList(r, a) /\ IsList(c)
      BY <2>1, <2>3
    <3>2. a # <<>>
      BY <2>1, <2>2, <2>4, <3>1, ThenIsFirst
    <3>3. PlacedList(r, Tail(a)) /\ Tail(a \o c) = Tail(a) \o c
      BY <3>1, <3>2, FirstOrThen
    <3> QED
      BY <2>1, <2>2, <3>3
  <2>6. Sending(r, p)'
    BY <1>1, <2>2, <2>5 DEF Sending
  <2> QED
    BY <1>1, <1>2, <2>6 DEF InMerge
<1>3. ASSUME NEW p, PlacedList(r, p), Opening(r, p) \/ Receiving(r, p)
      PROVE  FALSE
  <2>1. Head(code[r]) = openStep(r) \/ Head(code[r]) = copyStep(r)
    BY <1>3, MergeLists DEF Opening, Receiving, PlacedList
  <2>2. openStep(r).op = "open" /\ copyStep(r).op = "copy"
    BY DEF openStep, copyStep, Step
  <2> QED
    BY <2>1, <2>2
<1>4. ASSUME Ending(r) PROVE InMerge(r)'
  <2>1. ClosingList(Tail(code[r]))
    BY <1>4, FirstClosing DEF Ending
  <2>2. SameFiles(r)
    BY DEF SameFiles
  <2>3. Received(r)'
    BY <1>4, <2>2, FilesStay DEF Ending
  <2>4. Ending(r)'
    BY <1>1, <2>1, <2>3 DEF Ending, ClosingList, Closing, IsList
  <2> QED
    BY <2>4 DEF InMerge
<1> QED
  BY <1>2, <1>3, <1>4 DEF InMerge

-----------------------------------------------------------------------------
(***************************************************************************)
(* The neutrinos: a rank that cannot come to its end.                      *)
(***************************************************************************)
\* A step of a list that is not the first one is in the rest.
LEMMA StaysInTail ==
  ASSUME NEW c, IsList(c), c # <<>>, NEW i \in 1 .. Len(c), c[i] # Head(c)
  PROVE  IsList(Tail(c)) /\ \E j \in 1 .. Len(Tail(c)) : Tail(c)[j] = c[i]
<1>1. /\ Head(c) = c[1] /\ IsList(Tail(c)) /\ Len(Tail(c)) = Len(c) - 1
      /\ \A j \in 1 .. Len(c) - 1 : Tail(c)[j] = c[j + 1]
  BY HeadAndTail
<1>2. Len(c) \in Nat
  BY ListFacts
<1>3. i # 1
  BY <1>1
<1>4. i - 1 \in 1 .. Len(c) - 1 /\ i = (i - 1) + 1
  BY <1>2, <1>3
<1> QED
  BY <1>1, <1>4

\* Rank 0 has an exception ahead, or a file to open that nobody writes.
Throwing == IsList(code[0]) /\ \E i \in 1 .. Len(code[0]) : code[0][i].op = "throw"
Missing ==
  /\ SnapOf(0) \notin DOMAIN fs /\ IsList(code[0])
  /\ \E i \in 1 .. Len(code[0]) : code[0][i].op = "open" /\ code[0][i].file = SnapOf(0)
Stuck == IF Merges THEN Missing ELSE Throwing

LEMMA StuckGoesOn == Stuck => code[0] # <<>>
<1> SUFFICES ASSUME Stuck, code[0] = <<>> PROVE FALSE
  OBVIOUS
<1>1. \E i \in 1 .. Len(code[0]) : TRUE
  BY DEF Stuck, Missing, Throwing
<1>2. Len(code[0]) = 0
  BY NoList
<1> QED
  BY <1>1, <1>2

LEMMA ThrowingStays ==
  ASSUME Throwing, \/ code'[0] = code[0]
                   \/ /\ code[0] # <<>> /\ code'[0] = Tail(code[0])
                      /\ Head(code[0]).op # "throw"
  PROVE  Throwing'
<1>1. CASE code'[0] = code[0]
  BY <1>1 DEF Throwing, IsList
<1>2. CASE code[0] # <<>> /\ code'[0] = Tail(code[0]) /\ Head(code[0]).op # "throw"
  <2>1. PICK i \in 1 .. Len(code[0]) : code[0][i].op = "throw"
    BY DEF Throwing
  <2>2. code[0][i] # Head(code[0])
    BY <1>2, <2>1
  <2>3. IsList(Tail(code[0])) /\ \E j \in 1 .. Len(Tail(code[0])) : Tail(code[0])[j] = code[0][i]
    BY <1>2, <2>2, StaysInTail DEF Throwing
  <2> QED
    BY <1>2, <2>1, <2>3 DEF Throwing, IsList
<1> QED
  BY <1>1, <1>2

LEMMA MissingStays ==
  ASSUME cfg' = cfg, Missing, SnapOf(0) \notin DOMAIN fs',
         \/ code'[0] = code[0]
         \/ /\ code[0] # <<>> /\ code'[0] = Tail(code[0])
            /\ Head(code[0]).op = "open" => Head(code[0]).file \in DOMAIN fs
  PROVE  Missing'
<1>0. SnapOf(0)' = SnapOf(0)
  BY MergeStays
<1>1. CASE code'[0] = code[0]
  BY <1>0, <1>1 DEF Missing, IsList
<1>2. CASE /\ code[0] # <<>> /\ code'[0] = Tail(code[0])
           /\ Head(code[0]).op = "open" => Head(code[0]).file \in DOMAIN fs
  <2>1. PICK i \in 1 .. Len(code[0]) : code[0][i].op = "open" /\ code[0][i].file = SnapOf(0)
    BY DEF Missing
  <2>2. code[0][i] # Head(code[0])
    BY <1>2, <2>1 DEF Missing
  <2>3. IsList(Tail(code[0])) /\ \E j \in 1 .. Len(Tail(code[0])) : Tail(code[0])[j] = code[0][i]
    BY <1>2, <2>2, StaysInTail DEF Missing
  <2> QED
    BY <1>0, <1>2, <2>1, <2>3 DEF Missing, IsList
<1> QED
  BY <1>1, <1>2

\* A step of some rank does not free it.
LEMMA StuckStays ==
  ASSUME cfg \in Configs, cfg' = cfg, ~Matching, Stuck, DOMAIN code = Rank, NEW q \in Rank,
         Merges => PlacedList(q, code[q]), Takes(q, Head(code[q]))
  PROVE  Stuck'
<1> DEFINE s == Head(code[q])
<1>0. 0 \in Rank /\ Merges' = Merges
  BY ConfigFacts, MergeStays
<1>1. /\ code[q] # <<>> /\ s.op \notin {"throw", "sync"}
      /\ code' = [code EXCEPT ![q] = Tail(@)]
  BY DEF Takes
<1>2. \/ code'[0] = code[0]
      \/ q = 0 /\ code[0] # <<>> /\ code'[0] = Tail(code[0])
  BY <1>0, <1>1
<1>3. CASE ~Merges
  BY <1>0, <1>1, <1>2, <1>3, ThrowingStays DEF Stuck
<1>4. CASE Merges
  <2>1. SnapOf(0) \notin FilesOf(q)
    BY <1>0, <1>4, MergeFiles
  <2>2. InPlace(q, s)
    BY <1>1, <1>4, FirstPlaced
  <2>3. SnapOf(0) \notin DOMAIN fs
    BY <1>4 DEF Stuck, Missing
  <2>4. SnapOf(0) \notin DOMAIN fs'
    <3>1. CASE s.op = "copy"
      <4>1. DOMAIN fs' \subseteq DOMAIN fs
        BY <3>1 DEF Takes, AfterMerge
      <4> QED
        BY <2>3, <4>1
    <3>2. CASE s.op = "open"
      BY <2>3, <3>2 DEF Takes
    <3>3. CASE s.op \notin {"open", "copy"}
      <4>1. SnapOf(0) # s.file
        BY <2>1, <2>2, <3>3 DEF InPlace
      <4>2. OnlyFile(s.file)
        BY <3>3 DEF Takes
      <4> QED
        BY <2>3, <4>1, <4>2 DEF OnlyFile
    <3> QED
      BY <3>1, <3>2, <3>3
  <2>5. s.op = "open" => s.file \in DOMAIN fs
    BY DEF Takes, Exists
  <2> QED
    BY <1>0, <1>2, <1>4, <2>4, <2>5, MissingStays DEF Stuck
<1> QED
  BY <1>3, <1>4

-----------------------------------------------------------------------------
(***************************************************************************)
(* The neutrinos: the invariant.                                           *)
(***************************************************************************)
AllPlaced == Merges => \A q \in Rank : PlacedList(q, code[q])
OnTheWay == IF Matching THEN \A r \in Rank : InMerge(r) ELSE Stuck
NeutrinoInv ==
  /\ cfg \in Configs /\ DOMAIN code = Rank
  /\ dead = {} /\ cfg.neutrinos => AllPlaced /\ OnTheWay

LEMMA PlacedMerge ==
  ASSUME NEW r, NEW p, PlacedList(r, p)
  PROVE  PlacedList(r, ToOpen(r, p)) /\ PlacedList(r, ToPut(r, p))
<1>1. PICK o, c : o = openStep(r) /\ c = copyStep(r)
  OBVIOUS
<1>2. InPlace(r, o) /\ InPlace(r, c)
  BY <1>1, StepIs DEF InPlace, openStep, copyStep
<1>3. PlacedList(r, <<o>>) /\ PlacedList(r, <<c>>)
  <2>1. ASSUME NEW x, InPlace(r, x) PROVE PlacedList(r, <<x>>)
    <3>1. PICK l : l = <<x>>
      OBVIOUS
    <3>2. IsList(l) /\ Len(l) = 1 /\ l[1] = x
      BY <3>1, OneStep
    <3> QED
      BY <2>1, <3>1, <3>2 DEF PlacedList
  <2> QED
    BY <1>2, <2>1
<1>4. PlacedList(r, ToCopy(r, p))
  BY <1>1, <1>3, PlacedJoin DEF ToCopy
<1>5. PlacedList(r, ToOpen(r, p))
  BY <1>1, <1>3, <1>4, PlacedJoin DEF ToOpen
<1>6. PlacedList(r, <<putStep(r)>>)
  <2>1. TmpOf(r) \in FilesOf(r)
    BY DEF FilesOf
  <2> QED
    BY <2>1, PlacedStep DEF putStep
<1> QED
  BY <1>5, <1>6, PlacedJoin DEF ToPut

LEMMA NeutrinoInit == Init => NeutrinoInv
<1> SUFFICES ASSUME Init PROVE NeutrinoInv
  OBVIOUS
<1>1. cfg \in Configs /\ code = [r \in Rank |-> Program(r)] /\ 0 \in Rank
  BY ConfigFacts DEF Init
<1>2. ASSUME cfg.neutrinos, Merges PROVE AllPlaced /\ OnTheWay
  <2>1. ASSUME NEW r \in Rank
        PROVE  \E a, p : /\ PlacedList(r, a) /\ PlacedList(r, p) /\ ClosingList(p)
                         /\ code[r] = a \o (IF Matching THEN ToPut(r, p) ELSE ToOpen(r, p))
    <3>1. code[r] = Program(r)
      BY <1>1
    <3> QED
      BY <1>1, <1>2, <3>1, ProgramMerges
  <2>2. ASSUME NEW r \in Rank PROVE PlacedList(r, code[r])
    <3>1. PICK a, p : /\ PlacedList(r, a) /\ PlacedList(r, p)
                      /\ code[r] = a \o (IF Matching THEN ToPut(r, p) ELSE ToOpen(r, p))
      BY <2>1
    <3>2. PlacedList(r, ToOpen(r, p)) /\ PlacedList(r, ToPut(r, p))
      BY <3>1, PlacedMerge
    <3> QED
      BY <3>1, <3>2, PlacedJoin
  <2>3. CASE Matching
    <3>1. ASSUME NEW r \in Rank PROVE InMerge(r)
      <4>1. PICK a, p : /\ PlacedList(r, a) /\ PlacedList(r, p) /\ ClosingList(p)
                        /\ code[r] = a \o ToPut(r, p)
        BY <2>1, <2>3
      <4> QED
        BY <4>1 DEF InMerge, Sending
    <3> QED
      BY <2>2, <2>3, <3>1 DEF AllPlaced, OnTheWay
  <2>4. CASE ~Matching
    <3>1. PICK a, p : /\ PlacedList(0, a) /\ PlacedList(0, p) /\ code[0] = a \o ToOpen(0, p)
      BY <1>1, <2>1, <2>4
    <3>2. PICK o, b : o = openStep(0) /\ b = ToCopy(0, p)
      OBVIOUS
    <3>3. IsList(a) /\ IsList(b) /\ IsList(code[0]) /\ code[0] = a \o (<<o>> \o b)
      <4>1. IsList(a) /\ IsList(p)
        BY <3>1 DEF PlacedList
      <4>2. IsList(b)
        BY <3>2, <4>1, MergeLists
      <4>3. IsList(code[0])
        BY <1>1, <2>2 DEF PlacedList
      <4> QED
        BY <3>1, <3>2, <4>1, <4>2, <4>3 DEF ToOpen
    <3>4. \E i \in 1 .. Len(code[0]) : code[0][i] = o
      <4>0. IsList(a) /\ IsList(b)
        BY <3>3
      <4>1. \E i \in 1 .. Len(a \o (<<o>> \o b)) : (a \o (<<o>> \o b))[i] = o
        BY <4>0, Somewhere
      <4>2. PICK c : c = a \o (<<o>> \o b)
        OBVIOUS
      <4> QED
        BY <3>3, <4>1, <4>2
    <3>5. o.op = "open" /\ o.file = SnapOf(0)
      BY <3>2 DEF openStep, Step
    <3>6. SnapOf(0) \notin DOMAIN fs
      <4>1. \A q \in Rank : SnapOf(0) \notin FilesOf(q)
        BY <1>1, <1>2, <2>4, MergeFiles
      <4>2. \A q \in Rank : SnapOf(0) \notin {WhiteNoise, this_fname(q)}
        BY <4>1 DEF FilesOf
      <4>3. SnapOf(0) # Shared("ic") /\ SnapOf(0) # Shared("ic/poscx")
        <5>1. SnapOf(0) = Path("ic.#.hdf5", 0) \/ SnapOf(0) = Path("ic.hdf5", -1)
          BY <1>1, MergeNames
        <5>2. /\ Path("ic.#.hdf5", 0) # Path("ic", -1)
              /\ Path("ic.hdf5", -1) # Path("ic", -1)
          BY DifferentPaths
        <5>3. /\ Path("ic.#.hdf5", 0) # Path("ic/poscx", -1)
              /\ Path("ic.hdf5", -1) # Path("ic/poscx", -1)
          BY DifferentPaths
        <5> QED
          BY <5>1, <5>2, <5>3 DEF Shared
      <4>4. DOMAIN fs \subseteq {WhiteNoise, Shared("ic"), Shared("ic/poscx")}
                                  \cup {this_fname(q) : q \in Rank}
        BY DEF Init
      <4> QED
        BY <1>1, <4>2, <4>3, <4>4
    <3>7. Missing
      BY <3>3, <3>4, <3>5, <3>6 DEF Missing
    <3> QED
      BY <1>2, <2>2, <2>4, <3>7 DEF AllPlaced, OnTheWay, Stuck
  <2> QED
    BY <2>3, <2>4
<1>3. ASSUME cfg.neutrinos, ~Merges PROVE AllPlaced /\ OnTheWay
  <2>1. IsList(Program(0)) /\ \E i \in 1 .. Len(Program(0)) : Program(0)[i].op = "throw"
    BY <1>1, <1>3, ProgramThrows
  <2>2. code[0] = Program(0)
    BY <1>1
  <2>3. Throwing
    BY <2>1, <2>2 DEF Throwing
  <2> QED
    BY <1>3, <2>3 DEF AllPlaced, OnTheWay, Stuck, Matching
<1>4. DOMAIN code = Rank
  BY <1>1
<1> QED
  BY <1>1, <1>2, <1>3, <1>4 DEF NeutrinoInv

LEMMA NeutrinoStutters ==
  ASSUME UNCHANGED <<cfg, fs, code, dead>>, NeutrinoInv
  PROVE  NeutrinoInv'
<1>1. /\ Rank' = Rank /\ Merges' = Merges /\ Matching' = Matching /\ SnapOf(0)' = SnapOf(0)
      /\ \A r, c : PlacedList(r, c)' = PlacedList(r, c)
  BY MergeStays
<1>2. AllPlaced => AllPlaced'
  BY <1>1 DEF AllPlaced
<1>3. ASSUME NEW r, InMerge(r) PROVE InMerge(r)'
  <2>1. SameFiles(r)
    BY DEF SameFiles
  <2> QED
    BY <1>3, <2>1, MergeKept
<1>4. Stuck => Stuck'
  BY <1>1 DEF Stuck, Missing, Throwing, IsList
<1>5. OnTheWay => OnTheWay'
  BY <1>1, <1>3, <1>4 DEF OnTheWay
<1> QED
  BY <1>1, <1>2, <1>5 DEF NeutrinoInv

\* A step of one rank.
LEMMA NeutrinosMove ==
  ASSUME NeutrinoInv, cfg.neutrinos, dead = {}, NEW q \in Rank, cfg' = cfg,
         Takes(q, Head(code[q]))
  PROVE  AllPlaced' /\ OnTheWay' /\ DOMAIN code' = Rank
<1>1. cfg \in Configs /\ DOMAIN code = Rank /\ AllPlaced /\ OnTheWay
  BY DEF NeutrinoInv
<1>2. /\ Rank' = Rank /\ Merges' = Merges /\ Matching' = Matching
      /\ \A r, c : PlacedList(r, c)' = PlacedList(r, c)
  BY MergeStays
<1>3. code[q] # <<>> /\ code' = [code EXCEPT ![q] = Tail(@)]
  BY DEF Takes
<1>4. DOMAIN code' = Rank
  BY <1>1, <1>3
<1>5. AllPlaced'
  <2>1. ASSUME Merges, NEW r \in Rank PROVE PlacedList(r, code'[r])
    <3>1. PlacedList(r, code[r])
      BY <1>1, <2>1 DEF AllPlaced
    <3>2. r = q => PlacedList(r, Tail(code[r]))
      BY <1>3, <3>1, FirstPlaced
    <3> QED
      BY <1>1, <1>3, <3>1, <3>2
  <2> QED
    BY <1>2, <2>1 DEF AllPlaced
<1>6. CASE Matching
  <2>0. Merges
    BY <1>6 DEF Matching
  <2>1. ASSUME NEW r \in Rank PROVE InMerge(r)'
    <3>1. InMerge(r)
      BY <1>1, <1>6 DEF OnTheWay
    <3>2. CASE r = q
      BY <1>1, <1>6, <3>1, <3>2, OwnMerge
    <3>3. CASE r # q
      <4>1. PlacedList(q, code[q])
        BY <1>1, <2>0 DEF AllPlaced
      <4> QED
        BY <1>1, <1>6, <3>1, <3>3, <4>1, OtherMerge
    <3> QED
      BY <3>2, <3>3
  <2> QED
    BY <1>2, <1>4, <1>5, <1>6, <2>1 DEF OnTheWay
<1>7. CASE ~Matching
  <2>1. Stuck'
    BY <1>1, <1>7, StuckStays DEF OnTheWay, AllPlaced
  <2> QED
    BY <1>2, <1>4, <1>5, <1>7, <2>1 DEF OnTheWay
<1> QED
  BY <1>6, <1>7

\* A collective.
LEMMA NeutrinosTogether ==
  ASSUME NeutrinoInv, cfg.neutrinos, dead = {}, Collective
  PROVE  AllPlaced' /\ OnTheWay'
<1>1. cfg \in Configs /\ AllPlaced /\ OnTheWay /\ 0 \in Rank
  BY ConfigFacts DEF NeutrinoInv
<1>2. cfg' = cfg /\ fs' = fs /\ code' = [r \in Rank |-> Tail(code[r])]
  BY DEF Collective
<1>3. \A r \in Rank : code[r] # <<>> /\ Head(code[r]).op = "sync" /\ code'[r] = Tail(code[r])
  BY <1>2 DEF Collective, At
<1>4. /\ Rank' = Rank /\ Merges' = Merges /\ Matching' = Matching
      /\ \A r, c : PlacedList(r, c)' = PlacedList(r, c)
  BY <1>2, MergeStays
<1>5. AllPlaced'
  <2>1. ASSUME Merges, NEW r \in Rank PROVE PlacedList(r, code'[r])
    <3>1. PlacedList(r, code[r])
      BY <1>1, <2>1 DEF AllPlaced
    <3> QED
      BY <1>3, <3>1, FirstPlaced
  <2> QED
    BY <1>4, <2>1 DEF AllPlaced
<1>6. CASE Matching
  <2>1. ASSUME NEW r \in Rank PROVE InMerge(r)'
    <3>1. InMerge(r)
      BY <1>1, <1>6 DEF OnTheWay
    <3> QED
      BY <1>1, <1>2, <1>3, <3>1, MergeTogether
  <2> QED
    BY <1>4, <1>5, <1>6, <2>1 DEF OnTheWay
<1>7. CASE ~Matching
  <2>1. Stuck
    BY <1>1, <1>7 DEF OnTheWay
  <2>2. CASE Merges
    <3>1. Missing /\ SnapOf(0) \notin DOMAIN fs'
      BY <1>2, <2>1, <2>2 DEF Stuck, Missing
    <3>2. code[0] # <<>> /\ code'[0] = Tail(code[0]) /\ Head(code[0]).op = "sync"
      BY <1>1, <1>3
    <3>3. Missing'
      BY <1>2, <3>1, <3>2, MissingStays
    <3> QED
      BY <1>4, <1>5, <1>7, <2>2, <3>3 DEF OnTheWay, Stuck
  <2>3. CASE ~Merges
    <3>1. code[0] # <<>> /\ code'[0] = Tail(code[0]) /\ Head(code[0]).op = "sync"
      BY <1>1, <1>3
    <3>2. Throwing'
      BY <2>1, <2>3, <3>1, ThrowingStays DEF Stuck
    <3> QED
      BY <1>4, <1>5, <1>7, <2>3, <3>2 DEF OnTheWay, Stuck
  <2> QED
    BY <2>2, <2>3
<1> QED
  BY <1>6, <1>7

\* Whatever a rank does, the run stays the run, and the dead stay dead.
LEMMA RunStays ==
  ASSUME cfg \in Configs, DOMAIN code = Rank, NEW r \in Rank, RankStep(r)
  PROVE  cfg' = cfg /\ DOMAIN code' = Rank /\ (dead' = {} => dead = {})
<1> DEFINE Common == /\ cfg' = cfg /\ (code' = code \/ \E c : code' = [code EXCEPT ![r] = c])
                     /\ dead' = {} => dead = {}
<1>1. ASSUME Terminate(r) PROVE (\E c : code' = [code EXCEPT ![r] = c]) /\ dead' # {}
  BY <1>1 DEF Terminate
<1>2. ASSUME Pop(r) PROVE \E c : code' = [code EXCEPT ![r] = c]
  BY <1>2 DEF Pop
<1>3. Unlink(r) \/ RemoveDirectory(r) \/ MakeDirectory(r) \/ CreateFile(r) \/ PutFile(r) => Common
  BY <1>2 DEF Unlink, RemoveDirectory, MakeDirectory, CreateFile, PutFile
<1>4. AppendRecord(r) \/ ReadNoise(r) \/ NoteCounts(r) => Common
  BY <1>2 DEF AppendRecord, ReadNoise, NoteCounts
<1>5. Open(r) => Common
  BY <1>2 DEF Open, Refuse
<1>6. /\ CreateGroup(r) => Common
      /\ CreateAttribute(r) => Common
      /\ CreateDataset(r) => Common
      /\ CreateEmpty(r) => Common
      /\ WriteChunk(r) => Common
      /\ CreateField(r) => Common
      /\ WritePlanes(r) => Common
  BY <1>2 DEF CreateGroup, CreateAttribute, CreateDataset, CreateEmpty, WriteChunk, CreateField,
       WritePlanes, Edit, Refuse
<1>7. MergeOpen(r) => Common
  BY <1>1, <1>2 DEF MergeOpen
<1>8. MergeCopy(r) => Common
  BY <1>1, <1>2 DEF MergeCopy
<1>9. ThrowOut(r) \/ Kill(r) => Common
  BY <1>1 DEF ThrowOut, Kill
<1>10. Common
  <2> HIDE DEF Common
  <2> QED
    BY <1>3, <1>4, <1>5, <1>6, <1>7, <1>8, <1>9 DEF RankStep
<1> QED
  BY <1>10

LEMMA NeutrinoStep ==
  ASSUME NeutrinoInv, Next
  PROVE  NeutrinoInv'
<1>1. cfg \in Configs /\ DOMAIN code = Rank
  BY DEF NeutrinoInv
<1>2. CASE Done
  BY <1>2, NeutrinoStutters DEF Done, vars
<1>3. CASE Collective
  <2>1. cfg' = cfg /\ dead' = dead /\ DOMAIN code' = Rank /\ Rank' = Rank
    BY <1>3 DEF Collective, Rank
  <2>2. dead = {} /\ cfg.neutrinos => AllPlaced' /\ OnTheWay'
    BY <1>3, NeutrinosTogether
  <2> QED
    BY <1>1, <2>1, <2>2 DEF NeutrinoInv
<1>4. ASSUME NEW r \in Rank, RankStep(r) PROVE NeutrinoInv'
  <2>1. cfg' = cfg /\ DOMAIN code' = Rank /\ (dead' = {} => dead = {}) /\ Rank' = Rank
    BY <1>1, <1>4, RunStays DEF Rank
  <2>2. ASSUME dead' = {}, cfg.neutrinos PROVE AllPlaced' /\ OnTheWay'
    <3>1. Moves(r) /\ dead = {}
      BY <1>4, <2>1, <2>2, RankMoves
    <3>2. CASE code' = code /\ fs' = fs
      <4>1. UNCHANGED <<cfg, fs, code, dead>>
        BY <2>1, <2>2, <3>1, <3>2
      <4>2. NeutrinoInv'
        BY <4>1, NeutrinoStutters
      <4> QED
        BY <2>1, <2>2, <4>2 DEF NeutrinoInv
    <3>3. CASE Takes(r, Head(code[r]))
      BY <1>4, <2>1, <2>2, <3>1, <3>3, NeutrinosMove
    <3> QED
      BY <3>1, <3>2, <3>3 DEF Moves
  <2> QED
    BY <1>1, <2>1, <2>2 DEF NeutrinoInv
<1> QED
  BY <1>2, <1>3, <1>4 DEF Next

-----------------------------------------------------------------------------
(***************************************************************************)
(* The neutrinos: what a run that ends well leaves in the snapshot.        *)
(***************************************************************************)
\* What the files of a snapshot hold in a dataset, and how much it is.
StoredIn(f, d) == {fs[f].data[d][i] : i \in DOMAIN fs[f].data[d]}
StoredInAll(S, d) == UNION {StoredIn(f, d) : f \in S}
Entries(S, d) == MapThenSumSet(LAMBDA f : Cardinality(DOMAIN fs[f].data[d]), S)

\* No entry is there twice.
AllDiffer(S, d) ==
  /\ \A e \in S : IsFiniteSet(DOMAIN fs[e].data[d])
  /\ \A e, g \in S : \A i \in DOMAIN fs[e].data[d], j \in DOMAIN fs[g].data[d] :
       fs[e].data[d][i] = fs[g].data[d][j] => e = g /\ i = j

\* One more file adds its entries.
LEMMA FileAdds ==
  ASSUME NEW S, NEW d, NEW f \in S, IsFiniteSet(S),
         \A e \in S : IsFiniteSet(DOMAIN fs[e].data[d]),
         \A e, g \in S : \A i \in DOMAIN fs[e].data[d], j \in DOMAIN fs[g].data[d] :
           fs[e].data[d][i] = fs[g].data[d][j] => e = g /\ i = j
  PROVE  Cardinality(StoredInAll(S, d))
           = Cardinality(DOMAIN fs[f].data[d]) + Cardinality(StoredInAll(S \ {f}, d))
<1> DEFINE h == fs[f].data[d]
           A == StoredIn(f, d)
           B == StoredInAll(S \ {f}, d)
<1>1. IsFiniteSet(A) /\ Cardinality(A) = Cardinality(DOMAIN h)
  <2>1. IsFiniteSet(DOMAIN h)
    OBVIOUS
  <2>2. \A i, j \in DOMAIN h : h[i] = h[j] => i = j
    OBVIOUS
  <2>3. A = {h[i] : i \in DOMAIN h}
    BY DEF StoredIn
  <2> HIDE DEF h, A
  <2>4. IsFiniteSet({h[i] : i \in DOMAIN h})
    BY <2>1, ImageFinite
  <2>5. Cardinality({h[i] : i \in DOMAIN h}) = Cardinality(DOMAIN h)
    BY <2>1, <2>2, ImageCardinality
  <2> QED
    BY <2>3, <2>4, <2>5
<1>2. IsFiniteSet(B)
  <2> DEFINE F == {StoredIn(e, d) : e \in S \ {f}}
  <2>1. \A T \in F : IsFiniteSet(T)
    <3>1. ASSUME NEW e \in S PROVE IsFiniteSet(StoredIn(e, d))
      <4>1. PICK k : k = fs[e].data[d]
        OBVIOUS
      <4>2. IsFiniteSet(DOMAIN k)
        BY <4>1
      <4>3. IsFiniteSet({k[i] : i \in DOMAIN k})
        BY <4>2, ImageFinite
      <4> QED
        BY <4>1, <4>3 DEF StoredIn
    <3> QED
      BY <3>1
  <2>2. IsFiniteSet(F)
    <3>1. PICK k : k = [e \in S |-> StoredIn(e, d)]
      OBVIOUS
    <3>2. IsFiniteSet(S \ {f})
      BY FS_RemoveElement
    <3>3. IsFiniteSet({k[e] : e \in S \ {f}})
      BY <3>2, ImageFinite
    <3>4. F = {k[e] : e \in S \ {f}}
      BY <3>1
    <3> QED
      BY <3>3, <3>4
  <2>3. B = UNION F
    BY DEF StoredInAll
  <2> HIDE DEF F, B
  <2>4. IsFiniteSet(UNION F)
    BY <2>1, <2>2, FS_UNION
  <2> QED
    BY <2>3, <2>4
<1>3. A \cap B = {}
  BY DEF StoredIn, StoredInAll
<1>4. StoredInAll(S, d) = A \cup B
  BY DEF StoredIn, StoredInAll
<1> HIDE DEF A, B, h
<1>5. Cardinality(A \cup B) = Cardinality(A) + Cardinality(B) - Cardinality(A \cap B)
  BY <1>1, <1>2, FS_Union
<1>6. Cardinality(A \cap B) = 0 /\ Cardinality(A) \in Nat /\ Cardinality(B) \in Nat
  BY <1>1, <1>2, <1>3, FS_EmptySet, FS_CardinalityType
<1> QED
  BY <1>1, <1>4, <1>5, <1>6 DEF B, h

\* Entries that are all different are as many as what is stored.
LEMMA EntriesAre ==
  ASSUME NEW S, IsFiniteSet(S), NEW d,
         AllDiffer(S, d)
  PROVE  Entries(S, d) = Cardinality(StoredInAll(S, d))
<1> DEFINE n == [f \in S |-> Cardinality(DOMAIN fs[f].data[d])]
           Adds(h) == h = [t \in SUBSET S |->
                  IF t = {} THEN 0 ELSE Cardinality(DOMAIN fs[CHOOSE x \in t : TRUE].data[d])
                                          + h[t \ {CHOOSE x \in t : TRUE}]]
           c == CHOOSE h : Adds(h)
           g == [t \in SUBSET S |-> Cardinality(StoredInAll(t, d))]
<1>1. Entries(S, d) = c[S]
  BY DEF Entries, MapThenSumSet, MapThenFoldSet
<1>2. \E h : IsSumTable(h, n, S)
  BY SumTableExists
<1>3. ASSUME NEW t \in SUBSET S, t # {}
      PROVE  n[OneOf(t)] = Cardinality(DOMAIN fs[CHOOSE x \in t : TRUE].data[d])
  <2>1. OneOf(t) \in t
    BY <1>3 DEF OneOf
  <2>2. n[OneOf(t)] = Cardinality(DOMAIN fs[OneOf(t)].data[d])
    BY <2>1
  <2> QED
    BY <2>2 DEF OneOf
<1>4. \A k : IsSumTable(k, n, S) <=> Adds(k)
  <2>1. SUFFICES ASSUME NEW k
        PROVE  [t \in SUBSET S |-> SumStep(n, k, t)]
               = [t \in SUBSET S |->
                    IF t = {} THEN 0 ELSE Cardinality(DOMAIN fs[CHOOSE x \in t : TRUE].data[d])
                                            + k[t \ {CHOOSE x \in t : TRUE}]]
    BY DEF IsSumTable
  <2>2. ASSUME NEW t \in SUBSET S
        PROVE  SumStep(n, k, t)
                 = IF t = {} THEN 0 ELSE Cardinality(DOMAIN fs[CHOOSE x \in t : TRUE].data[d])
                                           + k[t \ {CHOOSE x \in t : TRUE}]
    <3> HIDE DEF n
    <3> QED
      BY <1>3 DEF SumStep, OneOf
  <2> HIDE DEF n
  <2> QED
    BY <2>2
<1>5. IsSumTable(c, n, S)
  <2> HIDE DEF n, Adds
  <2>1. \E h : Adds(h)
    BY <1>2, <1>4
  <2>2. Adds(c)
    BY <2>1
  <2> QED
    BY <1>4, <2>2
<1> HIDE DEF c, Adds
<1>6. g[{}] = 0
  <2>1. StoredInAll({}, d) = {}
    BY DEF StoredInAll
  <2> QED
    BY <2>1, FS_EmptySet
<1>7. ASSUME NEW t \in SUBSET S, NEW f \in t PROVE g[t] = n[f] + g[t \ {f}]
  <2>1. IsFiniteSet(t)
    BY FS_Subset
  <2>2. Cardinality(StoredInAll(t, d))
          = Cardinality(DOMAIN fs[f].data[d]) + Cardinality(StoredInAll(t \ {f}, d))
    BY <2>1, FileAdds DEF AllDiffer
  <2> QED
    BY <2>2
<1> HIDE DEF g, n
<1>8. c[S] = g[S]
  <2>1. \A t \in SUBSET S : \A f \in t : g[t] = n[f] + g[t \ {f}]
    BY <1>7
  <2> QED
    BY <1>5, <1>6, <2>1, SumIs
<1> QED
  BY <1>1, <1>8 DEF g

LEMMA Triples ==
  ASSUME NEW a, NEW q, NEW r, NEW i, NEW j, <<a, q, i>> = <<a, r, j>>
  PROVE  q = r /\ i = j
OBVIOUS

\* What a snapshot holds that has received its neutrinos.
LEMMA ReceivedIs ==
  ASSUME cfg \in Configs, NEW r \in Rank, Received(r), NEW d \in NeutrinoNames
  PROVE  /\ d \in DOMAIN fs[SnapOf(r)].data
         /\ DOMAIN fs[SnapOf(r)].data[d] = 0 .. cfg.nu[r] - 1 /\ cfg.nu[r] \in Nat
         /\ \A i \in 0 .. cfg.nu[r] - 1 : fs[SnapOf(r)].data[d][i] = <<Neutrino, r, i>>
         /\ \A e \in InFile(SnapOf(r), Neutrino) : fs[SnapOf(r)].data[e] = fs[SnapOf(r)].data[d]
<1>1. Len(Cube(r)) = cfg.nu[r] /\ cfg.nu[r] \in Nat
  BY CubeIs
<1>2. PICK row : row = [i \in 0 .. cfg.nu[r] - 1 |-> Cube(r)[i + 1]]
  OBVIOUS
<1>3. \A e \in NeutrinoNames : NeutrinosOf(r).data[e] = row
  BY <1>1, <1>2, NeutrinoFileIs
<1>4. \A e \in NeutrinoNames : fs[SnapOf(r)].data[e] = row
  BY <1>3 DEF Received
<1>5. DOMAIN row = 0 .. cfg.nu[r] - 1
  BY <1>2
<1>6. ASSUME NEW i \in 0 .. cfg.nu[r] - 1 PROVE row[i] = <<Neutrino, r, i>>
  <2>1. i + 1 \in 1 .. cfg.nu[r] /\ (i + 1) - 1 = i
    BY <1>1
  <2>2. Cube(r)[i + 1] = <<Neutrino, r, (i + 1) - 1>>
    BY <2>1 DEF Cube
  <2> QED
    BY <1>2, <2>1, <2>2
<1>7. InFile(SnapOf(r), Neutrino) = NeutrinoNames
  BY DEF InFile, Received
<1>8. d \in DOMAIN fs[SnapOf(r)].data
  BY DEF Received
<1> QED
  BY <1>1, <1>4, <1>5, <1>6, <1>7, <1>8

\* The snapshots of all ranks hold all the neutrinos.
LEMMA ReceivedByAll ==
  ASSUME cfg \in Configs, Matching, \A r \in Rank : Received(r)
  PROVE  Holds(Neutrino, {"Coordinates", "ParticleIDs"})
<1>0. Merges
  BY DEF Matching
<1>1. \A r \in Rank : this_fname(r) = SnapOf(r)
  BY <1>0, MergeFiles
<1>2. SnapshotFile = {SnapOf(r) : r \in Rank}
  BY <1>1 DEF SnapshotFile
<1>3. \A q, r \in Rank : SnapOf(q) = SnapOf(r) => q = r
  BY <1>0, MergeFiles
<1>4. \A d \in {"Coordinates", "ParticleIDs"} :
        <<Group(Neutrino), d>> \in NeutrinoNames
  BY DEF NeutrinoNames, Dataset
<1>5. ASSUME NEW f \in SnapshotFile, NEW d \in {"Coordinates", "ParticleIDs"}
      PROVE  /\ <<Group(Neutrino), d>> \in DOMAIN fs[f].data
             /\ \A e \in InFile(f, Neutrino) : fs[f].data[e] = fs[f].data[<<Group(Neutrino), d>>]
  <2>1. PICK r \in Rank : f = SnapOf(r)
    BY <1>2
  <2>2. PICK x : x = <<Group(Neutrino), d>>
    OBVIOUS
  <2>3. x \in NeutrinoNames /\ Received(r)
    BY <1>4, <2>2
  <2>4. /\ x \in DOMAIN fs[SnapOf(r)].data
        /\ \A e \in InFile(SnapOf(r), Neutrino) : fs[SnapOf(r)].data[e] = fs[SnapOf(r)].data[x]
    BY <2>3, ReceivedIs
  <2> QED
    BY <2>1, <2>2, <2>4
<1>6. IsFiniteSet(SnapshotFile)
  <2>1. IsFiniteSet(Rank)
    BY ConfigFacts, FS_Interval
  <2>2. PICK k : k = [r \in Rank |-> SnapOf(r)]
    OBVIOUS
  <2>3. IsFiniteSet({k[r] : r \in Rank})
    BY <2>1, ImageFinite
  <2>4. SnapshotFile = {k[r] : r \in Rank}
    BY <1>2, <2>2
  <2> QED
    BY <2>3, <2>4
<1>7. ASSUME NEW x \in NeutrinoNames
      PROVE  /\ StoredInAll(SnapshotFile, x) = Particles(Neutrino)
             /\ Entries(SnapshotFile, x) = Cardinality(Particles(Neutrino))
  <2>1. ASSUME NEW r \in Rank
        PROVE  /\ DOMAIN fs[SnapOf(r)].data[x] = 0 .. cfg.nu[r] - 1 /\ cfg.nu[r] \in Nat
               /\ \A i \in 0 .. cfg.nu[r] - 1 : fs[SnapOf(r)].data[x][i] = <<Neutrino, r, i>>
    <3>1. Received(r)
      OBVIOUS
    <3> QED
      BY <3>1, ReceivedIs
  <2>2. ASSUME NEW e \in SnapshotFile PROVE IsFiniteSet(DOMAIN fs[e].data[x])
    <3>1. PICK r \in Rank : e = SnapOf(r)
      BY <1>2
    <3>2. cfg.nu[r] \in Nat /\ DOMAIN fs[e].data[x] = 0 .. cfg.nu[r] - 1
      BY <2>1, <3>1
    <3> QED
      BY <3>2, FS_Interval
  <2>3. ASSUME NEW e \in SnapshotFile, NEW g \in SnapshotFile,
               NEW i \in DOMAIN fs[e].data[x], NEW j \in DOMAIN fs[g].data[x],
               fs[e].data[x][i] = fs[g].data[x][j]
        PROVE  e = g /\ i = j
    <3>1. PICK q \in Rank, r \in Rank : e = SnapOf(q) /\ g = SnapOf(r)
      BY <1>2
    <3>2. i \in 0 .. cfg.nu[q] - 1 /\ j \in 0 .. cfg.nu[r] - 1
      BY <2>1, <3>1
    <3>3. fs[e].data[x][i] = <<Neutrino, q, i>> /\ fs[g].data[x][j] = <<Neutrino, r, j>>
      BY <2>1, <3>1, <3>2
    <3>4. <<Neutrino, q, i>> = <<Neutrino, r, j>>
      BY <2>3, <3>3
    <3>5. q = r /\ i = j
      BY <3>4, Triples
    <3> QED
      BY <3>1, <3>5
  <2>4. Entries(SnapshotFile, x) = Cardinality(StoredInAll(SnapshotFile, x))
    BY <1>6, <2>2, <2>3, EntriesAre DEF AllDiffer
  <2>5. \A r \in Rank : StoredIn(SnapOf(r), x) = {<<Neutrino, r, i>> : i \in 0 .. cfg.nu[r] - 1}
    BY <2>1 DEF StoredIn
  <2>6. StoredInAll(SnapshotFile, x)
          = UNION {{<<Neutrino, r, i>> : i \in 0 .. cfg.nu[r] - 1} : r \in Rank}
    BY <1>2, <2>5 DEF StoredInAll
  <2>7. Particles(Neutrino) = UNION {{<<Neutrino, r, i>> : i \in 0 .. cfg.nu[r] - 1} : r \in Rank}
    BY DEF Particles, get_local_num_particles
  <2> QED
    BY <2>4, <2>6, <2>7
<1>8. ASSUME NEW d \in {"Coordinates", "ParticleIDs"}
      PROVE  /\ StoredInAll(SnapshotFile, <<Group(Neutrino), d>>) = Particles(Neutrino)
             /\ Entries(SnapshotFile, <<Group(Neutrino), d>>) = Cardinality(Particles(Neutrino))
  <2>1. PICK x : x = <<Group(Neutrino), d>>
    OBVIOUS
  <2>2. x \in NeutrinoNames
    BY <1>4, <2>1
  <2> QED
    BY <1>7, <2>1, <2>2
<1> QED
  BY <1>5, <1>8 DEF Holds, StoredInAll, StoredIn, Entries

LEMMA NeutrinosHeld == NeutrinoInv => LostNeutrinosAreReported
<1> SUFFICES ASSUME NeutrinoInv, Success, cfg.neutrinos
             PROVE  Holds(Neutrino, {"Coordinates", "ParticleIDs"})
  BY DEF LostNeutrinosAreReported
<1>1. cfg \in Configs /\ OnTheWay /\ 0 \in Rank
  BY ConfigFacts DEF NeutrinoInv, Success
<1>2. \A r \in Rank : code[r] = <<>>
  BY DEF Success, Finished
<1>3. Matching
  <2>1. ~Stuck
    BY <1>1, <1>2, StuckGoesOn
  <2> QED
    BY <1>1, <2>1 DEF OnTheWay
<1>4. ASSUME NEW r \in Rank PROVE Received(r)
  <2>1. InMerge(r) /\ code[r] = <<>>
    BY <1>1, <1>2, <1>3 DEF OnTheWay
  <2>2. ASSUME NEW p, PlacedList(r, p), Sending(r, p) PROVE FALSE
    <3>1. PICK a : PlacedList(r, a) /\ code[r] = a \o ToPut(r, p)
      BY <2>2 DEF Sending
    <3>2. PICK c : c = ToPut(r, p)
      OBVIOUS
    <3>3. IsList(a) /\ IsList(c) /\ c # <<>>
      BY <2>2, <3>1, <3>2, MergeLists DEF PlacedList
    <3>4. Len(a \o c) = Len(a) + Len(c)
      BY <3>3, Joined
    <3>5. Len(a) \in Nat /\ Len(c) \in Nat \ {0}
      <4>1. Len(c) > 0
        BY <3>3, HeadAndTail
      <4> QED
        BY <3>3, <4>1, ListFacts
    <3>6. Len(code[r]) = 0
      BY <2>1, NoList
    <3> QED
      BY <3>1, <3>2, <3>4, <3>5, <3>6
  <2>3. ASSUME NEW p, PlacedList(r, p), Opening(r, p) \/ Receiving(r, p) PROVE FALSE
    BY <2>1, <2>3, MergeLists DEF Opening, Receiving, PlacedList
  <2> QED
    BY <2>1, <2>2, <2>3 DEF InMerge, Ending
<1> QED
  BY <1>1, <1>3, <1>4, ReceivedByAll

\* A run with neutrinos that ends well has them all: every neutrino of every
\* rank is in the snapshot, once, in every dataset, for every number of ranks
\* and every share of the neutrinos.  Formats that cannot take neutrinos end
\* with an exception, and so do those whose files on several ranks are not
\* where the merge looks for them (AREPO and SWIFT); the other ranks then wait
\* for rank 0 until they are terminated.  A merge that fails on some rank ends
\* that rank.  In between no rank touches the temporary file or the snapshot
\* of another, and nothing writes the data of the neutrinos a second time.
THEOREM LostNeutrinosEndTheRun == Spec => []LostNeutrinosAreReported
<1>1. Init => NeutrinoInv
  BY NeutrinoInit
<1>2. NeutrinoInv /\ [Next]_vars => NeutrinoInv'
  <2>1. NeutrinoInv /\ UNCHANGED vars => NeutrinoInv'
    BY NeutrinoStutters DEF vars
  <2> QED
    BY <2>1, NeutrinoStep
<1>3. NeutrinoInv => LostNeutrinosAreReported
  BY NeutrinosHeld
<1> QED
  BY <1>1, <1>2, <1>3, PTL DEF Spec
=============================================================================
