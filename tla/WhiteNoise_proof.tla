--------------------------- MODULE WhiteNoise_proof ---------------------------
(***************************************************************************)
(* Proofs about WhiteNoise for any configurations: no mode is ever the sum *)
(* of two numbers, FastDF is given the modes of the dark matter, and the   *)
(* noise of a wave vector does not depend on how it was computed.          *)
(***************************************************************************)
EXTENDS WhiteNoise, Counting

-----------------------------------------------------------------------------
(***************************************************************************)
(* Configurations and slabs.                                               *)
(***************************************************************************)
LEMMA ConfigFacts ==
  ASSUME cfg \in Configs
  PROVE  /\ cfg.generator \in {"NGENIC", "MUSIC1", "PANPHASIA", "PANPHASIA_HO"}
         /\ cfg.mpi \in BOOLEAN /\ cfg.ranks \in Nat \ {0} /\ cfg.n \in Nat \ {0}
         /\ cfg.seeds \subseteq Nat /\ cfg.cubesize \in Nat \ {0} /\ cfg.base \in Nat \ {0}
         /\ cfg.least \in Nat /\ cfg.constraint \in Nat /\ cfg.small \in Nat \cup {-1}
         /\ cfg.n % 2 = 0 /\ cfg.n <= MaxRes
         /\ cfg.constraint % 2 = 0 /\ cfg.constraint <= 2 * cfg.n
         /\ cfg.small = -1 \/ cfg.small % 2 = 0
BY ConfigsAssumption DEF Config

LEMMA Half ==
  ASSUME NEW m \in Nat, m % 2 = 0
  PROVE  m \div 2 \in Nat /\ m = 2 * (m \div 2)
OBVIOUS

LEMMA BlockFacts ==
  ASSUME cfg \in Configs, NEW n \in Nat \ {0}
  PROVE  Block(n) \in Nat \ {0} /\ n <= cfg.ranks * Block(n)
<1> DEFINE r == cfg.ranks
           b == (n + r - 1) \div r
<1>1. r \in Nat \ {0}
  BY ConfigFacts
<1> HIDE DEF r
<1>2. n + r - 1 \in Nat
  BY <1>1
<1>3. b \in Nat /\ n + r - 1 < r * b + r
  BY <1>1, <1>2
<1>4. r * b \in Nat
  BY <1>1, <1>3
<1>5. n <= r * b
  BY <1>1, <1>3, <1>4
<1>6. b # 0
  BY <1>1, <1>5
<1>7. Block(n) = b
  BY DEF Block, r
<1> QED
  BY <1>3, <1>5, <1>6, <1>7 DEF r

\* Every plane is in the slab of one rank.
LEMMA OwnerExists ==
  ASSUME cfg \in Configs, NEW n \in Nat \ {0}, NEW p \in 0 .. n - 1
  PROVE  \E s \in Ranks : p \in Own(s, n)
<1> DEFINE b == Block(n)
           r == cfg.ranks
           s == p \div b
           k == p % b
<1>1. b \in Nat \ {0} /\ n <= r * b /\ r \in Nat \ {0}
  BY BlockFacts, ConfigFacts
<1> HIDE DEF b, r
<1>2. s \in Int /\ k \in 0 .. b - 1 /\ s * b \in Int /\ p = s * b + k
  BY <1>1, DivMod
<1>3. s \in Ranks
  <2> HIDE DEF s, k
  <2>1. s >= 0
    <3>1. SUFFICES ASSUME s + 1 <= 0 PROVE FALSE
      BY <1>2
    <3>2. (s + 1) * b <= 0 * b
      BY <1>1, <1>2, <3>1, TimesMonotone
    <3> QED
      BY <1>1, <1>2, <3>2, TimesNext
  <2>2. s < r
    <3>1. SUFFICES ASSUME r <= s PROVE FALSE
      BY <1>1, <1>2
    <3>2. r * b <= s * b /\ r * b \in Int
      BY <1>1, <1>2, <3>1, TimesMonotone
    <3> QED
      BY <1>1, <1>2, <3>2
  <2> QED
    BY <1>1, <1>2, <2>1, <2>2 DEF Ranks, r
<1> QED
  BY <1>3 DEF Own, b

LEMMA OwnerUnique ==
  ASSUME NEW n, NEW p, NEW s, NEW t, p \in Own(s, n), p \in Own(t, n)
  PROVE  s = t
BY DEF Own

-----------------------------------------------------------------------------
(***************************************************************************)
(* Indices and wave numbers.                                               *)
(***************************************************************************)
LEMMA WaveFacts ==
  ASSUME NEW n \in Nat \ {0}, n % 2 = 0, NEW p \in 0 .. n - 1
  PROVE  /\ Wave(p, n) \in Int /\ -n < 2 * Wave(p, n) /\ 2 * Wave(p, n) <= n
         /\ (Wave(p, n) + n) % n = p
         /\ 2 * Wave(p, n) = n <=> p = n \div 2
<1>1. Wave(p, n) \in Int /\ -n < 2 * Wave(p, n) /\ 2 * Wave(p, n) <= n
  BY DEF Wave
<1>2. (Wave(p, n) + n) % n = p
  <2> DEFINE z == Wave(p, n) + n
  <2>1. z \in Int /\ (z = 0 * n + p \/ z = 1 * n + p)
    BY <1>1 DEF Wave
  <2> HIDE DEF z
  <2>2. z % n = p
    BY <2>1, ModIs
  <2> QED
    BY <2>2 DEF z
<1>3. 2 * Wave(p, n) = n <=> p = n \div 2
  BY DEF Wave
<1> QED
  BY <1>1, <1>2, <1>3

\* The index of a wave number.
LEMMA IndexOf ==
  ASSUME NEW n \in Nat \ {0}, NEW w \in Int, w < n, -n < w
  PROVE  (w + n) % n = IF w < 0 THEN w + n ELSE w
<1>1. CASE w < 0
  <2>1. w + n = 0 * n + (w + n) /\ w + n \in 0 .. n - 1
    BY <1>1
  <2>2. (w + n) % n = w + n
    BY <2>1, ModIs
  <2> QED
    BY <1>1, <2>2
<1>2. CASE w >= 0
  <2>1. w + n = 1 * n + w /\ w \in 0 .. n - 1
    BY <1>2
  <2>2. (w + n) % n = w
    BY <2>1, ModIs
  <2> QED
    BY <1>2, <2>2
<1> QED
  BY <1>1, <1>2

\* A wave number the grid resolves is that of one index.
LEMMA WaveOf ==
  ASSUME NEW n \in Nat \ {0}, n % 2 = 0, NEW w \in Int, 2 * w < n, -n < 2 * w
  PROVE  (w + n) % n \in 0 .. n - 1 /\ Wave((w + n) % n, n) = w
<1>1. w < n /\ -n < w /\ n \in Nat
  OBVIOUS
<1>2. (w + n) % n = IF w < 0 THEN w + n ELSE w
  BY <1>1, IndexOf
<1> QED
  BY <1>1, <1>2 DEF Wave

\* The sizes the program pairs the modes of.
Pairable(m, n) == m <= 2 * n /\ n < SizeRange

\* The unsigned index of such a pair is that of the integers.
LEMMA PairedUnsigned ==
  ASSUME NEW m \in Nat \ {0}, m % 2 = 0, NEW n \in Nat \ {0}, n % 2 = 0, Pairable(m, n),
         NEW i \in 0 .. m - 1
  PROVE  Paired(i, m, n) = IF i < m \div 2 THEN (IF i < n \div 2 THEN i ELSE -1)
                           ELSE IF i + n - m >= n \div 2 THEN i + n - m ELSE -1
<1> DEFINE x == i + n - m
<1>1. n < SizeRange /\ SizeRange \in Nat \ {0} /\ m <= 2 * n
  BY SizeRangeAssumption DEF Pairable
<1>2. CASE i < m \div 2
  BY <1>2 DEF Paired
<1>3. CASE i >= m \div 2
  <2>1. x \in 0 .. SizeRange - 1 /\ x = 0 * SizeRange + x /\ n - m + i = x
    BY <1>1, <1>3
  <2> HIDE DEF x
  <2>2. x % SizeRange = x
    BY <1>1, <2>1, ModIs
  <2>3. SizeT(x) = x
    BY <2>2 DEF SizeT
  <2>4. SizeT(i + n - m) = i + n - m /\ SizeT(n - m + i) = i + n - m
    BY <2>1, <2>3 DEF x
  <2> QED
    BY <1>3, <2>4 DEF Paired
<1> QED
  BY <1>2, <1>3

\* The noise with a constraint field, and the grid of the neutrinos.
LEMMA ConfigsPairable ==
  ASSUME cfg \in Configs
  PROVE  Pairable(cfg.constraint, cfg.n) /\ (cfg.small <= cfg.n => Pairable(cfg.small, cfg.n))
<1>1. /\ cfg.n \in Nat /\ cfg.n <= MaxRes /\ MaxRes \in Nat /\ cfg.constraint <= 2 * cfg.n
      /\ cfg.small \in Int
  BY ConfigFacts, MaxResAssumption
<1> QED
  BY <1>1, SizeRangeAssumption DEF Pairable

\* Different indices of one grid are not paired with one index of another,
\* and where there is a partner it has the wave number of the index, unless
\* that is the Nyquist frequency of one of the grids.
LEMMA PairedIs ==
  ASSUME NEW m \in Nat \ {0}, m % 2 = 0, NEW n \in Nat \ {0}, n % 2 = 0, Pairable(m, n),
         NEW i \in 0 .. m - 1, Paired(i, m, n) # -1
  PROVE  /\ Paired(i, m, n) \in 0 .. n - 1
         /\ i = IF Paired(i, m, n) < n \div 2 THEN Paired(i, m, n) ELSE Paired(i, m, n) + m - n
         /\ 2 * Wave(i, m) \in {m, -m, n, -n} \/ Wave(Paired(i, m, n), n) = Wave(i, m)
         /\ \/ -m <= 2 * Wave(Paired(i, m, n), n) /\ 2 * Wave(Paired(i, m, n), n) <= m
            \/ 2 * Wave(Paired(i, m, n), n) = n
BY PairedUnsigned DEF Wave

\* An index of the other grid has a partner if both grids resolve its wave
\* number.
LEMMA PartnerExists ==
  ASSUME NEW m \in Nat \ {0}, m % 2 = 0, NEW n \in Nat \ {0}, n % 2 = 0, Pairable(m, n),
         NEW w \in Int, 2 * w < m, -m < 2 * w, 2 * w < n, -n < 2 * w
  PROVE  Paired((w + m) % m, m, n) = (w + n) % n
<1>1. w < m /\ -m < w /\ w < n /\ -n < w
  OBVIOUS
<1>2. (w + m) % m = IF w < 0 THEN w + m ELSE w
  BY <1>1, IndexOf
<1>3. (w + n) % n = IF w < 0 THEN w + n ELSE w
  BY <1>1, IndexOf
<1>4. (w + m) % m \in 0 .. m - 1
  BY <1>1, <1>2
<1> QED
  BY <1>1, <1>2, <1>3, <1>4, PairedUnsigned

-----------------------------------------------------------------------------
(***************************************************************************)
(* Cells.                                                                  *)
(***************************************************************************)
LEMMA CellFacts ==
  ASSUME NEW m \in Nat, NEW c \in Cells(m)
  PROVE  /\ c = <<c[1], c[2], c[3]>>
         /\ c[1] \in 0 .. m - 1 /\ c[2] \in 0 .. m - 1 /\ c[3] \in 0 .. m \div 2
         /\ Untransposed(c) \in Cells(m) /\ Untransposed(Untransposed(c)) = c
         /\ WaveVector(Untransposed(c), m, FALSE) = WaveVector(c, m, cfg.mpi)
BY DEF Cells, Untransposed, WaveVector

\* Two cells are not copied to one.
LEMMA PairedCellInjective ==
  ASSUME NEW m \in Nat \ {0}, m % 2 = 0, NEW n \in Nat \ {0}, n % 2 = 0, Pairable(m, n), NEW s, NEW t,
         NEW x \in PairedCells(s, m, n), NEW y \in PairedCells(t, m, n),
         PairedCell(x, m, n) = PairedCell(y, m, n)
  PROVE  x = y /\ s = t
<1>1. /\ x = <<x[1], x[2], x[3]>> /\ y = <<y[1], y[2], y[3]>>
      /\ x[1] \in 0 .. m - 1 /\ x[2] \in 0 .. m - 1
      /\ y[1] \in 0 .. m - 1 /\ y[2] \in 0 .. m - 1
  BY CellFacts DEF PairedCells
<1>2. /\ Paired(x[1], m, n) = Paired(y[1], m, n) /\ Paired(x[2], m, n) = Paired(y[2], m, n)
      /\ x[3] = y[3]
  BY DEF PairedCell
<1>3. /\ Paired(x[1], m, n) \in Own(s, n) /\ Paired(y[1], m, n) \in Own(t, n)
      /\ Paired(x[2], m, n) # -1 /\ Paired(y[2], m, n) # -1
  BY DEF PairedCells
<1>4. Paired(x[1], m, n) # -1 /\ Paired(y[1], m, n) # -1
  BY <1>3 DEF Own
<1>5. x[1] = y[1] /\ x[2] = y[2]
  BY <1>1, <1>2, <1>3, <1>4, PairedIs
<1> QED
  BY <1>1, <1>2, <1>3, <1>5, OwnerUnique

\* The cells that come from elsewhere lie in the slab of the rank that
\* copies them.
LEMMA PairedCellOwned ==
  ASSUME NEW m \in Nat \ {0}, m % 2 = 0, NEW n \in Nat \ {0}, n % 2 = 0, Pairable(m, n), NEW s,
         NEW x \in PairedCells(s, m, n)
  PROVE  /\ PairedCell(x, m, n) \in Cells(n) /\ PairedCell(x, m, n)[1] \in Own(s, n)
         /\ x \in Cells(m)
<1>1. /\ x \in Cells(m) /\ Paired(x[1], m, n) \in Own(s, n) /\ Paired(x[2], m, n) # -1
      /\ x[3] <= n \div 2
  BY DEF PairedCells
<1>2. x[1] \in 0 .. m - 1 /\ x[2] \in 0 .. m - 1 /\ x[3] \in 0 .. m \div 2
  BY <1>1, CellFacts
<1>3. Paired(x[1], m, n) \in 0 .. n - 1
  BY <1>1 DEF Own
<1>4. Paired(x[2], m, n) \in 0 .. n - 1
  BY <1>1, <1>2, PairedIs
<1> QED
  BY <1>1, <1>2, <1>3, <1>4 DEF PairedCell, Cells

-----------------------------------------------------------------------------
(***************************************************************************)
(* A cell never holds the sum of two numbers.                              *)
(***************************************************************************)
IsRaw(x) == \E source, w, conj, shift : x = Number(source, w, conj, shift)
Lone(S) == S = {} \/ \E x : IsRaw(x) /\ S = {x}

\* The assignments of NGENIC to one cell: itself, or the mirror image.
NgenicDrawn(c) ==
  IF cfg.n \div 2 \in {c[1], c[2], c[3]} \/ c = <<0, 0, 0>> THEN {}
  ELSE IF c[3] > 0 \/ IsDrawn(c[1], c[2])
  THEN {Number("NGENIC", <<SeedOf(c[1], c[2]), c[3]>>, FALSE, 0)}
  ELSE {Number("NGENIC", <<SeedOf(Mirror(c[1]), Mirror(c[2])), 0>>, TRUE, 0)}

LEMMA MirrorFacts ==
  ASSUME cfg \in Configs, NEW p \in 0 .. cfg.n - 1
  PROVE  /\ Mirror(p) \in 0 .. cfg.n - 1 /\ Mirror(Mirror(p)) = p
         /\ Mirror(p) = 0 <=> p = 0
         /\ Mirror(p) = cfg.n \div 2 <=> p = cfg.n \div 2
         /\ p # cfg.n \div 2 => Wave(Mirror(p), cfg.n) = -Wave(p, cfg.n)
<1> DEFINE n == cfg.n
<1>1. n \in Nat \ {0} /\ n % 2 = 0
  BY ConfigFacts
<1> QED
  BY <1>1 DEF Mirror, Wave

\* Of a column and its mirror image one is drawn.
LEMMA DrawnOnce ==
  ASSUME cfg \in Configs, NEW i \in 0 .. cfg.n - 1, NEW j \in 0 .. cfg.n - 1,
         cfg.n \div 2 \notin {i, j}, <<i, j>> # <<0, 0>>
  PROVE  IsDrawn(Mirror(i), Mirror(j)) <=> ~IsDrawn(i, j)
<1> DEFINE n == cfg.n
<1>1. n \in Nat \ {0} /\ n % 2 = 0
  BY ConfigFacts
<1> QED
  BY <1>1 DEF Mirror, IsDrawn

LEMMA NgenicCell ==
  ASSUME cfg \in Configs, NEW s, NEW c \in Cells(cfg.n), c[1] \in Own(s, cfg.n)
  PROVE  {x.z : x \in {y \in NgenicWrites(s) : y.at = c}} = NgenicDrawn(c)
<1> DEFINE n == cfg.n
           half == n \div 2
           own == Own(s, n)
           kept == {k \in Cells(n) : half \notin {k[1], k[2], k[3]} /\ k # <<0, 0, 0>>}
           z(k, conj) == Number("NGENIC", <<SeedOf(k[1], k[2]), k[3]>>, conj, 0)
           direct == {k \in kept : k[1] \in own /\ (k[3] > 0 \/ IsDrawn(k[1], k[2]))}
           across == {k \in kept : Mirror(k[1]) \in own /\ k[3] = 0 /\ IsDrawn(k[1], k[2])}
           image(k) == <<Mirror(k[1]), Mirror(k[2]), 0>>
           d == image(c)
           here == {x.z : x \in {y \in NgenicWrites(s) : y.at = c}}
<1>0. n \in Nat \ {0}
  BY ConfigFacts
<1>1. here = {z(k, FALSE) : k \in {l \in direct : l = c}}
             \cup {z(k, TRUE) : k \in {l \in across : image(l) = c}}
  <2>1. NgenicWrites(s) = {[at |-> k, z |-> z(k, FALSE)] : k \in direct}
                          \cup {[at |-> image(k), z |-> z(k, TRUE)] : k \in across}
    BY DEF NgenicWrites
  <2> DEFINE R1 == {z(k, FALSE) : k \in {l \in direct : l = c}}
             R2 == {z(k, TRUE) : k \in {l \in across : image(l) = c}}
             E1(k) == [at |-> k, z |-> z(k, FALSE)]
             E2(k) == [at |-> image(k), z |-> z(k, TRUE)]
  <2>2. \A v \in here : v \in R1 \cup R2
    <3> HIDE DEF direct, across, image, z
    <3>1. SUFFICES ASSUME NEW x \in NgenicWrites(s), x.at = c PROVE x.z \in R1 \cup R2
      OBVIOUS
    <3>2. CASE \E k \in direct : x = E1(k)
      <4>1. PICK k \in direct : x = E1(k)
        BY <3>2
      <4>2. x.at = k /\ x.z = z(k, FALSE)
        BY <4>1
      <4> QED
        BY <3>1, <4>2
    <3>3. CASE \E k \in across : x = E2(k)
      <4>1. PICK k \in across : x = E2(k)
        BY <3>3
      <4>2. x.at = image(k) /\ x.z = z(k, TRUE)
        BY <4>1
      <4> QED
        BY <3>1, <4>2
    <3> QED
      BY <2>1, <3>2, <3>3
  <2>3. \A v \in R1 : v \in here
    <3> HIDE DEF direct, across, image, z
    <3>1. SUFFICES ASSUME c \in direct PROVE z(c, FALSE) \in here
      OBVIOUS
    <3>2. E1(c).at = c /\ E1(c).z = z(c, FALSE) /\ E1(c) \in NgenicWrites(s)
      BY <2>1, <3>1
    <3> HIDE DEF E1
    <3> QED
      BY <3>2
  <2>4. \A v \in R2 : v \in here
    <3> HIDE DEF direct, across, image, z
    <3>1. SUFFICES ASSUME NEW k \in across, image(k) = c PROVE z(k, TRUE) \in here
      OBVIOUS
    <3>2. E2(k).at = c /\ E2(k).z = z(k, TRUE) /\ E2(k) \in NgenicWrites(s)
      BY <2>1, <3>1
    <3> HIDE DEF E2
    <3> QED
      BY <3>2
  <2> HIDE DEF R1, R2, here
  <2>5. here = R1 \cup R2
    BY <2>2, <2>3, <2>4
  <2> QED
    BY <2>5 DEF R1, R2
<1> SUFFICES here = NgenicDrawn(c)
  OBVIOUS
<1> HIDE DEF here
<1>2. {l \in direct : l = c} = IF c \in direct THEN {c} ELSE {}
  OBVIOUS
<1>3. /\ c = <<c[1], c[2], c[3]>>
      /\ c[1] \in 0 .. n - 1 /\ c[2] \in 0 .. n - 1 /\ c[3] \in 0 .. n \div 2
  BY <1>0, CellFacts
<1>4. \A k \in across : image(k) = c => k = d
  <2>1. SUFFICES ASSUME NEW k \in across, image(k) = c PROVE k = d
    OBVIOUS
  <2>2. k = <<k[1], k[2], k[3]>> /\ k[1] \in 0 .. n - 1 /\ k[2] \in 0 .. n - 1 /\ k[3] = 0
    BY <1>0, CellFacts
  <2> QED
    BY <2>1, <2>2, MirrorFacts
<1>5. /\ d[1] \in 0 .. n - 1 /\ d[2] \in 0 .. n - 1 /\ d[1] = Mirror(c[1]) /\ d[2] = Mirror(c[2])
      /\ d[3] = 0 /\ d = <<d[1], d[2], 0>>
      /\ Mirror(d[1]) = c[1] /\ Mirror(d[2]) = c[2]
      /\ image(d) = <<c[1], c[2], 0>>
  BY <1>3, MirrorFacts
<1>6. d \in Cells(n)
  BY <1>0, <1>5 DEF Cells
<1>7. {l \in across : image(l) = c} = IF d \in across /\ c[3] = 0 THEN {d} ELSE {}
  BY <1>3, <1>4, <1>5
<1>8. CASE half \in {c[1], c[2], c[3]} \/ c = <<0, 0, 0>>
  <2>1. c \notin direct
    BY <1>8
  <2>2. c[3] = 0 => d \notin across
    <3>1. half # 0
      <4>1. n % 2 = 0
        BY ConfigFacts
      <4> QED
        BY <1>0, <4>1
    <3>2. SUFFICES ASSUME c[3] = 0 PROVE d \notin kept
      OBVIOUS
    <3>3. half \in {c[1], c[2]} \/ (c[1] = 0 /\ c[2] = 0)
      BY <1>8, <3>1, <3>2
    <3>4. half \in {d[1], d[2]} \/ (d[1] = 0 /\ d[2] = 0)
      BY <1>3, <1>5, <3>3, MirrorFacts
    <3> QED
      BY <1>5, <3>4
  <2>3. here = {}
    BY <1>1, <1>2, <1>7, <2>1, <2>2
  <2> QED
    BY <1>8, <2>3 DEF NgenicDrawn
<1>9. CASE ~(half \in {c[1], c[2], c[3]} \/ c = <<0, 0, 0>>)
  <2>1. c \in kept
    BY <1>9
  <2>2. CASE c[3] > 0
    <3>1. c \in direct /\ c[3] # 0
      BY <1>3, <2>1, <2>2
    <3>2. here = {z(c, FALSE)}
      <4> HIDE DEF direct, across, z
      <4> QED
        BY <1>1, <1>2, <1>7, <3>1
    <3> QED
      BY <1>9, <2>2, <3>2 DEF NgenicDrawn
  <2>3. CASE c[3] = 0 /\ IsDrawn(c[1], c[2])
    <3>1. <<c[1], c[2]>> # <<0, 0>>
      BY <1>3, <1>9, <2>3
    <3>2. ~IsDrawn(d[1], d[2])
      BY <1>3, <1>5, <1>9, <2>3, <3>1, DrawnOnce
    <3>3. here = {z(c, FALSE)}
      BY <1>1, <1>2, <1>7, <2>1, <2>3, <3>2
    <3> QED
      BY <1>9, <2>3, <3>3 DEF NgenicDrawn
  <2>4. CASE c[3] = 0 /\ ~IsDrawn(c[1], c[2])
    <3>1. <<c[1], c[2]>> # <<0, 0>>
      BY <1>3, <1>9, <2>4
    <3>2. IsDrawn(d[1], d[2])
      BY <1>3, <1>5, <1>9, <2>4, <3>1, DrawnOnce
    <3>3. d \in kept
      <4>1. half \notin {d[1], d[2]} /\ ~(d[1] = 0 /\ d[2] = 0)
        BY <1>3, <1>5, <1>9, <3>1, MirrorFacts
      <4>2. half # 0
        BY <1>9, <2>4
      <4> QED
        BY <1>5, <1>6, <4>1, <4>2
    <3>4. d \in across
      BY <1>5, <2>4, <3>2, <3>3
    <3>5. c \notin direct
      BY <2>4
    <3>6. here = {z(d, TRUE)}
      BY <1>1, <1>2, <1>7, <2>4, <3>4, <3>5
    <3>7. z(d, TRUE) = Number("NGENIC", <<SeedOf(Mirror(c[1]), Mirror(c[2])), 0>>, TRUE, 0)
      BY <1>5
    <3> QED
      BY <1>9, <2>4, <3>6, <3>7 DEF NgenicDrawn
  <2> QED
    BY <1>3, <2>2, <2>3, <2>4
<1> QED
  BY <1>8, <1>9

-----------------------------------------------------------------------------
(***************************************************************************)
(* The levels of MUSIC1: the tables of compute_random_numbers.             *)
(***************************************************************************)
IsUp(u, w, top) ==
  u = [l \in levelmin_seed .. top |->
         IF l = levelmin_seed THEN DrawnLevel(l, w) ELSE Refined(u[l - 1], l - 1, w)]
IsDown(u, w, bottom) ==
  u = [l \in bottom .. levelmin_seed |->
         IF l = levelmin_seed THEN DrawnLevel(l, w) ELSE Degraded(u[l + 1], l)]

LEMMA LevelFacts ==
  ASSUME cfg \in Configs, cfg.generator = "MUSIC1", ~MusicRefuses
  PROVE  /\ levelmin \in Levels /\ Side[levelmin] = cfg.n
         /\ levelmin_seed \in cfg.seeds /\ levelmin_seed \in Nat /\ levelmin \in Nat
         /\ \A m \in cfg.seeds : levelmin_seed <= m
<1>1. cfg.seeds \subseteq Nat /\ cfg.seeds # {} /\ \E l \in Levels : Side[l] = cfg.n
  BY ConfigFacts DEF MusicRefuses
<1>2. levelmin \in Levels /\ Side[levelmin] = cfg.n
  BY <1>1 DEF levelmin
<1>3. \E l \in cfg.seeds : \A m \in cfg.seeds : l <= m
  BY <1>1, LeastOf
<1>4. levelmin_seed \in cfg.seeds /\ \A m \in cfg.seeds : levelmin_seed <= m
  BY <1>3 DEF levelmin_seed
<1> QED
  BY <1>1, <1>2, <1>4, MaxResAssumption DEF Levels

LEMMA UpExists ==
  ASSUME NEW w, NEW top \in Nat, levelmin_seed \in Nat, levelmin_seed <= top
  PROVE  \E u : IsUp(u, w, top)
<1> DEFINE a == levelmin_seed
           U == {n \in a .. top : ~\E u : IsUp(u, w, n)}
<1>1. SUFFICES ASSUME U # {} PROVE FALSE
  OBVIOUS
<1>2. PICK n \in U : \A m \in U : n <= m
  <2>1. U \subseteq Nat
    OBVIOUS
  <2> HIDE DEF U
  <2> QED
    BY <1>1, <2>1, LeastOf
<1>3. n \in a .. top /\ ~\E u : IsUp(u, w, n)
  BY <1>2
<1>4. CASE n = a
  <2> DEFINE v == [l \in a .. n |-> DrawnLevel(l, w)]
  <2>1. IsUp(v, w, n)
    BY <1>4 DEF IsUp
  <2> QED
    BY <1>3, <2>1
<1>5. CASE n # a
  <2>1. n - 1 \in a .. top /\ n - 1 \notin U
    BY <1>2, <1>3, <1>5
  <2>2. PICK u : IsUp(u, w, n - 1)
    BY <2>1
  <2> DEFINE v == [l \in a .. n |-> IF l < n THEN u[l] ELSE Refined(u[n - 1], n - 1, w)]
  <2>3. \A l \in a .. n - 1 :
          u[l] = IF l = a THEN DrawnLevel(l, w) ELSE Refined(u[l - 1], l - 1, w)
    BY <2>2 DEF IsUp
  <2>4. \A l \in a .. n :
          v[l] = IF l = a THEN DrawnLevel(l, w) ELSE Refined(v[l - 1], l - 1, w)
    <3>1. SUFFICES ASSUME NEW l \in a .. n
                   PROVE  v[l] = IF l = a THEN DrawnLevel(l, w) ELSE Refined(v[l - 1], l - 1, w)
      OBVIOUS
    <3>2. l # a => v[l - 1] = u[l - 1]
      BY <1>3
    <3> QED
      BY <1>3, <1>5, <2>1, <2>3, <3>2
  <2>5. v = [l \in a .. n |-> v[l]]
    OBVIOUS
  <2> HIDE DEF v
  <2>6. IsUp(v, w, n)
    BY <2>4, <2>5 DEF IsUp
  <2> QED
    BY <1>3, <2>6
<1> QED
  BY <1>4, <1>5

LEMMA DownExists ==
  ASSUME NEW w, NEW bottom \in Nat, levelmin_seed \in Nat, bottom <= levelmin_seed
  PROVE  \E u : IsDown(u, w, bottom)
<1> DEFINE a == levelmin_seed
           U == {n \in 0 .. a - bottom : ~\E u : IsDown(u, w, a - n)}
<1>1. SUFFICES ASSUME U # {} PROVE FALSE
  <2>1. a - bottom \in 0 .. a - bottom /\ a - bottom \notin U
    OBVIOUS
  <2>2. \E u : IsDown(u, w, a - (a - bottom))
    BY <2>1
  <2>3. a - (a - bottom) = bottom
    OBVIOUS
  <2> QED
    BY <2>2, <2>3
<1>2. PICK n \in U : \A m \in U : n <= m
  <2>1. U \subseteq Nat
    OBVIOUS
  <2> HIDE DEF U
  <2> QED
    BY <1>1, <2>1, LeastOf
<1> DEFINE b == a - n
<1>3. n \in 0 .. a - bottom /\ ~\E u : IsDown(u, w, b)
  BY <1>2
<1>4. CASE n = 0
  <2> DEFINE v == [l \in b .. a |-> DrawnLevel(l, w)]
  <2>1. IsDown(v, w, b)
    BY <1>4 DEF IsDown
  <2> QED
    BY <1>3, <2>1
<1>5. CASE n # 0
  <2>1. n - 1 \in 0 .. a - bottom /\ n - 1 \notin U /\ a - (n - 1) = b + 1 /\ b \in Nat /\ b < a
    BY <1>2, <1>3, <1>5
  <2>2. PICK u : IsDown(u, w, b + 1)
    BY <2>1
  <2> DEFINE v == [l \in b .. a |-> IF l > b THEN u[l] ELSE Degraded(u[b + 1], b)]
  <2>3. \A l \in b + 1 .. a :
          u[l] = IF l = a THEN DrawnLevel(l, w) ELSE Degraded(u[l + 1], l)
    BY <2>2 DEF IsDown
  <2>4. \A l \in b .. a :
          v[l] = IF l = a THEN DrawnLevel(l, w) ELSE Degraded(v[l + 1], l)
    <3>1. SUFFICES ASSUME NEW l \in b .. a
                   PROVE  v[l] = IF l = a THEN DrawnLevel(l, w) ELSE Degraded(v[l + 1], l)
      OBVIOUS
    <3>2. l # a => v[l + 1] = u[l + 1]
      BY <2>1
    <3> QED
      BY <2>1, <2>3, <3>2
  <2>5. v = [l \in b .. a |-> v[l]]
    OBVIOUS
  <2> HIDE DEF v
  <2>6. IsDown(v, w, b)
    BY <2>4, <2>5 DEF IsDown
  <2> QED
    BY <1>3, <2>6
<1> QED
  BY <1>4, <1>5

\* The table the plugin builds, and what it returns of it.
LEMMA MusicModeIs ==
  ASSUME NEW w, levelmin_seed \in Nat, levelmin \in Nat
  PROVE  IF levelmin_seed <= levelmin
         THEN \E u : IsUp(u, w, levelmin) /\ MusicMode(w) = u[levelmin]
         ELSE \E u : IsDown(u, w, levelmin) /\ MusicMode(w) = u[levelmin]
<1>1. CASE levelmin_seed <= levelmin
  <2> DEFINE up == CHOOSE u : IsUp(u, w, levelmin)
  <2>1. IsUp(up, w, levelmin)
    BY <1>1, UpExists
  <2>2. MusicMode(w) = up[levelmin]
    BY <1>1 DEF MusicMode, IsUp
  <2> HIDE DEF up
  <2> QED
    BY <1>1, <2>1, <2>2
<1>2. CASE ~(levelmin_seed <= levelmin)
  <2> DEFINE down == CHOOSE u : IsDown(u, w, levelmin)
  <2>1. IsDown(down, w, levelmin)
    BY <1>2, DownExists
  <2>2. MusicMode(w) = down[levelmin]
    BY <1>2 DEF MusicMode, IsDown
  <2> HIDE DEF down
  <2> QED
    BY <1>2, <2>1, <2>2
<1> QED
  BY <1>1, <1>2

LEMMA DrawnIsRaw ==
  ASSUME NEW l, NEW w
  PROVE  IsRaw(DrawnLevel(l, w))
<1> DEFINE source == IF \E i, j \in 0 .. Side[l] - 1 : i # j /\ CubeCell(i, Side[l]) = CubeCell(j, Side[l])
                     THEN <<"repeated", l>> ELSE Cubes(l)
<1>1. DrawnLevel(l, w) = Number(source, w, FALSE, 0)
  BY DEF DrawnLevel
<1> HIDE DEF source
<1> QED
  BY <1>1 DEF IsRaw

Full(source, w, conj, shift, fixed, inverted, volfac) ==
  [source |-> source, w |-> w, conj |-> conj, shift |-> shift,
   fixed |-> fixed, inverted |-> inverted, volfac |-> volfac]

LEMMA NumberChanges ==
  ASSUME NEW source, NEW w, NEW conj, NEW shift, NEW by, NEW f, NEW i, NEW v
  PROVE  /\ Moved(Number(source, w, conj, shift), by) = Number(source, w, conj, shift + by)
         /\ Normalised(Number(source, w, conj, shift))
            = Full(source, w, conj, shift, cfg.fixing, cfg.inversion, cfg.n)
         /\ Rescaled(Full(source, w, conj, shift, f, i, v))
            = Full(source, w, conj, shift, f, i, cfg.small)
<1> DEFINE r == Number(source, w, conj, shift)
           t == Full(source, w, conj, shift, f, i, v)
           D == {"source", "w", "conj", "shift", "fixed", "inverted", "volfac"}
<1>1. DOMAIN r = D /\ DOMAIN t = D /\ r = [k \in D |-> r[k]] /\ t = [k \in D |-> t[k]]
  BY DEF Number, Full
<1>2. Moved(r, by) = Number(source, w, conj, shift + by)
  <2> DEFINE p == Number(source, w, conj, shift + by)
  <2>1. p = [k \in D |-> p[k]] /\ \A k \in D : p[k] = IF k = "shift" THEN r.shift + by ELSE r[k]
    BY DEF Number
  <2> HIDE DEF p, r
  <2>2. Moved(r, by) = [k \in D |-> IF k = "shift" THEN r.shift + by ELSE r[k]]
    BY <1>1 DEF Moved
  <2>3. p = Moved(r, by)
    BY <2>1, <2>2
  <2> QED
    BY <2>3 DEF p
<1>3. Normalised(r) = Full(source, w, conj, shift, cfg.fixing, cfg.inversion, cfg.n)
  <2> DEFINE p == Full(source, w, conj, shift, cfg.fixing, cfg.inversion, cfg.n)
             q(k) == CASE k = "fixed" -> cfg.fixing [] k = "inverted" -> cfg.inversion
                       [] k = "volfac" -> cfg.n [] OTHER -> r[k]
  <2>1. p = [k \in D |-> p[k]] /\ \A k \in D : p[k] = q(k)
    BY DEF Number, Full
  <2> HIDE DEF p, r
  <2>2. Normalised(r) = [k \in D |-> q(k)]
    BY <1>1 DEF Normalised
  <2>3. p = Normalised(r)
    BY <2>1, <2>2
  <2> QED
    BY <2>3 DEF p
<1>4. Rescaled(t) = Full(source, w, conj, shift, f, i, cfg.small)
  <2> DEFINE p == Full(source, w, conj, shift, f, i, cfg.small)
  <2>1. p = [k \in D |-> p[k]] /\ \A k \in D : p[k] = IF k = "volfac" THEN cfg.small ELSE t[k]
    BY DEF Full
  <2> HIDE DEF p, t
  <2>2. Rescaled(t) = [k \in D |-> IF k = "volfac" THEN cfg.small ELSE t[k]]
    BY <1>1 DEF Rescaled
  <2>3. p = Rescaled(t)
    BY <2>1, <2>2
  <2> QED
    BY <2>3 DEF p
<1> QED
  BY <1>2, <1>3, <1>4

LEMMA MovedNumber ==
  ASSUME NEW source, NEW w, NEW conj, NEW shift, NEW by
  PROVE  Moved(Number(source, w, conj, shift), by) = Number(source, w, conj, shift + by)
BY NumberChanges

LEMMA MovedIsRaw ==
  ASSUME NEW x, IsRaw(x), NEW by
  PROVE  IsRaw(Moved(x, by))
<1>1. PICK source, w, conj, shift : x = Number(source, w, conj, shift)
  BY DEF IsRaw
<1>2. Moved(x, by) = Number(source, w, conj, shift + by)
  BY <1>1, NumberChanges
<1> QED
  BY <1>2 DEF IsRaw

LEMMA MusicIsRaw ==
  ASSUME cfg \in Configs, cfg.generator = "MUSIC1", ~MusicRefuses, NEW w
  PROVE  IsRaw(MusicMode(w))
<1> DEFINE a == levelmin_seed
           z == levelmin
<1>1. a \in Nat /\ z \in Nat
  BY LevelFacts
<1>2. CASE a <= z
  <2>1. PICK u : IsUp(u, w, z) /\ MusicMode(w) = u[z]
    BY <1>1, <1>2, MusicModeIs
  <2>2. \A l \in a .. z : u[l] = IF l = a THEN DrawnLevel(l, w) ELSE Refined(u[l - 1], l - 1, w)
    BY <2>1 DEF IsUp
  <2> DEFINE U == {l \in a .. z : ~IsRaw(u[l])}
  <2>3. SUFFICES ASSUME U # {} PROVE FALSE
    BY <1>1, <1>2, <2>1
  <2>4. PICK l \in U : \A m \in U : l <= m
    <3>1. U \subseteq Nat
      BY <1>1
    <3> HIDE DEF U
    <3> QED
      BY <2>3, <3>1, LeastOf
  <2>5. l # a => l - 1 \in a .. z /\ IsRaw(u[l - 1])
    BY <1>1, <2>4
  <2>6. IsRaw(u[l])
    BY <2>2, <2>4, <2>5, DrawnIsRaw, MovedIsRaw DEF Refined
  <2> QED
    BY <2>4, <2>6
<1>3. CASE ~(a <= z)
  <2>1. PICK u : IsDown(u, w, z) /\ MusicMode(w) = u[z]
    BY <1>1, <1>3, MusicModeIs
  <2>2. \A l \in z .. a : u[l] = IF l = a THEN DrawnLevel(l, w) ELSE Degraded(u[l + 1], l)
    BY <2>1 DEF IsDown
  <2> DEFINE U == {n \in 0 .. a - z : ~IsRaw(u[a - n])}
  <2>3. SUFFICES ASSUME U # {} PROVE FALSE
    <3>1. a - z \in 0 .. a - z /\ a - z \notin U /\ a - (a - z) = z
      BY <1>1, <1>3
    <3> QED
      BY <2>1, <3>1
  <2>4. PICK n \in U : \A m \in U : n <= m
    <3>1. U \subseteq Nat
      BY <1>1
    <3> HIDE DEF U
    <3> QED
      BY <2>3, <3>1, LeastOf
  <2> DEFINE l == a - n
  <2>5. l \in z .. a /\ ~IsRaw(u[l])
    BY <1>1, <1>3, <2>4
  <2>6. l # a => IsRaw(u[l + 1])
    <3>1. SUFFICES ASSUME l # a PROVE IsRaw(u[l + 1])
      OBVIOUS
    <3>2. n - 1 \in 0 .. a - z /\ n - 1 \notin U /\ a - (n - 1) = l + 1
      BY <1>1, <2>4, <2>5, <3>1
    <3> QED
      BY <3>2
  <2> HIDE DEF l
  <2>7. IsRaw(u[l])
    BY <2>2, <2>5, <2>6, DrawnIsRaw, MovedIsRaw DEF Degraded
  <2> QED
    BY <2>5, <2>7
<1> QED
  BY <1>2, <1>3

-----------------------------------------------------------------------------
(***************************************************************************)
(* The inductive invariant.                                                *)
(***************************************************************************)
Phases == {"fill", "transform", "constrain", "normalise", "export", "reduce", "done", "thrown"}

Normed(S) == {Normalised(x) : x \in S}

LEMMA NormedSame ==
  ASSUME cfg' = cfg
  PROVE  \A S : Normed(S)' = Normed(S)
<1>1. \A x : Normalised(x)' = Normalised(x)
  BY DEF Normalised
<1> QED
  BY <1>1 DEF Normed

\* The rank that owns a cell fills it, in Fourier space or with the other
\* ranks, and no other rank disturbs it.
CellHolds(s, c) ==
  /\ pc[s] = "transform" /\ ~InRealSpace => Lone(mode[c])
  /\ pc[s] \in {"constrain", "normalise"} => Lone(mode[c])
  /\ pc[s] \in {"export", "reduce", "done"} =>
       \E S : Lone(S) /\ mode[c] = Normed(S)
CellsHold == \A s \in Ranks, c \in Cells(cfg.n) : c[1] \in Own(s, cfg.n) => CellHolds(s, c)

\* What Downsample makes of the modes of a rank.
SmallGrid(s) ==
  [c \in Cells(cfg.small) |->
     UNION {{Rescaled(x) : x \in mode[PairedCell(y, cfg.small, cfg.n)]} :
              y \in {z \in PairedCells(s, cfg.small, cfg.n) : Untransposed(z) = c}}]
Whole == [c \in Cells(cfg.n) |-> {[by |-> Nowhere, z |-> x] : x \in mode[Untransposed(c)]}]
Total == [c \in Cells(cfg.small) |-> UNION {{[by |-> s, z |-> x] : x \in part[s][c]} : s \in Ranks}]

PartHolds(s) ==
  part[s] # <<>> =>
    /\ pc[s] \in {"reduce", "done"} /\ cfg.small < cfg.n /\ cfg.small \in Nat \ {0}
    /\ part[s] = SmallGrid(s)

ExportHolds ==
  exported # <<>> =>
    /\ AllAt("done")
    /\ \/ cfg.small = cfg.n /\ exported = Whole
       \/ cfg.small < cfg.n /\ exported = Total /\ \A s \in Ranks : part[s] # <<>>

IInv ==
  /\ cfg \in Configs
  /\ pc \in [Ranks -> Phases] /\ \A s \in Ranks : pc[s] = "reduce" => s = 0
  /\ \A s \in Ranks : cfg.generator = "MUSIC1" /\ pc[s] \notin {"fill", "thrown"} => ~MusicRefuses
  /\ CellsHold
  /\ part = [s \in Ranks |-> part[s]] /\ \A s \in Ranks : PartHolds(s)
  /\ ExportHolds

LEMMA InitEstablishes == Init => IInv
<1>1. SUFFICES ASSUME Init PROVE IInv
  OBVIOUS
<1>2. /\ cfg \in Configs /\ pc = [s \in Ranks |-> "fill"] /\ part = [s \in Ranks |-> <<>>]
      /\ exported = <<>>
  BY <1>1 DEF Init
<1>3. CellsHold
  BY <1>2 DEF CellsHold, CellHolds
<1> QED
  BY <1>2, <1>3 DEF IInv, Phases, PartHolds, ExportHolds

\* A mode that is constrained is replaced by one number.
LEMMA ConstrainedIsLone ==
  ASSUME cfg \in Configs, cfg.constraint # 0, NEW s, NEW c \in Cells(cfg.n), NEW M, Lone(M)
  PROVE  LET from == {x \in PairedCells(s, cfg.constraint, cfg.n) :
                        PairedCell(x, cfg.constraint, cfg.n) = c}
         IN Lone(IF from = {} THEN M ELSE UNION {ConstraintMode(Untransposed(x)) : x \in from})
<1> DEFINE from == {x \in PairedCells(s, cfg.constraint, cfg.n) :
                      PairedCell(x, cfg.constraint, cfg.n) = c}
<1>1. CASE from = {}
  BY <1>1
<1>2. CASE from # {}
  <2>1. PICK y \in from : TRUE
    BY <1>2
  <2>2. \A x \in from : x = y
    <3>1. /\ cfg.n \in Nat \ {0} /\ cfg.n % 2 = 0
          /\ cfg.constraint \in Nat \ {0} /\ cfg.constraint % 2 = 0
          /\ Pairable(cfg.constraint, cfg.n)
      BY ConfigFacts, ConfigsPairable
    <3> QED
      BY <2>1, <3>1, PairedCellInjective
  <2>3. from = {y}
    BY <2>1, <2>2
  <2> DEFINE z == Number("constraint", WaveVector(Untransposed(y), cfg.constraint, FALSE), FALSE, 0)
  <2>4. UNION {ConstraintMode(Untransposed(x)) : x \in from} = {z}
    BY <2>3 DEF ConstraintMode
  <2>5. IsRaw(z)
    BY DEF IsRaw
  <2> HIDE DEF from, z
  <2>6. Lone(UNION {ConstraintMode(Untransposed(x)) : x \in from})
    BY <2>4, <2>5 DEF Lone
  <2> QED
    BY <1>2, <2>6 DEF from
<1> QED
  BY <1>1, <1>2

\* A rank changes its own cells only.
LEMMA Untouched ==
  ASSUME cfg \in Configs, NEW t \in Ranks, NEW s \in Ranks, s # t, NEW c \in Cells(cfg.n),
         c[1] \in Own(s, cfg.n), FillModes(t) \/ AddConstrainedModes(t) \/ Normalise(t)
  PROVE  mode'[c] = mode[c]
<1>1. c[1] \notin Own(t, cfg.n)
  BY OwnerUnique
<1>2. CASE FillModes(t) \/ Normalise(t)
  BY <1>1, <1>2 DEF FillModes, Normalise
<1>3. CASE AddConstrainedModes(t)
  <2> DEFINE from == {x \in PairedCells(t, cfg.constraint, cfg.n) :
                        PairedCell(x, cfg.constraint, cfg.n) = c}
  <2>1. cfg.constraint # 0 => from = {}
    <3>1. SUFFICES ASSUME cfg.constraint # 0, NEW x \in from PROVE FALSE
      OBVIOUS
    <3>2. /\ cfg.n \in Nat \ {0} /\ cfg.n % 2 = 0
          /\ cfg.constraint \in Nat \ {0} /\ cfg.constraint % 2 = 0
          /\ Pairable(cfg.constraint, cfg.n)
      BY <3>1, ConfigFacts, ConfigsPairable
    <3>3. c[1] \in Own(t, cfg.n)
      BY <3>2, PairedCellOwned
    <3> QED
      BY <1>1, <3>3
  <2>2. /\ cfg.constraint = 0 => mode' = mode
        /\ cfg.constraint # 0 =>
             mode'[c] = IF from = {} THEN mode[c]
                        ELSE UNION {ConstraintMode(Untransposed(x)) : x \in from}
    BY <1>3 DEF AddConstrainedModes
  <2> QED
    BY <2>1, <2>2
<1> QED
  BY <1>2, <1>3

\* What the steps do to the cells.
LEMMA FillModesCells ==
  ASSUME IInv, NEW t \in Ranks, FillModes(t), NEW s \in Ranks, NEW c \in Cells(cfg.n),
         c[1] \in Own(s, cfg.n)
  PROVE  CellHolds(s, c)'
<1>1. /\ cfg' = cfg /\ pc' = [pc EXCEPT ![t] = "transform"] /\ pc \in [Ranks -> Phases]
      /\ CellHolds(s, c)
  BY DEF IInv, CellsHold, FillModes, Go
<1>2. CASE s = t
  <2>1. mode'[c] = {x.z : x \in {y \in NgenicWrites(s) : y.at = c}}
    BY <1>2 DEF FillModes
  <2>2. mode'[c] = NgenicDrawn(c)
    BY <2>1, NgenicCell DEF IInv
  <2>3. Lone(mode'[c])
    BY <2>2 DEF Lone, IsRaw, NgenicDrawn
  <2> QED
    BY <1>1, <1>2, <2>3 DEF CellHolds
<1>3. CASE s # t
  <2>1. mode'[c] = mode[c]
    BY <1>3, Untouched DEF IInv
  <2> QED
    BY <1>1, <1>3, <2>1, NormedSame DEF CellHolds, InRealSpace
<1> QED
  BY <1>2, <1>3

LEMMA TransformCells ==
  ASSUME IInv, FourierTransformForward, NEW s \in Ranks, NEW c \in Cells(cfg.n),
         c[1] \in Own(s, cfg.n)
  PROVE  CellHolds(s, c)'
<1>1. /\ cfg' = cfg /\ pc' = [r \in Ranks |-> "constrain"] /\ pc[s] = "transform"
      /\ CellHolds(s, c) /\ cfg \in Configs
  BY DEF IInv, CellsHold, FourierTransformForward, AllGo, AllAt
<1>2. Lone(mode'[c])
  <2>1. CASE ~InRealSpace
    BY <1>1, <2>1 DEF CellHolds, FourierTransformForward
  <2>2. CASE InRealSpace
    <3> DEFINE w == WaveVector(c, cfg.n, cfg.mpi)
    <3>1. \/ mode'[c] = {Number("garbled", c, FALSE, 0)}
          \/ cfg.generator = "MUSIC1" /\ mode'[c] = {MusicMode(w)}
          \/ mode'[c] = PanphasiaMode(w)
      BY <2>2 DEF FourierTransformForward
    <3>2. cfg.generator = "MUSIC1" => IsRaw(MusicMode(w))
      BY <1>1, MusicIsRaw DEF IInv
    <3> HIDE DEF w
    <3>3. mode'[c] = {} \/ \E x : IsRaw(x) /\ mode'[c] = {x}
      BY <3>1, <3>2 DEF IsRaw, PanphasiaMode
    <3> QED
      BY <3>3 DEF Lone
  <2> QED
    BY <2>1, <2>2
<1> QED
  BY <1>1, <1>2 DEF CellHolds

LEMMA ConstrainCells ==
  ASSUME IInv, NEW t \in Ranks, AddConstrainedModes(t), NEW s \in Ranks,
         NEW c \in Cells(cfg.n), c[1] \in Own(s, cfg.n)
  PROVE  CellHolds(s, c)'
<1> DEFINE from == {x \in PairedCells(t, cfg.constraint, cfg.n) :
                      PairedCell(x, cfg.constraint, cfg.n) = c}
<1>1. /\ cfg' = cfg /\ pc[t] = "constrain" /\ pc' = [pc EXCEPT ![t] = "normalise"]
      /\ pc \in [Ranks -> Phases] /\ CellHolds(s, c) /\ cfg \in Configs
  BY DEF IInv, CellsHold, AddConstrainedModes, Go
<1>2. /\ cfg.constraint = 0 => mode' = mode
      /\ cfg.constraint # 0 =>
           mode'[c] = IF from = {} THEN mode[c]
                      ELSE UNION {ConstraintMode(Untransposed(x)) : x \in from}
  BY DEF AddConstrainedModes
<1>3. CASE s = t
  <2>1. Lone(mode[c])
    BY <1>1, <1>3 DEF CellHolds
  <2>2. Lone(mode'[c])
    BY <1>1, <1>2, <2>1, ConstrainedIsLone, ZenonT(40)
  <2> QED
    BY <1>1, <1>3, <2>2 DEF CellHolds
<1>4. CASE s # t
  <2>1. mode'[c] = mode[c]
    BY <1>1, <1>4, Untouched
  <2> QED
    BY <1>1, <1>4, <2>1, NormedSame DEF CellHolds, InRealSpace
<1> QED
  BY <1>3, <1>4

LEMMA NormaliseCells ==
  ASSUME IInv, NEW t \in Ranks, Normalise(t), NEW s \in Ranks,
         NEW c \in Cells(cfg.n), c[1] \in Own(s, cfg.n)
  PROVE  CellHolds(s, c)'
<1>1. /\ cfg' = cfg /\ pc[t] = "normalise" /\ pc \in [Ranks -> Phases] /\ CellHolds(s, c)
      /\ \E to \in {"done", "export"} : pc' = [pc EXCEPT ![t] = to]
  BY DEF IInv, CellsHold, Normalise, Go
<1>2. CASE s = t
  <2>1. Lone(mode[c]) /\ mode'[c] = Normed(mode[c])
    BY <1>1, <1>2 DEF CellHolds, Normalise, Normed
  <2>2. pc'[s] \in {"done", "export"}
    BY <1>1, <1>2
  <2>3. \E S : Lone(S) /\ mode'[c] = Normed(S)'
    BY <1>1, <2>1, NormedSame
  <2> QED
    BY <2>2, <2>3 DEF CellHolds
<1>3. CASE s # t
  <2>1. mode'[c] = mode[c] /\ pc'[s] = pc[s]
    BY <1>1, <1>3, Untouched DEF IInv
  <2> QED
    BY <1>1, <2>1, NormedSame DEF CellHolds, InRealSpace
<1> QED
  BY <1>2, <1>3

\* Steps that leave the modes alone.
LEMMA OtherCells ==
  ASSUME IInv, mode' = mode, cfg' = cfg, NEW s \in Ranks, NEW c \in Cells(cfg.n),
         c[1] \in Own(s, cfg.n),
         \/ pc'[s] = pc[s] \/ pc'[s] = "thrown"
         \/ pc'[s] = "transform" /\ InRealSpace
         \/ pc[s] \in {"export", "reduce"} /\ pc'[s] \in {"reduce", "done"}
  PROVE  CellHolds(s, c)'
<1>1. CellHolds(s, c)
  BY DEF IInv, CellsHold
<1> QED
  BY <1>1, NormedSame DEF CellHolds, InRealSpace

\* The small grid of a rank depends on its own cells only.
LEMMA SmallGridSame ==
  ASSUME cfg \in Configs, cfg.small \in Nat \ {0}, cfg.small < cfg.n, cfg' = cfg, NEW s \in Ranks,
         \A c \in Cells(cfg.n) : c[1] \in Own(s, cfg.n) => mode'[c] = mode[c]
  PROVE  SmallGrid(s)' = SmallGrid(s)
<1> DEFINE small == cfg.small
           n == cfg.n
           P == PairedCells(s, small, n)
           f(y) == {Rescaled(x) : x \in mode[PairedCell(y, small, n)]}
           g(y) == {Rescaled(x) : x \in mode'[PairedCell(y, small, n)]}
<1>1. small \in Nat \ {0} /\ small % 2 = 0 /\ n \in Nat \ {0} /\ n % 2 = 0 /\ Pairable(small, n)
  BY ConfigFacts, ConfigsPairable
<1>2. \A y \in P : f(y) = g(y)
  <2>1. \A y \in P : PairedCell(y, small, n) \in Cells(n) /\ PairedCell(y, small, n)[1] \in Own(s, n)
    BY <1>1, PairedCellOwned
  <2>2. \A y \in P : mode'[PairedCell(y, small, n)] = mode[PairedCell(y, small, n)]
    BY <2>1
  <2> QED
    BY <2>2
<1> DEFINE F(c) == UNION {f(y) : y \in {z \in P : Untransposed(z) = c}}
           G(c) == UNION {g(y) : y \in {z \in P : Untransposed(z) = c}}
<1>3. SmallGrid(s) = [c \in Cells(small) |-> F(c)]
  BY DEF SmallGrid
<1>4. SmallGrid(s)' = [c \in Cells(small) |-> G(c)]
  <2>1. PairedCells(s, small, n)' = P
    BY DEF PairedCells, Own, Block
  <2>2. /\ \A z : Untransposed(z)' = Untransposed(z)
        /\ \A x : Rescaled(x)' = Rescaled(x)
        /\ small' = small /\ n' = n
    BY DEF Untransposed, Rescaled
  <2> QED
    BY <2>1, <2>2 DEF SmallGrid
<1> HIDE DEF f, g, P
<1>5. \A c : F(c) = G(c)
  <2>1. \A c : {f(y) : y \in {z \in P : Untransposed(z) = c}} = {g(y) : y \in {z \in P : Untransposed(z) = c}}
    BY <1>2
  <2> QED
    BY <2>1
<1> HIDE DEF F, G
<1> QED
  BY <1>3, <1>4, <1>5

\* Nothing happens when all ranks are done.
LEMMA AllDoneStops ==
  ASSUME IInv, AllAt("done")
  PROVE  ~Next
<1>1. 0 \in Ranks
  BY ConfigFacts DEF IInv, Ranks
<1>2. \A s \in Ranks : pc[s] = "done"
  BY DEF AllAt
<1> QED
  BY <1>1, <1>2 DEF Next, RankStep, FillModes, FillPlanes, FourierTransformForward,
       AddConstrainedModes, Normalise, ExportWhole, Downsample, WriteSum, Refuse, AllAt

LEMMA NextPreserves == IInv /\ [Next]_vars => IInv'
<1> SUFFICES ASSUME IInv, [Next]_vars PROVE IInv'
  OBVIOUS
<1>1. CASE UNCHANGED vars
  <2>1. /\ cfg' = cfg /\ pc' = pc /\ mode' = mode /\ part' = part /\ exported' = exported
    BY <1>1 DEF vars
  <2>2. CellsHold'
    <3>1. SUFFICES ASSUME NEW s \in Ranks', NEW c \in Cells(cfg.n)', (c[1] \in Own(s, cfg.n))'
                   PROVE  CellHolds(s, c)'
      BY DEF CellsHold
    <3>2. s \in Ranks /\ c \in Cells(cfg.n) /\ c[1] \in Own(s, cfg.n) /\ pc'[s] = pc[s]
      BY <2>1, <3>1 DEF Ranks, Own, Block
    <3> QED
      BY <2>1, <3>2, OtherCells
  <2>3. \A s \in Ranks' : PartHolds(s)'
    <3>1. SUFFICES ASSUME NEW s \in Ranks PROVE PartHolds(s)'
      BY <2>1 DEF Ranks
    <3>2. SmallGrid(s)' = SmallGrid(s) \/ part[s] = <<>>
      BY <2>1, SmallGridSame DEF IInv, PartHolds
    <3> QED
      BY <2>1, <3>2 DEF IInv, PartHolds
  <2>4. ExportHolds'
    <3>1. Whole' = Whole /\ Total' = Total /\ Ranks' = Ranks
      BY <2>1 DEF Whole, Total, Ranks, Untransposed
    <3> QED
      BY <2>1, <3>1 DEF IInv, ExportHolds, AllAt
  <2> QED
    BY <2>1, <2>2, <2>3, <2>4 DEF IInv, Ranks, MusicRefuses
<1>2. CASE Next
  <2>1. exported = <<>>
    BY <1>2, AllDoneStops DEF IInv, ExportHolds
  <2>2. cfg' = cfg /\ cfg \in Configs /\ Ranks' = Ranks /\ pc \in [Ranks -> Phases]
    BY <1>2 DEF IInv, Next, RankStep, FillModes, FillPlanes, FourierTransformForward,
         AddConstrainedModes, Normalise, ExportWhole, Downsample, WriteSum, Refuse, Ranks
  <2>3. CellsHold'
    <3>1. SUFFICES ASSUME NEW s \in Ranks, NEW c \in Cells(cfg.n), c[1] \in Own(s, cfg.n)
                   PROVE  CellHolds(s, c)'
      BY <2>2 DEF CellsHold, Own, Block
    <3>2. CASE FourierTransformForward
      BY <3>1, <3>2, TransformCells
    <3>3. CASE ExportWhole
      <4>1. mode' = mode /\ pc[s] = "export" /\ pc'[s] = "done"
        BY <3>3 DEF ExportWhole, AllAt, AllGo
      <4> QED
        BY <2>2, <3>1, <4>1, OtherCells
    <3>4. CASE WriteSum
      <4>1. mode' = mode /\ (pc'[s] = pc[s] \/ (pc[s] = "reduce" /\ pc'[s] = "done"))
        BY <2>2, <3>4 DEF WriteSum, Go
      <4> QED
        BY <2>2, <3>1, <4>1, OtherCells
    <3>5. CASE \E t \in Ranks : RankStep(t)
      <4>1. PICK t \in Ranks : RankStep(t)
        BY <3>5
      <4>2. CASE FillModes(t)
        BY <3>1, <4>2, FillModesCells
      <4>3. CASE AddConstrainedModes(t)
        BY <3>1, <4>3, ConstrainCells
      <4>4. CASE Normalise(t)
        BY <3>1, <4>4, NormaliseCells
      <4>5. CASE FillPlanes(t)
        <5>1. mode' = mode /\ (pc'[s] = pc[s] \/ (pc'[s] = "transform" /\ InRealSpace))
          BY <2>2, <4>5 DEF FillPlanes, Go
        <5> QED
          BY <2>2, <3>1, <5>1, OtherCells
      <4>6. CASE Downsample(t)
        <5>1. /\ mode' = mode
              /\ pc'[s] = pc[s] \/ (pc[s] = "export" /\ pc'[s] \in {"reduce", "done"})
          BY <2>2, <4>6 DEF Downsample, Go
        <5> QED
          BY <2>2, <3>1, <5>1, OtherCells
      <4>7. CASE Refuse(t)
        <5>1. mode' = mode /\ (pc'[s] = pc[s] \/ pc'[s] = "thrown")
          BY <2>2, <4>7 DEF Refuse, Go
        <5> QED
          BY <2>2, <3>1, <5>1, OtherCells
      <4> QED
        BY <4>1, <4>2, <4>3, <4>4, <4>5, <4>6, <4>7 DEF RankStep
    <3> QED
      BY <1>2, <3>2, <3>3, <3>4, <3>5 DEF Next
  <2>4. /\ pc' \in [Ranks -> Phases]
        /\ \A s \in Ranks : pc'[s] = "reduce" => s = 0
        /\ \A s \in Ranks : cfg.generator = "MUSIC1" /\ pc'[s] \notin {"fill", "thrown"} => ~MusicRefuses
    <3>1. \A s \in Ranks : pc[s] = "reduce" => s = 0
      BY DEF IInv
    <3>2. \A s \in Ranks : cfg.generator = "MUSIC1" /\ pc[s] \notin {"fill", "thrown"} => ~MusicRefuses
      BY DEF IInv
    <3>3. 0 \in Ranks
      BY <2>2, ConfigFacts DEF Ranks
    <3>4. CASE FourierTransformForward \/ ExportWhole
      BY <2>2, <3>1, <3>2, <3>4 DEF FourierTransformForward, ExportWhole, AllAt, AllGo, Phases
    <3>5. CASE WriteSum
      BY <2>2, <3>1, <3>2, <3>3, <3>5 DEF WriteSum, Go, Phases
    <3>6. CASE \E t \in Ranks : RankStep(t)
      <4>1. PICK t \in Ranks : RankStep(t)
        BY <3>6
      <4>2. CASE FillModes(t) \/ FillPlanes(t)
        BY <2>2, <3>1, <3>2, <4>2 DEF FillModes, FillPlanes, Go, Phases, InRealSpace, PluginRefuses
      <4>3. CASE AddConstrainedModes(t) \/ Normalise(t)
        BY <2>2, <3>1, <3>2, <4>3 DEF AddConstrainedModes, Normalise, Go, Phases
      <4>4. CASE Downsample(t) \/ Refuse(t)
        BY <2>2, <3>1, <3>2, <4>4 DEF Downsample, Refuse, Go, Phases
      <4> QED
        BY <4>1, <4>2, <4>3, <4>4 DEF RankStep
    <3> QED
      BY <1>2, <3>4, <3>5, <3>6 DEF Next
  <2>5. part' = [s \in Ranks |-> part'[s]] /\ \A s \in Ranks : PartHolds(s)'
    <3>1. part = [s \in Ranks |-> part[s]] /\ \A s \in Ranks : PartHolds(s)
      BY DEF IInv
    <3>2. CASE FourierTransformForward \/ ExportWhole
      <4>1. part' = part /\ \A s \in Ranks : part[s] = <<>>
        BY <3>1, <3>2 DEF FourierTransformForward, ExportWhole, AllAt, PartHolds
      <4> QED
        BY <3>1, <4>1 DEF PartHolds
    <3>3. CASE WriteSum
      <4>1. part' = part /\ mode' = mode /\ pc' = [pc EXCEPT ![0] = "done"]
        BY <3>3 DEF WriteSum, Go
      <4>2. SUFFICES ASSUME NEW s \in Ranks, part[s] # <<>> PROVE PartHolds(s)'
        BY <3>1, <4>1 DEF PartHolds
      <4>3. SmallGrid(s)' = SmallGrid(s)
        BY <2>2, <3>1, <4>1, <4>2, SmallGridSame DEF PartHolds
      <4> QED
        BY <2>2, <3>1, <4>1, <4>2, <4>3 DEF PartHolds
    <3>4. CASE \E t \in Ranks : RankStep(t)
      <4>1. PICK t \in Ranks : RankStep(t)
        BY <3>4
      <4>2. SUFFICES ASSUME NEW s \in Ranks
                     PROVE  part' = [r \in Ranks |-> part'[r]] /\ PartHolds(s)'
        OBVIOUS
      <4>3. CASE Downsample(t)
        <5>1. /\ part' = [part EXCEPT ![t] = SmallGrid(t)] /\ mode' = mode
              /\ cfg.small < cfg.n /\ cfg.small \in Nat \ {0}
              /\ pc' = [pc EXCEPT ![t] = IF t = 0 THEN "reduce" ELSE "done"]
          BY <2>2, <4>3, ConfigFacts DEF Downsample, SmallGrid, Go
        <5>2. SmallGrid(s)' = SmallGrid(s)
          BY <2>2, <5>1, SmallGridSame
        <5>3. CASE s = t
          BY <2>2, <3>1, <5>1, <5>2, <5>3 DEF PartHolds
        <5>4. CASE s # t
          BY <2>2, <3>1, <5>1, <5>2, <5>4 DEF PartHolds
        <5> QED
          BY <5>3, <5>4
      <4>4. CASE ~Downsample(t)
        <5>1. part' = part
          BY <4>1, <4>4 DEF RankStep, FillModes, FillPlanes, AddConstrainedModes, Normalise, Refuse
        <5>2. CASE part[s] = <<>>
          BY <3>1, <5>1, <5>2 DEF PartHolds
        <5>3. CASE part[s] # <<>>
          <6>1. pc[s] \in {"reduce", "done"} /\ cfg.small < cfg.n /\ cfg.small \in Nat \ {0}
            BY <3>1, <5>3 DEF PartHolds
          <6>2. s # t /\ pc'[s] = pc[s]
            BY <2>2, <4>1, <4>4, <6>1 DEF RankStep, FillModes, FillPlanes, AddConstrainedModes,
                 Normalise, Refuse, Go
          <6>3. \A c \in Cells(cfg.n) : c[1] \in Own(s, cfg.n) => mode'[c] = mode[c]
            <7>1. CASE FillModes(t) \/ AddConstrainedModes(t) \/ Normalise(t)
              BY <2>2, <6>2, <7>1, Untouched
            <7>2. CASE FillPlanes(t) \/ Refuse(t)
              BY <7>2 DEF FillPlanes, Refuse
            <7> QED
              BY <4>1, <4>4, <7>1, <7>2 DEF RankStep
          <6>4. SmallGrid(s)' = SmallGrid(s)
            BY <2>2, <6>1, <6>3, SmallGridSame
          <6> QED
            BY <2>2, <3>1, <5>1, <5>3, <6>1, <6>2, <6>4 DEF PartHolds
        <5> QED
          BY <3>1, <5>1, <5>2, <5>3
      <4> QED
        BY <4>3, <4>4
    <3> QED
      BY <1>2, <3>2, <3>3, <3>4 DEF Next
  <2>6. ExportHolds'
    <3>1. CASE ExportWhole
      <4>1. cfg.small = cfg.n /\ exported' = Whole /\ mode' = mode /\ pc' = [s \in Ranks |-> "done"]
        BY <3>1 DEF ExportWhole, Whole, AllGo
      <4>2. Whole' = Whole
        BY <2>2, <4>1 DEF Whole, Untransposed
      <4> QED
        BY <2>2, <4>1, <4>2 DEF ExportHolds, AllAt
    <3>2. CASE WriteSum
      <4>1. /\ exported' = Total /\ part' = part /\ pc' = [pc EXCEPT ![0] = "done"] /\ pc[0] = "reduce"
            /\ \A s \in Ranks : part[s] # <<>>
        BY <3>2 DEF WriteSum, Total, Go
      <4>2. Total' = Total
        BY <2>2, <4>1 DEF Total
      <4>3. \A s \in Ranks : pc[s] \in {"reduce", "done"} /\ (pc[s] = "reduce" => s = 0) /\ cfg.small < cfg.n
        BY <4>1 DEF IInv, PartHolds
      <4>4. 0 \in Ranks
        BY <2>2, ConfigFacts DEF Ranks
      <4>5. \A s \in Ranks : pc'[s] = "done"
        BY <2>2, <4>1, <4>3, <4>4
      <4> QED
        BY <2>2, <4>1, <4>2, <4>3, <4>4, <4>5 DEF ExportHolds, AllAt
    <3>3. CASE ~ExportWhole /\ ~WriteSum
      <4>1. exported' = <<>>
        BY <1>2, <2>1, <3>3 DEF Next, RankStep, FillModes, FillPlanes, FourierTransformForward,
             AddConstrainedModes, Normalise, Downsample, Refuse
      <4> QED
        BY <4>1 DEF ExportHolds
    <3> QED
      BY <3>1, <3>2, <3>3
  <2> QED
    BY <2>2, <2>3, <2>4, <2>5, <2>6 DEF IInv, MusicRefuses
<1> QED
  BY <1>1, <1>2

LEMMA Invariant == Spec => []IInv
BY InitEstablishes, NextPreserves, PTL DEF Spec

-----------------------------------------------------------------------------
(***************************************************************************)
(* What FastDF is given.                                                   *)
(***************************************************************************)
\* One number leaves where one number is.
LEMMA OneForOne ==
  ASSUME NEW here, NEW E, NEW r,
         \/ here = {} /\ E = {}
         \/ \E x : here = {x} /\ E = {[by |-> r, z |-> Rescaled(x)]}
  PROVE  {x.z : x \in E} = {Rescaled(x) : x \in here} /\ Cardinality(E) = Cardinality(here)
<1>1. CASE here = {} /\ E = {}
  BY <1>1
<1>2. CASE \E x : here = {x} /\ E = {[by |-> r, z |-> Rescaled(x)]}
  <2>1. PICK x : here = {x} /\ E = {[by |-> r, z |-> Rescaled(x)]}
    BY <1>2
  <2> DEFINE e == [by |-> r, z |-> Rescaled(x)]
  <2>2. e.z = Rescaled(x)
    OBVIOUS
  <2>3. E = {e}
    BY <2>1
  <2> HIDE DEF e
  <2>4. Cardinality({e}) = 1 /\ Cardinality({x}) = 1
    BY FS_Singleton
  <2> QED
    BY <2>1, <2>2, <2>3, <2>4
<1> QED
  BY <1>1, <1>2

\* The cell of the noise for a wave vector the small grid resolves.
Source(c) ==
  LET w == WaveVector(c, cfg.small, FALSE)
      in(p) == (p + cfg.n) % cfg.n
  IN Untransposed(<<in(w[1]), in(w[2]), w[3]>>)

LEMMA SourceIs ==
  ASSUME cfg \in Configs, cfg.small \in Nat \ {0}, cfg.small <= cfg.n, NEW c \in Cells(cfg.small),
         Below(WaveVector(c, cfg.small, FALSE), cfg.small)
  PROVE  /\ Source(c) \in Cells(cfg.n)
         /\ cfg.small = cfg.n => Source(c) = Untransposed(c)
         /\ \A s : {y \in PairedCells(s, cfg.small, cfg.n) : Untransposed(y) = c} =
                   IF Source(c)[1] \in Own(s, cfg.n) THEN {Untransposed(c)} ELSE {}
         /\ PairedCell(Untransposed(c), cfg.small, cfg.n) = Source(c)
<1> DEFINE m == cfg.small
           n == cfg.n
           w == WaveVector(c, m, FALSE)
           w1 == Wave(c[1], m)
           w2 == Wave(c[2], m)
           d == Untransposed(c)
           in(p) == (p + n) % n
<1>1. /\ m \in Nat \ {0} /\ m % 2 = 0 /\ n \in Nat \ {0} /\ n % 2 = 0 /\ m <= n
      /\ cfg.mpi \in BOOLEAN /\ Pairable(m, n)
  BY ConfigFacts, ConfigsPairable
<1>2. /\ c = <<c[1], c[2], c[3]>>
      /\ c[1] \in 0 .. m - 1 /\ c[2] \in 0 .. m - 1 /\ c[3] \in 0 .. m \div 2
      /\ d \in Cells(m) /\ Untransposed(d) = c
  BY <1>1, CellFacts
<1>3. w[1] = w1 /\ w[2] = w2 /\ w[3] = c[3]
  BY DEF WaveVector
<1>4. /\ w1 \in Int /\ (w1 + m) % m = c[1]
      /\ w2 \in Int /\ (w2 + m) % m = c[2]
  BY <1>1, <1>2, WaveFacts
<1>5. 2 * w1 < m /\ -m < 2 * w1 /\ 2 * w2 < m /\ -m < 2 * w2 /\ 2 * c[3] < m
  <2>1. \A e \in 1 .. 3 : 2 * w[e] < m /\ -2 * w[e] < m
    BY DEF Below
  <2> HIDE DEF w, w1, w2, m
  <2>3. 2 * w[1] < m /\ -2 * w[1] < m /\ 2 * w[2] < m /\ -2 * w[2] < m /\ 2 * w[3] < m
    BY <2>1
  <2> QED
    BY <1>1, <1>2, <1>3, <1>4, <2>3
<1>6. Source(c) = Untransposed(<<in(w1), in(w2), c[3]>>)
  <2>1. Source(c) = Untransposed(<<in(w[1]), in(w[2]), w[3]>>)
    BY DEF Source
  <2> HIDE DEF w, w1, w2, in
  <2> QED
    BY <1>3, <2>1
<1> HIDE DEF m, n, w1, w2, d, w
<1>7. Paired(c[1], m, n) = in(w1) /\ Paired(c[2], m, n) = in(w2)
  <2>1. 2 * w1 < n /\ -n < 2 * w1 /\ 2 * w2 < n /\ -n < 2 * w2
    BY <1>1, <1>4, <1>5
  <2>2. Paired((w1 + m) % m, m, n) = in(w1) /\ Paired((w2 + m) % m, m, n) = in(w2)
    BY <1>1, <1>4, <1>5, <2>1, PartnerExists
  <2> QED
    BY <1>4, <2>2
<1>8. in(w1) \in 0 .. n - 1 /\ in(w2) \in 0 .. n - 1 /\ c[3] \in 0 .. n \div 2
  <2>1. \A a \in Int : in(a) \in 0 .. n - 1
    BY <1>1
  <2>2. c[3] \in 0 .. n \div 2
    BY <1>1, <1>2
  <2> QED
    BY <1>4, <2>1, <2>2
<1>9. Source(c) \in Cells(n)
  <2> DEFINE e == <<in(w1), in(w2), c[3]>>
  <2>1. e \in Cells(n) /\ n \in Nat
    BY <1>1, <1>8 DEF Cells
  <2> HIDE DEF in, e
  <2>2. Untransposed(e) \in Cells(n)
    BY <2>1, CellFacts
  <2> QED
    BY <1>6, <2>2 DEF e
<1>10. PairedCell(d, m, n) = Source(c)
  <2> HIDE DEF in
  <2> QED
    BY <1>2, <1>6, <1>7 DEF PairedCell, Untransposed, d
<1>11. m = n => Source(c) = d
  BY <1>2, <1>4, <1>6 DEF d
<1>12. ASSUME NEW s
       PROVE  {y \in PairedCells(s, m, n) : Untransposed(y) = c} =
              IF Source(c)[1] \in Own(s, n) THEN {d} ELSE {}
  <2>1. \A y \in PairedCells(s, m, n) : Untransposed(y) = c => y = d
    <3>1. SUFFICES ASSUME NEW y \in PairedCells(s, m, n), Untransposed(y) = c PROVE y = d
      OBVIOUS
    <3>2. y \in Cells(m)
      BY DEF PairedCells
    <3>3. Untransposed(Untransposed(y)) = y
      BY <1>1, <3>2, CellFacts
    <3> QED
      BY <3>1, <3>3 DEF d
  <2>2. d \in PairedCells(s, m, n) <=> Source(c)[1] \in Own(s, n)
    <3>1. /\ Source(c)[1] = Paired(d[1], m, n) /\ Source(c)[2] = Paired(d[2], m, n)
          /\ d[3] = c[3]
      BY <1>2, <1>10 DEF PairedCell, Untransposed, d
    <3>2. Source(c)[2] # -1
      <4> DEFINE e == Source(c)
      <4>1. e \in Cells(n) /\ n \in Nat
        BY <1>1, <1>9
      <4> HIDE DEF e
      <4>2. e[2] \in 0 .. n - 1
        BY <4>1, CellFacts
      <4> QED
        BY <1>1, <4>2 DEF e
    <3> QED
      BY <1>2, <1>8, <3>1, <3>2 DEF PairedCells
  <2> QED
    BY <1>2, <2>1, <2>2
<1> QED
  BY <1>9, <1>10, <1>11, <1>12 DEF m, n, d

\* The modes that are exported are normalised.
LoneNormed(S) ==
  S = {} \/ \E source, w, conj, shift :
             S = {Full(source, w, conj, shift, cfg.fixing, cfg.inversion, cfg.n)}

LEMMA HereIs ==
  ASSUME IInv, AllAt("done"), NEW d \in Cells(cfg.n)
  PROVE  \E t \in Ranks : d[1] \in Own(t, cfg.n) /\ LoneNormed(mode[d])
<1>1. cfg \in Configs /\ cfg.n \in Nat \ {0}
  BY ConfigFacts DEF IInv
<1>2. d[1] \in 0 .. cfg.n - 1
  BY <1>1, CellFacts
<1>3. PICK t \in Ranks : d[1] \in Own(t, cfg.n)
  BY <1>1, <1>2, OwnerExists
<1>4. PICK S : Lone(S) /\ mode[d] = Normed(S)
  BY <1>3 DEF IInv, CellsHold, CellHolds, AllAt
<1>5. CASE S = {}
  BY <1>3, <1>4, <1>5 DEF Normed, LoneNormed
<1>6. CASE S # {}
  <2>1. PICK source, w, conj, shift : S = {Number(source, w, conj, shift)}
    BY <1>4, <1>6 DEF Lone, IsRaw
  <2>2. mode[d] = {Normalised(Number(source, w, conj, shift))}
    BY <1>4, <2>1 DEF Normed
  <2>3. mode[d] = {Full(source, w, conj, shift, cfg.fixing, cfg.inversion, cfg.n)}
    BY <2>2, NumberChanges
  <2> QED
    BY <1>3, <2>3 DEF LoneNormed
<1> QED
  BY <1>5, <1>6

LEMMA RescaledWhole ==
  ASSUME NEW source, NEW w, NEW conj, NEW shift, NEW f, NEW i, cfg.small = cfg.n
  PROVE  Rescaled(Full(source, w, conj, shift, f, i, cfg.n)) = Full(source, w, conj, shift, f, i, cfg.n)
BY NumberChanges

LEMMA Exported ==
  ASSUME IInv, exported # <<>>, NEW c \in Cells(cfg.small),
         Below(WaveVector(c, cfg.small, FALSE), cfg.small)
  PROVE  /\ {x.z : x \in exported[c]} = {Rescaled(x) : x \in mode[Source(c)]}
         /\ Cardinality(exported[c]) = Cardinality(mode[Source(c)])
<1> DEFINE m == cfg.small
           n == cfg.n
           d == Source(c)
           E == exported[c]
<1>1. cfg \in Configs /\ n \in Nat \ {0} /\ AllAt("done") /\ 0 \in Ranks
  BY ConfigFacts DEF IInv, ExportHolds, Ranks
<1>2. m \in Nat \ {0} /\ m <= n
  BY <1>1 DEF IInv, ExportHolds, PartHolds
<1>3. /\ d \in Cells(n)
      /\ m = n => d = Untransposed(c)
      /\ \A s : {y \in PairedCells(s, m, n) : Untransposed(y) = c} =
                IF d[1] \in Own(s, n) THEN {Untransposed(c)} ELSE {}
      /\ PairedCell(Untransposed(c), m, n) = d
  BY <1>1, <1>2, SourceIs
<1> HIDE DEF d
<1>4. PICK t \in Ranks : d[1] \in Own(t, n) /\ LoneNormed(mode[d])
  BY <1>1, <1>3, HereIs
<1>5. CASE m = n /\ exported = Whole
  <2>1. E = {[by |-> Nowhere, z |-> x] : x \in mode[d]}
    <3>1. c \in Cells(n) /\ d = Untransposed(c)
      BY <1>3, <1>5
    <3>2. Whole[c] = {[by |-> Nowhere, z |-> x] : x \in mode[Untransposed(c)]}
      BY <3>1 DEF Whole
    <3> QED
      BY <1>5, <3>1, <3>2
  <2>2. CASE mode[d] = {}
    <3>1. E = {}
      BY <2>1, <2>2
    <3> HIDE DEF E
    <3> QED
      BY <2>2, <3>1, OneForOne DEF E, d
  <2>3. CASE mode[d] # {}
    <3>1. PICK source, w, conj, shift :
            mode[d] = {Full(source, w, conj, shift, cfg.fixing, cfg.inversion, n)}
      BY <1>4, <2>3 DEF LoneNormed
    <3> DEFINE x == Full(source, w, conj, shift, cfg.fixing, cfg.inversion, n)
    <3>2. Rescaled(x) = x
      BY <1>5, RescaledWhole
    <3> HIDE DEF x
    <3>3. mode[d] = {x} /\ E = {[by |-> Nowhere, z |-> Rescaled(x)]}
      BY <2>1, <3>1, <3>2 DEF x
    <3> HIDE DEF E
    <3>4. {y.z : y \in E} = {Rescaled(y) : y \in mode[d]} /\ Cardinality(E) = Cardinality(mode[d])
      BY <3>3, OneForOne
    <3> QED
      BY <3>4 DEF E, d
  <2> QED
    BY <2>2, <2>3
<1>6. CASE m < n /\ exported = Total /\ \A s \in Ranks : part[s] # <<>>
  <2>1. \A s \in Ranks : part[s][c] = IF s = t THEN {Rescaled(x) : x \in mode[d]} ELSE {}
    <3>1. SUFFICES ASSUME NEW s \in Ranks
                   PROVE  part[s][c] = IF s = t THEN {Rescaled(x) : x \in mode[d]} ELSE {}
      OBVIOUS
    <3>2. part[s] = SmallGrid(s)
      BY <1>6 DEF IInv, PartHolds
    <3> DEFINE f(y) == {Rescaled(x) : x \in mode[PairedCell(y, m, n)]}
    <3>3. part[s][c] = UNION {f(y) : y \in {z \in PairedCells(s, m, n) : Untransposed(z) = c}}
      BY <3>2 DEF SmallGrid
    <3>4. f(Untransposed(c)) = {Rescaled(x) : x \in mode[d]}
      BY <1>3
    <3>5. d[1] \in Own(s, n) <=> s = t
      BY <1>4, OwnerUnique
    <3> HIDE DEF f
    <3> QED
      BY <1>3, <3>3, <3>4, <3>5
  <2>2. E = {[by |-> t, z |-> x] : x \in {Rescaled(x) : x \in mode[d]}}
    <3> DEFINE g(s) == {[by |-> s, z |-> x] : x \in part[s][c]}
    <3>1. E = UNION {g(s) : s \in Ranks}
      BY <1>6 DEF Total
    <3>2. \A s \in Ranks : g(s) = IF s = t THEN {[by |-> t, z |-> x] : x \in {Rescaled(x) : x \in mode[d]}} ELSE {}
      BY <2>1
    <3> HIDE DEF g, E
    <3> QED
      BY <3>1, <3>2
  <2>3. CASE mode[d] = {}
    <3>1. E = {}
      BY <2>2, <2>3
    <3> HIDE DEF E
    <3> QED
      BY <2>3, <3>1, OneForOne DEF E, d
  <2>4. CASE mode[d] # {}
    <3>1. PICK x : mode[d] = {x}
      BY <1>4, <2>4 DEF LoneNormed
    <3>2. E = {[by |-> t, z |-> Rescaled(x)]}
      BY <2>2, <3>1
    <3> HIDE DEF E
    <3>3. {y.z : y \in E} = {Rescaled(y) : y \in mode[d]} /\ Cardinality(E) = Cardinality(mode[d])
      BY <3>1, <3>2, OneForOne
    <3> QED
      BY <3>3 DEF E, d
  <2> QED
    BY <2>3, <2>4
<1> QED
  BY <1>1, <1>5, <1>6 DEF IInv, ExportHolds

\* The noise that ic_generator.cc hands to FastDF, as a whole or as the sum
\* of the small grids of all ranks: every mode the neutrino grid resolves
\* holds the number the dark matter has there, once, from the one rank that
\* holds it, for any number of ranks, build and generator.
THEOREM ExportedIsLargeScale == Spec => []ExportIsLargeScale
<1>1. IInv => ExportIsLargeScale
  <2>1. SUFFICES ASSUME IInv, exported # <<>>, NEW c \in Cells(cfg.small),
                        Below(WaveVector(c, cfg.small, FALSE), cfg.small)
                 PROVE  /\ {x.z : x \in exported[c]} = {Rescaled(x) : x \in mode[Source(c)]}
                        /\ Cardinality(exported[c]) = Cardinality(mode[Source(c)])
    BY DEF ExportIsLargeScale, Source
  <2> QED
    BY <2>1, Exported
<1> QED
  BY <1>1, Invariant, PTL

-----------------------------------------------------------------------------
(***************************************************************************)
(* The seed table of NGENIC: that of a coarser grid is a part of that of   *)
(* the finest, with the upper half of the indices moved to its end.        *)
(***************************************************************************)
Index(n) == 0 .. n - 1
Entries(n) == Index(n) \X Index(n)
Phi(a, n) == IF a < n \div 2 THEN a ELSE a + MaxRes - n
PhiEntry(e, n) == <<Phi(e[1], n), Phi(e[2], n)>>
Corner(a, n) == IF a < n \div 2 THEN a ELSE n - 1 - a
Sides == {n \in 1 .. MaxRes : n % 2 = 0}

\* v is u on the finest grid; the entries of u are in ring i.
Fits(u, v, i, n) ==
  /\ u \in Seq(Entries(n)) /\ v \in Seq(Entries(MaxRes)) /\ Len(v) = Len(u)
  /\ \A x \in 1 .. Len(u) :
       /\ v[x] = PhiEntry(u[x], n)
       /\ Corner(u[x][1], n) = i \/ Corner(u[x][2], n) = i

LEMMA FitsJoin ==
  ASSUME NEW i, NEW n, NEW u1, NEW v1, NEW u2, NEW v2, Fits(u1, v1, i, n), Fits(u2, v2, i, n)
  PROVE  Fits(u1 \o u2, v1 \o v2, i, n)
<1> DEFINE E == Entries(n)
           F == Entries(MaxRes)
           u == u1 \o u2
           v == v1 \o v2
<1>1. /\ u1 \in Seq(E) /\ u2 \in Seq(E) /\ v1 \in Seq(F) /\ v2 \in Seq(F)
      /\ Len(v1) = Len(u1) /\ Len(v2) = Len(u2)
  BY DEF Fits
<1> HIDE DEF E, F
<1>2. /\ u \in Seq(E) /\ v \in Seq(F) /\ Len(u) = Len(u1) + Len(u2) /\ Len(v) = Len(u)
      /\ Len(u1) \in Nat /\ Len(u2) \in Nat
  BY <1>1, SMTT(30)
<1>3. ASSUME NEW x \in 1 .. Len(u)
      PROVE  /\ v[x] = PhiEntry(u[x], n)
             /\ Corner(u[x][1], n) = i \/ Corner(u[x][2], n) = i
  <2>1. CASE x <= Len(u1)
    <3>1. u[x] = u1[x] /\ v[x] = v1[x] /\ x \in 1 .. Len(u1)
      BY <1>1, <1>2, <2>1
    <3> HIDE DEF u, v
    <3> QED
      BY <3>1 DEF Fits
  <2>2. CASE x > Len(u1)
    <3>1. u[x] = u2[x - Len(u1)] /\ v[x] = v2[x - Len(u1)] /\ x - Len(u1) \in 1 .. Len(u2)
      BY <1>1, <1>2, <2>2
    <3> HIDE DEF u, v
    <3> QED
      BY <3>1 DEF Fits
  <2> QED
    BY <1>2, <2>1, <2>2
<1> HIDE DEF u, v
<1>4. Fits(u, v, i, n)
  BY <1>2, <1>3 DEF Fits, E, F
<1> QED
  BY <1>4 DEF u, v

LEMMA FitsList ==
  ASSUME NEW n \in Sides, NEW i, NEW k \in Nat, NEW u, NEW v,
         u = [x \in 1 .. k |-> u[x]], v = [x \in 1 .. k |-> v[x]],
         \A x \in 1 .. k :
           /\ u[x] \in Entries(n) /\ v[x] \in Entries(MaxRes) /\ v[x] = PhiEntry(u[x], n)
           /\ Corner(u[x][1], n) = i \/ Corner(u[x][2], n) = i
  PROVE  Fits(u, v, i, n)
<1> DEFINE E == Entries(n)
           F == Entries(MaxRes)
<1> HIDE DEF E, F
<1>1. u \in Seq(E) /\ Len(u) = k
  BY DEF E
<1>2. v \in Seq(F) /\ Len(v) = k
  BY DEF F
<1> QED
  BY <1>1, <1>2 DEF Fits, E, F

\* The eight sides of a ring.
Side1(i, n) == [x \in 1 .. i |-> <<i, x - 1>>]
Side2(i, n) == [x \in 1 .. i + 1 |-> <<x - 1, i>>]
Side3(i, n) == [x \in 1 .. i |-> <<n - 1 - i, x - 1>>]
Side4(i, n) == [x \in 1 .. i + 1 |-> <<n - x, i>>]
Side5(i, n) == [x \in 1 .. i |-> <<i, n - x>>]
Side6(i, n) == [x \in 1 .. i + 1 |-> <<x - 1, n - 1 - i>>]
Side7(i, n) == [x \in 1 .. i |-> <<n - 1 - i, n - x>>]
Side8(i, n) == [x \in 1 .. i + 1 |-> <<n - x, n - 1 - i>>]

LEMMA RingIs ==
  ASSUME NEW i \in Nat, NEW n \in Nat
  PROVE  Ring(i, n) = Side1(i, n) \o Side2(i, n) \o Side3(i, n) \o Side4(i, n)
                      \o Side5(i, n) \o Side6(i, n) \o Side7(i, n) \o Side8(i, n)
<1> DEFINE low(len) == [j \in 1 .. len |-> j - 1]
           row(r, s) == [x \in 1 .. Len(s) |-> <<r, s[x]>>]
           column(r, s) == [x \in 1 .. Len(s) |-> <<s[x], r>>]
           high(len) == [j \in 1 .. len |-> n - j]
           far == n - 1 - i
<1>1. \A k \in Nat : Len(low(k)) = k /\ Len(high(k)) = k
  OBVIOUS
<1>2. Len(low(i)) = i /\ Len(high(i)) = i /\ Len(low(i + 1)) = i + 1 /\ Len(high(i + 1)) = i + 1
  BY <1>1
<1>3. /\ row(i, low(i)) = Side1(i, n) /\ column(i, low(i + 1)) = Side2(i, n)
      /\ row(far, low(i)) = Side3(i, n) /\ column(i, high(i + 1)) = Side4(i, n)
      /\ row(i, high(i)) = Side5(i, n) /\ column(far, low(i + 1)) = Side6(i, n)
      /\ row(far, high(i)) = Side7(i, n) /\ column(far, high(i + 1)) = Side8(i, n)
  BY <1>2 DEF Side1, Side2, Side3, Side4, Side5, Side6, Side7, Side8
<1>4. Ring(i, n) = row(i, low(i)) \o column(i, low(i + 1)) \o row(far, low(i)) \o column(i, high(i + 1))
                   \o row(i, high(i)) \o column(far, low(i + 1)) \o row(far, high(i)) \o column(far, high(i + 1))
  BY DEF Ring
<1> HIDE DEF row, column, low, high, far
<1> QED
  BY <1>3, <1>4

LEMMA PhiFacts ==
  ASSUME NEW n \in Sides, NEW a \in Index(n)
  PROVE  /\ Phi(a, n) \in Index(MaxRes)
         /\ Corner(Phi(a, n), MaxRes) = Corner(a, n) /\ Corner(a, n) \in 0 .. n \div 2 - 1
         /\ \A b \in Index(n) : Phi(a, n) = Phi(b, n) => a = b
BY MaxResAssumption DEF Sides, Index, Phi, Corner

LEMMA RingFits ==
  ASSUME NEW n \in Sides, NEW i \in 0 .. n \div 2 - 1
  PROVE  Fits(Ring(i, n), Ring(i, MaxRes), i, n)
<1> DEFINE M == MaxRes
<1>1. n \in Nat /\ M \in Nat /\ i \in Nat /\ n % 2 = 0 /\ M % 2 = 0 /\ n <= M
  BY MaxResAssumption DEF Sides
<1>2. Fits(Side1(i, n), Side1(i, M), i, n)
  <2>1. \A x \in 1 .. i : /\ <<i, x - 1>> \in Entries(n) /\ <<i, x - 1>> \in Entries(M)
                          /\ PhiEntry(<<i, x - 1>>, n) = <<i, x - 1>> /\ Corner(i, n) = i
    BY <1>1 DEF Entries, Index, PhiEntry, Phi, Corner
  <2> QED
    BY <1>1, <2>1, FitsList DEF Side1
<1>3. Fits(Side2(i, n), Side2(i, M), i, n)
  <2>1. \A x \in 1 .. i + 1 : /\ <<x - 1, i>> \in Entries(n) /\ <<x - 1, i>> \in Entries(M)
                              /\ PhiEntry(<<x - 1, i>>, n) = <<x - 1, i>> /\ Corner(i, n) = i
    BY <1>1 DEF Entries, Index, PhiEntry, Phi, Corner
  <2> DEFINE k == i + 1
             u == Side2(i, n)
             v == Side2(i, M)
  <2>2. k \in Nat /\ u = [x \in 1 .. k |-> u[x]] /\ v = [x \in 1 .. k |-> v[x]]
    BY <1>1 DEF Side2
  <2>3. \A x \in 1 .. k :
          /\ u[x] \in Entries(n) /\ v[x] \in Entries(MaxRes) /\ v[x] = PhiEntry(u[x], n)
          /\ Corner(u[x][1], n) = i \/ Corner(u[x][2], n) = i
    BY <2>1 DEF Side2
  <2> HIDE DEF k, u, v
  <2>4. Fits(u, v, i, n)
    BY <2>2, <2>3, FitsList
  <2> QED
    BY <2>4 DEF u, v
<1>4. Fits(Side3(i, n), Side3(i, M), i, n)
  <2>1. \A x \in 1 .. i : /\ <<n - 1 - i, x - 1>> \in Entries(n) /\ <<M - 1 - i, x - 1>> \in Entries(M)
                          /\ PhiEntry(<<n - 1 - i, x - 1>>, n) = <<M - 1 - i, x - 1>>
                          /\ Corner(n - 1 - i, n) = i
    BY <1>1 DEF Entries, Index, PhiEntry, Phi, Corner
  <2> QED
    BY <1>1, <2>1, FitsList DEF Side3
<1>5. Fits(Side4(i, n), Side4(i, M), i, n)
  <2>1. \A x \in 1 .. i + 1 : /\ <<n - x, i>> \in Entries(n) /\ <<M - x, i>> \in Entries(M)
                              /\ PhiEntry(<<n - x, i>>, n) = <<M - x, i>> /\ Corner(i, n) = i
    BY <1>1 DEF Entries, Index, PhiEntry, Phi, Corner
  <2> DEFINE k == i + 1
             u == Side4(i, n)
             v == Side4(i, M)
  <2>2. k \in Nat /\ u = [x \in 1 .. k |-> u[x]] /\ v = [x \in 1 .. k |-> v[x]]
    BY <1>1 DEF Side4
  <2>3. \A x \in 1 .. k :
          /\ u[x] \in Entries(n) /\ v[x] \in Entries(MaxRes) /\ v[x] = PhiEntry(u[x], n)
          /\ Corner(u[x][1], n) = i \/ Corner(u[x][2], n) = i
    BY <2>1 DEF Side4
  <2> HIDE DEF k, u, v
  <2>4. Fits(u, v, i, n)
    BY <2>2, <2>3, FitsList
  <2> QED
    BY <2>4 DEF u, v
<1>6. Fits(Side5(i, n), Side5(i, M), i, n)
  <2>1. \A x \in 1 .. i : /\ <<i, n - x>> \in Entries(n) /\ <<i, M - x>> \in Entries(M)
                          /\ PhiEntry(<<i, n - x>>, n) = <<i, M - x>> /\ Corner(i, n) = i
    BY <1>1 DEF Entries, Index, PhiEntry, Phi, Corner
  <2> QED
    BY <1>1, <2>1, FitsList DEF Side5
<1>7. Fits(Side6(i, n), Side6(i, M), i, n)
  <2>1. \A x \in 1 .. i + 1 : /\ <<x - 1, n - 1 - i>> \in Entries(n) /\ <<x - 1, M - 1 - i>> \in Entries(M)
                              /\ PhiEntry(<<x - 1, n - 1 - i>>, n) = <<x - 1, M - 1 - i>>
                              /\ Corner(n - 1 - i, n) = i
    BY <1>1 DEF Entries, Index, PhiEntry, Phi, Corner
  <2> DEFINE k == i + 1
             u == Side6(i, n)
             v == Side6(i, M)
  <2>2. k \in Nat /\ u = [x \in 1 .. k |-> u[x]] /\ v = [x \in 1 .. k |-> v[x]]
    BY <1>1 DEF Side6
  <2>3. \A x \in 1 .. k :
          /\ u[x] \in Entries(n) /\ v[x] \in Entries(MaxRes) /\ v[x] = PhiEntry(u[x], n)
          /\ Corner(u[x][1], n) = i \/ Corner(u[x][2], n) = i
    BY <2>1 DEF Side6
  <2> HIDE DEF k, u, v
  <2>4. Fits(u, v, i, n)
    BY <2>2, <2>3, FitsList
  <2> QED
    BY <2>4 DEF u, v
<1>8. Fits(Side7(i, n), Side7(i, M), i, n)
  <2>1. \A x \in 1 .. i : /\ <<n - 1 - i, n - x>> \in Entries(n) /\ <<M - 1 - i, M - x>> \in Entries(M)
                          /\ PhiEntry(<<n - 1 - i, n - x>>, n) = <<M - 1 - i, M - x>>
                          /\ Corner(n - 1 - i, n) = i
    BY <1>1 DEF Entries, Index, PhiEntry, Phi, Corner
  <2> QED
    BY <1>1, <2>1, FitsList DEF Side7
<1>9. Fits(Side8(i, n), Side8(i, M), i, n)
  <2>1. \A x \in 1 .. i + 1 : /\ <<n - x, n - 1 - i>> \in Entries(n) /\ <<M - x, M - 1 - i>> \in Entries(M)
                              /\ PhiEntry(<<n - x, n - 1 - i>>, n) = <<M - x, M - 1 - i>>
                              /\ Corner(n - 1 - i, n) = i
    BY <1>1 DEF Entries, Index, PhiEntry, Phi, Corner
  <2> DEFINE k == i + 1
             u == Side8(i, n)
             v == Side8(i, M)
  <2>2. k \in Nat /\ u = [x \in 1 .. k |-> u[x]] /\ v = [x \in 1 .. k |-> v[x]]
    BY <1>1 DEF Side8
  <2>3. \A x \in 1 .. k :
          /\ u[x] \in Entries(n) /\ v[x] \in Entries(MaxRes) /\ v[x] = PhiEntry(u[x], n)
          /\ Corner(u[x][1], n) = i \/ Corner(u[x][2], n) = i
    BY <2>1 DEF Side8
  <2> HIDE DEF k, u, v
  <2>4. Fits(u, v, i, n)
    BY <2>2, <2>3, FitsList
  <2> QED
    BY <2>4 DEF u, v
<1> HIDE DEF M
<1>10. Fits(Side1(i, n) \o Side2(i, n) \o Side3(i, n) \o Side4(i, n)
            \o Side5(i, n) \o Side6(i, n) \o Side7(i, n) \o Side8(i, n),
            Side1(i, M) \o Side2(i, M) \o Side3(i, M) \o Side4(i, M)
            \o Side5(i, M) \o Side6(i, M) \o Side7(i, M) \o Side8(i, M), i, n)
  BY <1>2, <1>3, <1>4, <1>5, <1>6, <1>7, <1>8, <1>9, FitsJoin
<1> QED
  BY <1>1, <1>10, RingIs DEF M

\* The rings one after another.
IsFlat(f, n, top) ==
  f = [i \in 1 .. top |-> IF i = 1 THEN Ring(i - 1, n) ELSE f[i - 1] \o Ring(i - 1, n)]

LEMMA FlatExists ==
  ASSUME NEW n, NEW top \in Nat \ {0}
  PROVE  \E f : IsFlat(f, n, top)
<1> DEFINE U == {k \in 1 .. top : ~\E f : IsFlat(f, n, k)}
<1>1. SUFFICES ASSUME U # {} PROVE FALSE
  OBVIOUS
<1>2. PICK k \in U : \A m \in U : k <= m
  <2>1. U \subseteq Nat
    OBVIOUS
  <2> HIDE DEF U
  <2> QED
    BY <1>1, <2>1, LeastOf
<1>3. k \in 1 .. top /\ ~\E f : IsFlat(f, n, k)
  BY <1>2
<1>4. CASE k = 1
  <2> DEFINE g == [i \in 1 .. k |-> Ring(i - 1, n)]
  <2>1. IsFlat(g, n, k)
    BY <1>4 DEF IsFlat
  <2> QED
    BY <1>3, <2>1
<1>5. CASE k # 1
  <2>1. k - 1 \in 1 .. top /\ k - 1 \notin U
    BY <1>2, <1>3, <1>5
  <2>2. PICK f : IsFlat(f, n, k - 1)
    BY <2>1
  <2> DEFINE g == [i \in 1 .. k |-> IF i < k THEN f[i] ELSE f[k - 1] \o Ring(k - 1, n)]
  <2>3. \A i \in 1 .. k - 1 : f[i] = IF i = 1 THEN Ring(i - 1, n) ELSE f[i - 1] \o Ring(i - 1, n)
    BY <2>2 DEF IsFlat
  <2>4. \A i \in 1 .. k : g[i] = IF i = 1 THEN Ring(i - 1, n) ELSE g[i - 1] \o Ring(i - 1, n)
    <3>1. SUFFICES ASSUME NEW i \in 1 .. k
                   PROVE  g[i] = IF i = 1 THEN Ring(i - 1, n) ELSE g[i - 1] \o Ring(i - 1, n)
      OBVIOUS
    <3>2. i # 1 => g[i - 1] = f[i - 1]
      BY <1>3
    <3> QED
      BY <1>3, <1>5, <2>1, <2>3, <3>2
  <2>5. g = [i \in 1 .. k |-> g[i]]
    OBVIOUS
  <2> HIDE DEF g
  <2>6. IsFlat(g, n, k)
    BY <2>4, <2>5 DEF IsFlat
  <2> QED
    BY <1>3, <2>6
<1> QED
  BY <1>4, <1>5

LEMMA DrawnIs ==
  ASSUME NEW n \in Sides
  PROVE  \E f : IsFlat(f, n, n \div 2) /\ Drawn(n) = f[n \div 2]
<1> DEFINE h == n \div 2
           seqs == [i \in 1 .. h |-> Ring(i - 1, n)]
           IsTable(f) == f = [i \in 1 .. h |-> IF i = 1 THEN seqs[i] ELSE f[i - 1] \o seqs[i]]
           g == CHOOSE f : IsTable(f)
<1>1. h \in Nat \ {0} /\ Len(seqs) = h
  BY DEF Sides
<1>2. Drawn(n) = g[h]
  <2>1. Drawn(n) = FlattenSeq(seqs)
    BY DEF Drawn
  <2> HIDE DEF seqs
  <2> QED
    BY <1>1, <2>1 DEF FlattenSeq
<1>3. \A f : IsTable(f) <=> IsFlat(f, n, h)
  BY DEF IsFlat
<1>4. IsTable(g)
  <2> HIDE DEF h
  <2>1. \E f : IsFlat(f, n, h)
    BY <1>1, FlatExists
  <2> HIDE DEF IsTable
  <2> QED
    BY <1>3, <2>1
<1> HIDE DEF g, IsTable
<1> QED
  BY <1>2, <1>3, <1>4

\* The rings a coarser grid has are drawn first on the finest, and agree.
LEMMA PrefixFits ==
  ASSUME NEW n \in Sides, NEW f, NEW g, IsFlat(f, n, n \div 2), IsFlat(g, MaxRes, MaxRes \div 2),
         NEW k \in 1 .. n \div 2
  PROVE  /\ f[k] \in Seq(Entries(n)) /\ g[k] \in Seq(Entries(MaxRes)) /\ Len(g[k]) = Len(f[k])
         /\ \A x \in 1 .. Len(f[k]) : g[k][x] = PhiEntry(f[k][x], n)
<1> DEFINE E == Entries(n)
           F == Entries(MaxRes)
           h == n \div 2
           Agree(u, v) == /\ u \in Seq(E) /\ v \in Seq(F) /\ Len(v) = Len(u)
                          /\ \A x \in 1 .. Len(u) : v[x] = PhiEntry(u[x], n)
           U == {i \in 1 .. h : ~Agree(f[i], g[i])}
<1>1. SUFFICES ASSUME U # {} PROVE FALSE
  OBVIOUS
<1>2. PICK i \in U : \A m \in U : i <= m
  <2>1. U \subseteq Nat
    OBVIOUS
  <2> HIDE DEF U
  <2> QED
    BY <1>1, <2>1, LeastOf
<1>3. h \in Nat /\ i \in 1 .. h /\ i \in 1 .. MaxRes \div 2 /\ ~Agree(f[i], g[i])
  BY <1>2, MaxResAssumption DEF Sides
<1>4. Fits(Ring(i - 1, n), Ring(i - 1, MaxRes), i - 1, n)
  BY <1>3, RingFits
<1>5. Agree(Ring(i - 1, n), Ring(i - 1, MaxRes))
  BY <1>4 DEF Fits
<1>6. /\ f[i] = IF i = 1 THEN Ring(i - 1, n) ELSE f[i - 1] \o Ring(i - 1, n)
      /\ g[i] = IF i = 1 THEN Ring(i - 1, MaxRes) ELSE g[i - 1] \o Ring(i - 1, MaxRes)
  BY <1>3 DEF IsFlat
<1>7. CASE i = 1
  <2> HIDE DEF Agree
  <2> QED
    BY <1>3, <1>5, <1>6, <1>7
<1>8. CASE i # 1
  <2> DEFINE u1 == f[i - 1]
             v1 == g[i - 1]
             u2 == Ring(i - 1, n)
             v2 == Ring(i - 1, MaxRes)
             u == u1 \o u2
             v == v1 \o v2
  <2>1. Agree(u1, v1)
    <3>1. i - 1 \in 1 .. h /\ i - 1 \notin U
      BY <1>2, <1>3, <1>8
    <3> HIDE DEF Agree
    <3> QED
      BY <3>1
  <2>2. f[i] = u /\ g[i] = v /\ Agree(u2, v2)
    BY <1>5, <1>6, <1>8
  <2> HIDE DEF u1, v1, u2, v2, E, F
  <2>3. /\ u \in Seq(E) /\ v \in Seq(F) /\ Len(u) = Len(u1) + Len(u2) /\ Len(v) = Len(u)
        /\ Len(u1) \in Nat /\ Len(u2) \in Nat
    <3>1. /\ u1 \in Seq(E) /\ u2 \in Seq(E) /\ v1 \in Seq(F) /\ v2 \in Seq(F)
          /\ Len(v1) = Len(u1) /\ Len(v2) = Len(u2)
      BY <2>1, <2>2
    <3> HIDE DEF Agree
    <3> QED
      BY <3>1
  <2>4. ASSUME NEW x \in 1 .. Len(u)
        PROVE  v[x] = PhiEntry(u[x], n)
    <3>1. CASE x <= Len(u1)
      <4>1. u[x] = u1[x] /\ v[x] = v1[x] /\ x \in 1 .. Len(u1)
        BY <2>1, <2>2, <2>3, <3>1
      <4> HIDE DEF u, v
      <4> QED
        BY <2>1, <4>1
    <3>2. CASE x > Len(u1)
      <4>1. u[x] = u2[x - Len(u1)] /\ v[x] = v2[x - Len(u1)] /\ x - Len(u1) \in 1 .. Len(u2)
        BY <2>1, <2>2, <2>3, <3>2
      <4> HIDE DEF u, v
      <4> QED
        BY <2>2, <4>1
    <3> QED
      BY <2>3, <3>1, <3>2, SMTT(30)
  <2> HIDE DEF u, v
  <2>5. Agree(u, v)
    BY <2>3, <2>4
  <2> QED
    BY <1>3, <2>2, <2>5
<1> QED
  BY <1>7, <1>8

\* What is drawn after them lies in rings the coarser grid does not have.
LEMMA SuffixOutside ==
  ASSUME NEW n \in Sides, NEW g, IsFlat(g, MaxRes, MaxRes \div 2),
         g[n \div 2] \in Seq(Entries(MaxRes)), NEW k \in n \div 2 .. MaxRes \div 2
  PROVE  /\ g[k] \in Seq(Entries(MaxRes)) /\ Len(g[n \div 2]) <= Len(g[k])
         /\ \A x \in 1 .. Len(g[n \div 2]) : g[k][x] = g[n \div 2][x]
         /\ \A x \in 1 .. Len(g[k]) :
              x > Len(g[n \div 2]) =>
                Corner(g[k][x][1], MaxRes) >= n \div 2 \/ Corner(g[k][x][2], MaxRes) >= n \div 2
<1> DEFINE F == Entries(MaxRes)
           h == n \div 2
           w == g[h]
           Outside(e) == Corner(e[1], MaxRes) >= h \/ Corner(e[2], MaxRes) >= h
           Extends(v) == /\ v \in Seq(F) /\ Len(w) <= Len(v)
                         /\ \A x \in 1 .. Len(w) : v[x] = w[x]
                         /\ \A x \in 1 .. Len(v) : x > Len(w) => Outside(v[x])
           U == {i \in h .. MaxRes \div 2 : ~Extends(g[i])}
<1>1. SUFFICES ASSUME U # {} PROVE FALSE
  OBVIOUS
<1>2. h \in Nat \ {0} /\ MaxRes \div 2 \in Nat
  BY MaxResAssumption DEF Sides
<1>3. PICK i \in U : \A m \in U : i <= m
  <2>1. U \subseteq Nat
    BY <1>2
  <2> HIDE DEF U
  <2> QED
    BY <1>1, <2>1, LeastOf
<1>4. i \in h .. MaxRes \div 2 /\ ~Extends(g[i])
  BY <1>3
<1>5. i # h
  <2>1. Extends(w)
    <3> HIDE DEF w, F
    <3>1. w \in Seq(F) /\ Len(w) \in Nat
      BY DEF w, F
    <3> QED
      BY <3>1
  <2> HIDE DEF Extends
  <2> QED
    BY <1>4, <2>1
<1>6. i - 1 \in h .. MaxRes \div 2 /\ i - 1 \notin U /\ i - 1 \in 0 .. MaxRes \div 2 - 1
  BY <1>2, <1>3, <1>4, <1>5
<1> DEFINE v1 == g[i - 1]
           v2 == Ring(i - 1, MaxRes)
           v == v1 \o v2
<1>7. Extends(v1)
  <2> HIDE DEF Extends
  <2> QED
    BY <1>6
<1>8. g[i] = v
  <2>1. i \in 1 .. MaxRes \div 2 /\ i # 1
    BY <1>2, <1>4, <1>5
  <2>2. \A j \in 1 .. MaxRes \div 2 :
          g[j] = IF j = 1 THEN Ring(j - 1, MaxRes) ELSE g[j - 1] \o Ring(j - 1, MaxRes)
    BY DEF IsFlat
  <2> HIDE DEF U, Extends
  <2> QED
    BY <2>1, <2>2
<1>9. v2 \in Seq(F) /\ \A x \in 1 .. Len(v2) : Outside(v2[x])
  <2>1. MaxRes \in Sides
    BY MaxResAssumption DEF Sides
  <2>2. Fits(v2, v2, i - 1, MaxRes)
    BY <1>6, <2>1, RingFits
  <2> HIDE DEF v2
  <2> QED
    BY <1>6, <2>2 DEF Fits
<1> HIDE DEF v1, v2, F, w, Outside
<1>10. /\ v \in Seq(F) /\ Len(v) = Len(v1) + Len(v2) /\ Len(v1) \in Nat /\ Len(v2) \in Nat
       /\ Len(w) \in Nat
  BY <1>7, <1>9 DEF w, F
<1>11. ASSUME NEW x \in 1 .. Len(v)
       PROVE  v[x] = IF x <= Len(v1) THEN v1[x] ELSE v2[x - Len(v1)]
  BY <1>7, <1>9, <1>10
<1>12. \A x \in 1 .. Len(w) : v[x] = w[x]
  BY <1>7, <1>10, <1>11
<1>13. ASSUME NEW x \in 1 .. Len(v), x > Len(w) PROVE Outside(v[x])
  <2>1. CASE x <= Len(v1)
    <3>1. v[x] = v1[x] /\ x \in 1 .. Len(v1)
      BY <1>10, <1>11, <2>1
    <3> HIDE DEF v
    <3> QED
      BY <1>7, <1>13, <3>1
  <2>2. CASE x > Len(v1)
    <3>1. v[x] = v2[x - Len(v1)] /\ x - Len(v1) \in 1 .. Len(v2)
      BY <1>10, <1>11, <2>2
    <3> HIDE DEF v
    <3> QED
      BY <1>9, <3>1
  <2> QED
    BY <1>10, <2>1, <2>2
<1> HIDE DEF v
<1>14. Extends(v)
  BY <1>7, <1>10, <1>12, <1>13
<1> HIDE DEF Extends
<1> QED
  BY <1>4, <1>8, <1>14

\* An entry of the table is that of the finest table.
LEMMA SeedAgrees ==
  ASSUME NEW n \in Sides, NEW a \in Index(n), NEW b \in Index(n)
  PROVE  SeedTable[n][<<a, b>>] = SeedTable[MaxRes][<<Phi(a, n), Phi(b, n)>>]
<1> DEFINE M == MaxRes
           d == Drawn(n)
           D == Drawn(M)
           e == <<a, b>>
           z == <<Phi(a, n), Phi(b, n)>>
<1>1. M \in Sides
  BY MaxResAssumption DEF Sides
<1>2. PICK f : IsFlat(f, n, n \div 2) /\ d = f[n \div 2]
  BY DrawnIs
<1>3. PICK g : IsFlat(g, M, M \div 2) /\ D = g[M \div 2]
  BY <1>1, DrawnIs
<1>4. n \div 2 \in 1 .. n \div 2 /\ M \div 2 \in n \div 2 .. M \div 2 /\ n \in Nat
  BY MaxResAssumption DEF Sides
<1> DEFINE w == g[n \div 2]
<1>5. /\ d \in Seq(Entries(n)) /\ w \in Seq(Entries(M)) /\ Len(w) = Len(d)
      /\ \A x \in 1 .. Len(d) : w[x] = PhiEntry(d[x], n)
  BY <1>2, <1>3, <1>4, PrefixFits
<1>6. /\ D \in Seq(Entries(M)) /\ Len(w) <= Len(D)
      /\ \A x \in 1 .. Len(w) : D[x] = w[x]
      /\ \A x \in 1 .. Len(D) :
           x > Len(w) => Corner(D[x][1], M) >= n \div 2 \/ Corner(D[x][2], M) >= n \div 2
  <2> DEFINE k == M \div 2
  <2>1. k \in n \div 2 .. M \div 2 /\ D = g[k]
    BY <1>3, <1>4
  <2> HIDE DEF k
  <2> QED
    BY <1>3, <1>5, <2>1, SuffixOutside
<1> HIDE DEF d, D, w
<1>7. Len(d) \in Nat /\ Len(D) \in Nat
  BY <1>5, <1>6
<1>8. \A x : x \in 1 .. Len(d) /\ d[x] = e => x \in 1 .. Len(D) /\ D[x] = z
  BY <1>5, <1>6, <1>7 DEF PhiEntry
<1>9. \A x : x \in 1 .. Len(D) /\ D[x] = z => x \in 1 .. Len(d) /\ d[x] = e
  <2>1. SUFFICES ASSUME NEW x \in 1 .. Len(D), D[x] = z PROVE x \in 1 .. Len(d) /\ d[x] = e
    OBVIOUS
  <2>2. Corner(Phi(a, n), M) < n \div 2 /\ Corner(Phi(b, n), M) < n \div 2
    BY <1>4, PhiFacts
  <2>3. Corner(Phi(a, n), M) \in Int /\ Corner(Phi(b, n), M) \in Int /\ n \div 2 \in Int
    BY <1>4, PhiFacts
  <2>4. D[x][1] = Phi(a, n) /\ D[x][2] = Phi(b, n)
    BY <2>1
  <2>5. x \in 1 .. Len(d)
    BY <1>5, <1>6, <1>7, <2>1, <2>2, <2>3, <2>4
  <2>6. d[x] \in Entries(n) /\ z = PhiEntry(d[x], n)
    <3>1. x \in 1 .. Len(w)
      BY <1>5, <2>5
    <3>2. D[x] = w[x] /\ w[x] = PhiEntry(d[x], n)
      BY <1>5, <1>6, <2>5, <3>1
    <3>3. d[x] \in Entries(n)
      <4> DEFINE S == Entries(n)
      <4>1. d \in Seq(S)
        BY <1>5
      <4> HIDE DEF S
      <4>2. d[x] \in S
        BY <2>5, <4>1
      <4> QED
        BY <4>2 DEF S
    <3> HIDE DEF z
    <3> QED
      BY <2>1, <3>2, <3>3
  <2>7. d[x] = <<d[x][1], d[x][2]>> /\ d[x][1] \in Index(n) /\ d[x][2] \in Index(n)
    BY <2>6 DEF Entries
  <2>8. Phi(a, n) = Phi(d[x][1], n) /\ Phi(b, n) = Phi(d[x][2], n)
    BY <2>6 DEF PhiEntry
  <2> QED
    BY <2>5, <2>7, <2>8, PhiFacts
<1>10. (CHOOSE x \in 1 .. Len(d) : d[x] = e) = CHOOSE x \in 1 .. Len(D) : D[x] = z
  <2> HIDE DEF e, z
  <2> QED
    BY <1>8, <1>9
<1>11. SeedTable[n][e] = CHOOSE x \in 1 .. Len(d) : d[x] = e
  BY DEF SeedTable, Sides, Index, d
<1>12. SeedTable[M][z] = CHOOSE x \in 1 .. Len(D) : D[x] = z
  <2>1. z \in (0 .. M - 1) \X (0 .. M - 1)
    BY PhiFacts DEF Index
  <2> HIDE DEF z
  <2> QED
    BY <1>1, <2>1 DEF SeedTable, Sides, D
<1> QED
  BY <1>10, <1>11, <1>12

-----------------------------------------------------------------------------
(***************************************************************************)
(* NGENIC draws what is expected.                                          *)
(***************************************************************************)
LEMMA PhiWave ==
  ASSUME NEW n \in Sides, NEW a \in Index(n), a # n \div 2
  PROVE  (Wave(a, n) + MaxRes) % MaxRes = Phi(a, n)
<1> DEFINE z == Wave(a, n) + MaxRes
<1>1. MaxRes \in Nat \ {0} /\ n \in Nat /\ n % 2 = 0 /\ n <= MaxRes /\ a \in 0 .. n - 1
  BY MaxResAssumption DEF Sides, Index
<1>2. Phi(a, n) \in 0 .. MaxRes - 1
  BY PhiFacts DEF Index
<1>3. z \in Int /\ (z = 0 * MaxRes + Phi(a, n) \/ z = 1 * MaxRes + Phi(a, n))
  BY <1>1 DEF Wave, Phi
<1> DEFINE k == Phi(a, n)
           m == MaxRes
<1>4. m \in Nat \ {0} /\ k \in 0 .. m - 1 /\ z \in Int /\ (z = k \/ z = m + k)
  BY <1>1, <1>2, <1>3
<1> HIDE DEF z, k, m
<1>5. z % m = k
  <2>1. z = 0 * m + k \/ z = 1 * m + k
    BY <1>4
  <2> QED
    BY <1>4, <2>1, ModIs
<1> QED
  BY <1>5 DEF z, k, m

LEMMA FinestSeedIs ==
  ASSUME NEW n \in Sides, NEW a \in Index(n), NEW b \in Index(n), n \div 2 \notin {a, b}
  PROVE  FinestSeed(Wave(a, n), Wave(b, n)) = SeedTable[n][<<a, b>>]
BY PhiWave, SeedAgrees DEF FinestSeed

LEMMA BelowTriple ==
  ASSUME NEW a, NEW b, NEW c, NEW n, Below(<<a, b, c>>, n)
  PROVE  2 * a < n /\ -2 * a < n /\ 2 * b < n /\ -2 * b < n /\ 2 * c < n /\ -2 * c < n
<1> DEFINE w == <<a, b, c>>
<1>1. \A d \in {1, 2, 3} : 2 * w[d] < n /\ -2 * w[d] < n
  BY DEF Below
<1>2. w[1] = a /\ w[2] = b /\ w[3] = c
  OBVIOUS
<1> HIDE DEF w
<1> QED
  BY <1>1, <1>2

LEMMA TripleBelow ==
  ASSUME NEW a, NEW b, NEW c, NEW n,
         2 * a < n, -2 * a < n, 2 * b < n, -2 * b < n, 2 * c < n, -2 * c < n
  PROVE  Below(<<a, b, c>>, n)
<1> DEFINE w == <<a, b, c>>
<1>1. w[1] = a /\ w[2] = b /\ w[3] = c
  OBVIOUS
<1> HIDE DEF w
<1>2. \A d \in {1, 2, 3} : 2 * w[d] < n /\ -2 * w[d] < n
  BY <1>1
<1>3. \A d \in 1 .. 3 : d \in {1, 2, 3}
  OBVIOUS
<1> QED
  BY <1>2, <1>3 DEF Below, w

LEMMA NgenicExpected ==
  ASSUME cfg \in Configs, cfg.generator = "NGENIC", NEW c \in Cells(cfg.n)
  PROVE  NgenicDrawn(c) = Expected(WaveVector(c, cfg.n, cfg.mpi))
<1> DEFINE n == cfg.n
           half == n \div 2
           f == IF cfg.mpi THEN c[2] ELSE c[1]
           s == IF cfg.mpi THEN c[1] ELSE c[2]
           w1 == Wave(f, n)
           w2 == Wave(s, n)
           w3 == c[3]
           w == WaveVector(c, n, cfg.mpi)
<1>1. n \in Nat \ {0} /\ n % 2 = 0 /\ n <= MaxRes /\ cfg.mpi \in BOOLEAN /\ n \in Sides
  BY ConfigFacts, MaxResAssumption DEF Sides
<1>2. /\ c = <<c[1], c[2], c[3]>> /\ c[1] \in Index(n) /\ c[2] \in Index(n)
      /\ f \in Index(n) /\ s \in Index(n) /\ w3 \in 0 .. half
  BY <1>1, CellFacts DEF Index
<1>3. w = <<w1, w2, w3>>
  BY DEF WaveVector
<1>4. SeedOf(c[1], c[2]) = SeedTable[n][<<f, s>>]
  BY DEF SeedOf
<1>5. SeedOf(Mirror(c[1]), Mirror(c[2])) = SeedTable[n][<<Mirror(f), Mirror(s)>>]
  BY DEF SeedOf
<1>6. half \in {c[1], c[2], c[3]} <=> half \in {f, s, w3}
  OBVIOUS
<1>7. c = <<0, 0, 0>> <=> f = 0 /\ s = 0 /\ w3 = 0
  BY <1>2
<1>8. IsDrawn(c[1], c[2]) <=> IF f = 0 THEN s < half ELSE f < half
  BY DEF IsDrawn
<1> HIDE DEF f, s
<1>9. /\ w1 \in Int /\ -n < 2 * w1 /\ 2 * w1 <= n /\ w2 \in Int /\ -n < 2 * w2 /\ 2 * w2 <= n
      /\ 2 * w1 = n <=> f = half
      /\ 2 * w2 = n <=> s = half
      /\ w1 = 0 <=> f = 0
      /\ w2 = 0 <=> s = 0
      /\ f # half => (w1 > 0 <=> f # 0 /\ f < half)
      /\ s # half => (w2 > 0 <=> s # 0 /\ s < half)
  BY <1>1, <1>2 DEF Wave, Index
<1>10. w[1] = w1 /\ w[2] = w2 /\ w[3] = w3
  BY <1>3
<1>11. Expected(w) =
         IF w = <<0, 0, 0>> \/ ~Below(w, n) THEN {}
         ELSE IF w3 > 0 \/ w1 > 0 \/ (w1 = 0 /\ w2 > 0)
         THEN {Number("NGENIC", <<FinestSeed(w1, w2), w3>>, FALSE, 0)}
         ELSE {Number("NGENIC", <<FinestSeed(-w1, -w2), 0>>, TRUE, 0)}
  <2> HIDE DEF w, w1, w2, w3
  <2> QED
    BY <1>10 DEF Expected
<1>12. w = <<0, 0, 0>> <=> f = 0 /\ s = 0 /\ w3 = 0
  <2> HIDE DEF w, w1, w2, w3
  <2> QED
    BY <1>3, <1>9
<1>13. Below(w, n) <=> half \notin {f, s, w3}
  <2> HIDE DEF w, w1, w2, w3
  <2>1. ASSUME Below(w, n) PROVE half \notin {f, s, w3}
    <3>1. 2 * w1 < n /\ 2 * w2 < n /\ 2 * w3 < n
      BY <1>3, <2>1, BelowTriple
    <3> QED
      BY <1>1, <1>2, <1>9, <3>1
  <2>2. ASSUME half \notin {f, s, w3} PROVE Below(w, n)
    <3>1. 2 * w1 < n /\ -2 * w1 < n /\ 2 * w2 < n /\ -2 * w2 < n /\ 2 * w3 < n /\ -2 * w3 < n
      BY <1>1, <1>2, <1>9, <2>2
    <3> QED
      BY <1>3, <3>1, TripleBelow
  <2> QED
    BY <2>1, <2>2
<1> HIDE DEF w, w3
<1>14. CASE half \in {f, s, w3} \/ (f = 0 /\ s = 0 /\ w3 = 0)
  <2>1. Expected(w) = {}
    BY <1>11, <1>12, <1>13, <1>14
  <2>2. NgenicDrawn(c) = {}
    BY <1>6, <1>7, <1>14 DEF NgenicDrawn
  <2> QED
    BY <2>1, <2>2 DEF w
<1>15. CASE ~(half \in {f, s, w3} \/ (f = 0 /\ s = 0 /\ w3 = 0))
  <2>1. NgenicDrawn(c) =
          IF w3 > 0 \/ IsDrawn(c[1], c[2])
          THEN {Number("NGENIC", <<SeedOf(c[1], c[2]), w3>>, FALSE, 0)}
          ELSE {Number("NGENIC", <<SeedOf(Mirror(c[1]), Mirror(c[2])), 0>>, TRUE, 0)}
    BY <1>6, <1>7, <1>15 DEF NgenicDrawn, w3
  <2>2. FinestSeed(w1, w2) = SeedOf(c[1], c[2])
    BY <1>1, <1>2, <1>4, <1>15, FinestSeedIs
  <2>3. FinestSeed(-w1, -w2) = SeedOf(Mirror(c[1]), Mirror(c[2]))
    <3>1. /\ Mirror(f) \in Index(n) /\ Mirror(s) \in Index(n) /\ half \notin {Mirror(f), Mirror(s)}
          /\ Wave(Mirror(f), n) = -w1 /\ Wave(Mirror(s), n) = -w2
      BY <1>2, <1>15, MirrorFacts DEF Index
    <3>2. FinestSeed(Wave(Mirror(f), n), Wave(Mirror(s), n)) = SeedTable[n][<<Mirror(f), Mirror(s)>>]
      BY <1>1, <3>1, FinestSeedIs
    <3> HIDE DEF w1, w2
    <3> QED
      BY <1>5, <3>1, <3>2
  <2>4. w3 > 0 \/ ((w1 > 0 \/ (w1 = 0 /\ w2 > 0)) <=> IsDrawn(c[1], c[2]))
    <3> HIDE DEF w1, w2
    <3>1. w3 \in Nat /\ f \in Nat /\ s \in Nat
      BY <1>2 DEF w3, Index
    <3> QED
      BY <1>8, <1>9, <1>15, <3>1
  <2>5. Expected(w) =
          IF w3 > 0 \/ w1 > 0 \/ (w1 = 0 /\ w2 > 0)
          THEN {Number("NGENIC", <<SeedOf(c[1], c[2]), w3>>, FALSE, 0)}
          ELSE {Number("NGENIC", <<SeedOf(Mirror(c[1]), Mirror(c[2])), 0>>, TRUE, 0)}
    <3> HIDE DEF w1, w2
    <3> QED
      BY <1>11, <1>12, <1>13, <1>15, <2>2, <2>3
  <2> HIDE DEF w1, w2
  <2>6. NgenicDrawn(c) = Expected(w)
    BY <2>1, <2>4, <2>5
  <2> QED
    BY <2>6 DEF w
<1> QED
  BY <1>14, <1>15

-----------------------------------------------------------------------------
(***************************************************************************)
(* The sides of the levels.                                                *)
(***************************************************************************)
IsSide(u, n) == u = [l \in 0 .. n |-> IF l = 0 THEN 1 ELSE 2 * u[l - 1]]

LEMMA IsSideExists ==
  ASSUME NEW n \in Nat
  PROVE  \E u : IsSide(u, n)
<1> DEFINE U == {k \in Nat : ~\E u : IsSide(u, k)}
<1>1. SUFFICES ASSUME U # {} PROVE FALSE
  OBVIOUS
<1>2. PICK k \in U : \A m \in U : k <= m
  <2>1. U \subseteq Nat
    OBVIOUS
  <2> HIDE DEF U
  <2> QED
    BY <1>1, <2>1, LeastOf
<1>3. k \in Nat /\ ~\E u : IsSide(u, k)
  BY <1>2
<1>4. CASE k = 0
  <2> DEFINE v == [l \in 0 .. 0 |-> 1]
  <2>1. IsSide(v, 0)
    BY DEF IsSide
  <2> QED
    BY <1>3, <1>4, <2>1
<1>5. CASE k # 0
  <2>1. k - 1 \in Nat /\ k - 1 \notin U
    BY <1>2, <1>3, <1>5
  <2>2. PICK u : IsSide(u, k - 1)
    BY <2>1
  <2> DEFINE v == [l \in 0 .. k |-> IF l < k THEN u[l] ELSE 2 * u[k - 1]]
  <2>3. \A l \in 0 .. k - 1 : u[l] = IF l = 0 THEN 1 ELSE 2 * u[l - 1]
    BY <2>2 DEF IsSide
  <2>4. \A l \in 0 .. k : v[l] = IF l = 0 THEN 1 ELSE 2 * v[l - 1]
    <3>1. SUFFICES ASSUME NEW l \in 0 .. k PROVE v[l] = IF l = 0 THEN 1 ELSE 2 * v[l - 1]
      OBVIOUS
    <3>2. l # 0 => v[l - 1] = u[l - 1]
      BY <1>3
    <3> QED
      BY <1>3, <1>5, <2>1, <2>3, <3>2
  <2>5. v = [l \in 0 .. k |-> v[l]]
    OBVIOUS
  <2> HIDE DEF v
  <2>6. IsSide(v, k)
    BY <2>4, <2>5 DEF IsSide
  <2> QED
    BY <1>3, <2>6
<1> QED
  BY <1>4, <1>5

LEMMA IsSideUnique ==
  ASSUME NEW n \in Nat, NEW m \in Nat, NEW u, NEW v, IsSide(u, n), IsSide(v, m),
         NEW l \in Nat, l <= n, l <= m
  PROVE  u[l] = v[l]
<1> DEFINE U == {k \in 0 .. l : u[k] # v[k]}
<1>1. SUFFICES ASSUME U # {} PROVE FALSE
  OBVIOUS
<1>2. PICK k \in U : \A j \in U : k <= j
  <2>1. U \subseteq Nat
    OBVIOUS
  <2> HIDE DEF U
  <2> QED
    BY <1>1, <2>1, LeastOf
<1>3. /\ k \in 0 .. l /\ k \in 0 .. n /\ k \in 0 .. m /\ u[k] # v[k]
      /\ k # 0 => u[k - 1] = v[k - 1]
  BY <1>2
<1>4. /\ u[k] = IF k = 0 THEN 1 ELSE 2 * u[k - 1]
      /\ v[k] = IF k = 0 THEN 1 ELSE 2 * v[k - 1]
  BY <1>3 DEF IsSide
<1> QED
  BY <1>3, <1>4

LEMMA SideIs == Side[0] = 1 /\ \A l \in Nat : Side[l + 1] = 2 * Side[l]
<1> DEFINE table(n) == CHOOSE u : IsSide(u, n)
           f == [l \in Nat |-> table(l)[l]]
           IsTable(g) == g = [l \in Nat |-> IF l = 0 THEN 1 ELSE 2 * g[l - 1]]
<1>1. \A n \in Nat : IsSide(table(n), n)
  BY IsSideExists
<1> HIDE DEF table
<1>2. IsTable(f)
  <2>1. ASSUME NEW l \in Nat PROVE f[l] = IF l = 0 THEN 1 ELSE 2 * f[l - 1]
    <3>1. table(l)[l] = IF l = 0 THEN 1 ELSE 2 * table(l)[l - 1]
      BY <1>1 DEF IsSide
    <3>2. CASE l = 0
      BY <3>1, <3>2
    <3>3. CASE l # 0
      <4>1. l - 1 \in Nat /\ l - 1 <= l
        BY <3>3
      <4>2. table(l)[l - 1] = table(l - 1)[l - 1]
        BY <1>1, <4>1, IsSideUnique
      <4> QED
        BY <3>1, <3>3, <4>1, <4>2
    <3> QED
      BY <3>2, <3>3
  <2>2. f = [l \in Nat |-> f[l]]
    OBVIOUS
  <2> HIDE DEF f
  <2> QED
    BY <2>1, <2>2
<1>3. IsTable(Side)
  <2>1. Side = CHOOSE g : IsTable(g)
    BY DEF Side
  <2> HIDE DEF IsTable
  <2> QED
    BY <1>2, <2>1
<1>4. \A l \in Nat : Side[l] = IF l = 0 THEN 1 ELSE 2 * Side[l - 1]
  BY <1>3
<1>5. ASSUME NEW l \in Nat PROVE Side[l + 1] = 2 * Side[l]
  <2>1. l + 1 \in Nat /\ l + 1 # 0 /\ (l + 1) - 1 = l
    OBVIOUS
  <2>2. Side[l + 1] = 2 * Side[(l + 1) - 1]
    BY <1>4, <2>1
  <2> QED
    BY <2>1, <2>2
<1> QED
  BY <1>4, <1>5

LEMMA SideGrows ==
  ASSUME NEW l \in Nat
  PROVE  Side[l] \in Nat \ {0} /\ Side[l] > l
<1> DEFINE U == {k \in Nat : ~(Side[k] \in Nat \ {0} /\ Side[k] > k)}
<1>1. SUFFICES ASSUME U # {} PROVE FALSE
  OBVIOUS
<1>2. PICK k \in U : \A j \in U : k <= j
  <2>1. U \subseteq Nat
    OBVIOUS
  <2> HIDE DEF U
  <2> QED
    BY <1>1, <2>1, LeastOf
<1>3. CASE k = 0
  BY <1>2, <1>3, SideIs
<1>4. CASE k # 0
  <2> DEFINE j == k - 1
  <2>1. j \in Nat /\ j \notin U /\ k = j + 1
    BY <1>2, <1>4
  <2>2. Side[j] \in Nat \ {0} /\ Side[j] > j
    BY <2>1
  <2> HIDE DEF j
  <2>3. Side[j + 1] = 2 * Side[j]
    BY <2>1, SideIs
  <2> QED
    BY <1>2, <2>1, <2>2, <2>3
<1> QED
  BY <1>3, <1>4

LEMMA SideMonotone ==
  ASSUME NEW l \in Nat, NEW k \in Nat, l <= k
  PROVE  Side[l] <= Side[k]
<1> DEFINE U == {j \in Nat : l <= j /\ ~(Side[l] <= Side[j])}
<1>1. SUFFICES ASSUME U # {} PROVE FALSE
  OBVIOUS
<1>2. PICK j \in U : \A i \in U : j <= i
  <2>1. U \subseteq Nat
    OBVIOUS
  <2> HIDE DEF U
  <2> QED
    BY <1>1, <2>1, LeastOf
<1>3. j # l
  BY <1>2, SideGrows
<1> DEFINE i == j - 1
<1>4. i \in Nat /\ i \notin U /\ l <= i /\ j = i + 1
  BY <1>2, <1>3
<1>5. Side[l] <= Side[i]
  BY <1>4
<1> HIDE DEF i
<1>6. Side[i + 1] = 2 * Side[i] /\ Side[i] \in Nat /\ Side[l] \in Nat
  BY <1>4, SideIs, SideGrows
<1> QED
  BY <1>2, <1>4, <1>5, <1>6

-----------------------------------------------------------------------------
(***************************************************************************)
(* MUSIC1 draws what is expected.                                          *)
(***************************************************************************)
\* The levels between the one with a seed and the grid of the run.
Between == (levelmin_seed .. levelmin) \cup (levelmin .. levelmin_seed)

\* Cubes tile every level, and its cells are measured in whole units.
Tiled(l) == Side[l] % CubeSize(Side[l]) = 0 /\ MaxRes % Side[l] = 0

\* Cubes that tile a level do not repeat noise.
LEMMA CubesTile ==
  ASSUME cfg \in Configs, NEW res \in Nat \ {0}, res % CubeSize(res) = 0,
         NEW i \in 0 .. res - 1, NEW j \in 0 .. res - 1, CubeCell(i, res) = CubeCell(j, res)
  PROVE  i = j
<1> DEFINE C == CubeSize(res)
           N == res \div C
<1>1. C \in Nat \ {0} /\ C <= res
  BY ConfigFacts DEF CubeSize
<1> HIDE DEF C
<1>2. N \in Nat \ {0} /\ N * C = res
  <2>1. N \in Int /\ res = N * C + (res % C) /\ N * C \in Int
    BY <1>1, DivMod
  <2>2. N * C = res
    BY <2>1 DEF C
  <2> HIDE DEF N
  <2>3. N > 0
    <3>1. SUFFICES ASSUME N <= 0 PROVE FALSE
      BY <2>1
    <3>2. N * C <= 0 * C
      BY <1>1, <2>1, <3>1, TimesMonotone
    <3> QED
      BY <1>1, <2>2, <3>2
  <2> QED
    BY <2>1, <2>2, <2>3
<1>3. NumCubes(res) = N
  BY DEF NumCubes, C
<1> HIDE DEF N
<1>4. ASSUME NEW a \in 0 .. res - 1
      PROVE  /\ CubeCell(a, res) = <<a \div C, a % C>>
             /\ a = (a \div C) * C + (a % C)
  <2> DEFINE q == a \div C
             r == a % C
             cube == (q + N) % N
             x == a - q * C + C
  <2>1. q \in Int /\ r \in 0 .. C - 1 /\ q * C \in Int /\ a = q * C + r
    BY <1>1, DivMod
  <2> HIDE DEF q, r
  <2>2. q >= 0
    <3>1. SUFFICES ASSUME q + 1 <= 0 PROVE FALSE
      BY <2>1
    <3>2. (q + 1) * C <= 0 * C
      BY <1>1, <2>1, <3>1, TimesMonotone
    <3> QED
      BY <1>1, <2>1, <3>2, TimesNext
  <2>3. q < N
    <3>1. SUFFICES ASSUME N <= q PROVE FALSE
      BY <1>2, <2>1
    <3>2. N * C <= q * C
      BY <1>1, <1>2, <2>1, <3>1, TimesMonotone
    <3> QED
      BY <1>1, <1>2, <2>1, <3>2
  <2>4. cube = q
    <3>1. q + N = 1 * N + q /\ q \in 0 .. N - 1 /\ q + N \in Int
      BY <1>2, <2>1, <2>2, <2>3
    <3> QED
      BY <1>2, <3>1, ModIs, SMTT(30)
  <2>5. x % C = r
    <3>1. x = 1 * C + r /\ x \in Int
      BY <1>1, <2>1
    <3> HIDE DEF x
    <3> QED
      BY <1>1, <2>1, <3>1, ModIs
  <2>6. CubeCell(a, res) = <<cube, (a - cube * C + C) % C>>
    BY <1>3 DEF CubeCell, C, q
  <2> HIDE DEF cube
  <2>7. CubeCell(a, res) = <<q, r>>
    BY <2>4, <2>5, <2>6
  <2> QED
    BY <2>1, <2>7 DEF q, r
<1>5. i \div C = j \div C /\ i % C = j % C
  BY <1>4
<1> QED
  BY <1>4, <1>5

LEMMA DrawnTiled ==
  ASSUME cfg \in Configs, NEW l \in Nat, Tiled(l), NEW w
  PROVE  DrawnLevel(l, w) = Number(Cubes(l), w, FALSE, 0)
<1> DEFINE res == Side[l]
<1>1. res \in Nat \ {0}
  BY SideGrows
<1>2. ~ \E i, j \in 0 .. res - 1 : i # j /\ CubeCell(i, res) = CubeCell(j, res)
  BY <1>1, CubesTile DEF Tiled
<1> QED
  BY <1>2 DEF DrawnLevel

\* Twice the number of units in a cell, and how it changes with the level.
Units(l) == (2 * MaxRes) \div Side[l]

LEMMA UnitsFacts ==
  ASSUME NEW l \in Nat, Tiled(l)
  PROVE  Units(l) \in Int /\ Units(l + 1) \in Int /\ QuarterCell(l) \in Int
         /\ Units(l) - Units(l + 1) = QuarterCell(l)
<1> DEFINE S == Side[l]
           M == MaxRes
           q == M \div S
<1>1. S \in Nat \ {0} /\ M \in Nat \ {0} /\ M % S = 0 /\ Side[l + 1] = 2 * S
  BY SideGrows, SideIs, MaxResAssumption DEF Tiled
<1> HIDE DEF S, M
<1>2. q \in Int /\ q * S \in Int /\ M = q * S
  BY <1>1, DivMod
<1> HIDE DEF q
<1>3. 2 * M = (2 * q) * S + 0 /\ 2 * q \in Int /\ 2 * M \in Int
  BY <1>1, <1>2
<1>4. (2 * M) \div S = 2 * q
  <2> DEFINE a == 2 * M
             b == 2 * q
  <2>1. a \in Int /\ b \in Int /\ a = b * S + 0 /\ 0 \in 0 .. S - 1
    BY <1>1, <1>3
  <2> HIDE DEF a, b
  <2>2. a \div S = b
    BY <1>1, <2>1, ModIs
  <2> QED
    BY <2>2 DEF a, b
<1>5. (2 * M) \div (2 * S) = q
  <2> DEFINE a == 2 * M
             b == 2 * S
  <2>1. a \in Int /\ b \in Nat \ {0} /\ a = q * b + 0 /\ 0 \in 0 .. b - 1
    BY <1>1, <1>2
  <2> HIDE DEF a, b
  <2>2. a \div b = q
    BY <1>2, <2>1, ModIs
  <2> QED
    BY <2>2 DEF a, b
<1>6. Units(l) = 2 * q /\ Units(l + 1) = q /\ QuarterCell(l) = q
  BY <1>1, <1>4, <1>5 DEF Units, QuarterCell, S, M, q
<1> QED
  BY <1>2, <1>6

LEMMA BelowMonotone ==
  ASSUME NEW w, \A d \in 1 .. 3 : w[d] \in Int, NEW l \in Nat, NEW k \in Nat, l <= k,
         Below(w, Side[l])
  PROVE  Below(w, Side[k])
<1> DEFINE a == Side[l]
           b == Side[k]
<1>1. a \in Nat /\ b \in Nat /\ a <= b
  BY SideGrows, SideMonotone
<1> HIDE DEF a, b
<1>2. \A d \in 1 .. 3 : 2 * w[d] < a /\ -2 * w[d] < a
  BY DEF Below, a
<1>3. \A d \in 1 .. 3 : 2 * w[d] < b /\ -2 * w[d] < b
  BY <1>1, <1>2
<1> QED
  BY <1>3 DEF Below, b

MusicNumber(k, w, l) == Number(Cubes(k), w, FALSE, Units(l) - Units(k))

LEMMA MusicMoved ==
  ASSUME NEW k, NEW w, NEW l \in Nat, Tiled(l), Units(k) \in Int
  PROVE  /\ Moved(MusicNumber(k, w, l), -QuarterCell(l)) = MusicNumber(k, w, l + 1)
         /\ Moved(MusicNumber(k, w, l + 1), QuarterCell(l)) = MusicNumber(k, w, l)
<1> DEFINE q == QuarterCell(l)
           a == Units(l)
           b == Units(l + 1)
           c == Units(k)
<1>1. a \in Int /\ b \in Int /\ c \in Int /\ q \in Int /\ a - b = q
  BY UnitsFacts
<1> HIDE DEF a, b, c, q
<1>2. (a - c) + (-q) = b - c /\ (b - c) + q = a - c
  BY <1>1
<1>3. ASSUME NEW x, NEW y PROVE Moved(Number(Cubes(k), w, FALSE, x), y) = Number(Cubes(k), w, FALSE, x + y)
  <2> DEFINE source == Cubes(k)
             conj == FALSE
  <2> HIDE DEF source, conj
  <2>1. Moved(Number(source, w, conj, x), y) = Number(source, w, conj, x + y)
    BY MovedNumber
  <2> QED
    BY <2>1 DEF source, conj
<1>4. /\ Moved(Number(Cubes(k), w, FALSE, a - c), -q) = Number(Cubes(k), w, FALSE, (a - c) + (-q))
      /\ Moved(Number(Cubes(k), w, FALSE, b - c), q) = Number(Cubes(k), w, FALSE, (b - c) + q)
  BY <1>3
<1> QED
  BY <1>2, <1>4 DEF MusicNumber, a, b, c, q

LEMMA MusicDrawn ==
  ASSUME cfg \in Configs, NEW l \in Nat, Tiled(l), NEW w
  PROVE  DrawnLevel(l, w) = MusicNumber(l, w, l)
<1>1. Units(l) - Units(l) = 0
  BY UnitsFacts
<1> QED
  BY <1>1, DrawnTiled DEF MusicNumber

\* On the way up a mode is that of the coarsest level that resolves it.
LEMMA MusicUp ==
  ASSUME cfg \in Configs, NEW w, \A d \in 1 .. 3 : w[d] \in Int,
         levelmin_seed \in Nat, levelmin \in Nat, levelmin_seed <= levelmin,
         \A l \in levelmin_seed .. levelmin : Tiled(l),
         NEW u, IsUp(u, w, levelmin), NEW l \in levelmin_seed .. levelmin
  PROVE  \E k \in levelmin_seed .. l :
           /\ u[l] = MusicNumber(k, w, l)
           /\ k = l \/ Below(w, Side[k])
           /\ \A j \in levelmin_seed .. k - 1 : ~Below(w, Side[j])
<1> DEFINE a == levelmin_seed
           z == levelmin
           Found(i, k) == /\ u[i] = MusicNumber(k, w, i)
                          /\ k = i \/ Below(w, Side[k])
                          /\ \A j \in a .. k - 1 : ~Below(w, Side[j])
           U == {i \in a .. z : ~\E k \in a .. i : Found(i, k)}
<1> SUFFICES ASSUME U # {} PROVE FALSE
  OBVIOUS
<1>1. PICK i \in U : \A m \in U : i <= m
  <2>1. U \subseteq Nat
    OBVIOUS
  <2> HIDE DEF U
  <2> QED
    BY <2>1, LeastOf
<1>2. /\ i \in a .. z /\ i \in Nat /\ Tiled(i) /\ ~\E k \in a .. i : Found(i, k)
      /\ u[i] = IF i = a THEN DrawnLevel(i, w) ELSE Refined(u[i - 1], i - 1, w)
  BY <1>1 DEF IsUp
<1>3. CASE i = a
  <2>1. u[i] = MusicNumber(i, w, i)
    BY <1>2, <1>3, MusicDrawn
  <2>2. Found(i, i) /\ i \in a .. i
    BY <1>2, <1>3, <2>1
  <2> HIDE DEF Found
  <2> QED
    BY <1>2, <2>2
<1>4. CASE i # a
  <2> DEFINE h == i - 1
  <2>1. h \in a .. z /\ h \notin U /\ h \in Nat /\ i = h + 1 /\ Tiled(h)
    BY <1>1, <1>2, <1>4
  <2>2. PICK k \in a .. h : Found(h, k)
    <3> HIDE DEF Found, h
    <3> QED
      BY <2>1
  <2>3. k \in Nat /\ k \in a .. i /\ Units(k) \in Int
    <3>1. k \in Nat /\ k \in a .. z
      BY <2>1
    <3> QED
      BY <2>1, <3>1, UnitsFacts
  <2>4. u[i] = Refined(u[h], h, w)
    BY <1>2, <1>4
  <2> HIDE DEF h
  <2>5. CASE Below(w, Side[h])
    <3>1. u[i] = Moved(MusicNumber(k, w, h), -QuarterCell(h))
      BY <2>2, <2>4, <2>5 DEF Refined
    <3>2. u[i] = MusicNumber(k, w, i)
      BY <2>1, <2>3, <3>1, MusicMoved
    <3>3. Below(w, Side[k]) /\ \A j \in a .. k - 1 : ~Below(w, Side[j])
      BY <2>2, <2>5
    <3>4. Found(i, k)
      BY <3>2, <3>3
    <3> HIDE DEF Found
    <3> QED
      BY <1>2, <2>3, <3>4
  <2>6. CASE ~Below(w, Side[h])
    <3>1. u[i] = DrawnLevel(i, w)
      BY <2>1, <2>4, <2>6 DEF Refined
    <3>2. u[i] = MusicNumber(i, w, i)
      BY <1>2, <3>1, MusicDrawn
    <3>3. ASSUME NEW j \in a .. i - 1 PROVE ~Below(w, Side[j])
      <4>1. j \in Nat /\ j <= h
        BY <1>2, <2>1
      <4> QED
        BY <2>1, <2>6, <4>1, BelowMonotone
    <3>4. Found(i, i) /\ i \in a .. i
      BY <1>2, <3>2, <3>3
    <3> HIDE DEF Found
    <3> QED
      BY <1>2, <3>4
  <2> QED
    BY <2>5, <2>6
<1> QED
  BY <1>3, <1>4

LEMMA MusicDown ==
  ASSUME cfg \in Configs, NEW w, levelmin_seed \in Nat, levelmin \in Nat, levelmin <= levelmin_seed,
         \A l \in levelmin .. levelmin_seed : Tiled(l),
         NEW u, IsDown(u, w, levelmin)
  PROVE  u[levelmin] = MusicNumber(levelmin_seed, w, levelmin)
<1> DEFINE a == levelmin_seed
           z == levelmin
           U == {n \in 0 .. a - z : u[a - n] # MusicNumber(a, w, a - n)}
<1>1. SUFFICES ASSUME U # {} PROVE FALSE
  <2>1. a - z \in 0 .. a - z /\ a - z \notin U /\ a - (a - z) = z
    OBVIOUS
  <2> QED
    BY <2>1
<1>2. PICK n \in U : \A m \in U : n <= m
  <2>1. U \subseteq Nat
    OBVIOUS
  <2> HIDE DEF U
  <2> QED
    BY <1>1, <2>1, LeastOf
<1> DEFINE l == a - n
<1>3. l \in z .. a /\ l \in Nat /\ Tiled(l) /\ u[l] # MusicNumber(a, w, l)
  BY <1>2
<1>4. u[l] = IF l = a THEN DrawnLevel(l, w) ELSE Degraded(u[l + 1], l)
  BY <1>3 DEF IsDown
<1>5. l # a => u[l + 1] = MusicNumber(a, w, l + 1)
  <2>1. SUFFICES ASSUME l # a PROVE u[l + 1] = MusicNumber(a, w, l + 1)
    OBVIOUS
  <2>2. n - 1 \in 0 .. a - z /\ n - 1 \notin U /\ a - (n - 1) = l + 1
    BY <1>2, <1>3, <2>1
  <2> QED
    BY <2>2
<1> HIDE DEF l
<1>6. CASE l = a
  BY <1>3, <1>4, <1>6, MusicDrawn
<1>7. CASE l # a
  <2>1. u[l] = Moved(MusicNumber(a, w, l + 1), QuarterCell(l))
    BY <1>4, <1>5, <1>7 DEF Degraded
  <2>2. Units(a) \in Int
    BY UnitsFacts
  <2>3. u[l] = MusicNumber(a, w, l)
    BY <1>3, <2>1, <2>2, MusicMoved
  <2> QED
    BY <1>3, <2>3
<1> QED
  BY <1>6, <1>7

LEMMA MusicExpected ==
  ASSUME cfg \in Configs, cfg.generator = "MUSIC1", ~MusicRefuses, \A l \in Between : Tiled(l),
         NEW w, \A d \in 1 .. 3 : w[d] \in Int
  PROVE  {MusicMode(w)} = Expected(w)
<1> DEFINE a == levelmin_seed
           z == levelmin
           R == {l \in a .. z : Below(w, Side[l])} \cup {IF a > z THEN a ELSE z}
           l == CHOOSE x \in R : \A y \in R : x <= y
<1>1. a \in Nat /\ z \in Nat /\ Side[z] = cfg.n
  BY LevelFacts
<1>2. Expected(w) = {MusicNumber(l, w, z)}
  <2> DEFINE r == {Number(Cubes(l), w, FALSE, (2 * MaxRes) \div cfg.n - (2 * MaxRes) \div Side[l])}
  <2>1. Expected(w) = r
    BY DEF Expected
  <2> HIDE DEF l
  <2>2. r = {MusicNumber(l, w, z)}
    BY <1>1 DEF MusicNumber, Units
  <2> QED
    BY <2>1, <2>2
<1>3. ASSUME NEW k \in R, \A y \in R : k <= y PROVE l = k
  <2>1. l \in R /\ \A y \in R : l <= y
    BY <1>3
  <2>2. R \subseteq Nat
    BY <1>1
  <2> HIDE DEF R, l
  <2>3. l <= k /\ k <= l /\ l \in Nat /\ k \in Nat
    BY <1>3, <2>1, <2>2
  <2> QED
    BY <2>3
<1>4. CASE a <= z
  <2>1. PICK u : IsUp(u, w, z) /\ MusicMode(w) = u[z]
    BY <1>1, <1>4, MusicModeIs
  <2>2. PICK k \in a .. z : /\ u[z] = MusicNumber(k, w, z)
                            /\ k = z \/ Below(w, Side[k])
                            /\ \A j \in a .. k - 1 : ~Below(w, Side[j])
    <3>1. z \in a .. z /\ \A i \in a .. z : Tiled(i)
      BY <1>1, <1>4 DEF Between
    <3> QED
      BY <1>1, <1>4, <2>1, <3>1, MusicUp
  <2>3. k \in R
    BY <1>1, <1>4, <2>2
  <2>4. \A y \in R : k <= y
    BY <1>1, <1>4, <2>2
  <2>5. l = k
    BY <1>3, <2>3, <2>4
  <2> HIDE DEF l
  <2> QED
    BY <1>2, <2>1, <2>2, <2>5
<1>5. CASE a > z
  <2>1. PICK u : IsDown(u, w, z) /\ MusicMode(w) = u[z]
    BY <1>1, <1>5, MusicModeIs
  <2>2. u[z] = MusicNumber(a, w, z)
    <3>1. \A i \in z .. a : Tiled(i)
      BY DEF Between
    <3> QED
      BY <1>1, <1>5, <2>1, <3>1, MusicDown
  <2>3. R = {a}
    BY <1>1, <1>5
  <2>4. l = a
    BY <1>1, <1>3, <2>3
  <2> HIDE DEF l
  <2> QED
    BY <1>2, <2>1, <2>2, <2>4
<1> QED
  BY <1>1, <1>4, <1>5

-----------------------------------------------------------------------------
(***************************************************************************)
(* Runs whose noise is that of any other run.                              *)
(***************************************************************************)
\* MUSIC1's Fill_Grid fills the slab of the first rank only, its cubes have to
\* divide the levels, and PANPHASIA's grid may be rounded down to one coarser
\* than the noise: what runs that avoid this have in common.
Regular ==
  /\ cfg.generator = "MUSIC1" =>
       cfg.ranks = 1 /\ (~MusicRefuses => \A l \in Between : Tiled(l))
  /\ cfg.generator = "PANPHASIA" => cfg.base <= cfg.n /\ cfg.n <= PanphasiaRes

\* The grid of PANPHASIA exists, and is not coarser than the noise.
LEMMA HighOrderRes ==
  ASSUME cfg \in Configs
  PROVE  ngrid_highorder \in Nat \ {0} /\ cfg.n <= ngrid_highorder
<1> DEFINE n == cfg.n
           b == 2 * cfg.base
           fine == {l \in 0 .. n : b * Side[l] >= n}
           top == CHOOSE l \in fine : \A m \in fine : l <= m
<1>1. n \in Nat \ {0} /\ b \in Nat \ {0}
  BY ConfigFacts
<1>2. ngrid_highorder = b * Side[top]
  BY DEF ngrid_highorder
<1> HIDE DEF n, b
<1>3. n \in fine
  <2> DEFINE S == Side[n]
  <2>1. S \in Nat \ {0} /\ S > n
    BY <1>1, SideGrows
  <2> HIDE DEF S
  <2>2. 1 * S <= b * S /\ b * S \in Int
    BY <1>1, <2>1, TimesMonotone
  <2>3. b * S >= n
    BY <1>1, <2>1, <2>2
  <2> QED
    BY <1>1, <2>3 DEF S
<1>4. fine \subseteq Nat
  BY <1>1
<1>5. top \in fine
  <2> HIDE DEF fine
  <2>1. \E l \in fine : \A m \in fine : l <= m
    BY <1>3, <1>4, LeastOf
  <2> QED
    BY <2>1
<1>6. b * Side[top] >= n /\ top \in Nat
  BY <1>1, <1>5
<1> HIDE DEF top
<1>7. b * Side[top] \in Int
  <2> DEFINE S == Side[top]
  <2>1. S \in Nat
    BY <1>6, SideGrows
  <2> HIDE DEF S
  <2>2. b * S \in Int
    BY <1>1, <2>1
  <2> QED
    BY <2>2 DEF S
<1>8. b * Side[top] \in Nat \ {0}
  BY <1>1, <1>6, <1>7
<1> QED
  BY <1>2, <1>6, <1>8 DEF n

LEMMA LowOrderRes ==
  ASSUME cfg \in Configs, cfg.base <= cfg.n
  PROVE  ngrid_panphasia \in Nat
<1> DEFINE n == cfg.n
           b == cfg.base
           least == cfg.least
           Rounded(l) == b * Side[l] <= n /\ n < b * Side[l + 1]
           lextra == CHOOSE l \in 0 .. n : Rounded(l)
           fine == {l \in 0 .. n + least : l >= lextra /\ b * Side[l] >= least}
           top == CHOOSE l \in fine : \A m \in fine : l <= m
<1>1. n \in Nat \ {0} /\ b \in Nat \ {0} /\ least \in Nat /\ b <= n
  BY ConfigFacts
<1>2. ngrid_panphasia = b * Side[top]
  BY DEF ngrid_panphasia
<1> HIDE DEF n, b, least
<1>3. ASSUME NEW l \in Nat PROVE b * Side[l] \in Nat /\ b * Side[l] > l
  <2> DEFINE S == Side[l]
  <2>1. S \in Nat \ {0} /\ S > l
    BY SideGrows
  <2> HIDE DEF S
  <2>2. 1 * S <= b * S /\ b * S \in Int
    BY <1>1, <2>1, TimesMonotone
  <2>3. b * S \in Nat /\ b * S > l
    BY <2>1, <2>2
  <2> QED
    BY <2>3 DEF S
<1>4. lextra \in 0 .. n
  <2> DEFINE U == {l \in Nat : n < b * Side[l + 1]}
  <2>1. n \in U
    <3>1. n + 1 \in Nat /\ b * Side[n + 1] \in Nat /\ b * Side[n + 1] > n + 1
      BY <1>1, <1>3
    <3> QED
      BY <1>1, <3>1
  <2>2. PICK l \in U : \A m \in U : l <= m
    <3>1. U \subseteq Nat
      OBVIOUS
    <3> HIDE DEF U
    <3> QED
      BY <2>1, <3>1, LeastOf
  <2>3. l \in Nat /\ n < b * Side[l + 1] /\ l <= n
    BY <2>1, <2>2
  <2>4. b * Side[l] <= n
    <3>1. CASE l = 0
      BY <1>1, <3>1, SideIs
    <3>2. CASE l # 0
      <4> DEFINE k == l - 1
      <4>1. k \in Nat /\ k \notin U /\ l = k + 1
        BY <2>2, <2>3, <3>2
      <4> HIDE DEF k
      <4>2. ~(n < b * Side[k + 1]) /\ b * Side[k + 1] \in Nat
        BY <1>3, <4>1
      <4> QED
        BY <1>1, <4>1, <4>2
    <3> QED
      BY <3>1, <3>2
  <2>5. l \in 0 .. n /\ Rounded(l)
    BY <1>1, <2>3, <2>4
  <2> HIDE DEF Rounded
  <2> QED
    BY <2>5
<1> HIDE DEF lextra
<1>5. n + least \in fine
  <2>1. n + least \in Nat /\ b * Side[n + least] \in Nat /\ b * Side[n + least] > n + least
    BY <1>1, <1>3
  <2> QED
    BY <1>1, <1>4, <2>1
<1>6. fine \subseteq Nat
  BY <1>1
<1>7. top \in Nat
  <2> HIDE DEF fine
  <2>1. \E l \in fine : \A m \in fine : l <= m
    BY <1>5, <1>6, LeastOf
  <2>2. top \in fine
    BY <2>1
  <2> QED
    BY <1>6, <2>2
<1> HIDE DEF top
<1> QED
  BY <1>2, <1>3, <1>7

LEMMA PanphasiaFacts ==
  ASSUME cfg \in Configs, Regular, cfg.generator \notin {"NGENIC", "MUSIC1"}
  PROVE  PanphasiaRes \in Nat \ {0} /\ cfg.n <= PanphasiaRes
<1>1. cfg.n \in Nat \ {0} /\ cfg.generator \in {"PANPHASIA", "PANPHASIA_HO"}
  BY ConfigFacts
<1>2. CASE cfg.generator = "PANPHASIA"
  BY <1>1, <1>2, LowOrderRes DEF Regular, PanphasiaRes
<1>3. CASE cfg.generator = "PANPHASIA_HO"
  BY <1>1, <1>3, HighOrderRes DEF PanphasiaRes
<1> QED
  BY <1>1, <1>2, <1>3

\* PANPHASIA has every mode the noise resolves.
LEMMA PanphasiaExpected ==
  ASSUME cfg \in Configs, Regular, cfg.generator \notin {"NGENIC", "MUSIC1"},
         NEW w, \A d \in 1 .. 3 : w[d] \in Int
  PROVE  PanphasiaMode(w) = Expected(w)
<1>1. Below(w, cfg.n) => Below(w, PanphasiaRes)
  <2> DEFINE a == cfg.n
             b == PanphasiaRes
  <2>1. a \in Nat /\ b \in Nat /\ a <= b
    BY PanphasiaFacts, ConfigFacts
  <2> HIDE DEF a, b
  <2>2. Below(w, a) => Below(w, b)
    BY <2>1 DEF Below
  <2> QED
    BY <2>2 DEF a, b
<1> DEFINE z == {Number("PANPHASIA", w, FALSE, 0)}
<1>2. PanphasiaMode(w) = IF Below(w, cfg.n) \/ KeepsNyquist THEN z ELSE {}
  BY <1>1 DEF PanphasiaMode
<1>3. Expected(w) = IF Below(w, cfg.n) \/ KeepsNyquist THEN z ELSE {}
  BY DEF Expected
<1> QED
  BY <1>2, <1>3

-----------------------------------------------------------------------------
(***************************************************************************)
(* Every plane of the noise is filled at its place.                        *)
(***************************************************************************)
LEMMA InBlock ==
  ASSUME NEW B \in Nat \ {0}, NEW s \in Int, NEW q \in Int
  PROVE  q \div B = s <=> s * B <= q /\ q < s * B + B
<1> DEFINE d == q \div B
           r == q % B
<1>1. d \in Int /\ r \in 0 .. B - 1 /\ q = d * B + r /\ d * B \in Int
  BY DivMod
<1> HIDE DEF d, r
<1>2. d = s => s * B <= q /\ q < s * B + B
  BY <1>1
<1>3. ASSUME s * B <= q, q < s * B + B PROVE d = s
  <2>1. d * B - s * B < B /\ s * B - d * B < B
    <3> DEFINE x == d * B
               y == s * B
    <3>1. x \in Int /\ y \in Int /\ y <= q /\ q < y + B /\ q = x + r
      BY <1>1, <1>3
    <3> HIDE DEF x, y
    <3>2. x - y < B /\ y - x < B
      BY <1>1, <3>1
    <3> QED
      BY <3>2 DEF x, y
  <2> QED
    BY <1>1, <2>1, SmallMultiple
<1> QED
  BY <1>2, <1>3 DEF d

\* The slab of a rank is an interval.
LEMMA OwnInterval ==
  ASSUME cfg \in Configs, NEW n \in Nat \ {0}, NEW s \in Ranks, NEW p \in Own(s, n)
  PROVE  /\ local_start(s, n) \in Nat /\ local_size(s, n) \in Nat
         /\ p - local_start(s, n) \in 0 .. local_size(s, n) - 1
<1> DEFINE B == Block(n)
           a == s * B
           z == IF a + B <= n THEN a + B - 1 ELSE n - 1
<1>1. B \in Nat \ {0} /\ s \in Nat /\ p \in 0 .. n - 1 /\ p \div B = s
  BY BlockFacts, ConfigFacts DEF Own, Ranks
<1>2. Own(s, n) = {q \in 0 .. n - 1 : q \div B = s}
  BY DEF Own
<1> HIDE DEF B
<1>3. a \in Nat
  BY <1>1
<1>4. \A q \in 0 .. n - 1 : q \div B = s => a <= q /\ q < a + B
  BY <1>1, InBlock
<1>5. \A q \in Int : a <= q /\ q < a + B => q \div B = s
  BY <1>1, InBlock
<1>6. local_start(s, n) = a
  BY DEF local_start, B
<1> HIDE DEF a
<1>7. Own(s, n) = a .. z
  BY <1>1, <1>2, <1>3, <1>4, <1>5
<1>8. a <= p /\ p <= z /\ z \in Int
  BY <1>1, <1>3, <1>4
<1> HIDE DEF z
<1>9. local_size(s, n) = z - a + 1
  BY <1>3, <1>7, <1>8, FS_Interval DEF local_size
<1> QED
  BY <1>1, <1>3, <1>6, <1>8, <1>9

\* What a rank writes, it writes in its place.
LEMMA PlanesInPlace ==
  ASSUME cfg \in Configs, Regular, InRealSpace, NEW s \in Ranks
  PROVE  LET writes == IF cfg.generator = "MUSIC1" THEN MusicPlanes(s) ELSE PanphasiaPlanes(s)
         IN \A x \in writes : x.of = x.at
<1>1. \A x \in MusicPlanes(s) : x.of = x.at
  BY DEF MusicPlanes
<1>2. ASSUME cfg.generator # "MUSIC1", NEW x \in PanphasiaPlanes(s) PROVE x.of = x.at
  <2> DEFINE start == local_start(s, PanphasiaRes)
             B == Block(PanphasiaRes)
  <2>1. start \in Int
    <3>1. B \in Nat /\ s \in Nat
      BY <1>2, PanphasiaFacts, BlockFacts, ConfigFacts DEF Ranks, InRealSpace
    <3> HIDE DEF B
    <3>2. s * B \in Int
      BY <3>1
    <3> QED
      BY <3>2 DEF local_start, B
  <2> HIDE DEF start
  <2>2. PICK i, y : x = [at |-> start + i + y, of |-> i + y + start] /\ i \in Int /\ y \in Int
    BY <1>2 DEF PanphasiaPlanes, start
  <2> QED
    BY <2>1, <2>2
<1> QED
  BY <1>1, <1>2

\* and it writes all of its slab.
LEMMA PlanesCover ==
  ASSUME cfg \in Configs, Regular, InRealSpace, NEW s \in Ranks, NEW p \in Own(s, RealRes)
  PROVE  LET writes == IF cfg.generator = "MUSIC1" THEN MusicPlanes(s) ELSE PanphasiaPlanes(s)
         IN \E x \in writes : x.at = p
<1> DEFINE n == RealRes
           start == local_start(s, n)
           size == local_size(s, n)
<1>1. n \in Nat \ {0}
  BY PanphasiaFacts, ConfigFacts DEF RealRes, InRealSpace
<1>2. start \in Nat /\ size \in Nat /\ p - start \in 0 .. size - 1 /\ p \in Int
  BY <1>1, OwnInterval DEF Own
<1>3. CASE cfg.generator = "MUSIC1"
  <2>1. n = cfg.n /\ s = 0
    BY <1>3 DEF RealRes, Regular, Ranks
  <2>2. start = 0
    <3>1. Block(n) \in Nat
      BY <1>1, BlockFacts
    <3> QED
      BY <2>1, <3>1 DEF local_start
  <2>3. [at |-> p, of |-> p] \in MusicPlanes(s)
    BY <1>2, <2>1, <2>2 DEF MusicPlanes
  <2> QED
    BY <1>3, <2>3
<1>4. CASE cfg.generator # "MUSIC1"
  <2> DEFINE k == p - start
             y == k % 2
             i == k - y
  <2>1. n = PanphasiaRes
    BY <1>4 DEF RealRes
  <2>2. k \in Nat /\ k < size /\ start + k = p
    BY <1>2
  <2> HIDE DEF start, size, k, n
  <2>3. y \in 0 .. 1 /\ i \in Nat /\ i % 2 = 0 /\ i + y = k
    BY <2>2
  <2> HIDE DEF y, i
  <2>4. i \in {x \in 0 .. size - 1 : x % 2 = 0} /\ y \in {x \in 0 .. 1 : i + x < size}
    BY <1>2, <2>2, <2>3
  <2> DEFINE write == [at |-> start + i + y, of |-> i + y + start]
  <2>5. write \in PanphasiaPlanes(s)
    BY <2>1, <2>4 DEF PanphasiaPlanes, start, size
  <2>6. write.at = p
    BY <1>2, <2>2, <2>3
  <2> HIDE DEF write
  <2> QED
    BY <1>4, <2>5, <2>6
<1> QED
  BY <1>3, <1>4

-----------------------------------------------------------------------------
(***************************************************************************)
(* A constraint field replaces the modes it resolves.                      *)
(***************************************************************************)
WaveAt(c) == WaveVector(c, cfg.n, cfg.mpi)
Coarser == IF cfg.constraint < cfg.n THEN cfg.constraint ELSE cfg.n
Replaced(c) == cfg.constraint > 0 /\ Below(WaveAt(c), Coarser)
Aside(c) == cfg.constraint > 0 /\ \E d \in 1 .. 3 : 2 * WaveAt(c)[d] \in {Coarser, -Coarser}
Wanted(c) == IF Replaced(c) THEN {Number("constraint", WaveAt(c), FALSE, 0)} ELSE Expected(WaveAt(c))

\* Partners have the same wave number, which both grids resolve, unless it is
\* the Nyquist frequency of the coarser one.
LEMMA PairedResolved ==
  ASSUME NEW m \in Nat \ {0}, m % 2 = 0, NEW n \in Nat \ {0}, n % 2 = 0, Pairable(m, n),
         NEW i \in 0 .. m - 1, Paired(i, m, n) # -1,
         LET k == IF m < n THEN m ELSE n IN 2 * Wave(Paired(i, m, n), n) \notin {k, -k}
  PROVE  LET k == IF m < n THEN m ELSE n
             w == Wave(Paired(i, m, n), n)
         IN Wave(i, m) = w /\ 2 * w < k /\ -2 * w < k
BY PairedUnsigned DEF Wave

LEMMA WaveIsInteger ==
  ASSUME cfg \in Configs, NEW m \in Nat \ {0}, m % 2 = 0, NEW c \in Cells(m)
  PROVE  /\ Wave(c[1], m) \in Int /\ Wave(c[2], m) \in Int /\ c[3] \in Int
         /\ \A d \in 1 .. 3 : WaveVector(c, m, cfg.mpi)[d] \in Int
<1> DEFINE a == Wave(c[1], m)
           b == Wave(c[2], m)
           e == c[3]
           w == WaveVector(c, m, cfg.mpi)
<1>1. c[1] \in 0 .. m - 1 /\ c[2] \in 0 .. m - 1 /\ e \in 0 .. m \div 2
  BY CellFacts
<1>2. a \in Int /\ b \in Int /\ e \in Int
  <2>1. c[1] \in 0 .. m - 1 => a \in Int
    BY WaveFacts
  <2>2. c[2] \in 0 .. m - 1 => b \in Int
    BY WaveFacts
  <2> HIDE DEF a, b
  <2> QED
    BY <1>1, <2>1, <2>2
<1>3. w = IF cfg.mpi THEN <<b, a, e>> ELSE <<a, b, e>>
  BY DEF WaveVector
<1> HIDE DEF a, b, e, w
<1>4. w[1] \in Int /\ w[2] \in Int /\ w[3] \in Int
  BY <1>2, <1>3
<1>5. \A d \in 1 .. 3 : w[d] \in Int
  BY <1>4
<1> QED
  BY <1>2, <1>5 DEF a, b, e, w

\* The modes that are taken from the constraint field are those it resolves,
\* and each is the one of its wave vector.
LEMMA ConstraintReplaces ==
  ASSUME cfg \in Configs, cfg.constraint # 0, NEW s, NEW c \in Cells(cfg.n), c[1] \in Own(s, cfg.n),
         ~Aside(c), NEW M
  PROVE  LET from == {x \in PairedCells(s, cfg.constraint, cfg.n) :
                        PairedCell(x, cfg.constraint, cfg.n) = c}
         IN (IF from = {} THEN M ELSE UNION {ConstraintMode(Untransposed(x)) : x \in from})
            = IF Replaced(c) THEN {Number("constraint", WaveAt(c), FALSE, 0)} ELSE M
<1> DEFINE n == cfg.n
           m == cfg.constraint
           k == IF m < n THEN m ELSE n
           from == {x \in PairedCells(s, m, n) : PairedCell(x, m, n) = c}
           a == Wave(c[1], n)
           b == Wave(c[2], n)
           e == c[3]
           w == WaveAt(c)
<1>1. /\ m \in Nat \ {0} /\ m % 2 = 0 /\ n \in Nat \ {0} /\ n % 2 = 0 /\ k = Coarser /\ m > 0
      /\ Pairable(m, n)
  BY ConfigFacts, ConfigsPairable DEF Coarser
<1>2. /\ c = <<c[1], c[2], c[3]>> /\ c[1] \in 0 .. n - 1 /\ c[2] \in 0 .. n - 1 /\ c[3] \in 0 .. n \div 2
      /\ a \in Int /\ b \in Int /\ e \in Int
  BY <1>1, CellFacts, WaveIsInteger
<1>3. w = IF cfg.mpi THEN <<b, a, e>> ELSE <<a, b, e>>
  BY DEF WaveAt, WaveVector
<1>4. 2 * a \notin {k, -k} /\ 2 * b \notin {k, -k} /\ 2 * e \notin {k, -k}
  <2>1. \A d \in {1, 2, 3} : 2 * w[d] \notin {k, -k}
    BY <1>1 DEF Aside
  <2> HIDE DEF w, a, b, e, k
  <2>2. {w[1], w[2], w[3]} = {a, b, e}
    BY <1>3
  <2> QED
    BY <2>1, <2>2
<1>5. Replaced(c) <=> 2 * a < k /\ -2 * a < k /\ 2 * b < k /\ -2 * b < k /\ 2 * e < k /\ -2 * e < k
  <2>1. Replaced(c) <=> Below(w, k)
    BY <1>1 DEF Replaced
  <2> HIDE DEF w, a, b, e, k
  <2> QED
    BY <1>3, <2>1, BelowTriple, TripleBelow
<1>6. ASSUME NEW x \in from
      PROVE  Replaced(c) /\ ConstraintMode(Untransposed(x)) = {Number("constraint", w, FALSE, 0)}
  <2>1. x \in Cells(m) /\ PairedCell(x, m, n) = c /\ x \in PairedCells(s, m, n)
    BY DEF PairedCells
  <2>2. x[1] \in 0 .. m - 1 /\ x[2] \in 0 .. m - 1 /\ x[3] \in 0 .. m \div 2
    BY <1>1, <2>1, CellFacts
  <2>3. Paired(x[1], m, n) = c[1] /\ Paired(x[2], m, n) = c[2] /\ x[3] = c[3]
    BY <1>2, <2>1 DEF PairedCell
  <2>4. Paired(x[1], m, n) # -1 /\ Paired(x[2], m, n) # -1
    BY <1>2, <2>3
  <2>5. Wave(x[1], m) = a /\ 2 * a < k /\ -2 * a < k
    BY <1>1, <1>4, <2>2, <2>3, <2>4, PairedResolved
  <2>6. Wave(x[2], m) = b /\ 2 * b < k /\ -2 * b < k
    BY <1>1, <1>4, <2>2, <2>3, <2>4, PairedResolved
  <2>7. 2 * e < k /\ -2 * e < k
    BY <1>1, <1>2, <1>4, <2>2, <2>3
  <2>8. WaveVector(Untransposed(x), m, FALSE) = w
    <3>1. WaveVector(Untransposed(x), m, FALSE) = WaveVector(x, m, cfg.mpi)
      BY <1>1, <2>1, CellFacts
    <3> QED
      BY <1>3, <2>3, <2>5, <2>6, <3>1 DEF WaveVector
  <2> QED
    BY <1>5, <2>5, <2>6, <2>7, <2>8 DEF ConstraintMode
<1>7. Replaced(c) => from # {}
  <2>1. SUFFICES ASSUME Replaced(c) PROVE \E x : x \in from
    OBVIOUS
  <2>2. 2 * a < k /\ -2 * a < k /\ 2 * b < k /\ -2 * b < k /\ 2 * e < k /\ -2 * e < k
    BY <1>5, <2>1
  <2>3. /\ 2 * a < m /\ -m < 2 * a /\ 2 * a < n /\ -n < 2 * a
        /\ 2 * b < m /\ -m < 2 * b /\ 2 * b < n /\ -n < 2 * b
        /\ 2 * e < m
    BY <1>1, <1>2, <2>2
  <2> DEFINE i == (a + m) % m
             j == (b + m) % m
             x == <<i, j, e>>
  <2>4. i \in 0 .. m - 1 /\ j \in 0 .. m - 1 /\ e \in 0 .. m \div 2
    BY <1>1, <1>2, <2>3, WaveOf
  <2>5. Paired(i, m, n) = (a + n) % n /\ Paired(j, m, n) = (b + n) % n
    BY <1>1, <1>2, <2>3, PartnerExists
  <2>6. (a + n) % n = c[1] /\ (b + n) % n = c[2]
    BY <1>1, <1>2, WaveFacts
  <2> HIDE DEF i, j
  <2>7. x \in Cells(m) /\ PairedCell(x, m, n) = c
    BY <1>2, <2>4, <2>5, <2>6 DEF Cells, PairedCell
  <2>8. x \in PairedCells(s, m, n)
    BY <1>1, <1>2, <2>5, <2>6, <2>7 DEF PairedCells
  <2> QED
    BY <2>7, <2>8
<1> HIDE DEF from
<1>8. CASE Replaced(c)
  <2>1. PICK x \in from : TRUE
    BY <1>7, <1>8
  <2> DEFINE f(y) == ConstraintMode(Untransposed(y))
             z == {Number("constraint", w, FALSE, 0)}
  <2>2. \A y \in from : f(y) = z
    BY <1>6
  <2> HIDE DEF f, z
  <2>3. {f(y) : y \in from} = {z}
    BY <2>1, <2>2
  <2>4. UNION {f(y) : y \in from} = z
    BY <2>3
  <2> QED
    BY <1>7, <1>8, <2>4 DEF f, z, from
<1>9. CASE ~Replaced(c)
  <2>1. from = {}
    BY <1>6, <1>9
  <2> QED
    BY <1>9, <2>1 DEF from
<1> QED
  BY <1>8, <1>9

-----------------------------------------------------------------------------
(***************************************************************************)
(* The noise of a run is the noise that is expected.                       *)
(***************************************************************************)
\* A mode is what its wave vector makes it from the moment its rank has it,
\* and stays so.
CellRight(s, c) ==
  /\ (pc[s] = "transform" /\ ~InRealSpace) \/ pc[s] = "constrain" => mode[c] = Expected(WaveAt(c))
  /\ pc[s] = "normalise" => Aside(c) \/ mode[c] = Wanted(c)
  /\ pc[s] \in {"export", "reduce", "done"} => Aside(c) \/ mode[c] = Normed(Wanted(c))
CellsRight == \A s \in Ranks, c \in Cells(cfg.n) : c[1] \in Own(s, cfg.n) => CellRight(s, c)

PlanesRight ==
  /\ plane = [p \in 0 .. RealRes - 1 |-> plane[p]]
  /\ InRealSpace =>
       \A s \in Ranks : pc[s] \notin {"fill", "thrown"} => \A p \in Own(s, RealRes) : plane[p] = p

RInv == IInv /\ Regular /\ PlanesRight /\ CellsRight

\* What depends on the configuration only.
LEMMA ConfigSame ==
  ASSUME cfg' = cfg
  PROVE  /\ Ranks' = Ranks /\ \A s, n : Own(s, n)' = Own(s, n)
         /\ Regular' = Regular /\ InRealSpace' = InRealSpace /\ RealRes' = RealRes
         /\ \A c : /\ Aside(c)' = Aside(c) /\ Wanted(c)' = Wanted(c)
                  /\ Expected(WaveAt(c))' = Expected(WaveAt(c))
<1>1. Ranks' = Ranks /\ InRealSpace' = InRealSpace
  BY DEF Ranks, InRealSpace
<1>2. \A n : Block(n)' = Block(n)
  BY DEF Block
<1>3. \A s, n : Own(s, n)' = Own(s, n)
  BY <1>2 DEF Own
<1>4. ngrid_panphasia' = ngrid_panphasia /\ ngrid_highorder' = ngrid_highorder
  BY DEF ngrid_panphasia, ngrid_highorder
<1>5. PanphasiaRes' = PanphasiaRes
  BY <1>4 DEF PanphasiaRes
<1>6. RealRes' = RealRes /\ KeepsNyquist' = KeepsNyquist
  BY <1>5 DEF RealRes, KeepsNyquist
<1>7. levelmin' = levelmin /\ levelmin_seed' = levelmin_seed /\ MusicRefuses' = MusicRefuses
  BY DEF levelmin, levelmin_seed, MusicRefuses
<1>8. Regular' = Regular
  <2>1. \A l : Tiled(l)' = Tiled(l)
    BY DEF Tiled, CubeSize
  <2>2. Between' = Between
    BY <1>7 DEF Between
  <2> QED
    BY <1>5, <1>7, <2>1, <2>2 DEF Regular
<1>9. \A w : Expected(w)' = Expected(w)
  BY <1>6, <1>7 DEF Expected, Cubes, Seed, CubeSize
<1>10. \A c : WaveAt(c)' = WaveAt(c)
  BY DEF WaveAt
<1>11. Coarser' = Coarser
  BY DEF Coarser
<1>12. \A c : Aside(c)' = Aside(c) /\ Replaced(c)' = Replaced(c)
  BY <1>10, <1>11 DEF Aside, Replaced
<1>13. \A c : Expected(WaveAt(c))' = Expected(WaveAt(c))
  BY <1>9, <1>10
<1>14. \A c : Wanted(c)' = Wanted(c)
  BY <1>10, <1>12, <1>13 DEF Wanted
<1> QED
  BY <1>1, <1>3, <1>6, <1>8, <1>12, <1>13, <1>14

LEMMA InitIsRight == Init /\ Regular => RInv
<1>1. SUFFICES ASSUME Init, Regular PROVE RInv
  OBVIOUS
<1>2. /\ pc = [s \in Ranks |-> "fill"] /\ plane = [p \in 0 .. RealRes - 1 |-> Nowhere]
  BY <1>1 DEF Init
<1>3. IInv
  BY <1>1, InitEstablishes
<1>4. CellsRight
  BY <1>2 DEF CellsRight, CellRight
<1>5. PlanesRight
  BY <1>2 DEF PlanesRight
<1> QED
  BY <1>1, <1>3, <1>4, <1>5 DEF RInv

\* Steps that leave the modes of a rank alone.
LEMMA OtherRight ==
  ASSUME RInv, cfg' = cfg, NEW s \in Ranks, NEW c \in Cells(cfg.n), c[1] \in Own(s, cfg.n),
         mode'[c] = mode[c],
         \/ pc'[s] = pc[s] \/ pc'[s] = "thrown"
         \/ pc'[s] = "transform" /\ InRealSpace
         \/ pc[s] \in {"export", "reduce"} /\ pc'[s] \in {"reduce", "done"}
  PROVE  CellRight(s, c)'
<1>1. CellRight(s, c)
  BY DEF RInv, CellsRight
<1> DEFINE e == Expected(WaveAt(c))
<1>2. e' = e /\ Aside(c)' = Aside(c) /\ Wanted(c)' = Wanted(c) /\ InRealSpace' = InRealSpace
  BY ConfigSame
<1>3. Normed(Wanted(c))' = Normed(Wanted(c))
  BY <1>2, NormedSame DEF Normed, Normalised
<1> HIDE DEF e
<1> QED
  BY <1>1, <1>2, <1>3 DEF CellRight, e

LEMMA FillModesRight ==
  ASSUME RInv, NEW t \in Ranks, FillModes(t), NEW s \in Ranks, NEW c \in Cells(cfg.n),
         c[1] \in Own(s, cfg.n)
  PROVE  CellRight(s, c)'
<1>1. /\ cfg' = cfg /\ pc' = [pc EXCEPT ![t] = "transform"] /\ pc \in [Ranks -> Phases]
      /\ cfg \in Configs /\ IInv
  BY DEF RInv, IInv, FillModes, Go
<1>2. CASE s = t
  <2>1. mode'[c] = {x.z : x \in {y \in NgenicWrites(s) : y.at = c}}
    BY <1>2 DEF FillModes
  <2>2. mode'[c] = Expected(WaveAt(c))
    BY <1>1, <2>1, NgenicCell, NgenicExpected DEF FillModes, InRealSpace, WaveAt
  <2>3. Expected(WaveAt(c))' = Expected(WaveAt(c))
    BY <1>1, ConfigSame
  <2>4. pc'[s] = "transform"
    BY <1>1, <1>2
  <2> QED
    BY <2>2, <2>3, <2>4 DEF CellRight
<1>3. CASE s # t
  <2>1. mode'[c] = mode[c] /\ pc'[s] = pc[s]
    BY <1>1, <1>3, Untouched
  <2> QED
    BY <1>1, <2>1, OtherRight
<1> QED
  BY <1>2, <1>3

\* No plane is out of place when the ranks meet in the transform.
LEMMA PlanesInPlaceAtTransform ==
  ASSUME RInv, InRealSpace, AllAt("transform")
  PROVE  ~\E p \in DOMAIN plane : plane[p] # p
<1>1. SUFFICES ASSUME NEW p \in DOMAIN plane PROVE plane[p] = p
  OBVIOUS
<1>2. p \in 0 .. RealRes - 1 /\ cfg \in Configs /\ Regular
  BY <1>1 DEF RInv, PlanesRight, IInv
<1>3. RealRes \in Nat \ {0}
  BY <1>2, PanphasiaFacts, ConfigFacts DEF RealRes, InRealSpace
<1>4. PICK s \in Ranks : p \in Own(s, RealRes)
  BY <1>2, <1>3, OwnerExists
<1> QED
  BY <1>4 DEF RInv, PlanesRight, AllAt

LEMMA TransformRight ==
  ASSUME RInv, FourierTransformForward, NEW s \in Ranks, NEW c \in Cells(cfg.n),
         c[1] \in Own(s, cfg.n)
  PROVE  CellRight(s, c)'
<1>1. /\ cfg' = cfg /\ pc' = [r \in Ranks |-> "constrain"] /\ pc[s] = "transform"
      /\ CellRight(s, c) /\ cfg \in Configs /\ IInv /\ Regular
  BY DEF RInv, IInv, CellsRight, FourierTransformForward, AllGo, AllAt
<1>2. mode'[c] = Expected(WaveAt(c))
  <2>1. CASE ~InRealSpace
    BY <1>1, <2>1 DEF CellRight, FourierTransformForward
  <2>2. CASE InRealSpace
    <3> DEFINE w == WaveAt(c)
    <3>1. ~\E p \in DOMAIN plane : plane[p] # p
      BY <2>2, PlanesInPlaceAtTransform DEF FourierTransformForward
    <3>2. mode'[c] = IF cfg.generator = "MUSIC1" THEN {MusicMode(w)} ELSE PanphasiaMode(w)
      BY <2>2, <3>1 DEF FourierTransformForward, WaveAt
    <3>3. \A d \in 1 .. 3 : w[d] \in Int
      BY <1>1, ConfigFacts, WaveIsInteger DEF WaveAt
    <3> HIDE DEF w
    <3>4. CASE cfg.generator = "MUSIC1"
      <4>1. ~MusicRefuses
        BY <1>1, <3>4 DEF IInv
      <4>2. {MusicMode(w)} = Expected(w)
        BY <1>1, <3>3, <3>4, <4>1, MusicExpected DEF Regular
      <4> QED
        BY <3>2, <3>4, <4>2 DEF w
    <3>5. CASE cfg.generator # "MUSIC1"
      <4>1. PanphasiaMode(w) = Expected(w)
        BY <1>1, <2>2, <3>3, <3>5, PanphasiaExpected DEF InRealSpace
      <4> QED
        BY <3>2, <3>5, <4>1 DEF w
    <3> QED
      BY <3>4, <3>5
  <2> QED
    BY <2>1, <2>2
<1>3. Expected(WaveAt(c))' = Expected(WaveAt(c)) /\ pc'[s] = "constrain"
  BY <1>1, ConfigSame
<1> QED
  BY <1>2, <1>3 DEF CellRight

LEMMA ConstrainRight ==
  ASSUME RInv, NEW t \in Ranks, AddConstrainedModes(t), NEW s \in Ranks,
         NEW c \in Cells(cfg.n), c[1] \in Own(s, cfg.n)
  PROVE  CellRight(s, c)'
<1> DEFINE from == {x \in PairedCells(t, cfg.constraint, cfg.n) :
                      PairedCell(x, cfg.constraint, cfg.n) = c}
<1>1. /\ cfg' = cfg /\ pc[t] = "constrain" /\ pc' = [pc EXCEPT ![t] = "normalise"]
      /\ pc \in [Ranks -> Phases] /\ CellRight(s, c) /\ cfg \in Configs
  BY DEF RInv, IInv, CellsRight, AddConstrainedModes, Go
<1>2. /\ cfg.constraint = 0 => mode' = mode
      /\ cfg.constraint # 0 =>
           mode'[c] = IF from = {} THEN mode[c]
                      ELSE UNION {ConstraintMode(Untransposed(x)) : x \in from}
  BY DEF AddConstrainedModes
<1>3. CASE s = t
  <2>1. mode[c] = Expected(WaveAt(c))
    BY <1>1, <1>3 DEF CellRight
  <2>2. Aside(c) \/ mode'[c] = Wanted(c)
    <3>1. CASE cfg.constraint = 0
      BY <1>2, <2>1, <3>1 DEF Wanted, Replaced
    <3>2. CASE cfg.constraint # 0
      BY <1>1, <1>2, <1>3, <2>1, <3>2, ConstraintReplaces DEF Wanted
    <3> QED
      BY <3>1, <3>2
  <2>3. Aside(c)' = Aside(c) /\ Wanted(c)' = Wanted(c) /\ pc'[s] = "normalise"
    BY <1>1, <1>3, ConfigSame
  <2> QED
    BY <2>2, <2>3 DEF CellRight
<1>4. CASE s # t
  <2>1. mode'[c] = mode[c] /\ pc'[s] = pc[s]
    BY <1>1, <1>4, Untouched
  <2> QED
    BY <1>1, <2>1, OtherRight
<1> QED
  BY <1>3, <1>4

LEMMA NormaliseRight ==
  ASSUME RInv, NEW t \in Ranks, Normalise(t), NEW s \in Ranks,
         NEW c \in Cells(cfg.n), c[1] \in Own(s, cfg.n)
  PROVE  CellRight(s, c)'
<1>1. /\ cfg' = cfg /\ pc[t] = "normalise" /\ pc \in [Ranks -> Phases] /\ CellRight(s, c)
      /\ \E to \in {"done", "export"} : pc' = [pc EXCEPT ![t] = to]
      /\ cfg \in Configs
  BY DEF RInv, IInv, CellsRight, Normalise, Go
<1>2. CASE s = t
  <2>1. (Aside(c) \/ mode[c] = Wanted(c)) /\ mode'[c] = Normed(mode[c])
    BY <1>1, <1>2 DEF CellRight, Normalise, Normed
  <2>2. pc'[s] \in {"done", "export"}
    BY <1>1, <1>2
  <2>3. Aside(c)' = Aside(c) /\ Wanted(c)' = Wanted(c)
    BY <1>1, ConfigSame
  <2>4. Normed(Wanted(c))' = Normed(Wanted(c))
    BY <1>1, <2>3 DEF Normed, Normalised
  <2> QED
    BY <2>1, <2>2, <2>3, <2>4 DEF CellRight
<1>3. CASE s # t
  <2>1. mode'[c] = mode[c] /\ pc'[s] = pc[s]
    BY <1>1, <1>3, Untouched
  <2> QED
    BY <1>1, <2>1, OtherRight
<1> QED
  BY <1>2, <1>3

\* A rank that fills planes fills its own, and puts no other out of place.
LEMMA FillPlanesRight ==
  ASSUME RInv, NEW t \in Ranks, FillPlanes(t)
  PROVE  PlanesRight'
<1> DEFINE writes == IF cfg.generator = "MUSIC1" THEN MusicPlanes(t) ELSE PanphasiaPlanes(t)
<1>1. /\ cfg' = cfg /\ cfg \in Configs /\ Regular /\ InRealSpace /\ pc \in [Ranks -> Phases]
      /\ pc' = [pc EXCEPT ![t] = "transform"] /\ plane = [p \in 0 .. RealRes - 1 |-> plane[p]]
      /\ plane' = [p \in DOMAIN plane |->
                     IF \E x \in writes : x.at = p THEN (CHOOSE x \in writes : x.at = p).of ELSE plane[p]]
  BY DEF RInv, IInv, PlanesRight, FillPlanes, Go
<1>2. \A x \in writes : x.of = x.at
  BY <1>1, PlanesInPlace
<1>3. \A p \in Own(t, RealRes) : \E x \in writes : x.at = p
  BY <1>1, PlanesCover
<1> HIDE DEF writes
<1>4. DOMAIN plane = 0 .. RealRes - 1
  BY <1>1
<1>5. ASSUME NEW p \in 0 .. RealRes - 1, \E x \in writes : x.at = p PROVE plane'[p] = p
  <2>1. (CHOOSE x \in writes : x.at = p).of = p
    BY <1>2, <1>5
  <2> QED
    BY <1>1, <1>4, <1>5, <2>1
<1>6. ASSUME NEW p \in 0 .. RealRes - 1, ~\E x \in writes : x.at = p PROVE plane'[p] = plane[p]
  BY <1>1, <1>4, <1>6
<1>7. ASSUME NEW s \in Ranks, pc'[s] \notin {"fill", "thrown"}, NEW p \in Own(s, RealRes)
      PROVE  plane'[p] = p
  <2>1. p \in 0 .. RealRes - 1
    BY DEF Own
  <2>2. CASE s = t
    BY <1>3, <1>5, <2>1, <2>2
  <2>3. CASE s # t
    <3>1. plane[p] = p
      BY <1>1, <1>7, <2>3 DEF RInv, PlanesRight
    <3> QED
      BY <1>5, <1>6, <2>1, <3>1
  <2> QED
    BY <2>2, <2>3
<1>8. Ranks' = Ranks /\ InRealSpace' = InRealSpace /\ RealRes' = RealRes /\ \A s, n : Own(s, n)' = Own(s, n)
  BY <1>1, ConfigSame
<1>9. plane' = [p \in 0 .. RealRes - 1 |-> plane'[p]]
  BY <1>1, <1>4
<1> QED
  BY <1>7, <1>8, <1>9 DEF PlanesRight

LEMMA NextIsRight == RInv /\ [Next]_vars => RInv'
<1> SUFFICES ASSUME RInv, [Next]_vars PROVE RInv'
  OBVIOUS
<1>1. IInv' /\ IInv /\ cfg \in Configs /\ Regular /\ pc \in [Ranks -> Phases]
  BY NextPreserves DEF RInv, IInv
<1>2. cfg' = cfg
  BY DEF vars, Next, RankStep, FillModes, FillPlanes, FourierTransformForward,
     AddConstrainedModes, Normalise, ExportWhole, Downsample, WriteSum, Refuse
<1>3. /\ Ranks' = Ranks /\ \A s, n : Own(s, n)' = Own(s, n)
      /\ Regular' /\ InRealSpace' = InRealSpace /\ RealRes' = RealRes
  BY <1>1, <1>2, ConfigSame
<1>4. CellsRight'
  <2>1. SUFFICES ASSUME NEW s \in Ranks, NEW c \in Cells(cfg.n), c[1] \in Own(s, cfg.n)
                 PROVE  CellRight(s, c)'
    BY <1>2, <1>3 DEF CellsRight
  <2>2. CASE UNCHANGED vars
    <3>1. mode' = mode /\ pc' = pc
      BY <2>2 DEF vars
    <3> QED
      BY <1>2, <2>1, <3>1, OtherRight
  <2>3. CASE FourierTransformForward
    BY <2>1, <2>3, TransformRight
  <2>4. CASE ExportWhole
    <3>1. mode' = mode /\ pc[s] = "export" /\ pc'[s] = "done"
      BY <2>4 DEF ExportWhole, AllAt, AllGo
    <3> QED
      BY <1>2, <2>1, <3>1, OtherRight
  <2>5. CASE WriteSum
    <3>1. mode' = mode /\ (pc'[s] = pc[s] \/ (pc[s] = "reduce" /\ pc'[s] = "done"))
      BY <1>1, <2>5 DEF WriteSum, Go
    <3> QED
      BY <1>2, <2>1, <3>1, OtherRight
  <2>6. CASE \E t \in Ranks : RankStep(t)
    <3>1. PICK t \in Ranks : RankStep(t)
      BY <2>6
    <3>2. CASE FillModes(t)
      BY <2>1, <3>2, FillModesRight
    <3>3. CASE AddConstrainedModes(t)
      BY <2>1, <3>3, ConstrainRight
    <3>4. CASE Normalise(t)
      BY <2>1, <3>4, NormaliseRight
    <3>5. CASE FillPlanes(t)
      <4>1. mode' = mode /\ (pc'[s] = pc[s] \/ (pc'[s] = "transform" /\ InRealSpace))
        BY <1>1, <3>5 DEF FillPlanes, Go
      <4> QED
        BY <1>2, <2>1, <4>1, OtherRight
    <3>6. CASE Downsample(t)
      <4>1. mode' = mode /\ (pc'[s] = pc[s] \/ (pc[s] = "export" /\ pc'[s] \in {"reduce", "done"}))
        BY <1>1, <3>6 DEF Downsample, Go
      <4> QED
        BY <1>2, <2>1, <4>1, OtherRight
    <3>7. CASE Refuse(t)
      <4>1. mode' = mode /\ (pc'[s] = pc[s] \/ pc'[s] = "thrown")
        BY <1>1, <3>7 DEF Refuse, Go
      <4> QED
        BY <1>2, <2>1, <4>1, OtherRight
    <3> QED
      BY <3>1, <3>2, <3>3, <3>4, <3>5, <3>6, <3>7 DEF RankStep
  <2> QED
    BY <2>2, <2>3, <2>4, <2>5, <2>6 DEF Next
<1>5. PlanesRight'
  <2>1. CASE \E t \in Ranks : FillPlanes(t)
    BY <2>1, FillPlanesRight
  <2>2. CASE ~\E t \in Ranks : FillPlanes(t)
    <3>1. plane' = plane
      BY <2>2 DEF vars, Next, RankStep, FillModes, FourierTransformForward,
         AddConstrainedModes, Normalise, ExportWhole, Downsample, WriteSum, Refuse
    <3>2. InRealSpace => \A s \in Ranks : pc'[s] \notin {"fill", "thrown"} => pc[s] \notin {"fill", "thrown"}
      <4>1. SUFFICES ASSUME InRealSpace, NEW s \in Ranks, pc'[s] \notin {"fill", "thrown"},
                            pc[s] \in {"fill", "thrown"}
                     PROVE  FALSE
        OBVIOUS
      <4>2. CASE UNCHANGED vars
        BY <4>1, <4>2 DEF vars
      <4>3. CASE FourierTransformForward \/ ExportWhole
        BY <4>1, <4>3 DEF FourierTransformForward, ExportWhole, AllAt
      <4>4. CASE WriteSum
        BY <1>1, <4>1, <4>4 DEF WriteSum, Go
      <4>5. CASE \E t \in Ranks : RankStep(t)
        <5>1. PICK t \in Ranks : RankStep(t)
          BY <4>5
        <5> QED
          BY <1>1, <2>2, <4>1, <5>1 DEF RankStep, FillModes, AddConstrainedModes, Normalise,
             Downsample, Refuse, Go
      <4> QED
        BY <4>2, <4>3, <4>4, <4>5 DEF Next
    <3> QED
      BY <1>3, <3>1, <3>2 DEF RInv, PlanesRight
  <2> QED
    BY <2>1, <2>2
<1> QED
  BY <1>1, <1>3, <1>4, <1>5 DEF RInv

LEMMA ReproducibleOnce == RInv => NoiseIsReproducible
<1>1. SUFFICES ASSUME RInv, AllAt("done"), NEW c \in Cells(cfg.n)
               PROVE  Aside(c) \/ mode[c] = Normed(Wanted(c))
  BY DEF NoiseIsReproducible, Aside, Wanted, Replaced, Coarser, WaveAt, Normed
<1>2. cfg \in Configs /\ cfg.n \in Nat \ {0} /\ c[1] \in 0 .. cfg.n - 1
  BY <1>1, ConfigFacts, CellFacts DEF RInv, IInv
<1>3. PICK s \in Ranks : c[1] \in Own(s, cfg.n)
  BY <1>2, OwnerExists
<1> QED
  BY <1>1, <1>3 DEF RInv, CellsRight, CellRight, AllAt

\* The noise of a wave vector does not depend on the number of ranks, the
\* build, the order of the ranks or the grid, with MUSIC1 for a given size of
\* the cubes: every rank fills and constrains the modes of its slab, at their
\* places, with the numbers their wave vectors have.
THEOREM Reproducible == Spec /\ Regular => []NoiseIsReproducible
BY InitIsRight, NextIsRight, ReproducibleOnce, PTL DEF Spec
=============================================================================
