--------------------------- MODULE ParticleLoad_proof ---------------------------
(***************************************************************************)
(* Theorems about ParticleLoad, for grids of every size and any number of  *)
(* ranks: no two particles share an id or a place, every quantity of a     *)
(* particle is read at the place the particle starts from, containers have *)
(* the room that is written and are counted right, and leaving particles   *)
(* out of a cube of the mask keeps its mass.                               *)
(***************************************************************************)
EXTENDS ParticleLoad, Counting

-----------------------------------------------------------------------------
(***************************************************************************)
(* Slabs and cells.                                                        *)
(***************************************************************************)
Area == cfg.n * cfg.n

LEMMA ConfigFacts ==
  ASSUME cfg \in Config
  PROVE  /\ cfg.n \in Nat \ {0} /\ cfg.ranks \in Nat \ {0} /\ Area \in Nat \ {0}
         /\ cfg.baryons \in BOOLEAN /\ cfg.wide \in BOOLEAN /\ cfg.mask \in 0 .. 3
         /\ cfg.load \in Bravais \cup {"masked", "glass"}
BY DEF Config, Area, Bravais

LEMMA Slabs ==
  ASSUME cfg \in Config, NEW r \in Nat
  PROVE  /\ Start(r) \in 0 .. cfg.n /\ Start(r) <= Start(r + 1)
         /\ Planes(r) \in Nat /\ local_size(r) = Planes(r) * Area /\ local_size(r) \in Nat
         /\ \A q \in Nat : r <= q => Start(r) <= Start(q)
<1>1. cfg.n \in Nat \ {0} /\ cfg.ranks \in Nat \ {0} /\ Area \in Nat
  BY ConfigFacts
<1>2. Block \in Nat
  BY <1>1 DEF Block
<1>3. \A q \in Nat : q * Block \in Nat /\ Start(q) \in 0 .. cfg.n
  BY <1>1, <1>2 DEF Start
<1>4. \A q \in Nat : r <= q => Start(r) <= Start(q)
  <2>1. \A q \in Nat : r <= q => r * Block <= q * Block
    BY <1>2, TimesMonotone
  <2> QED
    BY <1>1, <1>3, <2>1 DEF Start
<1>5. Planes(r) \in Nat /\ Start(r) <= Start(r + 1)
  BY <1>3, <1>4 DEF Planes
<1>6. local_size(r) = Planes(r) * Area
  BY <1>1, <1>5 DEF local_size, Area
<1> QED
  BY <1>1, <1>3, <1>4, <1>5, <1>6

\* A cell of the slab, and its number in the whole grid.
LEMMA CellOf ==
  ASSUME cfg \in Config, NEW r \in Rank, NEW l \in 0 .. local_size(r) - 1
  PROVE  LET c == get_cell_idx_3d(r, l) IN
         /\ c = <<c[1], c[2], c[3]>>
         /\ \A d \in Dims : c[d] \in 0 .. cfg.n - 1
         /\ get_cell_idx_1d(r, l) = Start(r) * Area + l
<1> DEFINE n == cfg.n
           N == Area
           b == l % n
           a == l \div n
           d == a % n
           c == a \div n
           k == d * n + b
           S == Start(r)
           P == Planes(r)
<1>1. /\ n \in Nat \ {0} /\ N \in Nat \ {0} /\ N = n * n /\ r \in Nat
      /\ S \in 0 .. n /\ P \in Nat /\ S + P <= n /\ l \in 0 .. P * N - 1 /\ P * N \in Nat
  <2>1. r \in Nat /\ r + 1 \in Nat
    BY ConfigFacts DEF Rank
  <2>2. n \in Nat \ {0} /\ N \in Nat \ {0} /\ N = n * n
    BY ConfigFacts DEF Area
  <2>3. Start(r + 1) \in 0 .. n /\ S \in 0 .. n /\ P \in Nat
    BY <2>1, Slabs
  <2>4. S + P <= n
    BY <2>2, <2>3 DEF Planes
  <2>5. local_size(r) = P * N /\ local_size(r) \in Nat
    BY <2>1, Slabs
  <2> QED
    BY <2>1, <2>2, <2>3, <2>4, <2>5
<1>2. get_cell_idx_3d(r, l) = <<S + l \div (n * n), d, b>>
  BY DEF get_cell_idx_3d
<1>3. get_cell_idx_1d(r, l) = ((S + l \div (n * n)) * n + d) * n + b
  BY <1>2 DEF get_cell_idx_1d
<1> HIDE DEF S, P, N, n
<1>4. l \in Int /\ a \in Int /\ b \in 0 .. n - 1 /\ a * n \in Int /\ l = a * n + b
  BY <1>1, DivMod
<1> HIDE DEF a, b
<1>5. c \in Int /\ d \in 0 .. n - 1 /\ c * n \in Int /\ a = c * n + d
  BY <1>1, <1>4, DivMod
<1> HIDE DEF c, d
<1>6. k \in 0 .. N - 1
  <2>1. d * n <= (n - 1) * n /\ 0 * n <= d * n /\ d * n \in Int
    BY <1>1, <1>5, TimesMonotone
  <2>2. (n - 1) * n = N - n
    BY <1>1
  <2> QED
    BY <1>1, <1>4, <2>1, <2>2
<1>7. l = c * N + k
  <2>1. a * n = c * N + d * n
    BY <1>1, <1>5
  <2> QED
    BY <1>1, <1>4, <1>5, <2>1
<1> HIDE DEF k
<1>8. l \div N = c
  BY <1>1, <1>5, <1>6, <1>7, ModIs
<1>9. c \in 0 .. P - 1
  <2>1. c * N \in Int /\ c * N < P * N /\ -N < c * N
    BY <1>1, <1>5, <1>6, <1>7
  <2>2. CASE c < 0
    <3>1. (c + 1) * N <= 0 * N
      BY <1>1, <1>5, <2>2, TimesMonotone
    <3> QED
      BY <1>1, <1>5, <1>6, <1>7, <2>1, <3>1, TimesNext
  <2>3. CASE c >= P
    <3>1. P * N <= c * N
      BY <1>1, <1>5, <2>3, TimesMonotone
    <3> QED
      BY <1>1, <2>1, <3>1
  <2> QED
    BY <1>1, <1>5, <2>2, <2>3
<1>10. get_cell_idx_3d(r, l) = <<S + c, d, b>>
  BY <1>1, <1>2, <1>8
<1>11. get_cell_idx_1d(r, l) = S * N + l
  <2>1. get_cell_idx_1d(r, l) = ((S + c) * n + d) * n + b
    BY <1>1, <1>3, <1>8
  <2>2. ((S + c) * n + d) * n + b = S * N + (c * N + (d * n + b))
    BY <1>1, <1>4, <1>5
  <2> QED
    BY <1>7, <2>1, <2>2 DEF k
<1> QED
  BY <1>1, <1>4, <1>5, <1>9, <1>10, <1>11 DEF Dims, S, N, n
\* The cells of all slabs have different numbers, below that of the whole grid.
LEMMA CellsDiffer ==
  ASSUME cfg \in Config, NEW r \in Rank, NEW q \in Rank,
         NEW l \in 0 .. local_size(r) - 1, NEW k \in 0 .. local_size(q) - 1
  PROVE  /\ get_cell_idx_1d(r, l) \in 0 .. global_size - 1
         /\ get_cell_idx_1d(r, l) = get_cell_idx_1d(q, k) => r = q /\ l = k
<1>1. ASSUME NEW s \in Rank, NEW j \in 0 .. local_size(s) - 1
      PROVE  /\ get_cell_idx_1d(s, j) = Start(s) * Area + j
             /\ j \in Nat /\ s \in Nat /\ s + 1 \in Nat /\ Area \in Nat
             /\ Start(s) * Area \in Nat /\ Start(s + 1) * Area \in Nat
             /\ Start(s) * Area + j < Start(s + 1) * Area
             /\ \A t \in Nat : s < t => Start(s + 1) * Area <= Start(t) * Area
             /\ Start(s + 1) * Area <= cfg.n * Area
  <2>1. s \in Nat /\ s + 1 \in Nat /\ Area \in Nat /\ cfg.n \in Nat
    BY ConfigFacts DEF Rank
  <2>2. /\ Start(s) \in Nat /\ Start(s + 1) \in Nat /\ Start(s + 1) <= cfg.n
        /\ local_size(s) = Planes(s) * Area /\ local_size(s) \in Nat
        /\ \A t \in Nat : s < t => Start(t) \in Nat /\ Start(s + 1) <= Start(t)
    <3>1. /\ Start(s) \in 0 .. cfg.n /\ local_size(s) = Planes(s) * Area
          /\ local_size(s) \in Nat
      BY <2>1, Slabs
    <3>2. /\ Start(s + 1) \in 0 .. cfg.n
          /\ \A t \in Nat : s + 1 <= t => Start(s + 1) <= Start(t)
      BY <2>1, Slabs
    <3>3. \A t \in Nat : Start(t) \in 0 .. cfg.n
      BY Slabs
    <3> QED
      BY <2>1, <3>1, <3>2, <3>3
  <2>3. local_size(s) = Start(s + 1) * Area - Start(s) * Area
    BY <2>1, <2>2 DEF Planes
  <2>4. Start(s) * Area \in Nat /\ Start(s + 1) * Area \in Nat
    BY <2>1, <2>2
  <2>5. \A t \in Nat : s < t => Start(s + 1) * Area <= Start(t) * Area
    BY <2>1, <2>2, TimesMonotone
  <2>6. Start(s + 1) * Area <= cfg.n * Area
    BY <2>1, <2>2, TimesMonotone
  <2>7. get_cell_idx_1d(s, j) = Start(s) * Area + j
    BY CellOf
  <2> QED
    BY <2>1, <2>2, <2>3, <2>4, <2>5, <2>6, <2>7
<1>2. global_size = cfg.n * Area /\ global_size \in Int
  BY ConfigFacts DEF global_size, Area
<1> QED
  BY <1>1, <1>2

-----------------------------------------------------------------------------
(***************************************************************************)
(* What the loops reach.                                                   *)
(***************************************************************************)
Reached(r, s) == DOMAIN Reach(r, s)
SameReach(r, s, p, q) ==
  Reach(r, s)[p].i = Reach(r, s)[q].i /\ Reach(r, s)[p].l = Reach(r, s)[q].l

LEMMA OverloadIs ==
  ASSUME cfg \in Config
  PROVE  overload \in {1, 2, 4, 8} /\ (cfg.load = "masked" => overload = 1)
BY DEF overload

LEMMA KeptFacts ==
  ASSUME cfg \in Config, NEW r \in Rank, NEW s
  PROVE  /\ Kept(r, s) \in SUBSET Nat /\ IsFiniteSet(Kept(r, s))
         /\ Cardinality(Kept(r, s)) \in Nat
<1>1. r \in Nat
  BY ConfigFacts DEF Rank
<1>2. local_size(r) \in Nat
  BY <1>1, Slabs
<1>3. Kept(r, s) \in SUBSET (0 .. local_size(r) - 1) /\ Kept(r, s) \in SUBSET Nat
  BY <1>2 DEF Kept
<1>4. IsFiniteSet(0 .. local_size(r) - 1)
  BY <1>2, FS_Interval
<1>5. IsFiniteSet(Kept(r, s))
  BY <1>3, <1>4, FS_Subset
<1> QED
  BY <1>3, <1>5, FS_CardinalityType

\* The loops reach the whole container, a sublattice and a cell of the slab at
\* every index, the same ones only once; of a masked load cells of the species.
LEMMA ReachFacts ==
  ASSUME cfg \in Config, cfg.load # "glass", NEW r \in Rank, NEW s
  PROVE  /\ Reached(r, s) = 0 .. num_p(r, s) - 1 /\ num_p(r, s) \in Nat
         /\ \A p \in Reached(r, s) :
              /\ Reach(r, s)[p].i \in 1 .. overload
              /\ Reach(r, s)[p].l \in 0 .. local_size(r) - 1
              /\ cfg.load = "masked" =>
                   get_mask_value(get_cell_idx_3d(r, Reach(r, s)[p].l)) = s
         /\ \A p, q \in Reached(r, s) : SameReach(r, s, p, q) => p = q
<1>1. r \in Nat /\ local_size(r) \in Nat /\ overload \in Nat \ {0}
  <2>1. r \in Nat
    BY ConfigFacts DEF Rank
  <2>2. local_size(r) \in Nat
    BY <2>1, Slabs
  <2>3. overload \in Nat \ {0}
    BY OverloadIs
  <2> QED
    BY <2>1, <2>2, <2>3
<1>2. CASE cfg.load = "masked"
  <2> DEFINE K == Kept(r, s)
             C == Cardinality(K)
  <2>1. /\ num_p(r, s) = C
        /\ Reach(r, s) = [p \in 0 .. C - 1 |-> [i |-> 1, l |-> Nth(K, p)]]
    BY <1>2 DEF num_p, Reach, Bravais
  <2>2. K \in SUBSET Nat /\ IsFiniteSet(K) /\ C \in Nat
    BY KeptFacts
  <2>3. \A l \in K : /\ l \in 0 .. local_size(r) - 1
                     /\ get_mask_value(get_cell_idx_3d(r, l)) = s
    BY DEF Kept
  <2> HIDE DEF K
  <2>4. \A p \in 0 .. C - 1 : Nth(K, p) \in K /\ Cardinality({k \in K : k < Nth(K, p)}) = p
    <3>1. SUFFICES ASSUME NEW p \in 0 .. C - 1
                   PROVE  Nth(K, p) \in K /\ Cardinality({k \in K : k < Nth(K, p)}) = p
      OBVIOUS
    <3>2. \E l \in K : Cardinality({k \in K : k < l}) = p
      BY <2>2, NthExists
    <3> QED
      BY <3>2 DEF Nth
  <2> HIDE DEF C
  <2>5. \A p, q \in 0 .. C - 1 : Nth(K, p) = Nth(K, q) => p = q
    BY <2>4
  <2>6. Reached(r, s) = 0 .. C - 1
    BY <2>1 DEF Reached
  <2>7. \A p \in 0 .. C - 1 : Reach(r, s)[p] = [i |-> 1, l |-> Nth(K, p)]
    BY <2>1
  <2>8. 1 \in 1 .. overload
    BY <1>1
  <2> HIDE DEF C
  <2>9. \A p \in Reached(r, s) :
          /\ Reach(r, s)[p].i = 1 /\ Reach(r, s)[p].l = Nth(K, p) /\ Nth(K, p) \in K
    <3>1. SUFFICES ASSUME NEW p \in 0 .. C - 1
                   PROVE  Reach(r, s)[p].i = 1 /\ Reach(r, s)[p].l = Nth(K, p)
      BY <2>4, <2>6
    <3>2. Reach(r, s)[p] = [i |-> 1, l |-> Nth(K, p)]
      BY <2>7
    <3> QED
      BY <3>2
  <2>10. \A p, q \in Reached(r, s) : SameReach(r, s, p, q) => p = q
    <3>1. SUFFICES ASSUME NEW p \in Reached(r, s), NEW q \in Reached(r, s),
                          SameReach(r, s, p, q)
                   PROVE  p = q
      OBVIOUS
    <3>2. Nth(K, p) = Nth(K, q)
      BY <2>9, <3>1 DEF SameReach
    <3> QED
      BY <2>5, <2>6, <3>1, <3>2
  <2>11. \A p \in Reached(r, s) :
           /\ Reach(r, s)[p].i \in 1 .. overload
           /\ Reach(r, s)[p].l \in 0 .. local_size(r) - 1
           /\ get_mask_value(get_cell_idx_3d(r, Reach(r, s)[p].l)) = s
    BY <2>3, <2>8, <2>9
  <2>12. Reached(r, s) = 0 .. num_p(r, s) - 1 /\ num_p(r, s) \in Nat
    BY <2>1, <2>2, <2>6
  <2> QED
    BY <2>9, <2>10, <2>11, <2>12
<1>3. CASE cfg.load # "masked"
  <2> DEFINE L == local_size(r)
             T == overload * L
  <2>1. /\ num_p(r, s) = T
        /\ Reach(r, s) = [p \in 0 .. T - 1 |-> [i |-> p \div L + 1, l |-> p % L]]
    BY <1>3, ConfigFacts DEF num_p, Reach
  <2>2. T \in Nat /\ L \in Nat
    BY <1>1
  <2>3. ASSUME NEW p \in 0 .. T - 1
        PROVE  /\ L # 0 /\ p % L \in 0 .. L - 1 /\ p \div L + 1 \in 1 .. overload
               /\ p \div L \in Int /\ p = (p \div L) * L + (p % L)
    <3>1. L # 0 /\ T = overload * L
      BY <1>1, <2>2, <2>3
    <3> HIDE DEF L, T
    <3> DEFINE a == p \div L
               b == p % L
    <3>2. p \in Nat /\ p < T /\ a \in Int /\ b \in 0 .. L - 1 /\ p = a * L + b /\ a * L \in Int
      BY <2>2, <3>1, DivMod, SMTT(30)
    <3> HIDE DEF a, b
    <3>3. a < overload
      <4>1. CASE a >= overload
        <5>1. overload * L <= a * L
          BY <1>1, <2>2, <3>2, <4>1, TimesMonotone
        <5> QED
          BY <2>2, <3>1, <3>2, <5>1
      <4> QED
        BY <1>1, <3>2, <4>1
    <3>4. a >= 0
      <4>1. CASE a < 0
        <5>1. (a + 1) * L <= 0 * L
          BY <2>2, <3>2, <4>1, TimesMonotone
        <5> QED
          BY <2>2, <3>2, <5>1, TimesNext
      <4> QED
        BY <3>2, <4>1
    <3> QED
      <4>1. a + 1 \in 1 .. overload
        BY <1>1, <3>2, <3>3, <3>4
      <4> QED
        BY <3>1, <3>2, <4>1 DEF a, b
  <2> HIDE DEF T, L
  <2>4. \A p, q \in 0 .. T - 1 : p \div L + 1 = q \div L + 1 /\ p % L = q % L => p = q
    <3>1. SUFFICES ASSUME NEW p \in 0 .. T - 1, NEW q \in 0 .. T - 1,
                          p \div L + 1 = q \div L + 1, p % L = q % L
                   PROVE  p = q
      OBVIOUS
    <3>2. p \div L = q \div L
      <4>1. p \div L \in Int /\ q \div L \in Int
        BY <2>3
      <4> QED
        BY <3>1, <4>1
    <3>3. p = (p \div L) * L + (p % L) /\ q = (q \div L) * L + (q % L)
      BY <2>3
    <3> QED
      BY <3>1, <3>2, <3>3
  <2>5. Reached(r, s) = 0 .. T - 1
    BY <2>1 DEF Reached
  <2>6. \A p \in 0 .. T - 1 : Reach(r, s)[p] = [i |-> p \div L + 1, l |-> p % L]
    BY <2>1
  <2>7. L = local_size(r)
    BY DEF L
  <2>8. \A p \in Reached(r, s) :
          /\ p \in 0 .. T - 1
          /\ Reach(r, s)[p].i = p \div L + 1 /\ Reach(r, s)[p].l = p % L
    <3>1. SUFFICES ASSUME NEW p \in 0 .. T - 1
                   PROVE  Reach(r, s)[p].i = p \div L + 1 /\ Reach(r, s)[p].l = p % L
      BY <2>5
    <3>2. Reach(r, s)[p] = [i |-> p \div L + 1, l |-> p % L]
      BY <2>6
    <3> QED
      BY <3>2
  <2>9. \A p, q \in Reached(r, s) : SameReach(r, s, p, q) => p = q
    <3>1. SUFFICES ASSUME NEW p \in Reached(r, s), NEW q \in Reached(r, s),
                          SameReach(r, s, p, q)
                   PROVE  p = q
      OBVIOUS
    <3>2. p \in 0 .. T - 1 /\ q \in 0 .. T - 1 /\ p \div L + 1 = q \div L + 1 /\ p % L = q % L
      BY <2>8, <3>1 DEF SameReach
    <3> QED
      BY <2>4, <3>2
  <2>10. \A p \in Reached(r, s) :
           /\ Reach(r, s)[p].i \in 1 .. overload
           /\ Reach(r, s)[p].l \in 0 .. local_size(r) - 1
    BY <2>3, <2>7, <2>8
  <2>11. Reached(r, s) = 0 .. num_p(r, s) - 1 /\ num_p(r, s) \in Nat
    BY <2>1, <2>2, <2>5
  <2> QED
    BY <1>3, <2>8, <2>9, <2>10, <2>11
<1> QED
  BY <1>2, <1>3
-----------------------------------------------------------------------------
(***************************************************************************)
(* Shifts of the sublattices and of the second species.                    *)
(***************************************************************************)
LEMMA ShiftTables ==
  /\ lattice_shifts["sc"] = <<Zero3>>
  /\ lattice_shifts["bcc"] = <<Zero3, <<2, 2, 2>>>>
  /\ lattice_shifts["fcc"] = <<Zero3, <<0, 2, 2>>, <<2, 0, 2>>, <<2, 2, 0>>>>
  /\ lattice_shifts["rsc"] = <<Zero3, <<0, 0, 2>>, <<0, 2, 0>>, <<0, 2, 2>>,
                               <<2, 0, 0>>, <<2, 0, 2>>, <<2, 2, 0>>, <<2, 2, 2>>>>
  /\ second_lattice_shift["sc"] = <<2, 2, 2>> /\ second_lattice_shift["bcc"] = <<2, 2, 0>>
  /\ second_lattice_shift["fcc"] = <<2, 2, 2>> /\ second_lattice_shift["rsc"] = <<1, 1, 1>>
BY DEF lattice_shifts, second_lattice_shift

LEMMA ShiftTypes ==
  ASSUME cfg \in Config, cfg.load \in Bravais
  PROVE  /\ \A i \in 1 .. overload, d \in Dims : lattice_shifts[cfg.load][i][d] \in {0, 2}
         /\ \A d \in Dims : /\ lattice_shifts[cfg.load][1][d] = 0
                            /\ second_lattice_shift[cfg.load][d] \in {0, 1, 2}
<1>1. CASE cfg.load = "sc"
  BY <1>1, ShiftTables DEF overload, Zero3, Dims
<1>2. CASE cfg.load = "bcc"
  BY <1>2, ShiftTables DEF overload, Zero3, Dims
<1>3. CASE cfg.load = "fcc"
  BY <1>3, ShiftTables DEF overload, Zero3, Dims
<1>4. CASE cfg.load = "rsc"
  BY <1>4, ShiftTables DEF overload, Zero3, Dims
<1> QED
  BY <1>1, <1>2, <1>3, <1>4 DEF Bravais
\* How far from the corner of its cell a particle of species s starts.
Offset(s, i, d) ==
  lattice_shifts[cfg.load][i][d] + (IF s = 1 THEN second_lattice_shift[cfg.load][d] ELSE 0)

\* A particle's place in its cell, modulo cells, tells species and sublattice.
LEMMA OffsetsDiffer ==
  ASSUME cfg \in Config, cfg.load \in Bravais, NEW s \in 0 .. 1, NEW t \in 0 .. 1,
         NEW i \in 1 .. overload, NEW j \in 1 .. overload,
         \A d \in Dims : Offset(s, i, d) % 4 = Offset(t, j, d) % 4
  PROVE  s = t /\ i = j
<1> DEFINE T == lattice_shifts[cfg.load]
           S == second_lattice_shift[cfg.load]
           M(x) == IF x = 4 THEN 0 ELSE x
<1>1. \A d \in Dims : M(Offset(s, i, d)) = M(Offset(t, j, d))
  <2>1. \A d \in Dims : Offset(s, i, d) \in 0 .. 4 /\ Offset(t, j, d) \in 0 .. 4
    BY ShiftTypes DEF Offset
  <2>2. \A x \in 0 .. 4 : x % 4 = M(x)
    OBVIOUS
  <2> QED
    BY <2>1, <2>2
<1>2. \A d \in {1, 2, 3} : M(T[i][d] + (IF s = 1 THEN S[d] ELSE 0))
                             = M(T[j][d] + (IF t = 1 THEN S[d] ELSE 0))
  BY <1>1 DEF Offset, Dims
<1>3. CASE cfg.load = "sc"
  BY <1>2, <1>3, ShiftTables DEF overload, Zero3
<1>4. CASE cfg.load = "bcc"
  BY <1>2, <1>4, ShiftTables, SMTT(30) DEF overload, Zero3
<1>5. CASE cfg.load = "fcc"
  <2>1. overload = 4 /\ i \in 1 .. overload /\ j \in 1 .. overload
    BY <1>5 DEF overload
  <2>2. \A k \in 1 .. overload : /\ T[k][1] = (IF k \in {3, 4} THEN 2 ELSE 0)
                                 /\ T[k][2] = (IF k \in {2, 4} THEN 2 ELSE 0)
                                 /\ T[k][3] = (IF k \in {2, 3} THEN 2 ELSE 0)
    BY <1>5, ShiftTables DEF overload, Zero3
  <2>3. S[1] = 2 /\ S[2] = 2 /\ S[3] = 2
    BY <1>5, ShiftTables
  <2> HIDE DEF T, S
  <2>4. /\ M(T[i][1] + (IF s = 1 THEN S[1] ELSE 0)) = M(T[j][1] + (IF t = 1 THEN S[1] ELSE 0))
        /\ M(T[i][2] + (IF s = 1 THEN S[2] ELSE 0)) = M(T[j][2] + (IF t = 1 THEN S[2] ELSE 0))
        /\ M(T[i][3] + (IF s = 1 THEN S[3] ELSE 0)) = M(T[j][3] + (IF t = 1 THEN S[3] ELSE 0))
    BY <1>2
  <2> QED
    BY <1>5, <2>1, <2>2, <2>3, <2>4
<1>6. CASE cfg.load = "rsc"
  <2>1. overload = 8 /\ i \in 1 .. overload /\ j \in 1 .. overload
    BY <1>6 DEF overload
  <2>2. \A k \in 1 .. overload : /\ T[k][1] = (IF k \in 5 .. 8 THEN 2 ELSE 0)
                                 /\ T[k][2] = (IF k \in {3, 4, 7, 8} THEN 2 ELSE 0)
                                 /\ T[k][3] = (IF k \in {2, 4, 6, 8} THEN 2 ELSE 0)
    BY <1>6, ShiftTables DEF overload, Zero3
  <2>3. S[1] = 1 /\ S[2] = 1 /\ S[3] = 1
    BY <1>6, ShiftTables
  <2> HIDE DEF T, S
  <2>4. /\ M(T[i][1] + (IF s = 1 THEN S[1] ELSE 0)) = M(T[j][1] + (IF t = 1 THEN S[1] ELSE 0))
        /\ M(T[i][2] + (IF s = 1 THEN S[2] ELSE 0)) = M(T[j][2] + (IF t = 1 THEN S[2] ELSE 0))
        /\ M(T[i][3] + (IF s = 1 THEN S[3] ELSE 0)) = M(T[j][3] + (IF t = 1 THEN S[3] ELSE 0))
    BY <1>2
  <2> QED
    BY <1>6, <2>1, <2>2, <2>3, <2>4
<1> QED
  BY <1>3, <1>4, <1>5, <1>6 DEF Bravais

\* The differences from one sublattice to the next add up to the shift of the
\* sublattice.
LEMMA ShiftedIs ==
  ASSUME cfg \in Config, cfg.load \in Bravais, NEW i \in 1 .. overload, NEW d \in Dims,
         sp \in 0 .. 1
  PROVE  Shifted(i)[d] = Offset(sp, i, d)
<1> DEFINE T == lattice_shifts[cfg.load]
           IsTable(u) == u = [j \in 1 .. i |-> IF j = 1 THEN SpeciesShift
                                               ELSE Add(u[j - 1], Less(T[j], T[j - 1]))]
           by == CHOOSE u : IsTable(u)
           w == [j \in 1 .. i |-> IF j = 1 THEN SpeciesShift
                                  ELSE [e \in Dims |-> SpeciesShift[e] + T[j][e]]]
<1>1. i \in Nat /\ 1 \in 1 .. i /\ 1 .. i \subseteq 1 .. overload
  BY OverloadIs
<1>2. /\ \A j \in 1 .. i, e \in Dims : T[j][e] \in Int
      /\ \A e \in Dims : T[1][e] = 0 /\ SpeciesShift[e] \in Int
                      /\ SpeciesShift[e] = (IF sp = 1 THEN second_lattice_shift[cfg.load][e] ELSE 0)
  BY <1>1, ShiftTypes DEF SpeciesShift, lattice_index, Zero3, Dims
<1>3. Shifted(i) = by[i]
  BY DEF Shifted
<1> HIDE DEF T
<1>4. IsTable(w)
  <2>1. SUFFICES ASSUME NEW j \in 2 .. i
                 PROVE  [e \in Dims |-> SpeciesShift[e] + T[j][e]]
                          = Add(w[j - 1], Less(T[j], T[j - 1]))
    BY <1>1
  <2>2. j - 1 \in 1 .. i /\ j \in 1 .. i
    BY <1>1
  <2>3. \A e \in Dims : w[j - 1][e] = SpeciesShift[e] + T[j - 1][e]
    BY <1>2, <2>2
  <2>4. \A e \in Dims : w[j - 1][e] + (T[j][e] - T[j - 1][e]) = SpeciesShift[e] + T[j][e]
    BY <1>2, <2>2, <2>3
  <2> QED
    BY <2>4 DEF Add, Less
<1>5. IsTable(by)
  <2> HIDE DEF IsTable
  <2> QED
    BY <1>4
<1> HIDE DEF by
<1>6. \A j \in 1 .. i : by[j] = w[j]
  <2> DEFINE U == {j \in 1 .. i : by[j] # w[j]}
  <2>1. SUFFICES ASSUME U # {} PROVE FALSE
    OBVIOUS
  <2>2. PICK j \in U : \A k \in U : j <= k
    <3>1. U \subseteq Nat
      OBVIOUS
    <3> HIDE DEF U
    <3> QED
      BY <2>1, <3>1, LeastOf
  <2>3. j \in 1 .. i /\ by[j] # w[j]
    BY <2>2
  <2>4. j # 1
    BY <1>1, <1>5, <2>3
  <2>5. j - 1 \in 1 .. i /\ j - 1 \notin U
    BY <1>1, <2>2, <2>3, <2>4
  <2>6. by[j - 1] = w[j - 1]
    BY <2>5
  <2>7. /\ by[j] = Add(by[j - 1], Less(T[j], T[j - 1]))
        /\ w[j] = Add(w[j - 1], Less(T[j], T[j - 1]))
    BY <1>4, <1>5, <2>3, <2>4
  <2> QED
    BY <2>3, <2>6, <2>7
<1>7. w[i][d] = SpeciesShift[d] + T[i][d]
  BY <1>1, <1>2
<1> QED
  <2>1. by[i] = w[i]
    BY <1>1, <1>6
  <2>2. Shifted(i)[d] = SpeciesShift[d] + T[i][d] /\ SpeciesShift[d] \in Int /\ T[i][d] \in Int
    BY <1>1, <1>2, <1>3, <1>7, <2>1
  <2>3. Offset(sp, i, d) = T[i][d] + SpeciesShift[d]
    BY <1>2 DEF Offset, T
  <2> QED
    BY <2>2, <2>3
-----------------------------------------------------------------------------
(***************************************************************************)
(* Places and ids.                                                         *)
(***************************************************************************)
\* An index of a container as the loops reach it.
IsReached(s, r, e) ==
  /\ e.i \in 1 .. overload /\ e.l \in 0 .. local_size(r) - 1
  /\ cfg.load = "masked" => get_mask_value(get_cell_idx_3d(r, e.l)) = s

\* Where the particle that is reached starts from.
Place(s, r, e) ==
  LET cell == get_cell_idx_3d(r, e.l) IN
  IF cfg.load = "masked" THEN Wrapped(Site(cell))
  ELSE [d \in Dims |-> (4 * cell[d] + Offset(s, e.i, d)) % (4 * cfg.n)]

\* Fields and unperturbed positions are those of this place.
LEMMA SampleIs ==
  ASSUME cfg \in Config, cfg.load # "glass", sp \in 0 .. 1, NEW r \in Rank, NEW e,
         IsReached(sp, r, e)
  PROVE  LET cell == get_cell_idx_3d(r, e.l) IN
         /\ Sample(r, e) = Place(sp, r, e)
         /\ Wrapped(IF cfg.load = "masked" THEN Site(cell) ELSE Unperturbed(cell, e.i))
              = Place(sp, r, e)
<1> DEFINE cell == get_cell_idx_3d(r, e.l)
<1>1. CASE cfg.load = "masked"
  BY <1>1 DEF Sample, Place
<1>2. CASE cfg.load # "masked"
  <2>1. cfg.load \in Bravais
    BY <1>2, ConfigFacts
  <2>2. e.i \in 1 .. overload
    BY DEF IsReached
  <2>3. \A d \in Dims : Shifted(e.i)[d] = Offset(sp, e.i, d)
    BY <2>1, <2>2, ShiftedIs
  <2>4. Sample(r, e) = [d \in Dims |-> (4 * cell[d] + Shifted(e.i)[d]) % (4 * cfg.n)]
    BY <1>2 DEF Sample, Wrapped, Add, Site
  <2>5. Sample(r, e) = Place(sp, r, e)
    BY <1>2, <2>3, <2>4 DEF Place
  <2>6. \A d \in Dims : lattice_shifts[cfg.load][e.i][d] + (IF lattice_index = 1 THEN second_lattice_shift[cfg.load] ELSE Zero3)[d]
                          = Offset(sp, e.i, d)
    <3>1. SUFFICES ASSUME NEW d \in Dims, lattice_index # 1
                   PROVE  lattice_shifts[cfg.load][e.i][d] + Zero3[d] = lattice_shifts[cfg.load][e.i][d] + 0
      BY DEF Offset, lattice_index
    <3> QED
      BY <3>1 DEF Zero3, Dims
  <2>7. Wrapped(Unperturbed(cell, e.i)) = Place(sp, r, e)
    <3>1. \A d \in Dims : Unperturbed(cell, e.i)[d] = 4 * cell[d] + Offset(sp, e.i, d)
      BY <2>6 DEF Unperturbed, Add, Site
    <3> QED
      BY <1>2, <3>1 DEF Wrapped, Place
  <2> QED
    BY <1>2, <2>5, <2>7
<1> QED
  BY <1>1, <1>2

LEMMA SameCell ==
  ASSUME cfg \in Config, NEW r \in Rank, NEW q \in Rank,
         NEW l \in 0 .. local_size(r) - 1, NEW k \in 0 .. local_size(q) - 1,
         \A d \in Dims : get_cell_idx_3d(r, l)[d] = get_cell_idx_3d(q, k)[d]
  PROVE  r = q /\ l = k
<1>1. get_cell_idx_1d(r, l) = get_cell_idx_1d(q, k)
  BY DEF get_cell_idx_1d, Dims
<1> QED
  BY <1>1, CellsDiffer

\* Whole cells apart or not, the place in the cell remains.
LEMMA ModModFour ==
  ASSUME NEW n \in Nat \ {0}, NEW a \in Int
  PROVE  (a % (4 * n)) % 4 = a % 4
<1> DEFINE N == 4 * n
           q == a \div N
           k == a % N
           j == k \div 4
           m == k % 4
<1>1. N \in Nat \ {0} /\ q \in Int /\ k \in Int /\ a = q * N + k
  <2>1. N \in Nat \ {0}
    OBVIOUS
  <2> HIDE DEF N
  <2> QED
    BY <2>1, DivMod
<1>2. q * N = (q * n) * 4
  BY <1>1
<1> HIDE DEF q, k, N
<1>3. j \in Int /\ m \in 0 .. 3 /\ k = j * 4 + m
  BY <1>1, DivMod
<1> HIDE DEF j, m
<1>4. q * n + j \in Int /\ a = (q * n + j) * 4 + m
  <2>1. q * n \in Int
    BY <1>1
  <2> QED
    BY <1>1, <1>2, <1>3, <2>1
<1>5. a % 4 = m
  <2> DEFINE x == q * n + j
  <2>1. x \in Int /\ a = x * 4 + m
    BY <1>4
  <2> HIDE DEF x
  <2> QED
    BY <1>3, <2>1, ModIs
<1> QED
  BY <1>5 DEF m, k, N

LEMMA PlacesDiffer ==
  ASSUME cfg \in Config, cfg.load # "glass", NEW s \in 0 .. 1, NEW t \in 0 .. 1,
         NEW r \in Rank, NEW q \in Rank, NEW e, NEW f,
         IsReached(s, r, e), IsReached(t, q, f), Place(s, r, e) = Place(t, q, f)
  PROVE  s = t /\ r = q /\ e.i = f.i /\ e.l = f.l
<1> DEFINE c == get_cell_idx_3d(r, e.l)
           b == get_cell_idx_3d(q, f.l)
           n == cfg.n
<1>1. /\ n \in Nat \ {0} /\ e.l \in 0 .. local_size(r) - 1 /\ f.l \in 0 .. local_size(q) - 1
      /\ e.i \in 1 .. overload /\ f.i \in 1 .. overload
  BY ConfigFacts DEF IsReached
<1>2. \A d \in Dims : c[d] \in 0 .. n - 1 /\ b[d] \in 0 .. n - 1
  BY <1>1, CellOf
<1>3. ASSUME NEW x \in Int, NEW y \in 0 .. n - 1, NEW z \in 0 .. n - 1,
             (4 * y + x) % (4 * n) = (4 * z + x) % (4 * n)
      PROVE  y = z
  <2> DEFINE N == 4 * n
             u == 4 * y + x
             v == 4 * z + x
  <2>1. N \in Nat \ {0} /\ u \in Int /\ v \in Int /\ u - v < N /\ v - u < N /\ u % N = v % N
    BY <1>1, <1>3
  <2>2. u = v
    <3> HIDE DEF N, u, v
    <3> QED
      BY <2>1, ModInjective
  <2> QED
    BY <2>2
<1>4. CASE cfg.load = "masked"
  <2>1. \A d \in Dims : (4 * c[d]) % (4 * n) = (4 * b[d]) % (4 * n)
    <3>1. /\ Place(s, r, e) = [d \in Dims |-> (4 * c[d]) % (4 * n)]
          /\ Place(t, q, f) = [d \in Dims |-> (4 * b[d]) % (4 * n)]
      BY <1>4 DEF Place, Wrapped, Site
    <3> HIDE DEF c, b, n
    <3> QED
      BY <3>1
  <2>2. \A d \in Dims : c[d] = b[d]
    <3> HIDE DEF c, b, n
    <3>1. SUFFICES ASSUME NEW d \in Dims PROVE c[d] = b[d]
      OBVIOUS
    <3>2. (4 * c[d] + 0) % (4 * n) = (4 * b[d] + 0) % (4 * n)
      BY <1>1, <1>2, <2>1
    <3> QED
      BY <1>2, <1>3, <3>2
  <2>3. r = q /\ e.l = f.l
    BY <1>1, <2>2, SameCell
  <2>4. s = t
    BY <1>4, <2>3 DEF IsReached
  <2> QED
    BY <1>1, <1>4, <2>3, <2>4, OverloadIs
<1>5. CASE cfg.load # "masked"
  <2> DEFINE x(d) == Offset(s, e.i, d)
             y(d) == Offset(t, f.i, d)
  <2>1. cfg.load \in Bravais
    BY <1>5, ConfigFacts
  <2>2. \A d \in Dims : x(d) \in 0 .. 4 /\ y(d) \in 0 .. 4
    BY <1>1, <2>1, ShiftTypes DEF Offset
  <2>3. \A d \in Dims : (4 * c[d] + x(d)) % (4 * n) = (4 * b[d] + y(d)) % (4 * n)
    <3>1. /\ Place(s, r, e) = [d \in Dims |-> (4 * c[d] + x(d)) % (4 * n)]
          /\ Place(t, q, f) = [d \in Dims |-> (4 * b[d] + y(d)) % (4 * n)]
      BY <1>5 DEF Place
    <3> HIDE DEF c, b, n, x, y
    <3> QED
      BY <3>1
  <2>4. \A d \in Dims : x(d) % 4 = y(d) % 4
    <3> HIDE DEF c, b, n, x, y
    <3>1. SUFFICES ASSUME NEW d \in Dims PROVE x(d) % 4 = y(d) % 4
      OBVIOUS
    <3> DEFINE u == 4 * c[d] + x(d)
               v == 4 * b[d] + y(d)
    <3>2. u \in Int /\ v \in Int /\ u % (4 * n) = v % (4 * n)
      BY <1>2, <2>2, <2>3
    <3>3. u % 4 = x(d) % 4 /\ v % 4 = y(d) % 4
      BY <1>2, <2>2
    <3> HIDE DEF u, v
    <3>4. (u % (4 * n)) % 4 = u % 4 /\ (v % (4 * n)) % 4 = v % 4
      BY <1>1, <3>2, ModModFour
    <3> QED
      BY <3>2, <3>3, <3>4
  <2>5. s = t /\ e.i = f.i
    BY <1>1, <2>1, <2>4, OffsetsDiffer
  <2>6. \A d \in Dims : c[d] = b[d]
    <3>1. \A d \in Dims : x(d) = y(d)
      BY <2>5
    <3> HIDE DEF c, b, n, x, y
    <3> QED
      <4>1. SUFFICES ASSUME NEW d \in Dims PROVE c[d] = b[d]
        OBVIOUS
      <4>2. (4 * c[d] + x(d)) % (4 * n) = (4 * b[d] + x(d)) % (4 * n) /\ x(d) \in Int
        BY <2>2, <2>3, <3>1
      <4> QED
        BY <1>2, <1>3, <4>2
  <2>7. r = q /\ e.l = f.l
    BY <1>1, <2>6, SameCell
  <2> QED
    BY <2>5, <2>7
<1> QED
  BY <1>4, <1>5
\* The id of what is reached, before it is stored.
Counted(s, r, e) ==
  IDoffset(s) + (IF cfg.load = "masked" THEN get_cell_idx_1d(r, e.l)
                 ELSE overload * get_cell_idx_1d(r, e.l) + (e.i - 1))

LEMMA CountedIs ==
  ASSUME cfg \in Config, cfg.load # "glass", NEW s \in 0 .. 1, NEW r \in Rank, NEW e,
         IsReached(s, r, e)
  PROVE  LET c == get_cell_idx_1d(r, e.l) IN
         /\ c \in 0 .. global_size - 1 /\ global_size \in Nat \ {0}
         /\ Counted(s, r, e) = (s * global_size + c) * overload + (e.i - 1)
<1> DEFINE c == get_cell_idx_1d(r, e.l)
           G == global_size
           o == overload
<1>1. /\ c \in 0 .. G - 1 /\ e.i \in 1 .. o /\ o \in Nat \ {0}
      /\ (cfg.load = "masked" => o = 1)
  <2>1. o \in Nat \ {0} /\ (cfg.load = "masked" => o = 1)
    BY OverloadIs
  <2>2. e.i \in 1 .. o /\ e.l \in 0 .. local_size(r) - 1
    BY DEF IsReached
  <2>3. c \in 0 .. G - 1
    BY <2>2, CellsDiffer
  <2> QED
    BY <2>1, <2>2, <2>3
<1>2. G \in Nat \ {0}
  <2>1. G = cfg.n * Area /\ cfg.n \in Nat \ {0} /\ Area \in Nat \ {0}
    BY ConfigFacts DEF global_size, Area
  <2> QED
    BY <2>1
<1>3. Counted(s, r, e) = (IF cfg.load = "masked" THEN s * G ELSE s * o * G)
                           + (IF cfg.load = "masked" THEN c ELSE o * c + (e.i - 1))
  BY DEF Counted, IDoffset
<1> HIDE DEF c, G, o
<1>4. ASSUME cfg.load = "masked"
      PROVE  Counted(s, r, e) = (s * G + c) * o + (e.i - 1)
  <2>1. o = 1 /\ e.i = 1
    BY <1>1, <1>4
  <2>2. s * G + c = (s * G + c) * 1 + (1 - 1)
    BY <1>1, <1>2
  <2> QED
    BY <1>3, <1>4, <2>1, <2>2
<1>5. ASSUME cfg.load # "masked"
      PROVE  Counted(s, r, e) = (s * G + c) * o + (e.i - 1)
  <2>1. (s * G + c) * o = s * o * G + o * c
    BY <1>1, <1>2
  <2>2. s * o * G \in Int /\ o * c \in Int
    BY <1>1, <1>2
  <2> QED
    BY <1>1, <1>3, <1>5, <2>1, <2>2
<1>6. Counted(s, r, e) = (s * G + c) * o + (e.i - 1)
  BY <1>4, <1>5
<1> QED
  BY <1>1, <1>2, <1>6 DEF c, G, o

\* Different particles, of either species, count different ids, all below the
\* number of particles.
LEMMA CountedDiffer ==
  ASSUME cfg \in Config, cfg.load # "glass", NEW s \in 0 .. 1, NEW t \in 0 .. 1,
         NEW r \in Rank, NEW q \in Rank, NEW e, NEW f,
         IsReached(s, r, e), IsReached(t, q, f)
  PROVE  /\ Counted(s, r, e) \in 0 .. (s + 1) * overload * global_size - 1
         /\ Counted(s, r, e) = Counted(t, q, f) => s = t /\ r = q /\ e.i = f.i /\ e.l = f.l
<1> DEFINE c == get_cell_idx_1d(r, e.l)
           b == get_cell_idx_1d(q, f.l)
           G == global_size
           o == overload
           x == s * G + c
           y == t * G + b
<1>1. /\ c \in 0 .. G - 1 /\ b \in 0 .. G - 1 /\ G \in Nat \ {0}
      /\ Counted(s, r, e) = x * o + (e.i - 1)
      /\ Counted(t, q, f) = y * o + (f.i - 1)
  BY CountedIs
<1>2. /\ o \in Nat \ {0} /\ e.i \in 1 .. o /\ f.i \in 1 .. o
      /\ e.l \in 0 .. local_size(r) - 1 /\ f.l \in 0 .. local_size(q) - 1
  BY OverloadIs DEF IsReached
<1>3. c = b => r = q /\ e.l = f.l
  BY <1>2, CellsDiffer
<1> HIDE DEF c, b, G, o
<1>4. x \in Nat /\ y \in Nat /\ x <= (s + 1) * G - 1
  BY <1>1
<1>5. x = y => s = t /\ c = b
  BY <1>1
<1> HIDE DEF x, y
<1>6. Counted(s, r, e) \in 0 .. (s + 1) * o * G - 1
  <2>1. x * o \in Nat /\ (x + 1) * o = x * o + o /\ (x + 1) * o <= ((s + 1) * G) * o
    BY <1>1, <1>2, <1>4, TimesNext, TimesMonotone
  <2>2. ((s + 1) * G) * o = (s + 1) * o * G
    BY <1>1, <1>2
  <2> QED
    BY <1>1, <1>2, <2>1, <2>2
<1>7. ASSUME Counted(s, r, e) = Counted(t, q, f)
      PROVE  x = y /\ e.i = f.i
  <2> DEFINE z == Counted(s, r, e)
             i == e.i - 1
             j == f.i - 1
  <2>1. z = x * o + i /\ z = y * o + j /\ i \in 0 .. o - 1 /\ j \in 0 .. o - 1 /\ z \in Int
    BY <1>1, <1>2, <1>6, <1>7
  <2> HIDE DEF z, i, j
  <2>2. x * o \in Int /\ y * o \in Int
    BY <1>2, <1>4
  <2>3. x * o - y * o < o /\ y * o - x * o < o
    BY <1>2, <2>1, <2>2
  <2>4. x = y
    BY <1>2, <1>4, <2>3, SmallMultiple
  <2>5. i = j
    BY <2>1, <2>2, <2>4
  <2> QED
    BY <1>2, <2>4, <2>5 DEF i, j
<1> QED
  BY <1>3, <1>5, <1>6, <1>7 DEF o, G
-----------------------------------------------------------------------------
(***************************************************************************)
(* The inductive invariant: how far each species is, and what its          *)
(* particles hold by then.                                                 *)
(***************************************************************************)
Past(s, there) == s < sp \/ (s = sp /\ at \in there)
Made(s) == Past(s, {"masses", "pos", "vel", "write", "done"})
Weighed(s) == cfg.baryons /\ Past(s, {"pos", "vel", "write", "done"})
Put(s) == Past(s, {"vel", "write", "done"})
Given(s) == Past(s, {"write", "done"})

LTypes ==
  /\ cfg \in Config /\ sp \in 0 .. 1
  /\ at \in {"make", "masses", "pos", "vel", "write", "done", "aborted", "undefined"}
  /\ sp \in Species
  /\ at = "done" => sp + 1 \notin Species
  /\ (sp > 0 \/ at \in {"masses", "pos", "vel", "write", "done"}) => cfg.load # "glass"
  /\ (sp > 0 \/ at \in {"masses", "pos", "vel", "write", "done"}) /\ cfg.load = "masked" =>
       global_size % 8 = 0
  /\ at = "masses" => cfg.baryons
  /\ parts = [s \in 0 .. 1 |-> parts[s]]
  /\ \A s \in 0 .. 1 : parts[s] = [r \in Rank |-> parts[s][r]]

\* What the mass of the particle that is reached depends on.
Mass(s, r, e) ==
  IF cfg.load = "masked" THEN MaskedMass(r, s, get_cell_idx_3d(r, e.l)) ELSE Place(s, r, e)

IsParticle(q) == q = [id |-> q.id, mass |-> q.mass, pos |-> q.pos, vel |-> q.vel]

\* The particle at index p is the one that the loops reach there.
ParticleHolds(s, r, p) ==
  LET q == parts[s][r][p]
      x == Place(s, r, Reach(r, s)[p])
  IN /\ IsParticle(q) /\ q.id = Id(r, s, Reach(r, s)[p])
     /\ Weighed(s) => q.mass = <<Mass(s, r, Reach(r, s)[p])>>
     /\ Put(s) => q.pos = [d \in Dims |-> <<x, x>>]
     /\ Given(s) => q.vel = [d \in Dims |-> <<x>>]

SpeciesHolds(s) ==
  \A r \in Rank :
    /\ DOMAIN parts[s][r] = (IF Made(s) THEN Reached(r, s) ELSE {})
    /\ Made(s) => \A p \in Reached(r, s) : ParticleHolds(s, r, p)

LInv == LTypes /\ \A s \in 0 .. 1 : SpeciesHolds(s)

\* What the loops reach, ids and places depend on the configuration alone.
LEMMA LoopsStay ==
  ASSUME cfg' = cfg
  PROVE  /\ Rank' = Rank /\ Species' = Species
         /\ \A r, s : Reach(r, s)' = Reach(r, s) /\ Reached(r, s)' = Reached(r, s)
         /\ \A r, s, e : /\ Id(r, s, e)' = Id(r, s, e) /\ Place(s, r, e)' = Place(s, r, e)
                          /\ Mass(s, r, e)' = Mass(s, r, e)
         /\ global_size' = global_size
<1>1. /\ Rank' = Rank /\ Species' = Species /\ overload' = overload
      /\ \A r : local_size(r)' = local_size(r)
      /\ \A r, l : get_cell_idx_3d(r, l)' = get_cell_idx_3d(r, l)
  BY DEF Rank, Species, overload, local_size, get_cell_idx_3d, Planes, Start, Block
<1>2. \A c : get_mask_value(c)' = get_mask_value(c)
  BY DEF get_mask_value, particle_type_mask, Parity, masksize
<1>3. \A r, s : Kept(r, s)' = Kept(r, s)
  BY <1>1, <1>2 DEF Kept
<1>4. \A r, s : Reach(r, s)' = Reach(r, s)
  BY <1>1, <1>3 DEF Reach
<1>5. \A r, l : get_cell_idx_1d(r, l)' = get_cell_idx_1d(r, l)
  BY <1>1 DEF get_cell_idx_1d
<1>6. \A r, s, e : Id(r, s, e)' = Id(r, s, e)
  BY <1>1, <1>5 DEF Id, Stored, IDoffset, global_size
<1>7. \A s, i, d : Offset(s, i, d)' = Offset(s, i, d)
  BY DEF Offset, lattice_shifts, second_lattice_shift
<1>8. \A r, s, e : Place(s, r, e)' = Place(s, r, e)
  BY <1>1, <1>7 DEF Place, Wrapped, Site
<1>9. \A r, s : Reached(r, s)' = Reached(r, s)
  BY <1>4 DEF Reached
<1>10. \A r, s, c : MaskedMass(r, s, c)' = MaskedMass(r, s, c)
  BY DEF MaskedMass, CubeOrigin, Less, Parity, masksize, KeptCorners, particle_type_mask,
         Corner, Dims
<1>11. \A s, r, e : Mass(s, r, e)' = Mass(s, r, e)
  BY <1>1, <1>8, <1>10 DEF Mass
<1> QED
  BY <1>1, <1>4, <1>6, <1>8, <1>9, <1>11 DEF global_size

LEMMA LInit == Init => LInv
<1>1. SUFFICES ASSUME Init PROVE LInv
  OBVIOUS
<1>2. LTypes
  BY <1>1, ConfigsAssumption DEF Init, LTypes, Species
<1>3. \A s \in 0 .. 1 : ~Made(s)
  BY <1>1 DEF Init, Made, Past
<1>4. \A s \in 0 .. 1, r \in Rank : DOMAIN parts[s][r] = {}
  BY <1>1 DEF Init
<1> QED
  BY <1>2, <1>3, <1>4 DEF LInv, SpeciesHolds

\* A species that is not at hand stays as it is.
LEMMA OthersStay ==
  ASSUME LInv, cfg' = cfg, sp' = sp, NEW s \in 0 .. 1, s # sp, parts'[s] = parts[s]
  PROVE  SpeciesHolds(s)'
<1>1. /\ Made(s)' = Made(s) /\ Weighed(s)' = Weighed(s)
      /\ Put(s)' = Put(s) /\ Given(s)' = Given(s)
  BY DEF Made, Weighed, Put, Given, Past
<1>2. SpeciesHolds(s)
  BY DEF LInv
<1>3. \A r, p : ParticleHolds(s, r, p)' = ParticleHolds(s, r, p)
  BY <1>1, LoopsStay DEF ParticleHolds, IsParticle
<1> QED
  BY <1>1, <1>2, <1>3, LoopsStay DEF SpeciesHolds

\* What an operation has to leave at an index of the species at hand.
Due(q, r, p) ==
  LET x == Place(sp, r, Reach(r, sp)[p]) IN
  /\ IsParticle(q) /\ q.id = Id(r, sp, Reach(r, sp)[p])
  /\ Weighed(sp)' => q.mass = <<Mass(sp, r, Reach(r, sp)[p])>>
  /\ Put(sp)' => q.pos = [d \in Dims |-> <<x, x>>]
  /\ Given(sp)' => q.vel = [d \in Dims |-> <<x>>]

LEMMA AtHand ==
  ASSUME LInv, LTypes', cfg' = cfg, sp' = sp, NEW v,
         parts' = [parts EXCEPT ![sp] = v], Made(sp)',
         \A r \in Rank : DOMAIN v[r] = Reached(r, sp),
         \A r \in Rank : \A p \in Reached(r, sp) : Due(v[r][p], r, p)
  PROVE  LInv'
<1>1. parts'[sp] = v /\ \A s \in 0 .. 1 : s # sp => parts'[s] = parts[s]
  BY DEF LInv, LTypes
<1>2. ASSUME NEW r \in Rank, NEW p \in Reached(r, sp) PROVE ParticleHolds(sp, r, p)'
  <2> DEFINE e == Reach(r, sp)[p]
             x == Place(sp, r, e)
  <2>1. /\ parts'[sp][r][p] = v[r][p] /\ Reach(r, sp)' = Reach(r, sp) /\ cfg' = cfg
        /\ Id(r, sp, e)' = Id(r, sp, e) /\ Place(sp, r, e)' = x
        /\ Mass(sp, r, e)' = Mass(sp, r, e)
    BY <1>1, LoopsStay
  <2>2. /\ IsParticle(v[r][p]) /\ v[r][p].id = Id(r, sp, e)
        /\ Weighed(sp)' => v[r][p].mass = <<Mass(sp, r, e)>>
        /\ Put(sp)' => v[r][p].pos = [d \in Dims |-> <<x, x>>]
        /\ Given(sp)' => v[r][p].vel = [d \in Dims |-> <<x>>]
    BY DEF Due
  <2> QED
    BY <2>1, <2>2 DEF ParticleHolds, IsParticle
<1>3. SpeciesHolds(sp)'
  BY <1>1, <1>2, LoopsStay DEF SpeciesHolds
<1>4. \A s \in 0 .. 1 : s # sp => SpeciesHolds(s)'
  BY <1>1, OthersStay
<1> QED
  BY <1>3, <1>4 DEF LInv

\* The particles an operation finds are those the loops reach.
LEMMA AtHandHolds ==
  ASSUME LInv, at \in {"masses", "pos", "vel"}, NEW r \in Rank
  PROVE  /\ cfg \in Config /\ cfg.load # "glass" /\ sp \in 0 .. 1 /\ Made(sp)
         /\ DOMAIN parts[sp][r] = Reached(r, sp) /\ DOMAIN Reach(r, sp) = Reached(r, sp)
         /\ \A p \in Reached(r, sp) :
              ParticleHolds(sp, r, p) /\ IsReached(sp, r, Reach(r, sp)[p])
<1>1. /\ cfg \in Config /\ cfg.load # "glass" /\ sp \in 0 .. 1
  BY DEF LInv, LTypes
<1>2. Made(sp)
  BY DEF Made, Past
<1>3. \A p \in Reached(r, sp) : IsReached(sp, r, Reach(r, sp)[p])
  BY <1>1, ReachFacts DEF IsReached
<1>4. DOMAIN parts[sp][r] = Reached(r, sp) /\ \A p \in Reached(r, sp) : ParticleHolds(sp, r, p)
  BY <1>1, <1>2 DEF LInv, SpeciesHolds
<1> QED
  BY <1>1, <1>2, <1>3, <1>4 DEF Reached

LEMMA MakePreserves == ASSUME LInv, MakeParticles PROVE LInv'
<1>1. cfg' = cfg /\ sp' = sp /\ at = "make" /\ sp \in 0 .. 1 /\ cfg \in Config
  BY DEF MakeParticles, LInv, LTypes
<1>2. ~Made(sp)
  BY <1>1 DEF Made, Past
<1>3. ASSUME at' \in {"undefined", "aborted"}, UNCHANGED parts PROVE LInv'
  <2>1. LTypes'
    BY <1>1, <1>3, LoopsStay DEF LInv, LTypes
  <2>2. \A s \in 0 .. 1 : s # sp => SpeciesHolds(s)'
    BY <1>1, <1>3, OthersStay
  <2>3. SpeciesHolds(sp)'
    <3>1. ~Made(sp)'
      BY <1>1, <1>3 DEF Made, Past
    <3>2. SpeciesHolds(sp)
      BY <1>1 DEF LInv
    <3> QED
      BY <1>1, <1>2, <1>3, <3>1, <3>2, LoopsStay DEF SpeciesHolds
  <2> QED
    BY <1>1, <2>1, <2>2, <2>3 DEF LInv
<1>4. CASE cfg.load = "glass"
  BY <1>3, <1>4 DEF MakeParticles
<1>5. CASE cfg.load # "glass" /\ cfg.load = "masked" /\ global_size % 8 # 0
  BY <1>3, <1>5 DEF MakeParticles
<1>6. CASE cfg.load # "glass" /\ ~(cfg.load = "masked" /\ global_size % 8 # 0)
  <2> DEFINE v == [r \in Rank |-> [p \in 0 .. num_p(r, sp) - 1 |->
                     [NewParticle EXCEPT !.id = Id(r, sp, Reach(r, sp)[p])]]]
  <2>1. /\ parts' = [parts EXCEPT ![sp] = v]
        /\ at' = (IF cfg.baryons THEN "masses" ELSE "pos")
    BY <1>6 DEF MakeParticles
  <2>2. \A r \in Rank : Reached(r, sp) = 0 .. num_p(r, sp) - 1
    BY <1>1, <1>6, ReachFacts
  <2>3. \A r \in Rank : DOMAIN v[r] = Reached(r, sp)
    BY <2>2
  <2>4. \A r \in Rank : \A p \in Reached(r, sp) :
          IsParticle(v[r][p]) /\ v[r][p].id = Id(r, sp, Reach(r, sp)[p])
    <3>1. SUFFICES ASSUME NEW r \in Rank, NEW p \in Reached(r, sp)
                   PROVE  IsParticle(v[r][p]) /\ v[r][p].id = Id(r, sp, Reach(r, sp)[p])
      OBVIOUS
    <3>2. v[r][p] = [NewParticle EXCEPT !.id = Id(r, sp, Reach(r, sp)[p])]
      BY <2>2
    <3> HIDE DEF v
    <3> QED
      BY <3>2 DEF IsParticle, NewParticle
  <2>5. v = [r \in Rank |-> v[r]]
    OBVIOUS
  <2> HIDE DEF v
  <2>6. LTypes'
    <3>1. parts'[sp] = v /\ \A s \in 0 .. 1 : s # sp => parts'[s] = parts[s]
      BY <1>1, <2>1 DEF LInv, LTypes
    <3>2. /\ parts' = [s \in 0 .. 1 |-> parts'[s]]
          /\ \A s \in 0 .. 1 : parts'[s] = [r \in Rank |-> parts'[s][r]]
      BY <1>1, <2>1, <2>5, <3>1 DEF LInv, LTypes
    <3>3. cfg.load = "masked" => (global_size % 8)' = 0
      BY <1>1, <1>6, LoopsStay
    <3> QED
      BY <1>1, <1>6, <2>1, <3>2, <3>3, LoopsStay DEF LInv, LTypes
  <2>7. Made(sp)' /\ ~Put(sp)' /\ ~Given(sp)' /\ ~Weighed(sp)'
    BY <1>1, <2>1 DEF Made, Put, Given, Weighed, Past
  <2>8. \A r \in Rank : \A p \in Reached(r, sp) : Due(v[r][p], r, p)
    BY <2>4, <2>7 DEF Due
  <2> QED
    BY <1>1, <2>1, <2>3, <2>6, <2>7, <2>8, AtHand
<1> QED
  BY <1>4, <1>5, <1>6

\* The shape that writing at every index leaves.
LEMMA TypesStay ==
  ASSUME LInv, cfg' = cfg, sp' = sp, NEW v, v = [r \in Rank |-> v[r]],
         parts' = [parts EXCEPT ![sp] = v],
         at \in {"masses", "pos", "vel"}, at' \in {"pos", "vel", "write"}
  PROVE  LTypes'
<1>1. parts'[sp] = v /\ \A s \in 0 .. 1 : s # sp => parts'[s] = parts[s]
  BY DEF LInv, LTypes
<1>2. /\ parts' = [s \in 0 .. 1 |-> parts'[s]]
      /\ \A s \in 0 .. 1 : parts'[s] = [r \in Rank |-> parts'[s][r]]
  BY <1>1 DEF LInv, LTypes
<1>3. cfg.load # "glass" /\ (cfg.load = "masked" => (global_size % 8)' = 0)
  BY LoopsStay DEF LInv, LTypes
<1> QED
  BY <1>2, <1>3, LoopsStay DEF LInv, LTypes

LEMMA MassesPreserve == ASSUME LInv, set_masses PROVE LInv'
<1> DEFINE New(r, e) == IF cfg.load = "masked" THEN <<MaskedMass(r, sp, get_cell_idx_3d(r, e.l))>>
                                          ELSE <<Sample(r, e)>>
           Old(r, p) == IF p \in DOMAIN parts[sp][r] THEN parts[sp][r][p] ELSE NewParticle
           v == [r \in Rank |->
                   [p \in DOMAIN Reach(r, sp) \cup DOMAIN parts[sp][r] |->
                      IF p \in DOMAIN Reach(r, sp)
                        THEN [Old(r, p) EXCEPT !.mass = New(r, Reach(r, sp)[p])]
                        ELSE parts[sp][r][p]]]
<1>1. /\ at = "masses" /\ at' = "pos" /\ cfg' = cfg /\ sp' = sp
      /\ parts' = [parts EXCEPT ![sp] = v]
  BY DEF set_masses, Then, WriteAll
<1>2. v = [r \in Rank |-> v[r]]
  OBVIOUS
<1>3. cfg \in Config /\ cfg.load # "glass" /\ sp \in 0 .. 1
  BY <1>1 DEF LInv, LTypes
<1>4. ASSUME NEW r \in Rank
      PROVE  /\ DOMAIN v[r] = Reached(r, sp)
             /\ \A p \in Reached(r, sp) :
                  v[r][p] = [parts[sp][r][p] EXCEPT !.mass = New(r, Reach(r, sp)[p])]
  <2>1. DOMAIN parts[sp][r] = Reached(r, sp) /\ DOMAIN Reach(r, sp) = Reached(r, sp)
    BY <1>1, AtHandHolds
  <2> HIDE DEF New
  <2> QED
    BY <2>1
<1> HIDE DEF v, Old
<1>5. LTypes'
  BY <1>1, <1>2, <1>3, TypesStay
<1>6. Made(sp)' /\ ~Put(sp)' /\ ~Given(sp)'
  BY <1>1, <1>3 DEF Made, Weighed, Put, Given, Past, LInv, LTypes
<1>7. ASSUME NEW r \in Rank, NEW p \in Reached(r, sp)
      PROVE  Due(v[r][p], r, p)
  <2> DEFINE e == Reach(r, sp)[p]
             x == Place(sp, r, e)
             q == parts[sp][r][p]
  <2>1. ParticleHolds(sp, r, p) /\ IsReached(sp, r, e)
    BY <1>1, AtHandHolds
  <2>2. New(r, e) = <<Mass(sp, r, e)>>
    BY <1>3, <2>1, SampleIs DEF Mass
  <2>3. v[r][p] = [q EXCEPT !.mass = New(r, e)]
    BY <1>4
  <2>4. /\ IsParticle(q) /\ q.id = Id(r, sp, e)
        /\ Weighed(sp) => q.mass = <<Mass(sp, r, e)>>
        /\ Put(sp) => q.pos = [d \in Dims |-> <<x, x>>]
    BY <2>1 DEF ParticleHolds
  <2> HIDE DEF e, x, q, New
  <2>5. /\ IsParticle(v[r][p]) /\ v[r][p].id = q.id /\ v[r][p].mass = New(r, e)
        /\ v[r][p].pos = q.pos /\ v[r][p].vel = q.vel
    BY <2>3, <2>4 DEF IsParticle
  <2> QED
    BY <1>6, <2>2, <2>4, <2>5 DEF Due, e, x, q
<1> QED
  BY <1>1, <1>3, <1>4, <1>5, <1>6, <1>7, AtHand

LEMMA PositionsPreserve == ASSUME LInv, set_positions PROVE LInv'
<1> DEFINE New(r, e) == [d \in Dims |->
             <<Wrapped(IF cfg.load = "masked" THEN Site(get_cell_idx_3d(r, e.l))
                         ELSE Unperturbed(get_cell_idx_3d(r, e.l), e.i)), Sample(r, e)>>]
           Old(r, p) == IF p \in DOMAIN parts[sp][r] THEN parts[sp][r][p] ELSE NewParticle
           v == [r \in Rank |->
                   [p \in DOMAIN Reach(r, sp) \cup DOMAIN parts[sp][r] |->
                      IF p \in DOMAIN Reach(r, sp)
                        THEN [Old(r, p) EXCEPT !.pos = New(r, Reach(r, sp)[p])]
                        ELSE parts[sp][r][p]]]
<1>1. /\ at = "pos" /\ at' = "vel" /\ cfg' = cfg /\ sp' = sp
      /\ parts' = [parts EXCEPT ![sp] = v]
  BY DEF set_positions, Then, WriteAll
<1>2. v = [r \in Rank |-> v[r]]
  OBVIOUS
<1>3. cfg \in Config /\ cfg.load # "glass" /\ sp \in 0 .. 1
  BY <1>1 DEF LInv, LTypes
<1>4. ASSUME NEW r \in Rank
      PROVE  /\ DOMAIN v[r] = Reached(r, sp)
             /\ \A p \in Reached(r, sp) :
                  v[r][p] = [parts[sp][r][p] EXCEPT !.pos = New(r, Reach(r, sp)[p])]
  <2>1. DOMAIN parts[sp][r] = Reached(r, sp) /\ DOMAIN Reach(r, sp) = Reached(r, sp)
    BY <1>1, AtHandHolds
  <2> HIDE DEF New
  <2> QED
    BY <2>1
<1> HIDE DEF v, Old
<1>5. LTypes'
  BY <1>1, <1>2, <1>3, TypesStay
<1>6. Made(sp)' /\ ~Given(sp)' /\ Weighed(sp)' = Weighed(sp)
  BY <1>1, <1>3 DEF Made, Weighed, Put, Given, Past, LInv, LTypes
<1>7. ASSUME NEW r \in Rank, NEW p \in Reached(r, sp)
      PROVE  Due(v[r][p], r, p)
  <2> DEFINE e == Reach(r, sp)[p]
             x == Place(sp, r, e)
             q == parts[sp][r][p]
  <2>1. ParticleHolds(sp, r, p) /\ IsReached(sp, r, e)
    BY <1>1, AtHandHolds
  <2>2. New(r, e) = [d \in Dims |-> <<x, x>>]
    BY <1>3, <2>1, SampleIs
  <2>3. v[r][p] = [q EXCEPT !.pos = New(r, e)]
    BY <1>4
  <2>4. /\ IsParticle(q) /\ q.id = Id(r, sp, e)
        /\ Weighed(sp) => q.mass = <<Mass(sp, r, e)>>
        /\ Put(sp) => q.pos = [d \in Dims |-> <<x, x>>]
    BY <2>1 DEF ParticleHolds
  <2> HIDE DEF e, x, q, New
  <2>5. /\ IsParticle(v[r][p]) /\ v[r][p].id = q.id /\ v[r][p].pos = New(r, e)
        /\ v[r][p].mass = q.mass /\ v[r][p].vel = q.vel
    BY <2>3, <2>4 DEF IsParticle
  <2> QED
    BY <1>6, <2>2, <2>4, <2>5 DEF Due, e, x, q
<1> QED
  BY <1>1, <1>3, <1>4, <1>5, <1>6, <1>7, AtHand

LEMMA VelocitiesPreserve == ASSUME LInv, set_velocities PROVE LInv'
<1> DEFINE New(r, e) == [d \in Dims |-> <<Sample(r, e)>>]
           Old(r, p) == IF p \in DOMAIN parts[sp][r] THEN parts[sp][r][p] ELSE NewParticle
           v == [r \in Rank |->
                   [p \in DOMAIN Reach(r, sp) \cup DOMAIN parts[sp][r] |->
                      IF p \in DOMAIN Reach(r, sp)
                        THEN [Old(r, p) EXCEPT !.vel = New(r, Reach(r, sp)[p])]
                        ELSE parts[sp][r][p]]]
<1>1. /\ at = "vel" /\ at' = "write" /\ cfg' = cfg /\ sp' = sp
      /\ parts' = [parts EXCEPT ![sp] = v]
  BY DEF set_velocities, Then, WriteAll
<1>2. v = [r \in Rank |-> v[r]]
  OBVIOUS
<1>3. cfg \in Config /\ cfg.load # "glass" /\ sp \in 0 .. 1
  BY <1>1 DEF LInv, LTypes
<1>4. ASSUME NEW r \in Rank
      PROVE  /\ DOMAIN v[r] = Reached(r, sp)
             /\ \A p \in Reached(r, sp) :
                  v[r][p] = [parts[sp][r][p] EXCEPT !.vel = New(r, Reach(r, sp)[p])]
  <2>1. DOMAIN parts[sp][r] = Reached(r, sp) /\ DOMAIN Reach(r, sp) = Reached(r, sp)
    BY <1>1, AtHandHolds
  <2> HIDE DEF New
  <2> QED
    BY <2>1
<1> HIDE DEF v, Old
<1>5. LTypes'
  BY <1>1, <1>2, <1>3, TypesStay
<1>6. Made(sp)' /\ Put(sp) /\ Weighed(sp)' = Weighed(sp)
  BY <1>1, <1>3 DEF Made, Weighed, Put, Given, Past, LInv, LTypes
<1>7. ASSUME NEW r \in Rank, NEW p \in Reached(r, sp)
      PROVE  Due(v[r][p], r, p)
  <2> DEFINE e == Reach(r, sp)[p]
             x == Place(sp, r, e)
             q == parts[sp][r][p]
  <2>1. ParticleHolds(sp, r, p) /\ IsReached(sp, r, e)
    BY <1>1, AtHandHolds
  <2>2. New(r, e) = [d \in Dims |-> <<x>>]
    BY <1>3, <2>1, SampleIs
  <2>3. v[r][p] = [q EXCEPT !.vel = New(r, e)]
    BY <1>4
  <2>4. /\ IsParticle(q) /\ q.id = Id(r, sp, e)
        /\ Weighed(sp) => q.mass = <<Mass(sp, r, e)>>
        /\ Put(sp) => q.pos = [d \in Dims |-> <<x, x>>]
    BY <2>1 DEF ParticleHolds
  <2> HIDE DEF e, x, q, New
  <2>5. /\ IsParticle(v[r][p]) /\ v[r][p].id = q.id /\ v[r][p].vel = New(r, e)
        /\ v[r][p].mass = q.mass /\ v[r][p].pos = q.pos
    BY <2>3, <2>4 DEF IsParticle
  <2> QED
    BY <1>6, <2>2, <2>4, <2>5 DEF Due, e, x, q
<1>8. \A r \in Rank : DOMAIN v[r] = Reached(r, sp)
  BY <1>4
<1> HIDE DEF New
<1> QED
  BY <1>1, <1>5, <1>6, <1>7, <1>8, AtHand

LEMMA NextSpeciesPreserves ==
  ASSUME LInv, NextSpecies \/ UNCHANGED vars PROVE LInv'
<1>1. cfg' = cfg /\ parts' = parts
  BY DEF NextSpecies, vars
<1>2. LTypes' /\ \A s \in 0 .. 1 : /\ Made(s)' = Made(s) /\ Weighed(s)' = Weighed(s)
                                   /\ Put(s)' = Put(s) /\ Given(s)' = Given(s)
  <2>1. CASE UNCHANGED vars
    <3>1. LTypes'
      BY <2>1, LoopsStay DEF LInv, LTypes, vars
    <3> QED
      BY <2>1, <3>1 DEF vars, Made, Weighed, Put, Given, Past
  <2>2. CASE NextSpecies /\ sp + 1 \in Species
    <3>1. sp = 0 /\ sp' = 1 /\ at = "write" /\ at' = "make" /\ 1 \in Species
      BY <2>2 DEF NextSpecies, LInv, LTypes, Species
    <3>2. LTypes'
      BY <1>1, <3>1, LoopsStay DEF LInv, LTypes
    <3> QED
      BY <1>1, <3>1, <3>2 DEF Made, Weighed, Put, Given, Past
  <2>3. CASE NextSpecies /\ sp + 1 \notin Species
    <3>1. sp' = sp /\ at = "write" /\ at' = "done"
      BY <2>3 DEF NextSpecies
    <3>2. LTypes'
      BY <1>1, <2>3, <3>1, LoopsStay DEF LInv, LTypes
    <3> QED
      BY <1>1, <3>1, <3>2 DEF Made, Weighed, Put, Given, Past
  <2> QED
    BY <2>1, <2>2, <2>3
<1>3. ASSUME NEW s \in 0 .. 1 PROVE SpeciesHolds(s)'
  <2>1. SpeciesHolds(s)
    BY DEF LInv
  <2>2. \A r, p : ParticleHolds(s, r, p)' = ParticleHolds(s, r, p)
    BY <1>1, <1>2, LoopsStay DEF ParticleHolds, IsParticle
  <2> QED
    BY <1>1, <1>2, <2>1, <2>2, LoopsStay DEF SpeciesHolds
<1> QED
  BY <1>2, <1>3 DEF LInv

LEMMA LInvHolds == Spec => []LInv
<1>1. LInv /\ [Next]_vars => LInv'
  BY MakePreserves, MassesPreserve, PositionsPreserve, VelocitiesPreserve,
     NextSpeciesPreserves DEF Next
<1> QED
  BY <1>1, LInit, PTL DEF Spec

-----------------------------------------------------------------------------
(***************************************************************************)
(* No two particles share an id or a place.                                *)
(***************************************************************************)
\* At the end every species is made; its particles hold what the loops wrote.
LEMMA AtTheEnd ==
  ASSUME LInv, at = "done"
  PROVE  /\ cfg \in Config /\ cfg.load # "glass" /\ Species \in SUBSET (0 .. 1)
         /\ \A s \in Species, r \in Rank :
              /\ DOMAIN parts[s][r] = Reached(r, s)
              /\ \A p \in Reached(r, s) :
                   /\ parts[s][r][p].id = Id(r, s, Reach(r, s)[p])
                   /\ parts[s][r][p].pos[1][1] = Place(s, r, Reach(r, s)[p])
                   /\ IsReached(s, r, Reach(r, s)[p])
<1>1. cfg \in Config /\ cfg.load # "glass" /\ Species \in SUBSET (0 .. 1)
  BY DEF LInv, LTypes, Species
<1>2. \A s \in Species : Made(s) /\ Put(s)
  BY DEF LInv, LTypes, Species, Made, Put, Past
<1>3. ASSUME NEW s \in Species, NEW r \in Rank
      PROVE  /\ DOMAIN parts[s][r] = Reached(r, s)
             /\ \A p \in Reached(r, s) : ParticleHolds(s, r, p)
  BY <1>1, <1>2 DEF LInv, SpeciesHolds
<1>4. ASSUME NEW s \in Species, NEW r \in Rank, NEW p \in Reached(r, s)
      PROVE  /\ parts[s][r][p].id = Id(r, s, Reach(r, s)[p])
             /\ parts[s][r][p].pos[1][1] = Place(s, r, Reach(r, s)[p])
             /\ IsReached(s, r, Reach(r, s)[p])
  <2> DEFINE x == Place(s, r, Reach(r, s)[p])
             q == parts[s][r][p]
  <2>1. q.id = Id(r, s, Reach(r, s)[p]) /\ q.pos = [d \in Dims |-> <<x, x>>]
    BY <1>2, <1>3 DEF ParticleHolds
  <2>2. IsReached(s, r, Reach(r, s)[p])
    BY <1>1, ReachFacts DEF IsReached
  <2> HIDE DEF x, q
  <2>3. q.pos[1] = <<x, x>>
    BY <2>1 DEF Dims
  <2> QED
    BY <2>1, <2>2, <2>3 DEF x, q
<1> QED
  BY <1>1, <1>3, <1>4

LEMMA AllIs ==
  ASSUME LInv, at = "done"
  PROVE  /\ IsFiniteSet(All)
         /\ \A x \in All : /\ x = <<x[1], x[2], x[3]>>
                           /\ x[1] \in Species /\ x[2] \in Rank /\ x[3] \in Reached(x[2], x[1])
<1>1. \A s \in Species, r \in Rank : DOMAIN parts[s][r] = Reached(r, s)
  BY AtTheEnd
<1>2. All = UNION {{<<s, r, p>> : p \in Reached(r, s)} : s \in Species, r \in Rank}
  BY <1>1 DEF All
<1>3. \A x \in All : /\ x = <<x[1], x[2], x[3]>>
                     /\ x[1] \in Species /\ x[2] \in Rank /\ x[3] \in Reached(x[2], x[1])
  <2>1. SUFFICES ASSUME NEW s \in Species, NEW r \in Rank, NEW p \in Reached(r, s)
                 PROVE  LET x == <<s, r, p>> IN
                        /\ x = <<x[1], x[2], x[3]>>
                        /\ x[1] \in Species /\ x[2] \in Rank /\ x[3] \in Reached(x[2], x[1])
    BY <1>2
  <2> QED
    OBVIOUS
<1>4. IsFiniteSet(All)
  <2>1. cfg \in Config /\ cfg.load # "glass" /\ Species \in SUBSET (0 .. 1)
    BY AtTheEnd
  <2>2. IsFiniteSet(Species) /\ IsFiniteSet(Rank)
    <3>1. IsFiniteSet({0, 1}) /\ IsFiniteSet(0 .. (cfg.ranks - 1))
      <4> DEFINE m == cfg.ranks - 1
      <4>1. m \in Int
        BY <2>1, ConfigFacts
      <4>2. IsFiniteSet(0 .. m)
        <5> HIDE DEF m
        <5> QED
          BY <4>1, FS_Interval
      <4>3. IsFiniteSet({0, 1})
        <5>1. IsFiniteSet({0})
          BY FS_Singleton
        <5>2. IsFiniteSet({0} \cup {1})
          BY <5>1, FS_AddElement
        <5>3. {0, 1} = {0} \cup {1}
          OBVIOUS
        <5> QED
          BY <5>2, <5>3
      <4> QED
        BY <4>2, <4>3
    <3> QED
      BY <3>1, FS_Subset DEF Rank, Species
  <2> DEFINE F == [z \in Species \X Rank |->
                     {<<z[1], z[2], p>> : p \in Reached(z[2], z[1])}]
             U == {F[z] : z \in Species \X Rank}
  <2>3. ASSUME NEW z \in Species \X Rank PROVE IsFiniteSet(F[z])
    <3> DEFINE R == Reached(z[2], z[1])
               g == [p \in R |-> <<z[1], z[2], p>>]
    <3>1. z[1] \in Species /\ z[2] \in Rank
      OBVIOUS
    <3>2. R = 0 .. num_p(z[2], z[1]) - 1 /\ num_p(z[2], z[1]) \in Nat
      BY <2>1, <3>1, ReachFacts
    <3>3. IsFiniteSet(R)
      BY <3>2, FS_Interval
    <3> HIDE DEF R
    <3>4. F[z] = {g[p] : p \in R}
      BY DEF R
    <3> HIDE DEF g, F
    <3> QED
      BY <3>3, <3>4, ImageFinite
  <2>4. IsFiniteSet(U)
    <3>1. IsFiniteSet(Species \X Rank)
      BY <2>2, FS_Product
    <3> HIDE DEF F
    <3> QED
      BY <3>1, ImageFinite
  <2>5. All = UNION U
    <3>1. \A s \in Species, r \in Rank : F[<<s, r>>] = {<<s, r, p>> : p \in Reached(r, s)}
      OBVIOUS
    <3>2. ASSUME NEW s \in Species, NEW r \in Rank PROVE F[<<s, r>>] \in U
      <4>1. <<s, r>> \in Species \X Rank
        OBVIOUS
      <4> HIDE DEF F
      <4> QED
        BY <4>1
    <3>3. ASSUME NEW z \in Species \X Rank PROVE F[z] \subseteq All
      <4>1. z[1] \in Species /\ z[2] \in Rank
        OBVIOUS
      <4>2. F[z] = {<<z[1], z[2], p>> : p \in Reached(z[2], z[1])}
        OBVIOUS
      <4>3. \A p \in Reached(z[2], z[1]) : <<z[1], z[2], p>> \in All
        <5>1. \A s \in Species, r \in Rank : \A p \in Reached(r, s) : <<s, r, p>> \in All
          <6>1. SUFFICES ASSUME NEW s \in Species, NEW r \in Rank, NEW p \in Reached(r, s)
                         PROVE  <<s, r, p>> \in All
            OBVIOUS
          <6> DEFINE T == {<<s, r, q>> : q \in Reached(r, s)}
          <6>2. T \in {{<<t, u, q>> : q \in Reached(u, t)} : t \in Species, u \in Rank}
            OBVIOUS
          <6>3. <<s, r, p>> \in T
            OBVIOUS
          <6> HIDE DEF T
          <6> QED
            BY <1>2, <6>2, <6>3
        <5> QED
          BY <4>1, <5>1
      <4> HIDE DEF F
      <4> QED
        BY <4>2, <4>3
    <3> HIDE DEF F
    <3>4. UNION U \subseteq All
      BY <3>3
    <3>5. All \subseteq UNION U
      <4>1. SUFFICES ASSUME NEW s \in Species, NEW r \in Rank, NEW p \in Reached(r, s)
                     PROVE  <<s, r, p>> \in UNION U
        BY <1>2
      <4>2. <<s, r, p>> \in F[<<s, r>>]
        BY <3>1
      <4> HIDE DEF U
      <4> QED
        BY <3>2, <4>2
    <3> QED
      BY <3>4, <3>5
  <2>6. \A T \in U : IsFiniteSet(T)
    BY <2>3
  <2> HIDE DEF U
  <2> QED
    BY <2>4, <2>5, <2>6, FS_UNION
<1> QED
  BY <1>3, <1>4

\* Particles that the loops reach in the same cell, sublattice and species are one.
LEMMA SameParticle ==
  ASSUME LInv, at = "done", NEW x \in All, NEW y \in All, x[1] = y[1], x[2] = y[2],
         SameReach(x[2], x[1], x[3], y[3])
  PROVE  x = y
<1>1. /\ x = <<x[1], x[2], x[3]>> /\ x[1] \in Species /\ x[2] \in Rank
      /\ x[3] \in Reached(x[2], x[1])
      /\ y = <<y[1], y[2], y[3]>> /\ y[3] \in Reached(y[2], y[1])
  BY AllIs
<1>2. cfg \in Config /\ cfg.load # "glass"
  BY AtTheEnd
<1>3. x[3] = y[3]
  BY <1>1, <1>2, ReachFacts
<1> QED
  BY <1>1, <1>3

\* An id that fits is stored as it is counted.
LEMMA StoredIs ==
  ASSUME LInv, at = "done", NEW s \in Species, NEW r \in Rank, NEW e, IsReached(s, r, e),
         cfg.wide \/ Cardinality(Species) * overload * global_size <= IdRange
  PROVE  Id(r, s, e) = Counted(s, r, e)
<1> DEFINE k == Cardinality(Species)
           m == Counted(s, r, e)
           c == overload * global_size
<1>1. cfg \in Config /\ cfg.load # "glass" /\ s \in 0 .. 1
  BY AtTheEnd
<1>2. m \in 0 .. (s + 1) * overload * global_size - 1
  BY <1>1, CountedDiffer
<1>3. c \in Nat /\ (s + 1) * overload * global_size = (s + 1) * c
  <2>1. overload \in Nat /\ global_size \in Nat
    BY <1>1, OverloadIs, CountedIs
  <2> QED
    BY <1>1, <2>1
<1>4. k \in 1 .. 2 /\ s + 1 <= k /\ k * overload * global_size = k * c
  <2>1. overload \in Nat /\ global_size \in Nat
    BY <1>1, OverloadIs, CountedIs
  <2>2. CASE cfg.baryons
    <3>1. Cardinality({0} \cup {1}) = 2
      <4>1. IsFiniteSet({0}) /\ Cardinality({0}) = 1
        BY FS_Singleton
      <4>2. Cardinality({0} \cup {1}) = Cardinality({0}) + 1
        BY <4>1, FS_AddElement
      <4> QED
        BY <4>1, <4>2
    <3>2. Species = {0} \cup {1}
      BY <2>2 DEF Species
    <3>3. k = 2
      BY <3>1, <3>2
    <3> HIDE DEF k
    <3> QED
      BY <1>1, <2>1, <3>3
  <2>3. CASE ~cfg.baryons
    <3>1. Cardinality({0}) = 1
      BY FS_Singleton
    <3>2. Species = {0} /\ k = 1 /\ s = 0
      BY <2>3, <3>1 DEF Species
    <3> HIDE DEF k
    <3> QED
      BY <1>1, <2>1, <3>2
  <2> QED
    BY <2>2, <2>3
<1>5. Id(r, s, e) = (IF cfg.wide THEN m ELSE m % IdRange)
  BY DEF Id, Stored, Counted
<1> HIDE DEF m, c
<1>6. ASSUME ~cfg.wide PROVE m % IdRange = m
  <2>1. k * c <= IdRange
    BY <1>4, <1>6
  <2> HIDE DEF k
  <2>2. (s + 1) * c <= k * c
    BY <1>1, <1>3, <1>4, TimesMonotone
  <2>3. m \in 0 .. IdRange - 1
    <3>1. (s + 1) * c \in Int /\ k * c \in Int
      BY <1>1, <1>3, <1>4
    <3>2. m \in Int /\ 0 <= m /\ m < (s + 1) * c
      BY <1>2, <1>3, <3>1
    <3> QED
      BY <2>1, <2>2, <3>1, <3>2, IdRangeIsPositive
  <2> QED
    BY <2>3, IdRangeIsPositive
<1> QED
  BY <1>5, <1>6 DEF m

\* No two particles of a run share an id, whatever the size of the grid and the
\* number of ranks, as long as the number of particles fits the ids stored:
\* what the loops over the sublattices and the cells of a slab count is
\* different for every particle of every rank and species.
THEOREM IdsNeverRepeat == Spec => []IdsAreUnique
<1>1. LInv => IdsAreUnique
  <2>1. SUFFICES ASSUME LInv, at = "done",
                        cfg.wide \/ Cardinality(Species) * overload * global_size <= IdRange
                 PROVE  Cardinality({Particle(x).id : x \in All}) = Cardinality(All)
    BY DEF IdsAreUnique
  <2> DEFINE f == [x \in All |-> Particle(x).id]
             e(x) == Reach(x[2], x[1])[x[3]]
  <2>2. ASSUME NEW x \in All
        PROVE  /\ x[1] \in Species /\ x[1] \in 0 .. 1 /\ x[2] \in Rank
               /\ IsReached(x[1], x[2], e(x))
               /\ f[x] = Counted(x[1], x[2], e(x))
    <3>1. x[1] \in Species /\ x[2] \in Rank /\ x[3] \in Reached(x[2], x[1])
      BY <2>1, AllIs
    <3>2. x[1] \in 0 .. 1 /\ IsReached(x[1], x[2], e(x)) /\ Particle(x).id = Id(x[2], x[1], e(x))
      BY <2>1, <3>1, AtTheEnd DEF Particle
    <3>3. Id(x[2], x[1], e(x)) = Counted(x[1], x[2], e(x))
      BY <2>1, <3>1, <3>2, StoredIs
    <3> QED
      BY <3>1, <3>2, <3>3
  <2>3. ASSUME NEW x \in All, NEW y \in All, f[x] = f[y] PROVE x = y
    <3>1. cfg \in Config /\ cfg.load # "glass"
      BY <2>1, AtTheEnd
    <3> HIDE DEF f
    <3>2. x[1] = y[1] /\ x[2] = y[2] /\ e(x).i = e(y).i /\ e(x).l = e(y).l
      BY <2>2, <2>3, <3>1, CountedDiffer
    <3> QED
      BY <2>1, <3>2, SameParticle DEF SameReach
  <2>4. {Particle(x).id : x \in All} = {f[x] : x \in All}
    OBVIOUS
  <2>5. IsFiniteSet(All)
    BY <2>1, AllIs
  <2>6. Cardinality({f[x] : x \in All}) = Cardinality(All)
    <3> HIDE DEF f
    <3> QED
      BY <2>3, <2>5, ImageCardinality
  <2> QED
    BY <2>4, <2>6
<1> QED
  BY <1>1, LInvHolds, PTL

\* What a particle has once it goes to the output plugin.
LEMMA Finished ==
  ASSUME LInv, Written, NEW x \in Here
  PROVE  LET q == Particle(x) IN
         /\ \A d \in Dims : q.pos[d][1] = q.pos[d][2] /\ q.vel[d][1] = q.pos[d][1]
         /\ cfg.baryons /\ cfg.load \in Bravais => q.mass[1] = q.pos[1][1]
<1>1. PICK r \in Rank : \E p \in DOMAIN parts[sp][r] : x = <<sp, r, p>>
  <2>1. x \in All /\ x[1] = sp
    BY DEF Here
  <2>2. PICK s \in Species, r \in Rank : x \in {<<s, r, p>> : p \in DOMAIN parts[s][r]}
    BY <2>1 DEF All
  <2> QED
    BY <2>1, <2>2
<1> PICK p \in DOMAIN parts[sp][r] : x = <<sp, r, p>>
  BY <1>1
<1>2. Made(sp) /\ Put(sp) /\ Given(sp) /\ (cfg.baryons => Weighed(sp)) /\ sp \in 0 .. 1
  BY DEF LInv, LTypes, Written, Made, Put, Given, Weighed, Past
<1>3. p \in Reached(r, sp) /\ ParticleHolds(sp, r, p)
  BY <1>1, <1>2 DEF LInv, SpeciesHolds
<1> DEFINE q == parts[sp][r][p]
           y == Place(sp, r, Reach(r, sp)[p])
<1>4. /\ q.pos = [d \in Dims |-> <<y, y>>] /\ q.vel = [d \in Dims |-> <<y>>]
      /\ cfg.baryons /\ cfg.load \in Bravais => q.mass = <<y>>
  BY <1>2, <1>3 DEF ParticleHolds, Mass, Bravais
<1>5. Particle(x) = q
  BY <1>1 DEF Particle
<1> HIDE DEF q, y
<1>6. \A d \in Dims : q.pos[d] = <<y, y>> /\ q.vel[d] = <<y>>
  BY <1>4
<1> QED
  BY <1>4, <1>5, <1>6 DEF Dims

\* Displacement, velocity and mass of a particle are read at the place it
\* starts from, for every lattice, sublattice and species: the shifts that
\* accumulate in the fields add up to those of the sublattice and the species.
\* No two particles of a run start from the same place.
THEOREM SitesAlwaysAgree == Spec => []SitesAgree
<1>1. ASSUME LInv, at = "done"
      PROVE  Cardinality({Particle(x).pos[1][1] : x \in All}) = Cardinality(All)
  <2> DEFINE f == [x \in All |-> Particle(x).pos[1][1]]
             e(x) == Reach(x[2], x[1])[x[3]]
  <2>1. cfg \in Config /\ cfg.load # "glass"
    BY <1>1, AtTheEnd
  <2>2. ASSUME NEW x \in All
        PROVE  /\ x[1] \in 0 .. 1 /\ x[2] \in Rank /\ IsReached(x[1], x[2], e(x))
               /\ f[x] = Place(x[1], x[2], e(x))
    <3>1. x[1] \in Species /\ x[2] \in Rank /\ x[3] \in Reached(x[2], x[1])
      BY <1>1, AllIs
    <3> QED
      BY <1>1, <3>1, AtTheEnd DEF Particle
  <2>3. ASSUME NEW x \in All, NEW y \in All, f[x] = f[y] PROVE x = y
    <3> HIDE DEF f
    <3>1. x[1] = y[1] /\ x[2] = y[2] /\ e(x).i = e(y).i /\ e(x).l = e(y).l
      BY <2>1, <2>2, <2>3, PlacesDiffer
    <3> QED
      BY <1>1, <3>1, SameParticle DEF SameReach
  <2>4. {Particle(x).pos[1][1] : x \in All} = {f[x] : x \in All}
    OBVIOUS
  <2>5. IsFiniteSet(All)
    BY <1>1, AllIs
  <2>6. Cardinality({f[x] : x \in All}) = Cardinality(All)
    <3> HIDE DEF f
    <3> QED
      BY <2>3, <2>5, ImageCardinality
  <2> QED
    BY <2>4, <2>6
<1>2. LInv => SitesAgree
  BY <1>1, Finished DEF SitesAgree
<1> QED
  BY <1>2, LInvHolds, PTL
-----------------------------------------------------------------------------
(***************************************************************************)
(* How many particles there are.                                           *)
(***************************************************************************)
\* What the loops of some ranks reach.
LoopsOf(s, t) == {x \in {s} \X t \X Nat : x[3] \in Reached(x[2], s)}

LEMMA RankAdds ==
  ASSUME cfg \in Config, cfg.load # "glass", NEW s, NEW t \in SUBSET Rank, NEW r \in t,
         IsFiniteSet(LoopsOf(s, t \ {r}))
  PROVE  /\ IsFiniteSet(LoopsOf(s, t)) /\ num_p(r, s) \in Nat
         /\ Cardinality(LoopsOf(s, t \ {r})) \in Nat
         /\ Cardinality(LoopsOf(s, t)) = num_p(r, s) + Cardinality(LoopsOf(s, t \ {r}))
<1> DEFINE f == [p \in Reached(r, s) |-> <<s, r, p>>]
           A == {f[p] : p \in Reached(r, s)}
           B == LoopsOf(s, t \ {r})
<1>1. Reached(r, s) = 0 .. num_p(r, s) - 1 /\ num_p(r, s) \in Nat
  BY ReachFacts
<1>2. IsFiniteSet(Reached(r, s)) /\ Cardinality(Reached(r, s)) = num_p(r, s)
  BY <1>1, FS_Interval
<1>3. IsFiniteSet(A) /\ Cardinality(A) = num_p(r, s)
  <2>1. \A p, q \in Reached(r, s) : f[p] = f[q] => p = q
    OBVIOUS
  <2> HIDE DEF f
  <2> QED
    BY <1>2, <2>1, ImageFinite, ImageCardinality
<1>4. LoopsOf(s, t) = A \cup B /\ A \cap B = {}
  BY <1>1 DEF LoopsOf
<1> HIDE DEF A, B
<1>5. IsFiniteSet(B) /\ Cardinality(B) \in Nat
  BY FS_CardinalityType DEF B
<1>6. IsFiniteSet(A \cup B) /\ Cardinality(A \cup B) = Cardinality(A) + Cardinality(B) - 0
  BY <1>3, <1>4, <1>5, FS_Union, FS_EmptySet
<1> QED
  BY <1>1, <1>3, <1>4, <1>5, <1>6 DEF B

\* The slabs cover the grid.
LEMMA SlabsCover ==
  ASSUME cfg \in Config
  PROVE  Start(0) = 0 /\ Start(cfg.ranks) = cfg.n
<1> DEFINE a == cfg.n + cfg.ranks - 1
           q == a \div cfg.ranks
           k == a % cfg.ranks
<1>1. cfg.n \in Nat \ {0} /\ cfg.ranks \in Nat \ {0} /\ a \in Int
  BY ConfigFacts
<1>2. q \in Int /\ k \in 0 .. cfg.ranks - 1 /\ q * cfg.ranks \in Int /\ a = q * cfg.ranks + k
  <2> HIDE DEF a
  <2> QED
    BY <1>1, DivMod
<1>3. Block = q
  BY DEF Block
<1> HIDE DEF q, k, Block
<1>4. Block \in Int /\ Block * cfg.ranks \in Int /\ Block * cfg.ranks >= cfg.n
  BY <1>1, <1>2, <1>3
<1>5. cfg.ranks * Block = Block * cfg.ranks /\ 0 * Block = 0
  BY <1>1, <1>4
<1> QED
  BY <1>1, <1>4, <1>5 DEF Start

\* The ranks before the m-th, and what they make of a lattice.
LEMMA LoopsUpto ==
  ASSUME cfg \in Config, cfg.load # "glass", NEW s, NEW m \in 0 .. cfg.ranks
  PROVE  /\ IsFiniteSet(LoopsOf(s, 0 .. m - 1))
         /\ cfg.load \in Bravais =>
              Cardinality(LoopsOf(s, 0 .. m - 1)) = Start(m) * (Area * overload)
<1> DEFINE Fits(k) == /\ IsFiniteSet(LoopsOf(s, 0 .. k - 1))
                      /\ cfg.load \in Bravais =>
                           Cardinality(LoopsOf(s, 0 .. k - 1)) = Start(k) * (Area * overload)
           U == {k \in 0 .. cfg.ranks : ~Fits(k)}
<1>1. cfg.ranks \in Nat \ {0} /\ Area * overload \in Nat /\ Area \in Nat /\ overload \in Nat
  BY ConfigFacts, OverloadIs
<1>2. ASSUME U # {} PROVE FALSE
  <2>1. PICK k \in U : \A j \in U : k <= j
    <3>1. U \in SUBSET Nat
      BY <1>1
    <3> HIDE DEF U
    <3> QED
      BY <1>2, <3>1, LeastOf
  <2>2. k \in 0 .. cfg.ranks /\ ~Fits(k)
    OBVIOUS
  <2>3. CASE k = 0
    <3>1. 0 .. k - 1 = {} /\ LoopsOf(s, {}) = {}
      BY <2>3 DEF LoopsOf
    <3>2. Start(k) * (Area * overload) = 0
      BY <1>1, <2>3, SlabsCover
    <3> QED
      BY <2>2, <3>1, <3>2, FS_EmptySet
  <2>4. CASE k # 0
    <3> DEFINE r == k - 1
               t == 0 .. k - 1
    <3>1. r \in 0 .. cfg.ranks /\ r \notin U /\ r \in t /\ t \in SUBSET Rank /\ t \ {r} = 0 .. r - 1
      BY <1>1, <2>1, <2>2, <2>4 DEF Rank
    <3>2. Fits(r)
      BY <3>1
    <3>3. IsFiniteSet(LoopsOf(s, t \ {r}))
      BY <3>1, <3>2
    <3>4. /\ IsFiniteSet(LoopsOf(s, t)) /\ num_p(r, s) \in Nat
          /\ Cardinality(LoopsOf(s, t)) = num_p(r, s) + Cardinality(LoopsOf(s, t \ {r}))
      <4> HIDE DEF r, t
      <4> QED
        BY <3>1, <3>3, RankAdds
    <3>5. ASSUME cfg.load \in Bravais
          PROVE  Cardinality(LoopsOf(s, t)) = Start(k) * (Area * overload)
      <4>1. r \in Nat /\ k \in Nat /\ r + 1 = k
        BY <1>1, <2>2, <2>4
      <4>2. /\ Start(r) \in 0 .. cfg.n /\ Start(k) \in 0 .. cfg.n
            /\ local_size(r) = Planes(r) * Area /\ Planes(r) = Start(k) - Start(r)
        BY <4>1, Slabs DEF Planes
      <4>3. num_p(r, s) = overload * local_size(r)
        <5> HIDE DEF r
        <5> QED
          BY <3>5 DEF num_p, Bravais
      <4>4. Cardinality(LoopsOf(s, t \ {r})) = Start(r) * (Area * overload)
        BY <3>1, <3>2, <3>5
      <4>5. cfg.n \in Nat
        BY ConfigFacts
      <4> HIDE DEF r
      <4>6. ASSUME NEW x \in Int, NEW y \in Int, NEW a \in Int, NEW o \in Int
            PROVE  o * ((y - x) * a) + x * (a * o) = y * (a * o)
        OBVIOUS
      <4> HIDE DEF t
      <4>7. overload * ((Start(k) - Start(r)) * Area) + Start(r) * (Area * overload)
              = Start(k) * (Area * overload)
        BY <1>1, <4>2, <4>5, <4>6
      <4> QED
        BY <3>4, <4>2, <4>3, <4>4, <4>7
    <3> QED
      BY <2>2, <3>4, <3>5
  <2> QED
    BY <2>3, <2>4
<1> QED
  BY <1>2

\* The sum over the ranks that a masked load takes.
LEMMA SumOfRanks ==
  ASSUME cfg \in Config, cfg.load # "glass", NEW s
  PROVE  MapThenSumSet(LAMBDA r : num_p(r, s), Rank) = Cardinality(LoopsOf(s, Rank))
<1> DEFINE f == [r \in Rank |-> num_p(r, s)]
           c == CHOOSE h : h = [t \in SUBSET Rank |->
                  IF t = {} THEN 0 ELSE num_p(CHOOSE x \in t : TRUE, s)
                                          + h[t \ {CHOOSE x \in t : TRUE}]]
           g == [t \in SUBSET Rank |-> Cardinality(LoopsOf(s, t))]
<1>1. MapThenSumSet(LAMBDA r : num_p(r, s), Rank) = c[Rank]
  BY DEF MapThenSumSet, MapThenFoldSet
<1>2. IsFiniteSet(Rank) /\ IsFiniteSet(LoopsOf(s, Rank))
  <2> DEFINE m == cfg.ranks - 1
  <2>1. cfg.ranks \in 0 .. cfg.ranks /\ m \in Int /\ Rank = 0 .. m
    BY ConfigFacts DEF Rank
  <2>2. IsFiniteSet(LoopsOf(s, Rank))
    BY <2>1, LoopsUpto
  <2> HIDE DEF m
  <2> QED
    BY <2>1, <2>2, FS_Interval
<1>3. PICK h : IsSumTable(h, f, Rank)
  BY <1>2, SumTableExists
<1>4. \A t \in SUBSET Rank : t # {} => f[OneOf(t)] = num_p(CHOOSE x \in t : TRUE, s)
  BY DEF OneOf
<1>5. \A k : IsSumTable(k, f, Rank) <=>
        k = [t \in SUBSET Rank |->
               IF t = {} THEN 0 ELSE num_p(CHOOSE x \in t : TRUE, s)
                                       + k[t \ {CHOOSE x \in t : TRUE}]]
  <2>1. SUFFICES ASSUME NEW k
        PROVE  [t \in SUBSET Rank |-> SumStep(f, k, t)]
               = [t \in SUBSET Rank |->
                    IF t = {} THEN 0 ELSE num_p(CHOOSE x \in t : TRUE, s)
                                            + k[t \ {CHOOSE x \in t : TRUE}]]
    BY DEF IsSumTable
  <2>2. ASSUME NEW t \in SUBSET Rank
        PROVE  SumStep(f, k, t) = IF t = {} THEN 0 ELSE num_p(CHOOSE x \in t : TRUE, s)
                                                         + k[t \ {CHOOSE x \in t : TRUE}]
    <3> HIDE DEF f
    <3> QED
      BY <1>4 DEF SumStep, OneOf
  <2> HIDE DEF f
  <2> QED
    BY <2>2
<1>6. IsSumTable(c, f, Rank)
  <2> HIDE DEF f
  <2>1. c = [t \in SUBSET Rank |->
               IF t = {} THEN 0 ELSE num_p(CHOOSE x \in t : TRUE, s)
                                       + c[t \ {CHOOSE x \in t : TRUE}]]
    BY <1>3, <1>5, ZenonT(40)
  <2> QED
    BY <1>5, <2>1
<1> HIDE DEF c
<1>7. g[{}] = 0
  <2>1. LoopsOf(s, {}) = {}
    BY DEF LoopsOf
  <2> QED
    BY <2>1, FS_EmptySet
<1>8. ASSUME NEW t \in SUBSET Rank, NEW r \in t PROVE g[t] = f[r] + g[t \ {r}]
  <2>1. LoopsOf(s, t \ {r}) \in SUBSET LoopsOf(s, Rank)
    BY DEF LoopsOf
  <2>2. IsFiniteSet(LoopsOf(s, t \ {r}))
    BY <1>2, <2>1, FS_Subset
  <2>3. Cardinality(LoopsOf(s, t)) = num_p(r, s) + Cardinality(LoopsOf(s, t \ {r}))
    BY <2>2, RankAdds
  <2> QED
    BY <2>3
<1>9. c[Rank] = g[Rank]
  <2> HIDE DEF f, g
  <2> QED
    BY <1>2, <1>6, <1>7, <1>8, SumIs
<1> QED
  BY <1>1, <1>9

\* The number that normalises the masses is that of the particles of all ranks.
LEMMA CountIs ==
  ASSUME cfg \in Config, cfg.load # "glass", NEW s
  PROVE  Count(s) = Cardinality(LoopsOf(s, Rank))
<1>1. CASE cfg.load \in Bravais
  <2>1. cfg.ranks \in 0 .. cfg.ranks /\ Rank = 0 .. cfg.ranks - 1 /\ cfg.n \in Nat
    BY ConfigFacts DEF Rank
  <2>2. Cardinality(LoopsOf(s, Rank)) = cfg.n * (Area * overload)
    BY <1>1, <2>1, LoopsUpto, SlabsCover
  <2>3. overload \in Nat
    BY OverloadIs
  <2>4. Count(s) = (cfg.n * cfg.n * cfg.n) * overload
    BY <1>1 DEF Count, global_size
  <2> QED
    BY <2>1, <2>2, <2>3, <2>4 DEF Area
<1>2. CASE cfg.load \notin Bravais
  BY <1>2, SumOfRanks DEF Count
<1> QED
  BY <1>1, <1>2

\* The total of a species stays what the constructor counts.
Filled == {"masses", "pos", "vel", "write", "done"}
TotalHolds ==
  /\ total = [s \in 0 .. 1 |-> total[s]]
  /\ at \in Filled => total[sp] = Cardinality(LoopsOf(sp, Rank))

CInv == LInv /\ TotalHolds

LEMMA TotalStays ==
  ASSUME TotalHolds, cfg' = cfg, total' = total, sp' = sp, at \in Filled \/ at' \notin Filled
  PROVE  TotalHolds'
<1>1. LoopsOf(sp, Rank)' = LoopsOf(sp, Rank)
  BY LoopsStay DEF LoopsOf
<1> QED
  BY <1>1 DEF TotalHolds

LEMMA CNext == ASSUME CInv, [Next]_vars PROVE CInv'
<1>1. LInv'
  BY MakePreserves, MassesPreserve, PositionsPreserve, VelocitiesPreserve,
     NextSpeciesPreserves DEF Next, CInv
<1>2. TotalHolds
  BY DEF CInv
<1>3. CASE MakeParticles
  <2>1. cfg' = cfg /\ sp' = sp /\ at = "make" /\ sp \in 0 .. 1 /\ cfg \in Config
    BY <1>3 DEF MakeParticles, CInv, LInv, LTypes
  <2>2. CASE cfg.load = "glass" \/ (cfg.load = "masked" /\ global_size % 8 # 0)
    <3>1. at' \in {"undefined", "aborted"} /\ total' = total
      BY <1>3, <2>2 DEF MakeParticles
    <3> QED
      BY <1>1, <1>2, <2>1, <3>1, TotalStays DEF CInv, Filled
  <2>3. CASE ~(cfg.load = "glass" \/ (cfg.load = "masked" /\ global_size % 8 # 0))
    <3>1. total' = [total EXCEPT ![sp] = Count(sp)]
      BY <1>3, <2>3 DEF MakeParticles
    <3>2. Count(sp) = Cardinality(LoopsOf(sp, Rank))
      BY <2>1, <2>3, CountIs
    <3>3. LoopsOf(sp, Rank)' = LoopsOf(sp, Rank)
      BY <2>1, LoopsStay DEF LoopsOf
    <3>4. total'[sp] = Count(sp) /\ total' = [s \in 0 .. 1 |-> total'[s]]
      BY <1>2, <2>1, <3>1 DEF TotalHolds
    <3> QED
      BY <1>1, <2>1, <3>2, <3>3, <3>4 DEF CInv, TotalHolds
  <2> QED
    BY <2>2, <2>3
<1>4. CASE set_masses \/ set_positions \/ set_velocities
  <2>1. at \in Filled /\ cfg' = cfg /\ total' = total /\ sp' = sp
    BY <1>4 DEF set_masses, set_positions, set_velocities, Then, Filled
  <2> QED
    BY <1>1, <1>2, <2>1, TotalStays DEF CInv
<1>5. CASE NextSpecies
  <2>1. cfg' = cfg /\ total' = total /\ at = "write"
    BY <1>5 DEF NextSpecies
  <2>2. CASE sp + 1 \in Species
    <3>1. at' = "make"
      BY <1>5, <2>2 DEF NextSpecies
    <3> QED
      BY <1>1, <1>2, <2>1, <3>1 DEF CInv, TotalHolds, Filled
  <2>3. CASE sp + 1 \notin Species
    <3>1. at' = "done" /\ sp' = sp
      BY <1>5, <2>3 DEF NextSpecies
    <3> QED
      BY <1>1, <1>2, <2>1, <3>1, TotalStays DEF CInv, Filled
  <2> QED
    BY <2>2, <2>3
<1>6. CASE UNCHANGED vars
  <2>1. cfg' = cfg /\ total' = total /\ sp' = sp /\ at' = at
    BY <1>6 DEF vars
  <2> QED
    BY <1>1, <1>2, <2>1, TotalStays DEF CInv
<1> QED
  BY <1>3, <1>4, <1>5, <1>6 DEF Next

LEMMA CInvHolds == Spec => []CInv
<1>1. Init => CInv
  BY LInit DEF Init, CInv, TotalHolds, Filled
<1>2. CInv /\ [Next]_vars => CInv'
  BY CNext
<1> QED
  BY <1>1, <1>2, PTL DEF Spec

\* The particles of the species at hand are those the loops reach.
LEMMA HereIs ==
  ASSUME LInv, Made(sp)
  PROVE  /\ cfg \in Config /\ cfg.load # "glass" /\ sp \in 0 .. 1
         /\ Here = LoopsOf(sp, Rank)
         /\ \A x \in Here : x[2] \in Rank /\ x[3] \in Reached(x[2], sp)
                            /\ ParticleHolds(sp, x[2], x[3])
                            /\ Particle(x) = parts[sp][x[2]][x[3]]
<1>1. cfg \in Config /\ cfg.load # "glass" /\ sp \in 0 .. 1 /\ sp \in Species
  BY DEF LInv, LTypes, Made, Past
<1>2. \A r \in Rank : /\ DOMAIN parts[sp][r] = Reached(r, sp)
                      /\ \A p \in Reached(r, sp) : p \in Nat /\ ParticleHolds(sp, r, p)
  <2>1. \A r \in Rank : Reached(r, sp) \subseteq Nat
    BY <1>1, ReachFacts
  <2> QED
    BY <1>1, <2>1 DEF LInv, SpeciesHolds
<1>3. ASSUME NEW x \in Here PROVE x \in LoopsOf(sp, Rank)
  <2>1. x \in All /\ x[1] = sp
    BY DEF Here
  <2>2. PICK s \in Species, r \in Rank : x \in {<<s, r, p>> : p \in DOMAIN parts[s][r]}
    BY <2>1 DEF All
  <2>3. PICK p \in DOMAIN parts[s][r] : x = <<s, r, p>>
    BY <2>2
  <2>4. s = sp
    BY <2>1, <2>3
  <2> QED
    BY <1>2, <2>2, <2>3, <2>4 DEF LoopsOf
<1>4. ASSUME NEW x \in LoopsOf(sp, Rank) PROVE x \in Here
  <2>1. x[1] = sp /\ x[2] \in Rank /\ x[3] \in DOMAIN parts[sp][x[2]] /\ x = <<sp, x[2], x[3]>>
    BY <1>2 DEF LoopsOf
  <2> DEFINE T == {<<sp, x[2], p>> : p \in DOMAIN parts[sp][x[2]]}
  <2>2. x \in T /\ T \in {{<<s, r, p>> : p \in DOMAIN parts[s][r]} : s \in Species, r \in Rank}
    BY <1>1, <2>1
  <2> HIDE DEF T
  <2>3. x \in All
    BY <2>2 DEF All
  <2> QED
    BY <2>1, <2>3 DEF Here
<1>5. Here = LoopsOf(sp, Rank)
  BY <1>3, <1>4
<1>6. ASSUME NEW x \in Here
      PROVE  /\ x[2] \in Rank /\ x[3] \in Reached(x[2], sp) /\ ParticleHolds(sp, x[2], x[3])
             /\ Particle(x) = parts[sp][x[2]][x[3]]
  <2>1. x[1] = sp /\ x[2] \in Rank /\ x[3] \in Reached(x[2], sp)
    BY <1>5 DEF LoopsOf
  <2> QED
    BY <1>2, <2>1 DEF Particle
<1> QED
  BY <1>1, <1>5, <1>6

\* The containers have exactly the room that the loops over sublattices and
\* cells reach, also with a mask and on ranks without planes; everything of
\* every particle is set when it goes to the output plugin; and the number by
\* which the masses are normalised is that of the particles of all ranks.
THEOREM ContainersAlwaysFit == Spec => []ContainersFit
<1>1. ASSUME CInv, NEW s \in 0 .. sp, NEW r \in Rank
      PROVE  DOMAIN parts[s][r] \in {{}, 0 .. num_p(r, s) - 1}
  <2>1. LTypes /\ sp \in 0 .. 1 /\ s \in 0 .. 1
    BY <1>1 DEF CInv, LInv, LTypes
  <2>2. DOMAIN parts[s][r] = (IF Made(s) THEN Reached(r, s) ELSE {})
    BY <1>1, <2>1 DEF CInv, LInv, SpeciesHolds
  <2>3. CASE Made(s)
    <3>1. cfg \in Config /\ cfg.load # "glass"
      BY <2>1, <2>3 DEF LTypes, Made, Past
    <3>2. Reached(r, s) = 0 .. num_p(r, s) - 1
      BY <3>1, ReachFacts
    <3> QED
      BY <2>2, <2>3, <3>2
  <2> QED
    BY <2>2, <2>3
<1>2. ASSUME CInv, Written, NEW x \in Here, NEW d \in Dims
      PROVE  /\ Particle(x).pos[d] # NoSample /\ Particle(x).vel[d] # NoSample
             /\ cfg.baryons => Particle(x).mass # NoSample
  <2>1. LInv /\ Made(sp) /\ Put(sp) /\ Given(sp) /\ (cfg.baryons => Weighed(sp))
    BY <1>2 DEF CInv, Written, Made, Put, Given, Weighed, Past
  <2> DEFINE q == parts[sp][x[2]][x[3]]
             y == Place(sp, x[2], Reach(x[2], sp)[x[3]])
             m == Mass(sp, x[2], Reach(x[2], sp)[x[3]])
  <2>2. ParticleHolds(sp, x[2], x[3]) /\ Particle(x) = q
    BY <1>2, <2>1, HereIs
  <2>3. /\ q.pos = [e \in Dims |-> <<y, y>>] /\ q.vel = [e \in Dims |-> <<y>>]
        /\ cfg.baryons => q.mass = <<m>>
    BY <2>1, <2>2 DEF ParticleHolds
  <2> HIDE DEF q, y, m
  <2>4. q.pos[d] = <<y, y>> /\ q.vel[d] = <<y>>
    BY <2>3
  <2>5. <<y, y>> # <<>> /\ <<y>> # <<>> /\ <<m>> # <<>>
    OBVIOUS
  <2> QED
    BY <2>2, <2>3, <2>4, <2>5 DEF NoSample
<1>3. ASSUME CInv, at \notin {"make", "aborted", "undefined"}
      PROVE  total[sp] = Cardinality(Here)
  <2>1. LInv /\ at \in Filled
    BY <1>3 DEF CInv, LInv, LTypes, Filled
  <2>2. Made(sp)
    BY <2>1 DEF Made, Past, Filled
  <2>3. Here = LoopsOf(sp, Rank)
    BY <2>1, <2>2, HereIs
  <2> QED
    BY <1>3, <2>1, <2>3 DEF CInv, TotalHolds
<1>4. CInv => ContainersFit
  BY <1>1, <1>2, <1>3 DEF ContainersFit
<1> QED
  BY <1>4, CInvHolds, PTL

-----------------------------------------------------------------------------
(***************************************************************************)
(* Cubes of eight cells.                                                   *)
(***************************************************************************)
\* A masked load is made on grids of even side.
LEMMA EvenSide ==
  ASSUME cfg \in Config, global_size % 8 = 0
  PROVE  cfg.n % 2 = 0
<1> DEFINE n == cfg.n
           a == n \div 2
           b == n % 2
           q == global_size \div 8
<1>1. n \in Nat \ {0} /\ global_size = n * n * n /\ global_size \in Int
  BY ConfigFacts DEF global_size
<1>2. q \in Int /\ global_size = q * 8
  <2>1. \A x \in Int : x \div 8 \in Int /\ x = (x \div 8) * 8 + (x % 8)
    OBVIOUS
  <2> QED
    BY <1>1, <2>1
<1>3. a \in Int /\ b \in 0 .. 1 /\ n = a * 2 + b
  <2>1. ASSUME NEW x \in Nat
        PROVE  x \div 2 \in Int /\ x % 2 \in 0 .. 1 /\ x = (x \div 2) * 2 + (x % 2)
    OBVIOUS
  <2>2. n \in Nat
    BY <1>1
  <2> HIDE DEF n
  <2> QED
    BY <2>1, <2>2
<1> HIDE DEF n, a, b, q, global_size
<1>4. ASSUME b = 1 PROVE FALSE
  <2>1. ASSUME NEW x \in Int, NEW y \in Int
        PROVE  (2 * x + 1) * (2 * y + 1) = 2 * (2 * (x * y) + x + y) + 1
    OBVIOUS
  <2> DEFINE u == 2 * (a * a) + a + a
             v == 2 * (u * a) + u + a
  <2>2. u \in Int /\ v \in Int
    BY <1>3
  <2>3. n = 2 * a + 1
    BY <1>3, <1>4
  <2>4. n * n = 2 * u + 1
    BY <1>3, <2>1, <2>3
  <2> HIDE DEF u
  <2>5. (2 * u + 1) * (2 * a + 1) = 2 * v + 1
    BY <1>3, <2>1, <2>2
  <2> HIDE DEF v
  <2>6. global_size = 2 * v + 1
    BY <1>1, <2>3, <2>4, <2>5
  <2> QED
    BY <1>2, <2>2, <2>6
<1> QED
  BY <1>3, <1>4 DEF b, n

\* The first cells of the cubes, and their cells.
Origins == {x \in (0 .. (cfg.n - 1)) \X (0 .. (cfg.n - 1)) \X (0 .. (cfg.n - 1)) :
              Parity(x) = Zero3}
Cube(c) == {Add(c, k) : k \in Corner}

LEMMA CornerOf ==
  ASSUME cfg \in Config, cfg.n % 2 = 0, NEW c \in Origins, NEW k \in Corner, NEW d \in Dims
  PROVE  /\ c[d] \in 0 .. cfg.n - 1 /\ c[d] % 2 = 0 /\ k[d] \in 0 .. 1
         /\ Add(c, k)[d] = c[d] + k[d]
         /\ c[d] + k[d] \in 0 .. cfg.n - 1
         /\ (c[d] + k[d]) % 2 = k[d] /\ (c[d] + k[d]) % cfg.n = c[d] + k[d]
<1>1. cfg.n \in Nat \ {0} /\ k[d] \in 0 .. 1 /\ Add(c, k)[d] = c[d] + k[d]
  BY ConfigFacts DEF Corner, Dims, Add
<1>2. c[d] \in 0 .. cfg.n - 1
  BY DEF Origins, Dims
<1>3. c[d] % 2 = 0
  <2>1. Parity(c)[d] = Zero3[d] /\ Parity(c)[d] = c[d] % 2
    BY DEF Origins, Parity, masksize
  <2>2. Zero3[d] = 0
    BY DEF Zero3, Dims
  <2> QED
    BY <2>1, <2>2
<1>4. c[d] + k[d] \in 0 .. cfg.n - 1 /\ (c[d] + k[d]) % 2 = k[d]
  BY <1>1, <1>2, <1>3
<1>5. (c[d] + k[d]) % cfg.n = c[d] + k[d]
  <2> DEFINE x == c[d] + k[d]
             n == cfg.n
  <2>1. n \in Nat \ {0} /\ x \in 0 .. n - 1 /\ x \in Int /\ x = 0 * n + x
    BY <1>1, <1>4
  <2> HIDE DEF x, n
  <2>2. x % n = x
    BY <2>1, ModIs
  <2> QED
    BY <2>2 DEF x, n
<1> QED
  BY <1>1, <1>2, <1>3, <1>4, <1>5

LEMMA CornersDiffer ==
  ASSUME cfg \in Config, cfg.n % 2 = 0, NEW c \in Origins, NEW k \in Corner, NEW j \in Corner,
         Add(c, k) = Add(c, j)
  PROVE  k = j
<1>1. \A d \in Dims : c[d] + k[d] = c[d] + j[d] /\ c[d] \in Int /\ k[d] \in Int /\ j[d] \in Int
  <2>1. \A d \in Dims : /\ Add(c, k)[d] = c[d] + k[d] /\ Add(c, j)[d] = c[d] + j[d]
                        /\ c[d] \in Int /\ k[d] \in Int /\ j[d] \in Int
    <3>1. SUFFICES ASSUME NEW d \in Dims
                   PROVE  /\ Add(c, k)[d] = c[d] + k[d] /\ Add(c, j)[d] = c[d] + j[d]
                          /\ c[d] \in Int /\ k[d] \in Int /\ j[d] \in Int
      OBVIOUS
    <3>2. c[d] \in 0 .. cfg.n - 1 /\ k[d] \in 0 .. 1 /\ Add(c, k)[d] = c[d] + k[d]
      BY CornerOf
    <3>3. j[d] \in 0 .. 1 /\ Add(c, j)[d] = c[d] + j[d]
      BY CornerOf
    <3> QED
      BY <3>2, <3>3
  <2> QED
    BY <2>1
<1>2. \A d \in Dims : k[d] = j[d]
  BY <1>1
<1>3. k[1] = j[1] /\ k[2] = j[2] /\ k[3] = j[3]
  BY <1>2 DEF Dims
<1> QED
  BY <1>3 DEF Corner

\* The weight of a cell of the cube in the mass of a particle of it.
LEMMA WeightIs ==
  ASSUME cfg \in Config, cfg.n % 2 = 0, NEW c \in Origins, NEW r, NEW s,
         NEW q \in Corner, NEW cell, cell = Add(c, q), NEW k \in Corner
  PROVE  LET K == Cardinality(KeptCorners(s)) IN
         /\ DOMAIN MaskedMass(r, s, cell) = Cube(c)
         /\ MaskedMass(r, s, cell)[Add(c, k)]
              = (IF q = k THEN 8 * K ELSE 0) + (K - (IF k \in KeptCorners(s) THEN 8 ELSE 0))
<1> DEFINE K == Cardinality(KeptCorners(s))
           o == CubeOrigin(r, cell)
           At(j) == [d \in Dims |-> (o[d] + j[d]) % cfg.n]
           near == {At(j) : j \in Corner} \cup {cell}
           W(x) == (IF x = cell THEN 8 * K ELSE 0)
                   - 8 * Cardinality({j \in KeptCorners(s) : At(j) = x})
                   + K * Cardinality({j \in Corner : At(j) = x})
<1>1. MaskedMass(r, s, cell) = [x \in near |-> W(x)]
  BY DEF MaskedMass
<1>2. \A d \in Dims : o[d] = c[d]
  <2>1. SUFFICES ASSUME NEW d \in Dims PROVE o[d] = c[d]
    OBVIOUS
  <2>2. cell[d] = c[d] + q[d] /\ (c[d] + q[d]) % 2 = q[d] /\ c[d] \in Int /\ q[d] \in Int
    BY CornerOf
  <2>3. o[d] = cell[d] - (cell[d] % 2)
    BY DEF CubeOrigin, Less, Parity, masksize
  <2> QED
    BY <2>2, <2>3
<1>3. ASSUME NEW j \in Corner PROVE At(j) = Add(c, j)
  <2>1. \A d \in Dims : (c[d] + j[d]) % cfg.n = c[d] + j[d]
    BY CornerOf
  <2> HIDE DEF o
  <2> QED
    BY <1>2, <2>1 DEF Add
<1>4. KeptCorners(s) \in SUBSET Corner
  BY DEF KeptCorners
<1> HIDE DEF At
<1>5. near = Cube(c)
  BY <1>3 DEF Cube
<1>6. Add(c, k) \in near
  BY <1>5 DEF Cube
<1>7. {j \in Corner : At(j) = Add(c, k)} = {k}
  <2>1. \A j \in Corner : At(j) = Add(c, k) => j = k
    <3>1. SUFFICES ASSUME NEW j \in Corner, At(j) = Add(c, k) PROVE j = k
      OBVIOUS
    <3>2. Add(c, j) = Add(c, k)
      BY <1>3, <3>1
    <3> QED
      BY <3>2, CornersDiffer
  <2> QED
    BY <1>3, <2>1
<1>8. {j \in KeptCorners(s) : At(j) = Add(c, k)} = IF k \in KeptCorners(s) THEN {k} ELSE {}
  BY <1>4, <1>7
<1>9. Cardinality({k}) = 1 /\ Cardinality({}) = 0
  BY FS_Singleton, FS_EmptySet
<1>10. Add(c, k) = cell <=> q = k
  BY CornersDiffer
<1>11. K \in Nat
  <2>1. IsFiniteSet(Corner)
    <3>1. IsFiniteSet(0 .. 1)
      <4>1. IsFiniteSet({0} \cup {1})
        BY FS_Singleton, FS_AddElement
      <4>2. 0 .. 1 = {0} \cup {1}
        OBVIOUS
      <4> QED
        BY <4>1, <4>2
    <3>2. IsFiniteSet((0 .. 1) \X (0 .. 1))
      BY <3>1, FS_Product
    <3> DEFINE f == [x \in ((0 .. 1) \X (0 .. 1)) \X (0 .. 1) |-> <<x[1][1], x[1][2], x[2]>>]
               S == {f[x] : x \in ((0 .. 1) \X (0 .. 1)) \X (0 .. 1)}
    <3>3. IsFiniteSet(((0 .. 1) \X (0 .. 1)) \X (0 .. 1))
      BY <3>1, <3>2, FS_Product
    <3>4. IsFiniteSet(S)
      <4> HIDE DEF f
      <4> QED
        BY <3>3, ImageFinite
    <3>5. Corner \subseteq S
      <4>1. ASSUME NEW x \in Corner PROVE x \in S
        <5> DEFINE y == <<<<x[1], x[2]>>, x[3]>>
        <5>1. y \in ((0 .. 1) \X (0 .. 1)) \X (0 .. 1) /\ x = <<x[1], x[2], x[3]>>
          BY DEF Corner
        <5>2. f[y] = x
          BY <5>1
        <5> HIDE DEF f, y
        <5> QED
          BY <5>1, <5>2
      <4> HIDE DEF S
      <4> QED
        BY <4>1
    <3> HIDE DEF S
    <3> QED
      BY <3>4, <3>5, FS_Subset
  <2>2. IsFiniteSet(KeptCorners(s))
    BY <1>4, <2>1, FS_Subset
  <2> QED
    BY <2>2, FS_CardinalityType
<1>12. W(Add(c, k)) = (IF q = k THEN 8 * K ELSE 0)
                        + (K - (IF k \in KeptCorners(s) THEN 8 ELSE 0))
  <2> DEFINE A == Cardinality({j \in KeptCorners(s) : At(j) = Add(c, k)})
             B == Cardinality({j \in Corner : At(j) = Add(c, k)})
  <2>1. A = (IF k \in KeptCorners(s) THEN 1 ELSE 0) /\ B = 1
    BY <1>7, <1>8, <1>9
  <2>2. W(Add(c, k)) = (IF q = k THEN 8 * K ELSE 0) - 8 * A + K * B
    BY <1>10
  <2> HIDE DEF K, W, A, B
  <2> QED
    BY <1>11, <2>1, <2>2
<1> HIDE DEF W, K, near
<1> QED
  BY <1>1, <1>5, <1>6, <1>12 DEF K

-----------------------------------------------------------------------------
(***************************************************************************)
(* Every cell of the grid is reached on some rank.                         *)
(***************************************************************************)
LEMMA OwnerOfPlane ==
  ASSUME cfg \in Config, NEW y \in 0 .. cfg.n - 1
  PROVE  \E r \in Rank : Start(r) <= y /\ y < Start(r + 1)
<1> DEFINE U == {m \in 0 .. cfg.ranks : y < Start(m)}
<1>1. cfg.n \in Nat \ {0} /\ cfg.ranks \in Nat \ {0}
  BY ConfigFacts
<1>2. cfg.ranks \in U
  BY <1>1, SlabsCover
<1>3. PICK m \in U : \A k \in U : m <= k
  <2>1. U \in SUBSET Nat
    BY <1>1
  <2> HIDE DEF U
  <2> QED
    BY <1>2, <2>1, LeastOf
<1>4. m \in 0 .. cfg.ranks /\ y < Start(m)
  OBVIOUS
<1>5. m # 0
  BY <1>1, <1>4, SlabsCover
<1> DEFINE r == m - 1
<1>6. r \in Nat /\ r \in 0 .. cfg.ranks /\ r \in Rank /\ r + 1 = m /\ r < m
  BY <1>1, <1>4, <1>5 DEF Rank
<1>7. r \notin U
  BY <1>3, <1>6
<1>8. Start(r) \in 0 .. cfg.n
  <2> HIDE DEF r
  <2> QED
    BY <1>6, Slabs
<1> HIDE DEF r
<1>9. ~(y < Start(r))
  BY <1>6, <1>7
<1> QED
  BY <1>1, <1>4, <1>6, <1>8, <1>9

LEMMA IndexOfCell ==
  ASSUME cfg \in Config, NEW r \in Rank, NEW y1 \in Int, Start(r) <= y1, y1 < Start(r + 1),
         NEW y2 \in 0 .. cfg.n - 1, NEW y3 \in 0 .. cfg.n - 1
  PROVE  \E l \in 0 .. local_size(r) - 1 : get_cell_idx_3d(r, l) = <<y1, y2, y3>>
<1> DEFINE n == cfg.n
           S == Start(r)
           P == Planes(r)
           i == y1 - S
           N == n * n
           k == y2 * n + y3
           a == i * n + y2
           l == a * n + y3
<1>1. /\ n \in Nat \ {0} /\ S \in Nat /\ P \in Nat /\ i \in 0 .. P - 1
      /\ local_size(r) = P * N /\ N \in Nat \ {0}
  <2>1. r \in Nat /\ r + 1 \in Nat /\ n \in Nat \ {0} /\ Area \in Nat \ {0} /\ N = Area
    BY ConfigFacts DEF Rank, Area
  <2>2. Start(r) \in 0 .. n /\ P \in Nat /\ local_size(r) = P * Area
    BY <2>1, Slabs
  <2>3. Start(r + 1) \in 0 .. n
    BY <2>1, Slabs
  <2>4. P = Start(r + 1) - Start(r)
    BY DEF Planes
  <2> QED
    BY <2>1, <2>2, <2>3, <2>4
<1>2. get_cell_idx_3d(r, l) = <<S + l \div N, (l \div n) % n, l % n>>
  BY DEF get_cell_idx_3d
<1> HIDE DEF n, S, P
<1>3. y1 = S + i /\ y2 \in 0 .. n - 1 /\ y3 \in 0 .. n - 1
  BY <1>1 DEF n
<1> HIDE DEF i
<1>4. i * n \in Int /\ y2 * n \in Int /\ i * N \in Int
  BY <1>1, <1>3
<1>5. k \in 0 .. N - 1
  <2>1. y2 * n <= (n - 1) * n /\ 0 * n <= y2 * n
    BY <1>1, <1>3, TimesMonotone
  <2>2. (n - 1) * n = N - n
    BY <1>1
  <2> QED
    BY <1>1, <1>3, <1>4, <2>1, <2>2
<1>6. a \in Int /\ a * n \in Int /\ l \in Int /\ l = i * N + k
  <2>1. (i * n + y2) * n = i * N + y2 * n
    BY <1>1, <1>3
  <2> QED
    BY <1>1, <1>3, <1>4, <2>1
<1> HIDE DEF k
<1>7. l % n = y3 /\ l \div n = a
  <2> HIDE DEF a
  <2>1. l = a * n + y3
    OBVIOUS
  <2> HIDE DEF l
  <2> QED
    BY <1>1, <1>3, <1>6, <2>1, ModIs
<1>8. a % n = y2
  <2>1. a = i * n + y2 /\ i \in Int
    BY <1>1
  <2> HIDE DEF a
  <2> QED
    BY <1>1, <1>3, <1>6, <2>1, ModIs
<1> HIDE DEF a, l
<1>9. l \div N = i
  <2>1. i \in Int /\ N \in Nat \ {0} /\ k \in 0 .. N - 1 /\ l \in Int /\ l = i * N + k
    BY <1>1, <1>5, <1>6
  <2> HIDE DEF N
  <2> QED
    BY <2>1, ModIs
<1>10. l \in 0 .. P * N - 1
  <2>1. i * N <= (P - 1) * N /\ 0 * N <= i * N
    BY <1>1, TimesMonotone
  <2>2. (P - 1) * N = P * N - N /\ P * N \in Int
    BY <1>1
  <2> HIDE DEF N
  <2> QED
    BY <1>1, <1>4, <1>5, <1>6, <2>1, <2>2
<1> QED
  BY <1>1, <1>2, <1>3, <1>7, <1>8, <1>9, <1>10

\* The element with p others before it is found by counting them.
LEMMA NthIs ==
  ASSUME NEW K \in SUBSET Nat, IsFiniteSet(K), NEW l \in K
  PROVE  LET p == Cardinality({k \in K : k < l}) IN
         p \in 0 .. Cardinality(K) - 1 /\ Nth(K, p) = l
<1> DEFINE Before(m) == {k \in K : k < m}
           p == Cardinality(Before(l))
           b == Nth(K, p)
<1>1. Cardinality(K) \in Nat
  BY FS_CardinalityType
<1>2. ASSUME NEW m, m \in K
      PROVE  IsFiniteSet(Before(m)) /\ Cardinality(Before(m)) \in Nat
  <2>1. Before(m) \in SUBSET K
    OBVIOUS
  <2> HIDE DEF Before
  <2> QED
    BY <2>1, FS_Subset, FS_CardinalityType
<1>3. ASSUME NEW m \in K, NEW T, IsFiniteSet(T), Before(m) \in SUBSET T, m \in T
      PROVE  Cardinality(Before(m)) < Cardinality(T)
  <2>1. m \notin Before(m)
    OBVIOUS
  <2>2. Cardinality(T) \in Nat /\ Cardinality(Before(m)) \in Nat
    BY <1>2, <1>3, FS_CardinalityType
  <2> HIDE DEF Before
  <2>3. Cardinality(Before(m)) <= Cardinality(T) /\ Cardinality(Before(m)) # Cardinality(T)
    BY <1>3, <2>1, FS_Subset
  <2> QED
    BY <2>2, <2>3
<1>4. p \in 0 .. Cardinality(K) - 1
  <2>1. Cardinality(Before(l)) < Cardinality(K)
    BY <1>3
  <2> HIDE DEF Before
  <2> QED
    BY <1>1, <1>2, <2>1
<1>5. b \in K /\ Cardinality(Before(b)) = p
  BY DEF Nth
<1>6. b = l
  <2>1. ASSUME NEW m \in K, NEW j \in K, m < j
        PROVE  Cardinality(Before(m)) # Cardinality(Before(j))
    <3>1. Before(m) \in SUBSET Before(j) /\ m \in Before(j)
      <4>1. \A k \in K : k < m => k < j
        <5>1. \A k \in K : k \in Nat
          OBVIOUS
        <5> QED
          BY <2>1, <5>1
      <4> HIDE DEF b, p
      <4> QED
        BY <2>1, <4>1
    <3>2. IsFiniteSet(Before(j)) /\ Cardinality(Before(m)) \in Nat /\ Cardinality(Before(j)) \in Nat
      BY <1>2
    <3> HIDE DEF Before
    <3>3. Cardinality(Before(m)) < Cardinality(Before(j))
      BY <1>3, <3>1, <3>2
    <3> QED
      BY <3>2, <3>3
  <2> HIDE DEF b, Before
  <2>2. ~(b < l) /\ ~(l < b)
    BY <1>5, <2>1
  <2> QED
    BY <1>5, <2>2
<1> QED
  BY <1>4, <1>6

-----------------------------------------------------------------------------
(***************************************************************************)
(* The mass of a cube of eight cells.                                      *)
(***************************************************************************)
\* The masked particles of the species at hand, once they have everything.
MaskedNow == LInv /\ Written /\ cfg.load = "masked" /\ cfg.baryons
Mine(c) == {x \in Here : \E k \in Cube(c) : Particle(x).pos[1][1] = Site(k)}
CellAt(x) == get_cell_idx_3d(x[2], Reach(x[2], sp)[x[3]].l)

\* A particle that goes to the output plugin sits in its cell and has the mass
\* that belongs to the cell.
LEMMA MaskedParticle ==
  ASSUME MaskedNow, NEW x \in Here
  PROVE  /\ x = <<sp, x[2], x[3]>> /\ x[2] \in Rank /\ x[3] \in Reached(x[2], sp)
         /\ Reach(x[2], sp)[x[3]].l \in 0 .. local_size(x[2]) - 1
         /\ Reach(x[2], sp)[x[3]].i = 1
         /\ CellAt(x) = [d \in Dims |-> CellAt(x)[d]]
         /\ \A d \in Dims : CellAt(x)[d] \in 0 .. cfg.n - 1
         /\ get_mask_value(CellAt(x)) = sp
         /\ Particle(x).pos[1][1] = Site(CellAt(x))
         /\ Particle(x).mass[1] = MaskedMass(x[2], sp, CellAt(x))
<1> DEFINE e == Reach(x[2], sp)[x[3]]
           q == parts[sp][x[2]][x[3]]
           y == Place(sp, x[2], e)
           m == Mass(sp, x[2], e)
<1>1. LInv /\ Made(sp) /\ Put(sp) /\ Weighed(sp) /\ cfg.load = "masked"
  BY DEF MaskedNow, Written, Made, Put, Weighed, Past
<1>2. /\ cfg \in Config /\ cfg.load # "glass" /\ x[2] \in Rank /\ x[3] \in Reached(x[2], sp)
      /\ ParticleHolds(sp, x[2], x[3]) /\ Particle(x) = q
  BY <1>1, HereIs
<1>3. x = <<sp, x[2], x[3]>>
  <2>1. x \in LoopsOf(sp, Rank)
    BY <1>1, HereIs
  <2> QED
    BY <2>1 DEF LoopsOf
<1>4. e.i \in 1 .. overload /\ e.l \in 0 .. local_size(x[2]) - 1 /\ get_mask_value(CellAt(x)) = sp
  BY <1>1, <1>2, ReachFacts DEF CellAt
<1>5. e.i = 1
  BY <1>1, <1>2, <1>4, OverloadIs
<1>6. CellAt(x) = [d \in Dims |-> CellAt(x)[d]] /\ \A d \in Dims : CellAt(x)[d] \in 0 .. cfg.n - 1
  <2>1. /\ CellAt(x) = <<CellAt(x)[1], CellAt(x)[2], CellAt(x)[3]>>
        /\ \A d \in Dims : CellAt(x)[d] \in 0 .. cfg.n - 1
    <3> HIDE DEF e
    <3> QED
      BY <1>2, <1>4, CellOf DEF CellAt, e
  <2> QED
    BY <2>1 DEF Dims
<1>7. q.pos = [d \in Dims |-> <<y, y>>] /\ q.mass = <<m>>
  BY <1>1, <1>2 DEF ParticleHolds
<1>8. m = MaskedMass(x[2], sp, CellAt(x)) /\ y = Wrapped(Site(CellAt(x)))
  BY <1>1 DEF Mass, Place, CellAt
<1> HIDE DEF q, y, m
<1>9. q.pos[1][1] = y /\ q.mass[1] = m
  BY <1>7 DEF Dims
<1>10. Wrapped(Site(CellAt(x))) = Site(CellAt(x))
  <2>1. ASSUME NEW z \in 0 .. cfg.n - 1 PROVE (4 * z) % (4 * cfg.n) = 4 * z
    <3> DEFINE N == 4 * cfg.n
               u == 4 * z
    <3>1. N \in Nat \ {0} /\ u \in Int /\ u \in 0 .. N - 1 /\ u = 0 * N + u
      BY <1>2, ConfigFacts
    <3> HIDE DEF N, u
    <3>2. u % N = u
      BY <3>1, ModIs
    <3> QED
      BY <3>2 DEF N, u
  <2> QED
    BY <1>6, <2>1 DEF Wrapped, Site
<1> QED
  BY <1>2, <1>3, <1>4, <1>5, <1>6, <1>8, <1>9, <1>10

LEMMA MaskedGrid ==
  ASSUME MaskedNow
  PROVE  /\ cfg \in Config /\ cfg.load = "masked" /\ cfg.n % 2 = 0 /\ cfg.n \in Nat \ {0}
         /\ sp \in 0 .. 1 /\ IsFiniteSet(Here) /\ Here = LoopsOf(sp, Rank)
<1>1. /\ cfg \in Config /\ cfg.load = "masked" /\ global_size % 8 = 0 /\ sp \in 0 .. 1
      /\ LInv /\ Made(sp)
  BY DEF MaskedNow, LInv, LTypes, Written, Made, Past
<1>2. cfg.n % 2 = 0 /\ cfg.n \in Nat \ {0} /\ cfg.ranks \in Nat \ {0}
  BY <1>1, EvenSide, ConfigFacts
<1>3. Here = LoopsOf(sp, Rank)
  BY <1>1, HereIs
<1>4. IsFiniteSet(LoopsOf(sp, Rank))
  <2>1. cfg.ranks \in 0 .. cfg.ranks /\ Rank = 0 .. cfg.ranks - 1
    BY <1>2 DEF Rank
  <2> QED
    BY <1>1, <2>1, LoopsUpto
<1> QED
  BY <1>1, <1>2, <1>3, <1>4

\* Particles of a cube are in the corners of their species, one in each.
LEMMA MineAreKept ==
  ASSUME MaskedNow, NEW c \in Origins
  PROVE  /\ IsFiniteSet(Mine(c))
         /\ \A x \in Mine(c) : \E k \in KeptCorners(sp) : CellAt(x) = Add(c, k)
         /\ \A x, y \in Mine(c) : CellAt(x) = CellAt(y) => x = y
<1>1. /\ cfg \in Config /\ cfg.n % 2 = 0 /\ IsFiniteSet(Here) /\ Mine(c) \in SUBSET Here
      /\ cfg.load # "glass"
  BY MaskedGrid DEF Mine
<1>2. ASSUME NEW x \in Mine(c) PROVE \E k \in KeptCorners(sp) : CellAt(x) = Add(c, k)
  <2>1. PICK k \in Corner : Particle(x).pos[1][1] = Site(Add(c, k))
    BY DEF Mine, Cube
  <2>2. /\ Particle(x).pos[1][1] = Site(CellAt(x)) /\ get_mask_value(CellAt(x)) = sp
        /\ CellAt(x) = [d \in Dims |-> CellAt(x)[d]]
        /\ \A d \in Dims : CellAt(x)[d] \in 0 .. cfg.n - 1
    BY <1>1, MaskedParticle
  <2>3. ASSUME NEW d \in Dims PROVE CellAt(x)[d] = Add(c, k)[d] /\ Add(c, k)[d] % 2 = k[d]
    <3>1. Add(c, k)[d] \in 0 .. cfg.n - 1 /\ Add(c, k)[d] % 2 = k[d]
      BY <1>1, CornerOf
    <3>2. Site(CellAt(x))[d] = 4 * CellAt(x)[d] /\ Site(Add(c, k))[d] = 4 * Add(c, k)[d]
      BY DEF Site
    <3> QED
      BY <2>1, <2>2, <3>1, <3>2
  <2>4. Add(c, k) = [d \in Dims |-> Add(c, k)[d]]
    BY DEF Add
  <2>5. CellAt(x) = Add(c, k)
    BY <2>2, <2>3, <2>4
  <2>6. particle_type_mask(k) = sp
    <3>1. \A d \in Dims : Parity(CellAt(x))[d] = k[d]
      BY <2>3 DEF Parity, masksize
    <3>2. Parity(CellAt(x))[1] = k[1] /\ Parity(CellAt(x))[2] = k[2] /\ Parity(CellAt(x))[3] = k[3]
      BY <3>1 DEF Dims
    <3>3. particle_type_mask(Parity(CellAt(x))) = particle_type_mask(k)
      BY <3>2 DEF particle_type_mask
    <3> QED
      BY <2>2, <3>3 DEF get_mask_value
  <2> QED
    BY <2>5, <2>6 DEF KeptCorners
<1>3. ASSUME NEW x \in Mine(c), NEW y \in Mine(c), CellAt(x) = CellAt(y) PROVE x = y
  <2> DEFINE e(z) == Reach(z[2], sp)[z[3]]
  <2>1. ASSUME NEW z \in Mine(c)
        PROVE  /\ z = <<sp, z[2], z[3]>> /\ z[2] \in Rank /\ z[3] \in Reached(z[2], sp)
               /\ e(z).l \in 0 .. local_size(z[2]) - 1 /\ e(z).i = 1
               /\ CellAt(z) = get_cell_idx_3d(z[2], e(z).l)
    BY <1>1, MaskedParticle DEF CellAt
  <2> HIDE DEF e
  <2>2. x[2] = y[2] /\ e(x).l = e(y).l
    BY <1>1, <1>3, <2>1, SameCell
  <2>3. SameReach(x[2], sp, x[3], y[3])
    BY <2>1, <2>2 DEF SameReach, e
  <2>4. x[3] = y[3]
    BY <1>1, <2>1, <2>2, <2>3, ReachFacts
  <2> QED
    BY <2>1, <2>2, <2>4
<1>4. IsFiniteSet(Mine(c))
  BY <1>1, FS_Subset
<1> QED
  BY <1>2, <1>3, <1>4

\* Every corner of the species is taken, be it on this rank or another.
LEMMA KeptAreMine ==
  ASSUME MaskedNow, NEW c \in Origins, NEW k \in KeptCorners(sp)
  PROVE  \E x \in Mine(c) : CellAt(x) = Add(c, k)
<1>1. /\ cfg \in Config /\ cfg.n % 2 = 0 /\ Here = LoopsOf(sp, Rank) /\ cfg.load = "masked"
      /\ k \in Corner /\ particle_type_mask(k) = sp
  BY MaskedGrid DEF KeptCorners
<1> DEFINE y == Add(c, k)
<1>2. /\ y = <<y[1], y[2], y[3]>>
      /\ \A d \in Dims : y[d] \in 0 .. cfg.n - 1 /\ y[d] % 2 = k[d]
  <2>1. y = <<y[1], y[2], y[3]>>
    BY DEF Add, Dims
  <2>2. ASSUME NEW d \in Dims PROVE y[d] \in 0 .. cfg.n - 1 /\ y[d] % 2 = k[d]
    BY <1>1, CornerOf
  <2> HIDE DEF y
  <2> QED
    BY <2>1, <2>2
<1>3. y \in Cube(c)
  BY <1>1 DEF Cube
<1> HIDE DEF y
<1>4. /\ y[1] \in 0 .. cfg.n - 1 /\ y[2] \in 0 .. cfg.n - 1 /\ y[3] \in 0 .. cfg.n - 1
      /\ cfg.n \in Nat \ {0}
  BY <1>1, <1>2, ConfigFacts DEF Dims
<1>5. get_mask_value(y) = sp
  <2>1. Parity(y)[1] = k[1] /\ Parity(y)[2] = k[2] /\ Parity(y)[3] = k[3]
    BY <1>2 DEF Parity, masksize, Dims
  <2>2. particle_type_mask(Parity(y)) = particle_type_mask(k)
    BY <2>1 DEF particle_type_mask
  <2> QED
    BY <1>1, <2>2 DEF get_mask_value
<1>6. PICK r \in Rank : Start(r) <= y[1] /\ y[1] < Start(r + 1)
  BY <1>1, <1>4, OwnerOfPlane
<1>7. PICK l \in 0 .. local_size(r) - 1 : get_cell_idx_3d(r, l) = y
  <2>1. \E l \in 0 .. local_size(r) - 1 : get_cell_idx_3d(r, l) = <<y[1], y[2], y[3]>>
    <3>1. y[1] \in Int
      BY <1>4
    <3> QED
      BY <1>1, <1>4, <1>6, <3>1, IndexOfCell
  <2> QED
    BY <1>2, <2>1
<1> DEFINE K == Kept(r, sp)
           p == Cardinality({j \in K : j < l})
           x == <<sp, r, p>>
<1>8. l \in K
  BY <1>5, <1>7 DEF Kept
<1>9. K \in SUBSET Nat /\ IsFiniteSet(K)
  BY <1>1, KeptFacts
<1>10. p \in 0 .. Cardinality(K) - 1 /\ Nth(K, p) = l
  <2> HIDE DEF K
  <2> QED
    BY <1>8, <1>9, NthIs
<1>11. Reach(r, sp) = [b \in 0 .. Cardinality(K) - 1 |-> [i |-> 1, l |-> Nth(K, b)]]
  BY <1>1 DEF Reach
<1> HIDE DEF K, p
<1>12. p \in Reached(r, sp) /\ Reach(r, sp)[p].l = l
  BY <1>10, <1>11 DEF Reached
<1>13. p \in Nat
  BY <1>10
<1>14. x \in Here
  BY <1>1, <1>12, <1>13 DEF LoopsOf
<1>15. CellAt(x) = y
  BY <1>7, <1>12 DEF CellAt
<1> HIDE DEF x
<1>16. Particle(x).pos[1][1] = Site(y)
  BY <1>14, <1>15, MaskedParticle
<1>17. x \in Mine(c)
  BY <1>3, <1>14, <1>16 DEF Mine
<1> QED
  BY <1>15, <1>17 DEF y

\* As many particles in a cube as there are corners of the species.
LEMMA MineCount ==
  ASSUME MaskedNow, NEW c \in Origins
  PROVE  /\ Cardinality(Mine(c)) = Cardinality(KeptCorners(sp))
         /\ Cardinality(KeptCorners(sp)) \in Nat
<1> DEFINE f == [x \in Mine(c) |-> CHOOSE k \in KeptCorners(sp) : CellAt(x) = Add(c, k)]
           T == {f[x] : x \in Mine(c)}
<1>1. cfg \in Config /\ cfg.n % 2 = 0 /\ KeptCorners(sp) \subseteq Corner
  BY MaskedGrid DEF KeptCorners
<1>2. ASSUME NEW x \in Mine(c)
      PROVE  f[x] \in KeptCorners(sp) /\ CellAt(x) = Add(c, f[x])
  <2>1. \E k \in KeptCorners(sp) : CellAt(x) = Add(c, k)
    BY MineAreKept
  <2>2. f[x] = CHOOSE k \in KeptCorners(sp) : CellAt(x) = Add(c, k)
    OBVIOUS
  <2> HIDE DEF f
  <2> QED
    BY <2>1, <2>2
<1> HIDE DEF f
<1>3. IsFiniteSet(Mine(c)) /\ \A x, y \in Mine(c) : f[x] = f[y] => x = y
  BY <1>2, MineAreKept
<1>4. Cardinality(T) = Cardinality(Mine(c))
  BY <1>3, ImageCardinality
<1>5. ASSUME NEW k \in KeptCorners(sp) PROVE k \in T
  <2>1. PICK x \in Mine(c) : CellAt(x) = Add(c, k)
    BY KeptAreMine
  <2>2. f[x] \in Corner /\ Add(c, f[x]) = Add(c, k) /\ k \in Corner
    BY <1>1, <1>2, <2>1
  <2>3. f[x] = k
    BY <1>1, <2>2, CornersDiffer
  <2> QED
    BY <2>3
<1>6. T = KeptCorners(sp)
  BY <1>2, <1>5
<1> QED
  BY <1>3, <1>4, <1>6, FS_CardinalityType

WeightIn(x, k) == IF k \in DOMAIN Particle(x).mass[1] THEN Particle(x).mass[1][k] ELSE 0
CubeMass(c, k) == MapThenSumSet(LAMBDA x : WeightIn(x, k), Mine(c))

\* The sum that the property takes is that of a table.
LEMMA SumOfMine ==
  ASSUME NEW c, NEW k, NEW f, IsFiniteSet(Mine(c)), \A x \in Mine(c) : f[x] = WeightIn(x, k)
  PROVE  \E h : /\ IsSumTable(h, f, Mine(c))
                /\ CubeMass(c, k) = h[Mine(c)]
<1> DEFINE S == Mine(c)
           g == CHOOSE h : h = [t \in SUBSET S |->
                  IF t = {} THEN 0 ELSE WeightIn(CHOOSE x \in t : TRUE, k)
                                          + h[t \ {CHOOSE x \in t : TRUE}]]
<1>1. CubeMass(c, k) = g[S]
  BY DEF CubeMass, MapThenSumSet, MapThenFoldSet
<1>2. PICK h : IsSumTable(h, f, S)
  BY SumTableExists
<1> HIDE DEF S
<1>3. \A t \in SUBSET S : t # {} => f[OneOf(t)] = WeightIn(CHOOSE x \in t : TRUE, k)
  <2>1. ASSUME NEW t \in SUBSET S, t # {} PROVE f[OneOf(t)] = WeightIn(OneOf(t), k)
    <3>1. OneOf(t) \in S
      BY <2>1 DEF OneOf
    <3> QED
      BY <3>1 DEF S
  <2> QED
    BY <2>1 DEF OneOf
<1>4. \A j : IsSumTable(j, f, S) <=>
        j = [t \in SUBSET S |->
               IF t = {} THEN 0 ELSE WeightIn(CHOOSE x \in t : TRUE, k)
                                       + j[t \ {CHOOSE x \in t : TRUE}]]
  <2>1. SUFFICES ASSUME NEW j
        PROVE  [t \in SUBSET S |-> SumStep(f, j, t)]
               = [t \in SUBSET S |->
                    IF t = {} THEN 0 ELSE WeightIn(CHOOSE x \in t : TRUE, k)
                                            + j[t \ {CHOOSE x \in t : TRUE}]]
    BY DEF IsSumTable
  <2>2. ASSUME NEW t \in SUBSET S
        PROVE  SumStep(f, j, t) = IF t = {} THEN 0 ELSE WeightIn(CHOOSE x \in t : TRUE, k)
                                                         + j[t \ {CHOOSE x \in t : TRUE}]
    BY <1>3 DEF SumStep, OneOf
  <2> QED
    BY <2>2
<1>5. g = [t \in SUBSET S |->
             IF t = {} THEN 0 ELSE WeightIn(CHOOSE x \in t : TRUE, k)
                                     + g[t \ {CHOOSE x \in t : TRUE}]]
  BY <1>2, <1>4, ZenonT(40)
<1> HIDE DEF g
<1>6. IsSumTable(g, f, S)
  BY <1>4, <1>5
<1> QED
  BY <1>1, <1>6 DEF S

\* What the particles of a cube have of one of its cells.
LEMMA CubeSum ==
  ASSUME MaskedNow, NEW c \in Origins, NEW k \in Corner
  PROVE  LET K == Cardinality(KeptCorners(sp)) IN
         CubeMass(c, Add(c, k)) = K * K
<1> DEFINE K == Cardinality(KeptCorners(sp))
           S == Mine(c)
           v == Add(c, k)
           isKept == k \in KeptCorners(sp)
           b == K - (IF isKept THEN 8 ELSE 0)
           f == [x \in S |-> WeightIn(x, v)]
<1>1. /\ cfg \in Config /\ cfg.n % 2 = 0 /\ IsFiniteSet(S) /\ Cardinality(S) = K /\ K \in Nat
      /\ KeptCorners(sp) \subseteq Corner
  BY MaskedGrid, MineAreKept, MineCount DEF KeptCorners
<1>2. ASSUME NEW x \in S
      PROVE  f[x] = (IF CellAt(x) = v THEN 8 * K ELSE 0) + b
  <2>1. PICK q \in KeptCorners(sp) : CellAt(x) = Add(c, q)
    BY MineAreKept
  <2>2. q \in Corner /\ x \in Here
    BY <1>1 DEF Mine
  <2> DEFINE m == MaskedMass(x[2], sp, CellAt(x))
  <2>3. Particle(x).mass[1] = m
    BY <2>2, MaskedParticle
  <2>4. /\ DOMAIN m = Cube(c)
        /\ m[v] = (IF q = k THEN 8 * K ELSE 0) + b
    <3> DEFINE cell == CellAt(x)
    <3>1. cell = Add(c, q)
      BY <2>1
    <3> HIDE DEF cell
    <3>2. /\ DOMAIN MaskedMass(x[2], sp, cell) = Cube(c)
          /\ MaskedMass(x[2], sp, cell)[Add(c, k)]
               = (IF q = k THEN 8 * Cardinality(KeptCorners(sp)) ELSE 0)
                 + (Cardinality(KeptCorners(sp)) - (IF k \in KeptCorners(sp) THEN 8 ELSE 0))
      BY <1>1, <2>2, <3>1, WeightIs
    <3> QED
      BY <3>2 DEF cell
  <2>5. v \in Cube(c)
    BY DEF Cube
  <2>6. WeightIn(x, v) = m[v]
    BY <2>3, <2>4, <2>5 DEF WeightIn
  <2>7. CellAt(x) = v <=> q = k
    BY <1>1, <2>1, <2>2, CornersDiffer
  <2>8. f[x] = WeightIn(x, v)
    OBVIOUS
  <2> HIDE DEF f, m, v, b, K
  <2> QED
    BY <2>4, <2>6, <2>7, <2>8
<1>3. PICK h : /\ IsSumTable(h, f, S)
               /\ CubeMass(c, v) = h[S]
  <2>1. IsFiniteSet(Mine(c)) /\ \A x \in Mine(c) : f[x] = WeightIn(x, v)
    BY <1>1
  <2> HIDE DEF f, v
  <2>2. \E h : /\ IsSumTable(h, f, Mine(c))
               /\ CubeMass(c, v) = h[Mine(c)]
    BY <2>1, SumOfMine
  <2> QED
    BY <2>2
<1> HIDE DEF f
<1>4. h[S] = K * K
  <2>1. CASE isKept
    <3>1. PICK y \in S : CellAt(y) = v
      BY <2>1, KeptAreMine
    <3>2. \A x \in S : f[x] = (IF x = y THEN 8 * K ELSE 0) + (K - 8)
      <4>1. \A x \in S : CellAt(x) = v <=> x = y
        BY <3>1, MineAreKept
      <4> HIDE DEF S, v, K
      <4> QED
        BY <1>2, <2>1, <4>1
    <3> DEFINE a == 8 * K
               d == K - 8
    <3>3. a \in Int /\ d \in Int /\ K * K \in Int /\ a + d * K = K * K
      BY <1>1
    <3>4. \A x \in S : f[x] = (IF x = y THEN a ELSE 0) + d
      BY <3>2
    <3>5. IsFiniteSet(S) /\ IsSumTable(h, f, S)
      BY <1>1, <1>3
    <3> HIDE DEF S, K, a, d
    <3>6. h[S] = (IF y \in S THEN a ELSE 0) + d * Cardinality(S)
      BY <3>3, <3>4, <3>5, SumWithOne
    <3> QED
      BY <1>1, <3>1, <3>3, <3>6
  <2>2. CASE ~isKept
    <3> DEFINE a == 0
    <3>1. \A x \in S : f[x] = (IF x = a THEN a ELSE 0) + K
      <4>1. \A x \in S : CellAt(x) # v
        <5>1. SUFFICES ASSUME NEW x \in S, CellAt(x) = v PROVE FALSE
          OBVIOUS
        <5>2. PICK q \in KeptCorners(sp) : CellAt(x) = Add(c, q)
          BY MineAreKept
        <5>3. q = k
          BY <1>1, <5>1, <5>2, CornersDiffer
        <5> QED
          BY <2>2, <5>2, <5>3
      <4> HIDE DEF S, v, K
      <4> QED
        BY <1>1, <1>2, <2>2, <4>1
    <3>2. a \in Int /\ K \in Int /\ K * K \in Int
      BY <1>1
    <3>3. a = 0
      OBVIOUS
    <3>4. IsFiniteSet(S) /\ IsSumTable(h, f, S)
      BY <1>1, <1>3
    <3> HIDE DEF S, K, a
    <3>5. h[S] = (IF a \in S THEN a ELSE 0) + K * Cardinality(S)
      BY <3>1, <3>2, <3>4, SumWithOne
    <3> QED
      BY <1>1, <3>2, <3>3, <3>5
  <2> QED
    BY <2>1, <2>2
<1> QED
  BY <1>3, <1>4

\* Leaving particles out of a cube does not change its mass, for grids of every
\* size divided among any number of ranks: the weights of the particles that
\* are left add up to the same for each of the eight cells, and the cells of
\* other cubes do not enter.
THEOREM MaskKeepsMass == Spec => []MaskedMassIsKept
<1>1. ASSUME MaskedNow, NEW c \in Origins, NEW x \in Mine(c)
      PROVE  DOMAIN Particle(x).mass[1] = Cube(c)
  <2>1. PICK q \in KeptCorners(sp) : CellAt(x) = Add(c, q)
    BY <1>1, MineAreKept
  <2>2. q \in Corner /\ x \in Here /\ cfg \in Config /\ cfg.n % 2 = 0
    BY <1>1, MaskedGrid DEF Mine, KeptCorners
  <2>3. Particle(x).mass[1] = MaskedMass(x[2], sp, CellAt(x))
    BY <1>1, <2>2, MaskedParticle
  <2> DEFINE cell == CellAt(x)
  <2>4. cell = Add(c, q)
    BY <2>1
  <2> HIDE DEF cell
  <2>5. DOMAIN MaskedMass(x[2], sp, cell) = Cube(c)
    BY <1>1, <2>2, <2>4, WeightIs
  <2> QED
    BY <2>3, <2>5 DEF cell
<1>2. ASSUME MaskedNow, NEW c \in Origins,
             NEW k \in Cube(c) \cup UNION {DOMAIN Particle(x).mass[1] : x \in Mine(c)}
      PROVE  CubeMass(c, k)
               = IF k \in Cube(c)
                   THEN Cardinality(KeptCorners(sp)) * Cardinality(KeptCorners(sp)) ELSE 0
  <2>1. k \in Cube(c)
    BY <1>1, <1>2
  <2>2. PICK j \in Corner : k = Add(c, j)
    BY <2>1 DEF Cube
  <2>3. CubeMass(c, Add(c, j)) = Cardinality(KeptCorners(sp)) * Cardinality(KeptCorners(sp))
    BY <1>2, CubeSum
  <2> QED
    BY <2>1, <2>2, <2>3
<1>3. LInv => MaskedMassIsKept
  BY <1>2 DEF MaskedMassIsKept, MaskedNow, Origins, Mine, Cube, WeightIn, CubeMass
<1> QED
  BY <1>3, LInvHolds, PTL
=============================================================================
