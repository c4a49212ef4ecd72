------------------------------ MODULE WhiteNoise ------------------------------
(***************************************************************************)
(* The white noise field of a run: the random number plugins (src/src/     *)
(* plugins/random_ngenic.cc, random_music.cc with random_music_wnoise_     *)
(* generator.cc, random_panphasia.cc with PANPHASIA.hh) fill the           *)
(* distributed grid, ic_generator.cc puts the modes of a constraint field  *)
(* in place, normalises, and writes the noise or a smaller copy of it for  *)
(* FastDF.                                                                 *)
(*                                                                         *)
(* A cell of a grid in Fourier space holds the set of the symbolic numbers *)
(* that were added up in it, {} for zero.  A number names where it was     *)
(* drawn: from which seed, at which place.  Nothing is said of the         *)
(* distribution the numbers are drawn from.                                *)
(*                                                                         *)
(* With MPI a distributed grid is transposed in Fourier space: the first   *)
(* index is that of the second dimension.                                  *)
(***************************************************************************)
EXTENDS Integers, FiniteSets, Sequences, SequencesExt

CONSTANTS
  Configs,   \* the configurations a run may have
  MaxRes,    \* the finest grid of the configurations
  SizeRange  \* a size_t counts modulo this number

\* generator    "NGENIC", "MUSIC1", "PANPHASIA" or "PANPHASIA_HO"
\* mpi, ranks   the build and the number of ranks
\* n            GridRes
\* seeds        MUSIC1: the levels that have a seed; cubesize
\* base, least  PANPHASIA: base of the descriptor, PanphasiaMinRootResolution
\* constraint   side of the constraint field, 0 without
\* small        NeutrinoGridRes, or -1 without neutrino particles
Config == [generator : {"NGENIC", "MUSIC1", "PANPHASIA", "PANPHASIA_HO"},
           mpi : BOOLEAN, ranks : Nat \ {0}, n : Nat \ {0}, seeds : SUBSET Nat, cubesize : Nat \ {0},
           base : Nat \ {0}, least : Nat, constraint : Nat, small : Nat \cup {-1},
           fixing : BOOLEAN, inversion : BOOLEAN]

\* Grids are even: the code halves their sides.  A constraint field is at most
\* twice as fine as the noise: modes of a finer one are written outside the
\* grid.  Without MPI there is one rank and no PANPHASIA.
ASSUME ConfigsAssumption ==
  /\ Configs \subseteq Config
  /\ \A c \in Configs :
       /\ c.n % 2 = 0 /\ c.n <= MaxRes /\ c.constraint % 2 = 0 /\ c.constraint <= 2 * c.n
       /\ c.small = -1 \/ c.small % 2 = 0
       /\ ~c.mpi => c.ranks = 1 /\ c.generator \in {"NGENIC", "MUSIC1"}
ASSUME MaxResAssumption == MaxRes \in Nat \ {0} /\ MaxRes % 2 = 0

\* The grids are far from the largest size_t.
ASSUME SizeRangeAssumption == SizeRange \in Nat /\ 2 * MaxRes < SizeRange

VARIABLES
  cfg,       \* the configuration of this run
  pc,        \* where each rank is
  plane,     \* wnoise in real space: what the planes were filled with
  mode,      \* wnoise in Fourier space
  part,      \* noise_small of the ranks that have taken part in the reduction
  exported   \* the noise in the file for FastDF

vars == <<cfg, pc, plane, mode, part, exported>>

-----------------------------------------------------------------------------
(***************************************************************************)
(* Grids.                                                                  *)
(***************************************************************************)
Ranks == 0 .. cfg.ranks - 1

\* The side of a level: 2^l.
Side[l \in Nat] == IF l = 0 THEN 1 ELSE 2 * Side[l - 1]

\* Planes are dealt to the ranks in blocks; the dimensions are equal, so
\* that this is the slab in real and in Fourier space.
Block(n) == (n + cfg.ranks - 1) \div cfg.ranks
Own(s, n) == {p \in 0 .. n - 1 : p \div Block(n) = s}
local_size(s, n) == Cardinality(Own(s, n))
local_start(s, n) == IF Own(s, n) = {} THEN 0 ELSE s * Block(n)

Cells(n) == (0 .. n - 1) \X (0 .. n - 1) \X (0 .. n \div 2)

\* The wave number of an index, and the wave vector of a cell.
Wave(p, n) == IF p > n \div 2 THEN p - n ELSE p
WaveVector(c, n, transposed) ==
  IF transposed THEN <<Wave(c[2], n), Wave(c[1], n), c[3]>>
                ELSE <<Wave(c[1], n), Wave(c[2], n), c[3]>>

\* All components are below the Nyquist frequency of a grid of n^3.
Below(w, n) == \A d \in 1 .. 3 : 2 * w[d] < n /\ -2 * w[d] < n

\* A number: the w-th of the source, its complex conjugate, moved by so many
\* cells of a grid of 4 * MaxRes^3; then fixed, inverted and scaled.
Number(source, w, conj, shift) ==
  [source |-> source, w |-> w, conj |-> conj, shift |-> shift,
   fixed |-> FALSE, inverted |-> FALSE, volfac |-> 0]

-----------------------------------------------------------------------------
(***************************************************************************)
(* NGENIC: a table of seeds, a generator started again for every column.   *)
(***************************************************************************)
\* The entries of the table in the order in which they are drawn: a ring at
\* a time, in the four corners.
Ring(i, n) ==
  LET low(len) == [j \in 1 .. len |-> j - 1]
      row(r, s) == [x \in 1 .. Len(s) |-> <<r, s[x]>>]
      column(r, s) == [x \in 1 .. Len(s) |-> <<s[x], r>>]
      high(len) == [j \in 1 .. len |-> n - j]
      far == n - 1 - i
  IN row(i, low(i)) \o column(i, low(i + 1)) \o row(far, low(i)) \o column(i, high(i + 1))
     \o row(i, high(i)) \o column(far, low(i + 1)) \o row(far, high(i)) \o column(far, high(i + 1))

Drawn(n) == FlattenSeq([i \in 1 .. n \div 2 |-> Ring(i - 1, n)])

SeedTable == [n \in {k \in 1 .. MaxRes : k % 2 = 0} |->
  LET drawn == Drawn(n) IN
  [e \in (0 .. n - 1) \X (0 .. n - 1) |-> CHOOSE x \in 1 .. Len(drawn) : drawn[x] = e]]

\* Mutant: the entry is looked up as if the grid were never transposed.
SeedOf_Untransposed(i, j) == SeedTable[cfg.n][<<i, j>>]

SeedOf(i, j) == SeedTable[cfg.n][IF cfg.mpi THEN <<j, i>> ELSE <<i, j>>]

Mirror(p) == IF p > 0 THEN cfg.n - p ELSE 0

\* Columns of the plane k = 0 that are drawn; the others are their mirror
\* images.
IsDrawn(i, j) ==
  LET first  == IF cfg.mpi THEN j ELSE i
      second == IF cfg.mpi THEN i ELSE j
  IN IF first = 0 THEN second < cfg.n \div 2 ELSE first < cfg.n \div 2

\* The assignments rank s makes to its part of the grid.
NgenicWrites(s) ==
  LET own  == Own(s, cfg.n)
      all  == 0 .. cfg.n - 1
      half == cfg.n \div 2
      kept == {c \in Cells(cfg.n) : half \notin {c[1], c[2], c[3]} /\ c # <<0, 0, 0>>}
      z(c, conj) == Number("NGENIC", <<SeedOf(c[1], c[2]), c[3]>>, conj, 0)
  IN {[at |-> c, z |-> z(c, FALSE)] :
         c \in {k \in kept : k[1] \in own /\ (k[3] > 0 \/ IsDrawn(k[1], k[2]))}}
     \cup
     {[at |-> <<Mirror(c[1]), Mirror(c[2]), 0>>, z |-> z(c, TRUE)] :
         c \in {k \in kept : Mirror(k[1]) \in own /\ k[3] = 0 /\ IsDrawn(k[1], k[2])}}

-----------------------------------------------------------------------------
(***************************************************************************)
(* MUSIC1: cubes of noise on a hierarchy of levels.                        *)
(***************************************************************************)
\* initialize: a level coarser than a cube is one smaller cube.
CubeSize(res) == IF res < cfg.cubesize THEN res ELSE cfg.cubesize
NumCubes(res) == res \div CubeSize(res)

\* operator(): the cube and the cell in it that are read for an index.
CubeCell(i, res) ==
  LET cube == (i \div CubeSize(res) + NumCubes(res)) % NumCubes(res)
  IN <<cube, (i - cube * CubeSize(res) + CubeSize(res)) % CubeSize(res)>>

\* A level without a seed gets one that depends on the level alone.
Seed(l) == IF l \in cfg.seeds THEN <<"seed", l>> ELSE <<"dummy", l>>

\* fill_cube: a cube draws its cells in turn from a generator of its own, so
\* that the numbers of a level depend on the size of its cubes.
Cubes(l) == <<Seed(l), CubeSize(Side[l])>>

\* Noise drawn for a level from its own seed in its cubes; it repeats itself if two
\* indices read the same cell.
DrawnLevel(l, w) ==
  LET res == Side[l]
      repeats == \E i, j \in 0 .. res - 1 : i # j /\ CubeCell(i, res) = CubeCell(j, res)
  IN Number(IF repeats THEN <<"repeated", l>> ELSE Cubes(l), w, FALSE, 0)

\* A cell's centre lies half a cell from its corner: a quarter of a cell of
\* the coarse level, in either direction.
Moved(number, by) == [number EXCEPT !.shift = @ + by]
QuarterCell(l) == MaxRes \div Side[l]

\* From level l to l + 1: the modes of the coarse level replace those drawn.
Refined(coarse, l, w) ==
  IF Below(w, Side[l]) THEN Moved(coarse, -QuarterCell(l)) ELSE DrawnLevel(l + 1, w)

\* From level l + 1 to l: all modes of the finer level that are left.
Degraded(fine, l) == Moved(fine, QuarterCell(l))

Levels == 0 .. MaxRes
levelmin == CHOOSE l \in Levels : Side[l] = cfg.n
levelmin_seed == CHOOSE l \in cfg.seeds : \A m \in cfg.seeds : l <= m

\* The plugin wants a grid whose side is a power of two, and a seed.
MusicRefuses == cfg.generator = "MUSIC1" /\ (cfg.seeds = {} \/ \A l \in Levels : Side[l] # cfg.n)

\* PANPHASIA does not go with fixed amplitudes.
PanphasiaRefuses == cfg.generator \in {"PANPHASIA", "PANPHASIA_HO"} /\ cfg.fixing

\* The plugin's constructor throws.
PluginRefuses == MusicRefuses \/ PanphasiaRefuses

\* compute_random_numbers for the mode w: from the level with a seed up to
\* levelmin, or down to it by degrading.
MusicMode(w) ==
  LET up[l \in levelmin_seed .. levelmin] ==
        IF l = levelmin_seed THEN DrawnLevel(l, w) ELSE Refined(up[l - 1], l - 1, w)
      down[l \in levelmin .. levelmin_seed] ==
        IF l = levelmin_seed THEN DrawnLevel(l, w) ELSE Degraded(down[l + 1], l)
  IN IF levelmin_seed <= levelmin THEN up[levelmin] ELSE down[levelmin]

\* Fill_Grid: the loop starts at the first plane of the slab and ends at the
\* number of planes the slab has.
MusicPlanes(s) ==
  {[at |-> i, of |-> i] : i \in {p \in Own(s, cfg.n) : p < local_size(s, cfg.n)}}

-----------------------------------------------------------------------------
(***************************************************************************)
(* PANPHASIA: cell properties on a grid of its own, copied in Fourier      *)
(* space.                                                                  *)
(***************************************************************************)
\* The largest grid 2^lextra * base within GridRes (the code allows for 0.2%
\* more, which grids of this size do not tell apart), doubled until it is not
\* smaller than the minimum.
ngrid_panphasia ==
  LET lextra == CHOOSE l \in 0 .. cfg.n : cfg.base * Side[l] <= cfg.n /\ cfg.n < cfg.base * Side[l + 1]
      fine   == {l \in 0 .. cfg.n + cfg.least : l >= lextra /\ cfg.base * Side[l] >= cfg.least}
  IN cfg.base * Side[CHOOSE l \in fine : \A m \in fine : l <= m]

\* The high order version starts from the smallest grid that is not smaller
\* than GridRes.
ngrid_highorder ==
  LET fine == {l \in 0 .. cfg.n : 2 * cfg.base * Side[l] >= cfg.n}
  IN 2 * cfg.base * Side[CHOOSE l \in fine : \A m \in fine : l <= m]

PanphasiaRes == IF cfg.generator = "PANPHASIA" THEN ngrid_panphasia ELSE ngrid_highorder

\* The planes of PANPHASIA's grid that rank s evaluates, in pairs, each at
\* its place in the whole grid.
PanphasiaPlanes(s) ==
  LET pairs == {i \in 0 .. local_size(s, PanphasiaRes) - 1 : i % 2 = 0} IN
  UNION {{[at |-> local_start(s, PanphasiaRes) + i + x, of |-> i + x + local_start(s, PanphasiaRes)] :
            x \in {y \in 0 .. 1 : i + y < local_size(s, PanphasiaRes)}} : i \in pairs}

\* FourierInterpolateCopyTo keeps the modes both grids resolve.  The first
\* version makes the Nyquist modes of its own grid zero; those of the second
\* survive a copy to a grid of the same size.
KeepsNyquist == cfg.generator = "PANPHASIA_HO" /\ PanphasiaRes = cfg.n
PanphasiaMode(w) ==
  IF (Below(w, PanphasiaRes) /\ Below(w, cfg.n)) \/ KeepsNyquist
  THEN {Number("PANPHASIA", w, FALSE, 0)} ELSE {}

-----------------------------------------------------------------------------
(***************************************************************************)
(* Modes of a smaller or larger grid, as ic_generator.cc pairs them.       *)
(***************************************************************************)
\* A size_t: a number below zero becomes a very large one.
SizeT(x) == x % SizeRange

\* Index of a grid of n^3 for index i of one of m^3; -1 where there is none.
Paired(i, m, n) ==
  IF i < m \div 2 THEN (IF i < n \div 2 THEN i ELSE -1)
  ELSE IF SizeT(i + n - m) >= n \div 2 THEN SizeT(n - m + i) ELSE -1

\* Cells of a grid of m^3 (not distributed, looped over in the order of the
\* other) that lie in rank s's part of one of n^3.
PairedCells(s, m, n) ==
  {c \in Cells(m) : Paired(c[1], m, n) \in Own(s, n) /\ Paired(c[2], m, n) # -1 /\ c[3] <= n \div 2}
PairedCell(c, m, n) == <<Paired(c[1], m, n), Paired(c[2], m, n), c[3]>>

\* A grid that is not distributed is not transposed.
Untransposed(c) == IF cfg.mpi THEN <<c[2], c[1], c[3]>> ELSE c

\* The modes of the constraint field.
ConstraintMode(c) ==
  {Number("constraint", WaveVector(c, cfg.constraint, FALSE), FALSE, 0)}

Normalised(x) ==
  [x EXCEPT !.fixed = cfg.fixing, !.inverted = cfg.inversion, !.volfac = cfg.n]
Rescaled(x) == [x EXCEPT !.volfac = cfg.small]

-----------------------------------------------------------------------------
(***************************************************************************)
(* The run.                                                                *)
(***************************************************************************)
Nowhere == -1
InRealSpace == cfg.generator # "NGENIC"
RealRes == IF cfg.generator = "MUSIC1" THEN cfg.n ELSE PanphasiaRes

Init ==
  /\ cfg \in Configs
  /\ pc = [s \in Ranks |-> "fill"]
  /\ plane = [p \in 0 .. RealRes - 1 |-> Nowhere]
  /\ mode = [c \in Cells(cfg.n) |-> {}]
  /\ part = [s \in Ranks |-> <<>>]
  /\ exported = <<>>

AllAt(where) == \A s \in Ranks : pc[s] = where
Go(s, to) == pc' = [pc EXCEPT ![s] = to]
AllGo(to) == pc' = [s \in Ranks |-> to]

\* NGENIC zeroes the grid and writes modes.
FillModes(s) ==
  /\ pc[s] = "fill" /\ ~InRealSpace
  /\ LET writes == NgenicWrites(s) IN
     mode' = [c \in Cells(cfg.n) |->
                IF c[1] \notin Own(s, cfg.n) THEN mode[c]
                ELSE {x.z : x \in {y \in writes : y.at = c}}]
  /\ Go(s, "transform")
  /\ UNCHANGED <<cfg, plane, part, exported>>

\* The others write planes.
FillPlanes(s) ==
  /\ pc[s] = "fill" /\ InRealSpace /\ ~PluginRefuses
  /\ LET writes == IF cfg.generator = "MUSIC1" THEN MusicPlanes(s) ELSE PanphasiaPlanes(s) IN
     plane' = [p \in DOMAIN plane |->
                 IF \E x \in writes : x.at = p THEN (CHOOSE x \in writes : x.at = p).of ELSE plane[p]]
  /\ Go(s, "transform")
  /\ UNCHANGED <<cfg, mode, part, exported>>

\* The ranks meet in the Fourier transform; noise with a plane that is not
\* in its place is not the noise that was drawn.
FourierTransformForward ==
  /\ AllAt("transform")
  /\ mode' = IF ~InRealSpace THEN mode
             ELSE [c \in Cells(cfg.n) |->
                     IF \E p \in DOMAIN plane : plane[p] # p
                     THEN {Number("garbled", c, FALSE, 0)}
                     ELSE LET w == WaveVector(c, cfg.n, cfg.mpi) IN
                          IF cfg.generator = "MUSIC1" THEN {MusicMode(w)} ELSE PanphasiaMode(w)]
  /\ AllGo("constrain")
  /\ UNCHANGED <<cfg, plane, part, exported>>

AddConstrainedModes(s) ==
  /\ pc[s] = "constrain"
  /\ LET nc == cfg.constraint IN
     mode' = IF nc = 0 THEN mode
             ELSE [c \in Cells(cfg.n) |->
                     LET from == {x \in PairedCells(s, nc, cfg.n) : PairedCell(x, nc, cfg.n) = c}
                     IN IF from = {} THEN mode[c]
                        ELSE UNION {ConstraintMode(Untransposed(x)) : x \in from}]
  /\ Go(s, "normalise")
  /\ UNCHANGED <<cfg, plane, part, exported>>

\* Angulo and Pontzen's fixing, the inversion and the normalisation.
Normalise(s) ==
  /\ pc[s] = "normalise"
  /\ mode' = [c \in Cells(cfg.n) |->
                IF c[1] \in Own(s, cfg.n) THEN {Normalised(x) : x \in mode[c]} ELSE mode[c]]
  /\ Go(s, IF cfg.small = -1 THEN "done" ELSE "export")
  /\ UNCHANGED <<cfg, plane, part, exported>>

\* The noise of a neutrino grid of the same size is written as it is: the
\* ranks meet in the transforms to real space and back.
ExportWhole ==
  /\ AllAt("export") /\ cfg.small = cfg.n
  /\ exported' = [c \in Cells(cfg.n) |-> {[by |-> Nowhere, z |-> x] : x \in mode[Untransposed(c)]}]
  /\ AllGo("done")
  /\ UNCHANGED <<cfg, plane, mode, part>>

\* Every rank puts its modes into a smaller grid it has for itself, scales
\* them and hands the grid to the reduction.
Downsample(s) ==
  /\ pc[s] = "export" /\ 0 < cfg.small /\ cfg.small < cfg.n
  /\ LET m == cfg.small
         copied == PairedCells(s, m, cfg.n) IN
     part' = [part EXCEPT ![s] = [c \in Cells(m) |->
                UNION {{Rescaled(x) : x \in mode[PairedCell(y, m, cfg.n)]} :
                         y \in {z \in copied : Untransposed(z) = c}}]]
  /\ Go(s, IF s = 0 THEN "reduce" ELSE "done")
  /\ UNCHANGED <<cfg, plane, mode, exported>>

\* Mutant: rank 0 writes its own small grid.
WriteSum_Own ==
  /\ pc[0] = "reduce" /\ \A s \in Ranks : part[s] # <<>>
  /\ exported' = [c \in Cells(cfg.small) |-> {[by |-> 0, z |-> x] : x \in part[0][c]}]
  /\ Go(0, "done")
  /\ UNCHANGED <<cfg, plane, mode, part>>

\* Rank 0 waits for the sum of all grids and writes it.
WriteSum ==
  /\ pc[0] = "reduce" /\ \A s \in Ranks : part[s] # <<>>
  /\ exported' = [c \in Cells(cfg.small) |->
                    UNION {{[by |-> s, z |-> x] : x \in part[s][c]} : s \in Ranks}]
  /\ Go(0, "done")
  /\ UNCHANGED <<cfg, plane, mode, part>>

\* A neutrino grid of no cells or finer than the noise ends the run, as does
\* the constructor of a plugin before it.
Refuse(s) ==
  /\ \/ pc[s] = "fill" /\ PluginRefuses
     \/ pc[s] = "export" /\ (cfg.small = 0 \/ cfg.small > cfg.n)
  /\ Go(s, "thrown")
  /\ UNCHANGED <<cfg, plane, mode, part, exported>>

RankStep(s) ==
  \/ FillModes(s) \/ FillPlanes(s) \/ AddConstrainedModes(s) \/ Normalise(s)
  \/ Downsample(s) \/ Refuse(s)

Next == FourierTransformForward \/ ExportWhole \/ WriteSum \/ \E s \in Ranks : RankStep(s)

Spec == Init /\ [][Next]_vars

-----------------------------------------------------------------------------
(***************************************************************************)
(* Properties.                                                             *)
(***************************************************************************)
\* Entry of the finest seed table for a pair of wave numbers.
FinestSeed(x, y) == SeedTable[MaxRes][<<(x + MaxRes) % MaxRes, (y + MaxRes) % MaxRes>>]

\* The noise a wave vector has whatever the ranks, the build and the grid: of
\* NGENIC the number of the finest seed table, or for the mirror half of the
\* plane z = 0 the conjugate of that of the opposite wave vector; of MUSIC1
\* the number of the coarsest level that resolves it, drawn in that level's
\* cubes and moved from the centres of its cells to those of the finest.
Expected(w) ==
  CASE cfg.generator = "NGENIC" ->
         IF w = <<0, 0, 0>> \/ ~Below(w, cfg.n) THEN {}
         ELSE IF w[3] > 0 \/ w[1] > 0 \/ (w[1] = 0 /\ w[2] > 0)
         THEN {Number("NGENIC", <<FinestSeed(w[1], w[2]), w[3]>>, FALSE, 0)}
         ELSE {Number("NGENIC", <<FinestSeed(-w[1], -w[2]), 0>>, TRUE, 0)}
    [] cfg.generator = "MUSIC1" ->
         LET resolving == {l \in levelmin_seed .. levelmin : Below(w, Side[l])} \cup
                          {IF levelmin_seed > levelmin THEN levelmin_seed ELSE levelmin}
             l == CHOOSE x \in resolving : \A y \in resolving : x <= y
         IN {Number(Cubes(l), w, FALSE, (2 * MaxRes) \div cfg.n - (2 * MaxRes) \div Side[l])}
    [] OTHER -> IF Below(w, cfg.n) \/ KeepsNyquist THEN {Number("PANPHASIA", w, FALSE, 0)} ELSE {}

\* The noise does not depend on how it was computed: number of ranks, build,
\* order of the ranks; and large scales are those of any finer or coarser grid
\* with the same seeds (and, with MUSIC1, cubes).  A constraint field replaces
\* exactly the modes it resolves; the Nyquist modes of the coarser of the two
\* are left aside then.
NoiseIsReproducible ==
  AllAt("done") =>
    \A c \in Cells(cfg.n) :
      LET w == WaveVector(c, cfg.n, cfg.mpi)
          coarser == IF cfg.constraint < cfg.n THEN cfg.constraint ELSE cfg.n
          replaced == cfg.constraint > 0 /\ Below(w, coarser)
          aside == cfg.constraint > 0 /\ \E d \in 1 .. 3 : 2 * w[d] \in {coarser, -coarser}
      IN aside \/ mode[c] = {Normalised(x) :
           x \in IF replaced THEN {Number("constraint", w, FALSE, 0)} ELSE Expected(w)}

\* FastDF reads the modes the dark matter has: every mode the smaller grid
\* resolves comes from exactly one rank, at its place, scaled to that grid.
ExportIsLargeScale ==
  exported # <<>> =>
    \A c \in Cells(cfg.small) :
      LET w == WaveVector(c, cfg.small, FALSE)
          in(p) == (p + cfg.n) % cfg.n
          here == mode[Untransposed(<<in(w[1]), in(w[2]), w[3]>>)]
      IN Below(w, cfg.small) =>
           /\ {x.z : x \in exported[c]} = {Rescaled(x) : x \in here}
           /\ Cardinality(exported[c]) = Cardinality(here)
=============================================================================
