----------------------------- MODULE ParticleLoad -----------------------------
(***************************************************************************)
(* From fields to particles: lattice_generator makes the particles of a    *)
(* species, with their ids, and reads masses, positions and velocities out *)
(* of fields that it shifts from one sublattice to the next.  The loops    *)
(* that write ids, masses, positions and velocities run over the cells     *)
(* separately; what they write at one index must belong to one particle.   *)
(*                                                                         *)
(* Every operation transforms a field or reduces over the ranks, so that   *)
(* the ranks advance together; each works on its own slab of planes.       *)
(* Coordinates are counted in quarters of a cell.                          *)
(***************************************************************************)
EXTENDS Integers, FiniteSets, FiniteSetsExt

CONSTANTS
  Configs,         \* the particle loads explored
  IdRange          \* the number of values of a short id, 2^32 in the program

\* ParticleLoad, GridRes, number of ranks, DoBaryons, the mask, long ids.
Config == [load : {"sc", "bcc", "fcc", "rsc", "masked", "glass"}, n : Nat \ {0},
           ranks : Nat \ {0}, baryons : BOOLEAN, mask : 0..3, wide : BOOLEAN]

ASSUME ConfigsAssumption == Configs \subseteq Config
ASSUME IdRangeIsPositive == IdRange \in Nat \ {0}

VARIABLES
  cfg,             \* load, grid size, ranks, species, mask, width of the ids
  at,              \* the operation that comes next
  sp,              \* 0 for dark matter, 1 for baryons
  parts,           \* the particles of every species and rank
  total            \* global_num_particles_ of every species

vars == <<cfg, at, sp, parts, total>>

Bravais == {"sc", "bcc", "fcc", "rsc"}
Species == IF cfg.baryons THEN {0, 1} ELSE {0}
lattice_index == sp
Rank == 0..(cfg.ranks - 1)
Dims == 1..3
Zero3 == <<0, 0, 0>>
Add(a, b) == [d \in Dims |-> a[d] + b[d]]
Less(a, b) == [d \in Dims |-> a[d] - b[d]]

-----------------------------------------------------------------------------
(* The slabs of the grid, and its cells in the order of the loops.         *)

Block == (cfg.n + cfg.ranks - 1) \div cfg.ranks
Start(r) == IF r * Block > cfg.n THEN cfg.n ELSE r * Block
Planes(r) == Start(r + 1) - Start(r)
local_size(r) == Planes(r) * cfg.n * cfg.n
global_size == cfg.n * cfg.n * cfg.n
get_cell_idx_3d(r, l) ==
  <<Start(r) + l \div (cfg.n * cfg.n), (l \div cfg.n) % cfg.n, l % cfg.n>>
get_cell_idx_1d(r, l) ==
  LET c == get_cell_idx_3d(r, l) IN (c[1] * cfg.n + c[2]) * cfg.n + c[3]
Wrapped(x) == [d \in Dims |-> x[d] % (4 * cfg.n)]
Site(cell) == [d \in Dims |-> 4 * cell[d]]

-----------------------------------------------------------------------------
(* The sublattices.                                                        *)

overload == CASE cfg.load = "bcc" -> 2 [] cfg.load = "fcc" -> 4
              [] cfg.load = "rsc" -> 8 [] OTHER -> 1
lattice_shifts ==
  [sc  |-> <<Zero3>>,
   bcc |-> <<Zero3, <<2, 2, 2>>>>,
   fcc |-> <<Zero3, <<0, 2, 2>>, <<2, 0, 2>>, <<2, 2, 0>>>>,
   rsc |-> <<Zero3, <<0, 0, 2>>, <<0, 2, 0>>, <<0, 2, 2>>,
             <<2, 0, 0>>, <<2, 0, 2>>, <<2, 2, 0>>, <<2, 2, 2>>>>]
second_lattice_shift ==
  [sc |-> <<2, 2, 2>>, bcc |-> <<2, 2, 0>>, fcc |-> <<2, 2, 2>>, rsc |-> <<1, 1, 1>>]

SpeciesShift == IF lattice_index > 0 THEN second_lattice_shift[cfg.load] ELSE Zero3

\* Mutant: every sublattice shifts the field by its own shift.
Shifted_Absolute(i) ==
  LET by[j \in 1..i] == IF j = 1 THEN SpeciesShift
                        ELSE Add(by[j - 1], lattice_shifts[cfg.load][j])
  IN by[i]

\* How far the field, filled anew for every quantity, has been shifted when
\* sublattice i is read: by the shift of the second species, then by the
\* differences from one sublattice to the next.
Shifted(i) ==
  LET by[j \in 1..i] ==
        IF j = 1 THEN SpeciesShift
        ELSE Add(by[j - 1], Less(lattice_shifts[cfg.load][j], lattice_shifts[cfg.load][j - 1]))
  IN by[i]

\* The position of the particle itself.
Unperturbed(cell, i) ==
  Add(Site(cell), Add(lattice_shifts[cfg.load][i],
                      IF lattice_index = 1 THEN second_lattice_shift[cfg.load] ELSE Zero3))

-----------------------------------------------------------------------------
(* The mask: which corner of a cube of eight cells holds which species.    *)

masksize == 2
Corner == (0..1) \X (0..1) \X (0..1)
particle_type_mask(c) ==
  LET sum == c[1] + c[2] + c[3] IN
    CASE ~cfg.baryons -> 0
      [] sum = 0 -> 0
      [] sum = 1 -> IF cfg.mask \in {1, 3} THEN 0 ELSE -1
      [] sum = 2 -> IF cfg.mask \in {2, 3} THEN 0 ELSE -1
      [] sum = 3 -> 1
Parity(cell) == [d \in Dims |-> cell[d] % masksize]
get_mask_value(cell) == particle_type_mask(Parity(cell))
KeptCorners(s) == {c \in Corner : particle_type_mask(c) = s}

\* The local indices of the cells a rank keeps, and the p-th of them.
Kept(r, s) == {l \in 0..(local_size(r) - 1) : get_mask_value(get_cell_idx_3d(r, l)) = s}
Nth(cells, p) == CHOOSE l \in cells : Cardinality({k \in cells : k < l}) = p

\* Mutant: the cube is found from the index within the slab.
CubeOrigin_Local(r, cell) ==
  Less(cell, [Parity(cell) EXCEPT ![1] = (cell[1] - Start(r)) % masksize])

\* The first cell of the cube that holds a cell, seen from a rank: the ghost
\* zones give the planes before and behind its slab.
CubeOrigin(r, cell) == Less(cell, Parity(cell))

\* The mass of a masked particle, 8 times over: the field in its cell, less
\* the mean over the corners of its species, plus the mean over all; as the
\* weight of every cell of the grid.
MaskedMass(r, s, cell) ==
  LET o == CubeOrigin(r, cell)
      kept == Cardinality(KeptCorners(s))
      At(c) == [d \in Dims |-> (o[d] + c[d]) % cfg.n]
      Weight(x) ==
        (IF x = cell THEN 8 * kept ELSE 0)
        - 8 * Cardinality({c \in KeptCorners(s) : At(c) = x})
        + kept * Cardinality({c \in Corner : At(c) = x})
      near == {At(c) : c \in Corner} \cup {cell}
  IN [x \in near |-> Weight(x)]

-----------------------------------------------------------------------------
(* The generator.                                                          *)

NoSample == <<>>
NewParticle == [id |-> 0, mass |-> NoSample, pos |-> [d \in Dims |-> NoSample],
                vel |-> [d \in Dims |-> NoSample]]

\* The particles the container of a rank is allocated for.
num_p(r, s) ==
  CASE cfg.load \in Bravais -> overload * local_size(r)
    [] cfg.load = "masked" -> Cardinality(Kept(r, s))
    [] OTHER -> 0

\* Mutant: the loops do not look at the mask.
Reach_Unmasked(r, s) ==
  [p \in 0..(overload * local_size(r) - 1) |->
     [i |-> p \div local_size(r) + 1, l |-> p % local_size(r)]]

\* An index of the container, as the loops over the sublattices and the cells
\* reach it: [i |-> sublattice, l |-> local cell].
Reach(r, s) ==
  IF cfg.load = "masked"
    THEN LET cells == Kept(r, s) IN
         [p \in 0..(Cardinality(cells) - 1) |-> [i |-> 1, l |-> Nth(cells, p)]]
    ELSE [p \in 0..(overload * local_size(r) - 1) |->
            [i |-> p \div local_size(r) + 1, l |-> p % local_size(r)]]

\* Mutant: the offset counts cells, whatever the load.
IDoffset_Cells(s) == s * global_size

\* The ids of the baryons start behind those of the dark matter.
IDoffset(s) == IF cfg.load = "masked" THEN s * global_size ELSE s * overload * global_size

Stored(id) == IF cfg.wide THEN id ELSE id % IdRange
Id(r, s, e) ==
  Stored(IDoffset(s) + (IF cfg.load = "masked" THEN get_cell_idx_1d(r, e.l)
                        ELSE overload * get_cell_idx_1d(r, e.l) + (e.i - 1)))

\* Writes through Set at every index the loops reach, in the order of the
\* ranks; an index outside the container is kept to be seen.
WriteAll(Set(_, _, _)) ==
  parts' = [parts EXCEPT ![sp] = [r \in Rank |->
    LET reach == Reach(r, sp) old == parts[sp][r] IN
      [p \in DOMAIN reach \cup DOMAIN old |->
         IF p \in DOMAIN reach
           THEN Set(IF p \in DOMAIN old THEN old[p] ELSE NewParticle, r, reach[p])
           ELSE old[p]]]]

Init ==
  /\ cfg \in Configs /\ at = "make" /\ sp = 0
  /\ parts = [s \in 0..1 |-> [r \in Rank |-> [p \in {} |-> NewParticle]]]
  /\ total = [s \in 0..1 |-> 0]

Count(s) ==
  IF cfg.load \in Bravais THEN global_size * overload
  ELSE MapThenSumSet(LAMBDA r : num_p(r, s), Rank)

\* The constructor: counts, allocation, ids.  Masked loads need an even grid;
\* a glass is decomposed over the ranks with starts that were never set.
MakeParticles ==
  /\ at = "make"
  /\ CASE cfg.load = "glass" -> at' = "undefined" /\ UNCHANGED <<parts, total>>
       [] cfg.load = "masked" /\ global_size % 8 # 0 ->
            at' = "aborted" /\ UNCHANGED <<parts, total>>
       [] OTHER ->
            /\ at' = IF cfg.baryons THEN "masses" ELSE "pos"
            /\ total' = [total EXCEPT ![sp] = Count(sp)]
            /\ parts' = [parts EXCEPT ![sp] = [r \in Rank |->
                 [p \in 0..(num_p(r, sp) - 1) |->
                    [NewParticle EXCEPT !.id = Id(r, sp, Reach(r, sp)[p])]]]]
  /\ UNCHANGED <<cfg, sp>>

\* The place where the field at hand is read for a cell and a sublattice.
Sample(r, e) ==
  LET cell == Site(get_cell_idx_3d(r, e.l))
  IN Wrapped(IF cfg.load = "masked" THEN cell ELSE Add(cell, Shifted(e.i)))

Then(next) == at' = next /\ UNCHANGED <<cfg, sp, total>>

set_masses ==
  /\ at = "masses" /\ Then("pos")
  /\ WriteAll(LAMBDA q, r, e :
       [q EXCEPT !.mass =
          IF cfg.load = "masked" THEN <<MaskedMass(r, sp, get_cell_idx_3d(r, e.l))>>
                                 ELSE <<Sample(r, e)>>])

set_positions ==
  /\ at = "pos" /\ Then("vel")
  /\ WriteAll(LAMBDA q, r, e :
       LET cell == get_cell_idx_3d(r, e.l)
           base == IF cfg.load = "masked" THEN Site(cell) ELSE Unperturbed(cell, e.i)
       IN [q EXCEPT !.pos = [d \in Dims |-> <<Wrapped(base), Sample(r, e)>>]])

set_velocities ==
  /\ at = "vel" /\ Then("write")
  /\ WriteAll(LAMBDA q, r, e : [q EXCEPT !.vel = [d \in Dims |-> <<Sample(r, e)>>]])

\* The species goes to the output plugin; the next one gets a new generator.
NextSpecies ==
  /\ at = "write"
  /\ IF sp + 1 \in Species THEN at' = "make" /\ sp' = sp + 1
                           ELSE at' = "done" /\ UNCHANGED sp
  /\ UNCHANGED <<cfg, parts, total>>

Next == MakeParticles \/ set_masses \/ set_positions \/ set_velocities \/ NextSpecies
Spec == Init /\ [][Next]_vars

-----------------------------------------------------------------------------
(* Properties.                                                             *)

All == UNION {{<<s, r, p>> : p \in DOMAIN parts[s][r]} : s \in Species, r \in Rank}
Particle(x) == parts[x[1]][x[2]][x[3]]
Written == at \in {"write", "done"}
Here == {x \in All : x[1] = sp}

\* The containers have exactly the room that the loops of ids, masses,
\* positions and velocities reach, everything of every particle is set, and
\* the number that normalises the masses is that of the particles of all ranks.
ContainersFit ==
  /\ \A s \in 0..sp, r \in Rank :
       DOMAIN parts[s][r] \in {{}, 0..(num_p(r, s) - 1)}
  /\ Written => \A x \in Here : \A d \in Dims :
       /\ Particle(x).pos[d] # NoSample /\ Particle(x).vel[d] # NoSample
       /\ cfg.baryons => Particle(x).mass # NoSample
  /\ at \notin {"make", "aborted", "undefined"} => total[sp] = Cardinality(Here)

\* A particle is moved by the displacement, given the velocity and the mass
\* of the very place it starts from: the shifts applied to the fields are
\* those of the sublattices and of the second species.  No two particles, of
\* either species, start from the same place.
SitesAgree ==
  /\ Written => \A x \in Here :
       LET q == Particle(x) IN
         /\ \A d \in Dims : q.pos[d][1] = q.pos[d][2] /\ q.vel[d][1] = q.pos[d][1]
         /\ cfg.baryons /\ cfg.load \in Bravais => q.mass[1] = q.pos[1][1]
  /\ at = "done" =>
       Cardinality({Particle(x).pos[1][1] : x \in All}) = Cardinality(All)

\* No two particles share an id, as long as the largest id fits.
IdsAreUnique ==
  at = "done" /\ (cfg.wide \/ Cardinality(Species) * overload * global_size <= IdRange) =>
    Cardinality({Particle(x).id : x \in All}) = Cardinality(All)

\* Leaving particles out of a cube does not change its mass: what the masked
\* particles of a species have in a cube of eight cells is the sum over all
\* eight, in proportion to their number, also across the slabs of two ranks.
MaskedMassIsKept ==
  Written /\ cfg.load = "masked" /\ cfg.baryons =>
    \A c \in {x \in (0..(cfg.n - 1)) \X (0..(cfg.n - 1)) \X (0..(cfg.n - 1)) :
                Parity(x) = Zero3} :
      LET kept == Cardinality(KeptCorners(sp))
          cube == {Add(c, k) : k \in Corner}
          mine == {x \in Here : \E k \in cube : Particle(x).pos[1][1] = Site(k)}
          cells == cube \cup UNION {DOMAIN Particle(x).mass[1] : x \in mine}
          Weight(x, k) ==
            IF k \in DOMAIN Particle(x).mass[1] THEN Particle(x).mass[1][k] ELSE 0
          Sum(k) == MapThenSumSet(LAMBDA x : Weight(x, k), mine)
      IN \A k \in cells : Sum(k) = (IF k \in cube THEN kept * kept ELSE 0)
=============================================================================
